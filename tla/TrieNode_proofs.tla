--------------------------- MODULE TrieNode_proofs ---------------------------
(***************************************************************************)
(* Proofs about TrieNode, for any number of nodes, bytes, words of the     *)
(* bitmap, size classes of the vector and inline bytes.                    *)
(***************************************************************************)
EXTENDS TrieNode, ModularArithmetic, FiniteSetTheorems, SequenceTheorems, TLAPS

------------------------------------------------------------------------------
(* The child table: the number of bits below a position grows with the     *)
(* position, and setting a bit moves what is above it by one.  Hence       *)
(* bitmap and vector stay in step.                                         *)

Positions == [idx : 0 .. 3, bit : 0 .. WordBits - 1]
Before(p, q) == p.idx < q.idx \/ (p.idx = q.idx /\ p.bit < q.bit)

IsBitmap(B) == B \in [0 .. 3 -> SUBSET (0 .. WordBits - 1)]

------------------------------------------------------------------------------
LEMMA BytesAreNumbers == \A b \in Bytes : b \in Int
BY BytesAssumption

(* The order of bytes is the order of their positions.                     *)
LEMMA PositionOf ==
  ASSUME NEW b \in Bytes
  PROVE  child_pos_from_byte(b) \in Positions
<1>1. b \in Int /\ 0 <= b /\ b < 4 * WordBits /\ WordBits \in Nat \ {0}
  BY BytesAssumption
<1> DEFINE q == b \div WordBits
           r == b % WordBits
<1>2. q \in Int /\ r \in 0 .. WordBits - 1 /\ b = WordBits * q + r
  BY <1>1, DivMod, ModRange
<1> HIDE DEF q, r
<1>3. 0 <= q
  <2>1. CASE q < 0
    <3>1. WordBits * 0 >= WordBits * q + WordBits
      BY <1>1, <1>2, <2>1, MultiplesApart
    <3>2. QED
      BY <1>1, <1>2, <3>1
  <2>2. QED
    BY <1>2, <2>1
<1>4. q <= 3
  <2>1. CASE 3 < q
    <3>1. WordBits * q >= WordBits * 3 + WordBits
      BY <1>1, <1>2, <2>1, MultiplesApart
    <3>2. QED
      BY <1>1, <1>2, <3>1
  <2>2. QED
    BY <1>2, <2>1
<1>5. QED
  BY <1>2, <1>3, <1>4 DEF child_pos_from_byte, Positions, q, r

LEMMA PositionOrder ==
  ASSUME NEW b \in Bytes, NEW c \in Bytes, b < c
  PROVE  Before(child_pos_from_byte(b), child_pos_from_byte(c))
<1>1. b \in Int /\ c \in Int /\ WordBits \in Nat \ {0}
  BY BytesAssumption
<1> DEFINE q == b \div WordBits
           r == b % WordBits
           u == c \div WordBits
           s == c % WordBits
<1>2. /\ q \in Int /\ r \in 0 .. WordBits - 1 /\ b = WordBits * q + r
      /\ u \in Int /\ s \in 0 .. WordBits - 1 /\ c = WordBits * u + s
  BY <1>1, DivMod, ModRange
<1> HIDE DEF q, r, u, s
<1>3. CASE u < q
  <2>1. WordBits * q >= WordBits * u + WordBits
    BY <1>1, <1>2, <1>3, MultiplesApart
  <2>2. QED
    BY <1>1, <1>2, <2>1
<1>4. CASE u = q
  <2>1. r < s
    BY <1>1, <1>2, <1>4
  <2>2. QED
    BY <1>4, <2>1 DEF Before, child_pos_from_byte, q, r, u, s
<1>5. CASE q < u
  BY <1>5 DEF Before, child_pos_from_byte, q, u
<1>6. QED
  BY <1>2, <1>3, <1>4, <1>5

------------------------------------------------------------------------------
(* The bits of one word.                                                   *)
LEMMA WordCount ==
  ASSUME NEW B \in SUBSET (0 .. WordBits - 1), NEW k \in 0 .. WordBits - 1
  PROVE  /\ IsFiniteSet(B) /\ count_ones(B) \in Nat
         /\ IsFiniteSet(B \cap Mask(k)) /\ count_ones(B \cap Mask(k)) \in Nat
         /\ count_ones(B \cap Mask(k)) <= count_ones(B)
<1>1. WordBits \in Nat \ {0}
  BY BytesAssumption
<1>2. IsFiniteSet(0 .. WordBits - 1)
  BY <1>1, FS_Interval
<1>3. IsFiniteSet(B)
  BY <1>2, FS_Subset
<1>4. B \cap Mask(k) \in SUBSET B
  OBVIOUS
<1>5. /\ IsFiniteSet(B \cap Mask(k))
      /\ Cardinality(B \cap Mask(k)) <= Cardinality(B)
  BY <1>3, <1>4, FS_Subset
<1>6. Cardinality(B) \in Nat /\ Cardinality(B \cap Mask(k)) \in Nat
  BY <1>3, <1>5, FS_CardinalityType
<1>7. QED
  BY <1>3, <1>5, <1>6 DEF count_ones

(* Fewer bits are below one that is set than there are in all, or below a  *)
(* higher one.                                                             *)
LEMMA WordStrict ==
  ASSUME NEW B \in SUBSET (0 .. WordBits - 1), NEW k \in B
  PROVE  count_ones(B \cap Mask(k)) < count_ones(B)
<1>1. k \in 0 .. WordBits - 1
  OBVIOUS
<1>2. IsFiniteSet(B) /\ count_ones(B) \in Nat /\ count_ones(B \cap Mask(k)) \in Nat
  BY <1>1, WordCount
<1>3. k \notin Mask(k) /\ B \cap Mask(k) \in SUBSET B
  BY <1>1 DEF Mask
<1>4. /\ Cardinality(B \cap Mask(k)) <= Cardinality(B)
      /\ Cardinality(B) = Cardinality(B \cap Mask(k)) => B = B \cap Mask(k)
  BY <1>2, <1>3, FS_Subset
<1>5. QED
  BY <1>2, <1>3, <1>4 DEF count_ones

LEMMA WordMonotone ==
  ASSUME NEW B \in SUBSET (0 .. WordBits - 1),
         NEW k \in 0 .. WordBits - 1, NEW m \in 0 .. WordBits - 1, k < m
  PROVE  /\ count_ones(B \cap Mask(k)) <= count_ones(B \cap Mask(m))
         /\ k \in B => count_ones(B \cap Mask(k)) < count_ones(B \cap Mask(m))
<1> DEFINE C == B \cap Mask(m)
<1>1. C \in SUBSET (0 .. WordBits - 1)
  OBVIOUS
<1>2. WordBits \in Nat \ {0}
  BY BytesAssumption
<1>3. C \cap Mask(k) = B \cap Mask(k)
  BY <1>2 DEF Mask
<1>4. k \in B => k \in C
  BY <1>2 DEF Mask
<1> HIDE DEF C
<1>5. count_ones(C \cap Mask(k)) <= count_ones(C)
  BY <1>1, WordCount
<1>6. k \in C => count_ones(C \cap Mask(k)) < count_ones(C)
  BY <1>1, WordStrict
<1>7. QED
  BY <1>3, <1>4, <1>5, <1>6 DEF C

(* Setting a bit adds one to the word, and to what is below higher bits.   *)
LEMMA WordAdd ==
  ASSUME NEW B \in SUBSET (0 .. WordBits - 1), NEW j \in 0 .. WordBits - 1, j \notin B
  PROVE  /\ count_ones(B \cup {j}) = count_ones(B) + 1
         /\ \A k \in 0 .. WordBits - 1 :
              count_ones((B \cup {j}) \cap Mask(k)) =
                count_ones(B \cap Mask(k)) + (IF j < k THEN 1 ELSE 0)
<1>1. WordBits \in Nat \ {0}
  BY BytesAssumption
<1>2. IsFiniteSet(B)
  BY WordCount
<1>3. count_ones(B \cup {j}) = count_ones(B) + 1
  BY <1>2, FS_AddElement DEF count_ones
<1>4. ASSUME NEW k \in 0 .. WordBits - 1
      PROVE  count_ones((B \cup {j}) \cap Mask(k)) =
               count_ones(B \cap Mask(k)) + (IF j < k THEN 1 ELSE 0)
  <2>1. IsFiniteSet(B \cap Mask(k)) /\ count_ones(B \cap Mask(k)) \in Nat
    BY WordCount
  <2>2. CASE j < k
    <3>1. (B \cup {j}) \cap Mask(k) = (B \cap Mask(k)) \cup {j}
      BY <1>1, <2>2 DEF Mask
    <3>2. j \notin B \cap Mask(k)
      OBVIOUS
    <3>3. Cardinality((B \cap Mask(k)) \cup {j}) = Cardinality(B \cap Mask(k)) + 1
      BY <2>1, <3>2, FS_AddElement
    <3>4. QED
      BY <2>2, <3>1, <3>3 DEF count_ones
  <2>3. CASE ~(j < k)
    <3>1. (B \cup {j}) \cap Mask(k) = B \cap Mask(k)
      BY <1>1, <2>3 DEF Mask
    <3>2. QED
      BY <2>1, <2>3, <3>1
  <2>4. QED
    BY <2>2, <2>3
<1>5. QED
  BY <1>3, <1>4

------------------------------------------------------------------------------
(* The rank of a position: the bits of the four words below it.            *)
LEMMA Counts ==
  ASSUME NEW t, IsBitmap(t.bitmap)
  PROVE  /\ len_children(t) \in Nat
         /\ \A w \in 0 .. 3 : /\ t.bitmap[w] \in SUBSET (0 .. WordBits - 1)
                              /\ count_ones(t.bitmap[w]) \in Nat
                              /\ WordsBefore(t, w) \in Nat
                              /\ WordsBefore(t, w) + count_ones(t.bitmap[w]) <= len_children(t)
         /\ \A v, w \in 0 .. 3 :
              v < w => WordsBefore(t, v) + count_ones(t.bitmap[v]) <= WordsBefore(t, w)
<1>1. 0 \in 0 .. WordBits - 1
  BY BytesAssumption
<1>2. ASSUME NEW w \in 0 .. 3
      PROVE  /\ t.bitmap[w] \in SUBSET (0 .. WordBits - 1)
             /\ count_ones(t.bitmap[w]) \in Nat
  <2>1. t.bitmap[w] \in SUBSET (0 .. WordBits - 1)
    BY DEF IsBitmap
  <2>2. QED
    BY <1>1, <2>1, WordCount
<1>3. /\ count_ones(t.bitmap[0]) \in Nat /\ count_ones(t.bitmap[1]) \in Nat
      /\ count_ones(t.bitmap[2]) \in Nat /\ count_ones(t.bitmap[3]) \in Nat
  BY <1>2
<1>4. len_children(t) \in Nat
  BY <1>3 DEF len_children
<1>5. ASSUME NEW w \in 0 .. 3
      PROVE  /\ WordsBefore(t, w) \in Nat
             /\ WordsBefore(t, w) + count_ones(t.bitmap[w]) <= len_children(t)
  <2>1. w = 0 \/ w = 1 \/ w = 2 \/ w = 3
    OBVIOUS
  <2>2. QED
    BY <1>3, <2>1 DEF WordsBefore, len_children
<1>6. ASSUME NEW v \in 0 .. 3, NEW w \in 0 .. 3, v < w
      PROVE  WordsBefore(t, v) + count_ones(t.bitmap[v]) <= WordsBefore(t, w)
  <2>1. (v = 0 \/ v = 1 \/ v = 2) /\ (w = 1 \/ w = 2 \/ w = 3)
    BY <1>6
  <2>2. QED
    BY <1>3, <1>6, <2>1 DEF WordsBefore
<1>7. QED
  BY <1>2, <1>4, <1>5, <1>6

(* The rank is at most the number of children, less if the bit is set, and *)
(* grows with the position.                                                *)
LEMMA RankBound ==
  ASSUME NEW t, IsBitmap(t.bitmap), NEW p \in Positions
  PROVE  /\ child_idx_from_pos(t, p) \in Nat
         /\ child_idx_from_pos(t, p) <= len_children(t)
         /\ child_exists(t, p) => child_idx_from_pos(t, p) < len_children(t)
<1>1. p.idx \in 0 .. 3 /\ p.bit \in 0 .. WordBits - 1
  BY DEF Positions
<1> DEFINE B == t.bitmap[p.idx]
<1>2. /\ B \in SUBSET (0 .. WordBits - 1) /\ count_ones(B) \in Nat
      /\ WordsBefore(t, p.idx) \in Nat /\ len_children(t) \in Nat
      /\ WordsBefore(t, p.idx) + count_ones(B) <= len_children(t)
  BY <1>1, Counts
<1>3. /\ count_ones(B \cap Mask(p.bit)) \in Nat
      /\ count_ones(B \cap Mask(p.bit)) <= count_ones(B)
  BY <1>1, <1>2, WordCount
<1>4. p.bit \in B => count_ones(B \cap Mask(p.bit)) < count_ones(B)
  BY <1>2, WordStrict
<1>5. child_exists(t, p) <=> p.bit \in B
  BY DEF child_exists
<1>6. child_idx_from_pos(t, p) = WordsBefore(t, p.idx) + count_ones(B \cap Mask(p.bit))
  BY DEF child_idx_from_pos
<1> HIDE DEF B
<1>7. QED
  BY <1>2, <1>3, <1>4, <1>5, <1>6

LEMMA RankMonotone ==
  ASSUME NEW t, IsBitmap(t.bitmap), NEW p \in Positions, NEW q \in Positions, Before(p, q)
  PROVE  /\ child_idx_from_pos(t, p) <= child_idx_from_pos(t, q)
         /\ child_exists(t, p) => child_idx_from_pos(t, p) < child_idx_from_pos(t, q)
<1>1. /\ p.idx \in 0 .. 3 /\ p.bit \in 0 .. WordBits - 1
      /\ q.idx \in 0 .. 3 /\ q.bit \in 0 .. WordBits - 1
  BY DEF Positions
<1> DEFINE B == t.bitmap[p.idx]
           C == t.bitmap[q.idx]
<1>2. /\ B \in SUBSET (0 .. WordBits - 1) /\ C \in SUBSET (0 .. WordBits - 1)
      /\ count_ones(B) \in Nat /\ WordsBefore(t, p.idx) \in Nat
      /\ WordsBefore(t, q.idx) \in Nat
      /\ p.idx < q.idx => WordsBefore(t, p.idx) + count_ones(B) <= WordsBefore(t, q.idx)
  BY <1>1, Counts
<1>3. /\ count_ones(B \cap Mask(p.bit)) \in Nat
      /\ count_ones(C \cap Mask(q.bit)) \in Nat
      /\ count_ones(B \cap Mask(p.bit)) <= count_ones(B)
  BY <1>1, <1>2, WordCount
<1>4. p.bit \in B => count_ones(B \cap Mask(p.bit)) < count_ones(B)
  BY <1>2, WordStrict
<1>5. /\ child_exists(t, p) <=> p.bit \in B
      /\ child_idx_from_pos(t, p) = WordsBefore(t, p.idx) + count_ones(B \cap Mask(p.bit))
      /\ child_idx_from_pos(t, q) = WordsBefore(t, q.idx) + count_ones(C \cap Mask(q.bit))
  BY DEF child_exists, child_idx_from_pos
<1>6. CASE p.idx < q.idx
  <2> HIDE DEF B, C
  <2>1. QED
    BY <1>2, <1>3, <1>4, <1>5, <1>6
<1>7. CASE p.idx = q.idx /\ p.bit < q.bit
  <2>1. C = B
    BY <1>7
  <2>2. /\ count_ones(B \cap Mask(p.bit)) <= count_ones(B \cap Mask(q.bit))
        /\ p.bit \in B => count_ones(B \cap Mask(p.bit)) < count_ones(B \cap Mask(q.bit))
    BY <1>1, <1>2, <1>7, WordMonotone
  <2> HIDE DEF B, C
  <2>3. QED
    BY <1>2, <1>3, <1>5, <1>7, <2>1, <2>2
<1>8. QED
  BY <1>6, <1>7 DEF Before

(* Two positions that are set and have the same rank are the same.         *)
LEMMA RankInjective ==
  ASSUME NEW t, IsBitmap(t.bitmap), NEW b \in Bytes, NEW c \in Bytes,
         child_exists(t, child_pos_from_byte(b)), child_exists(t, child_pos_from_byte(c)),
         child_idx_from_pos(t, child_pos_from_byte(b)) =
           child_idx_from_pos(t, child_pos_from_byte(c))
  PROVE  b = c
<1>1. b \in Int /\ c \in Int
  BY BytesAssumption
<1>2. child_pos_from_byte(b) \in Positions /\ child_pos_from_byte(c) \in Positions
  BY PositionOf
<1>3. child_idx_from_pos(t, child_pos_from_byte(b)) \in Nat
  BY <1>2, RankBound
<1>4. ~(b < c)
  BY <1>2, <1>3, PositionOrder, RankMonotone
<1>5. ~(c < b)
  BY <1>2, <1>3, PositionOrder, RankMonotone
<1>6. QED
  BY <1>1, <1>4, <1>5

(* Setting a bit adds one child and moves the ranks above it by one.       *)
LEMMA RankAdd ==
  ASSUME NEW t, IsBitmap(t.bitmap), NEW p \in Positions, ~child_exists(t, p),
         NEW u, u.bitmap = [t.bitmap EXCEPT ![p.idx] = @ \cup {p.bit}]
  PROVE  /\ IsBitmap(u.bitmap)
         /\ len_children(u) = len_children(t) + 1
         /\ \A q \in Positions :
              /\ child_exists(u, q) <=> child_exists(t, q) \/ q = p
              /\ child_idx_from_pos(u, q) =
                   child_idx_from_pos(t, q) + (IF Before(p, q) THEN 1 ELSE 0)
<1>1. p.idx \in 0 .. 3 /\ p.bit \in 0 .. WordBits - 1 /\ p.bit \notin t.bitmap[p.idx]
  BY DEF Positions, child_exists
<1>2. IsBitmap(u.bitmap)
  BY <1>1 DEF IsBitmap
<1>3. \A w \in 0 .. 3 :
        u.bitmap[w] = IF w = p.idx THEN t.bitmap[w] \cup {p.bit} ELSE t.bitmap[w]
  BY DEF IsBitmap
<1>4. \A w \in 0 .. 3 : /\ t.bitmap[w] \in SUBSET (0 .. WordBits - 1)
                        /\ count_ones(t.bitmap[w]) \in Nat
  BY Counts
<1>5. \A w \in 0 .. 3 :
        count_ones(u.bitmap[w]) =
          count_ones(t.bitmap[w]) + (IF w = p.idx THEN 1 ELSE 0)
  <2> TAKE w \in 0 .. 3
  <2>1. CASE w = p.idx
    <3>1. count_ones(t.bitmap[w] \cup {p.bit}) = count_ones(t.bitmap[w]) + 1
      BY <1>1, <1>4, <2>1, WordAdd
    <3>2. QED
      BY <1>3, <2>1, <3>1
  <2>2. CASE w # p.idx
    BY <1>3, <1>4, <2>2
  <2>3. QED
    BY <2>1, <2>2
<1>6. /\ count_ones(t.bitmap[0]) \in Nat /\ count_ones(t.bitmap[1]) \in Nat
      /\ count_ones(t.bitmap[2]) \in Nat /\ count_ones(t.bitmap[3]) \in Nat
      /\ count_ones(u.bitmap[0]) = count_ones(t.bitmap[0]) + (IF 0 = p.idx THEN 1 ELSE 0)
      /\ count_ones(u.bitmap[1]) = count_ones(t.bitmap[1]) + (IF 1 = p.idx THEN 1 ELSE 0)
      /\ count_ones(u.bitmap[2]) = count_ones(t.bitmap[2]) + (IF 2 = p.idx THEN 1 ELSE 0)
      /\ count_ones(u.bitmap[3]) = count_ones(t.bitmap[3]) + (IF 3 = p.idx THEN 1 ELSE 0)
  BY <1>4, <1>5
<1>7. len_children(u) = len_children(t) + 1
  BY <1>1, <1>6 DEF len_children
<1>8. ASSUME NEW q \in Positions
      PROVE  /\ child_exists(u, q) <=> child_exists(t, q) \/ q = p
             /\ child_idx_from_pos(u, q) =
                  child_idx_from_pos(t, q) + (IF Before(p, q) THEN 1 ELSE 0)
  <2>1. q.idx \in 0 .. 3 /\ q.bit \in 0 .. WordBits - 1
    BY DEF Positions
  <2>2. q = p <=> q.idx = p.idx /\ q.bit = p.bit
    BY DEF Positions
  <2>3. child_exists(u, q) <=> child_exists(t, q) \/ q = p
    BY <1>3, <2>1, <2>2 DEF child_exists
  <2>4. WordsBefore(u, q.idx) = WordsBefore(t, q.idx) + (IF p.idx < q.idx THEN 1 ELSE 0)
    <3>1. q.idx = 0 \/ q.idx = 1 \/ q.idx = 2 \/ q.idx = 3
      BY <2>1
    <3>2. QED
      BY <1>1, <1>6, <3>1 DEF WordsBefore
  <2>5. count_ones(u.bitmap[q.idx] \cap Mask(q.bit)) =
          count_ones(t.bitmap[q.idx] \cap Mask(q.bit))
            + (IF q.idx = p.idx /\ p.bit < q.bit THEN 1 ELSE 0)
    <3>1. count_ones(t.bitmap[q.idx] \cap Mask(q.bit)) \in Nat
      BY <1>4, <2>1, WordCount
    <3>2. CASE q.idx = p.idx
      <4>1. count_ones((t.bitmap[q.idx] \cup {p.bit}) \cap Mask(q.bit)) =
              count_ones(t.bitmap[q.idx] \cap Mask(q.bit))
                + (IF p.bit < q.bit THEN 1 ELSE 0)
        <5>1. /\ t.bitmap[q.idx] \in SUBSET (0 .. WordBits - 1)
              /\ p.bit \notin t.bitmap[q.idx]
          BY <1>1, <1>4, <2>1, <3>2
        <5>2. \A k \in 0 .. WordBits - 1 :
                count_ones((t.bitmap[q.idx] \cup {p.bit}) \cap Mask(k)) =
                  count_ones(t.bitmap[q.idx] \cap Mask(k))
                    + (IF p.bit < k THEN 1 ELSE 0)
          BY <1>1, <5>1, WordAdd, Zenon
        <5>3. QED
          BY <2>1, <5>2, Zenon
      <4>2. QED
        BY <1>3, <2>1, <3>2, <4>1
    <3>3. CASE q.idx # p.idx
      BY <1>3, <2>1, <3>1, <3>3
    <3>4. QED
      BY <3>2, <3>3
  <2>6. WordsBefore(t, q.idx) \in Nat /\ count_ones(t.bitmap[q.idx] \cap Mask(q.bit)) \in Nat
    BY <1>4, <2>1, Counts, WordCount
  <2>7. QED
    BY <1>1, <2>1, <2>3, <2>4, <2>5, <2>6 DEF child_idx_from_pos, Before
<1>9. QED
  BY <1>2, <1>7, <1>8

------------------------------------------------------------------------------
(* Tables whose vector fits the bitmap, and which hold, in each slot, an   *)
(* element of E filed under the byte f has for it.                         *)

Whole(t) ==
  /\ IsBitmap(t.bitmap)
  /\ t.vec = [null |-> t.vec.null, tag |-> t.vec.tag, buf |-> t.vec.buf]
  /\ t.vec.null \in BOOLEAN /\ t.vec.tag \in 0 .. TAG_MAX
  /\ DOMAIN t.vec.buf = 0 .. capacity(t.vec) - 1
  /\ len_children(t) <= capacity(t.vec)

InStep(t, f, E) ==
  \A j \in Visited(t) :
    LET b == f[t.vec.buf[j]]
    IN /\ t.vec.buf[j] \in E
       /\ b \in Bytes
       /\ child_exists(t, child_pos_from_byte(b))
       /\ child_idx_from_pos(t, child_pos_from_byte(b)) = j

Elements(t) == {t.vec.buf[j] : j \in Visited(t)}

LEMMA Capacities ==
  ASSUME NEW tag \in 0 .. TAG_MAX
  PROVE  /\ CapacityOf(tag) \in Nat /\ CapacityOf(tag) >= 2
         /\ tag < TAG_MAX => CapacityOf(tag) < CapacityOf(tag + 1)
<1>1. /\ CapacityOf(0) = 2 /\ CapacityOf(1) = 4 /\ CapacityOf(2) = 8
      /\ CapacityOf(3) = 16 /\ CapacityOf(4) = 32 /\ CapacityOf(5) = 64
      /\ CapacityOf(6) = 128 /\ CapacityOf(7) = 256
  BY SMT DEF CapacityOf
<1>2. tag \in {0, 1, 2, 3, 4, 5, 6, 7} /\ (tag < TAG_MAX => tag # 7)
  BY BytesAssumption
<1>3. QED
  BY <1>1, <1>2

(* A table without children.                                               *)
LEMMA EmptyTable ==
  /\ Whole(NoChildren) /\ len_children(NoChildren) = 0
  /\ Visited(NoChildren) = {} /\ Elements(NoChildren) = {}
  /\ \A p \in Positions : ~child_exists(NoChildren, p)
<1>1. \A w \in 0 .. 3 : NoChildren.bitmap[w] = {}
  BY DEF NoChildren
<1>2. IsBitmap(NoChildren.bitmap)
  BY DEF NoChildren, IsBitmap
<1>3. len_children(NoChildren) = 0
  BY <1>1, FS_EmptySet DEF len_children, count_ones
<1>4. Visited(NoChildren) = {} /\ Elements(NoChildren) = {}
  BY <1>3 DEF Visited, Elements
<1>5. Whole(NoChildren)
  <2>1. NoChildren.vec = [null |-> TRUE, tag |-> 0, buf |-> <<>>]
    BY DEF NoChildren, NewVec
  <2>2. capacity(NoChildren.vec) = 0
    BY <2>1 DEF capacity
  <2>3. DOMAIN NoChildren.vec.buf = 0 .. 0 - 1
    BY <2>1
  <2>4. 0 \in 0 .. TAG_MAX
    BY BytesAssumption
  <2>5. QED
    BY <1>2, <1>3, <2>1, <2>2, <2>3, <2>4 DEF Whole
<1>6. \A p \in Positions : ~child_exists(NoChildren, p)
  BY <1>1 DEF Positions, child_exists
<1>7. QED
  BY <1>3, <1>4, <1>5, <1>6

(* The child found for a byte that has one is filed under it.              *)
LEMMA Lookup ==
  ASSUME NEW t, NEW f, NEW E, Whole(t), InStep(t, f, E), NEW b \in Present(t)
  PROVE  /\ child_idx_from_pos(t, child_pos_from_byte(b)) \in Visited(t)
         /\ Child(t, b) \in Elements(t)
         /\ Child(t, b) \in E
         /\ f[Child(t, b)] = b
<1> DEFINE p == child_pos_from_byte(b)
           j == child_idx_from_pos(t, p)
           c == t.vec.buf[j]
<1>1. b \in Bytes /\ child_exists(t, p) /\ p \in Positions /\ IsBitmap(t.bitmap)
  BY PositionOf DEF Present, Whole
<1>2. j \in Visited(t)
  <2>1. j \in Nat /\ j < len_children(t) /\ len_children(t) \in Nat
    BY <1>1, RankBound, Counts
  <2>2. QED
    BY <2>1 DEF Visited
<1>3. /\ c \in E /\ f[c] \in Bytes /\ child_exists(t, child_pos_from_byte(f[c]))
      /\ child_idx_from_pos(t, child_pos_from_byte(f[c])) = j
  BY <1>2 DEF InStep
<1>4. f[c] = b
  BY <1>1, <1>3, RankInjective
<1>5. Child(t, b) = c
  BY DEF Child, get_child_by_pos, get_child_by_idx
<1>6. c \in Elements(t)
  BY <1>2 DEF Elements
<1>7. QED
  BY <1>2, <1>3, <1>4, <1>5, <1>6

(* The slots are in the order of the bytes.                                *)
LEMMA Ordered ==
  ASSUME NEW t, NEW f, NEW E, Whole(t), InStep(t, f, E),
         NEW j \in Visited(t), NEW k \in Visited(t), j < k
  PROVE  f[t.vec.buf[j]] < f[t.vec.buf[k]]
<1> DEFINE b == f[t.vec.buf[j]]
           c == f[t.vec.buf[k]]
<1>1. /\ b \in Bytes /\ child_exists(t, child_pos_from_byte(b))
      /\ child_idx_from_pos(t, child_pos_from_byte(b)) = j
      /\ c \in Bytes /\ child_exists(t, child_pos_from_byte(c))
      /\ child_idx_from_pos(t, child_pos_from_byte(c)) = k
  BY DEF InStep
<1>2. b \in Int /\ c \in Int
  BY <1>1, BytesAreNumbers
<1>3. IsBitmap(t.bitmap) /\ j \in Int /\ k \in Int
  BY Counts DEF Whole, Visited
<1> HIDE DEF b, c
<1>4. child_pos_from_byte(b) \in Positions /\ child_pos_from_byte(c) \in Positions
  BY <1>1, PositionOf
<1>5. ~(c < b)
  <2>1. c < b => child_idx_from_pos(t, child_pos_from_byte(c))
                   < child_idx_from_pos(t, child_pos_from_byte(b))
    BY <1>1, <1>3, <1>4, PositionOrder, RankMonotone
  <2>2. QED
    BY <1>1, <1>3, <2>1
<1>6. b # c
  BY <1>1, <1>3
<1>7. QED
  BY <1>2, <1>5, <1>6 DEF b, c

(* A table with a child for less than all bytes has room for another.      *)
LEMMA Room ==
  ASSUME NEW t, NEW f, NEW E, Whole(t), InStep(t, f, E), Present(t) # Bytes
  PROVE  ~Overflows(t.vec, len_children(t))
<1> DEFINE n == len_children(t)
           g == [j \in Visited(t) |-> f[t.vec.buf[j]]]
<1>1. n \in Nat /\ IsBitmap(t.bitmap)
  BY Counts DEF Whole
<1>2. \A j \in Visited(t) : g[j] \in Present(t)
  BY DEF InStep, Present
<1>3. Present(t) \in SUBSET Bytes
  BY DEF Present
<1>4. ASSUME NEW j \in Visited(t), NEW k \in Visited(t), g[j] = g[k]
      PROVE  j = k
  BY <1>4 DEF InStep
<1>5. g \in Injection(Visited(t), Bytes)
  BY <1>2, <1>3, <1>4 DEF Injection, IsInjective
<1>6. IsFiniteSet(Bytes)
  <2>1. WordBits \in Nat \ {0} /\ Bytes \in SUBSET (0 .. 4 * WordBits - 1)
    BY BytesAssumption
  <2>2. 0 \in Int /\ 4 * WordBits - 1 \in Int
    BY <2>1
  <2>3. IsFiniteSet(0 .. 4 * WordBits - 1)
    BY <2>2, FS_Interval
  <2>4. QED
    BY <2>1, <2>3, FS_Subset
<1> HIDE DEF g
<1>7. /\ Cardinality(Visited(t)) <= Cardinality(Bytes)
      /\ Cardinality(Visited(t)) = Cardinality(Bytes) => g \in Surjection(Visited(t), Bytes)
  BY <1>5, <1>6, FS_Injection
<1>8. Cardinality(Visited(t)) = n
  <2>1. 0 \in Int /\ n - 1 \in Int
    BY <1>1
  <2>2. Cardinality(0 .. n - 1) = IF 0 > n - 1 THEN 0 ELSE (n - 1) - 0 + 1
    BY <2>1, FS_Interval
  <2>3. QED
    BY <1>1, <2>2 DEF Visited
<1>9. g \notin Surjection(Visited(t), Bytes)
  <2>1. PICK b \in Bytes : b \notin Present(t)
    BY <1>3
  <2>2. \A j \in Visited(t) : g[j] # b
    BY <1>2, <2>1
  <2>3. QED
    BY <2>2 DEF Surjection
<1>10. n < Cardinality(Bytes) /\ Cardinality(Bytes) \in Nat
  BY <1>1, <1>6, <1>7, <1>8, <1>9, FS_CardinalityType
<1>11. Cardinality(Bytes) <= CapacityOf(TAG_MAX)
  BY BytesAssumption DEF CapacityOf
<1>12. ASSUME ~t.vec.null, t.vec.tag >= TAG_MAX, n = capacity(t.vec)
       PROVE  FALSE
  <2>1. t.vec.tag = TAG_MAX
    BY <1>12, BytesAssumption DEF Whole
  <2>2. n = CapacityOf(TAG_MAX)
    BY <1>12, <2>1 DEF capacity
  <2>3. CapacityOf(TAG_MAX) \in Nat
    BY Capacities, BytesAssumption
  <2>4. QED
    BY <1>1, <1>10, <1>11, <2>2, <2>3
<1>13. QED
  BY <1>12 DEF Overflows, Full

(* What insert_child does: it files the child, and the others stay filed.  *)
LEMMA InsertStep ==
  ASSUME NEW t, NEW f, NEW E, Whole(t), InStep(t, f, E),
         NEW c \in E, f[c] \in Bytes,
         ~child_exists(t, child_pos_from_byte(f[c])),
         ~Overflows(t.vec, len_children(t))
  PROVE  LET u == insert_child(t, child_pos_from_byte(f[c]), c)
         IN Whole(u) /\ InStep(u, f, E) /\ Elements(u) = Elements(t) \cup {c}
<1> DEFINE p == child_pos_from_byte(f[c])
           n == len_children(t)
           v == t.vec
           i == child_idx_from_pos(t, p)
           u == insert_child(t, p, c)
           T == IF Full(v, n) THEN GrownTag(v) ELSE v.tag
<1>1. IsBitmap(t.bitmap) /\ p \in Positions /\ n \in Nat /\ i \in Nat /\ i <= n
  BY PositionOf, Counts, RankBound DEF Whole
<1>2. /\ u.bitmap = [t.bitmap EXCEPT ![p.idx] = @ \cup {p.bit}]
      /\ u.vec = [null |-> FALSE, tag |-> T, buf |-> Shifted(v, i, c, n, CapacityOf(T))]
  BY DEF insert_child, vec_insert
<1>3. /\ IsBitmap(u.bitmap) /\ len_children(u) = n + 1
      /\ \A q \in Positions :
           /\ child_exists(u, q) <=> child_exists(t, q) \/ q = p
           /\ child_idx_from_pos(u, q) =
                child_idx_from_pos(t, q) + (IF Before(p, q) THEN 1 ELSE 0)
  BY <1>1, <1>2, RankAdd
<1>4. T \in 0 .. TAG_MAX /\ CapacityOf(T) \in Nat /\ n + 1 <= CapacityOf(T)
  <2>1. v.null \in BOOLEAN /\ v.tag \in 0 .. TAG_MAX /\ n <= capacity(v)
    BY DEF Whole
  <2>2. TAG_MAX \in 0 .. 7
    BY BytesAssumption
  <2>3. CASE v.null
    <3>1. capacity(v) = 0
      BY <2>3 DEF capacity
    <3>2. n = 0 /\ T = 0
      BY <1>1, <2>1, <2>3, <3>1 DEF Full, GrownTag
    <3>3. 0 \in 0 .. TAG_MAX
      BY <2>2
    <3>4. CapacityOf(0) \in Nat /\ CapacityOf(0) >= 2
      BY <3>3, Capacities
    <3>5. QED
      BY <3>2, <3>3, <3>4
  <2>4. CASE ~v.null /\ n # capacity(v)
    <3>1. capacity(v) = CapacityOf(v.tag) /\ T = v.tag
      BY <2>4 DEF capacity, Full
    <3>2. CapacityOf(v.tag) \in Nat
      BY <2>1, Capacities
    <3>3. QED
      BY <1>1, <2>1, <2>4, <3>1, <3>2
  <2>5. CASE ~v.null /\ n = capacity(v)
    <3>1. capacity(v) = CapacityOf(v.tag) /\ T = v.tag + 1
      BY <2>5 DEF capacity, Full, GrownTag
    <3>2. v.tag < TAG_MAX
      BY <2>1, <2>2, <2>5 DEF Overflows, Full
    <3>3. v.tag + 1 \in 0 .. TAG_MAX
      BY <2>1, <2>2, <3>2
    <3>4. /\ CapacityOf(v.tag) \in Nat /\ CapacityOf(v.tag + 1) \in Nat
          /\ CapacityOf(v.tag) < CapacityOf(v.tag + 1)
      BY <2>1, <3>2, <3>3, Capacities
    <3>5. QED
      BY <1>1, <2>5, <3>1, <3>3, <3>4
  <2>6. QED
    BY <2>1, <2>3, <2>4, <2>5
<1> HIDE DEF u, T, i, n
<1>5. \A k \in 0 .. n :
        u.vec.buf[k] = IF k < i THEN v.buf[k] ELSE IF k = i THEN c ELSE v.buf[k - 1]
  <2> TAKE k \in 0 .. n
  <2>1. k \in 0 .. CapacityOf(T) - 1 /\ k <= n
    BY <1>1, <1>4
  <2>2. QED
    BY <1>2, <2>1 DEF Shifted
<1>6. Whole(u)
  <2>1. capacity(u.vec) = CapacityOf(T)
    BY <1>2 DEF capacity
  <2>2. DOMAIN u.vec.buf = 0 .. CapacityOf(T) - 1
    BY <1>2 DEF Shifted
  <2>3. u.vec = [null |-> u.vec.null, tag |-> u.vec.tag, buf |-> u.vec.buf]
    BY <1>2
  <2>4. u.vec.null \in BOOLEAN /\ u.vec.tag \in 0 .. TAG_MAX
    BY <1>2, <1>4
  <2>5. QED
    BY <1>3, <1>4, <2>1, <2>2, <2>3, <2>4 DEF Whole
<1>7. Visited(t) = 0 .. n - 1 /\ Visited(u) = 0 .. n
  BY <1>1, <1>3 DEF Visited, n
<1>8. ASSUME NEW k \in Visited(t)
      PROVE  LET b == f[v.buf[k]]
                 q == child_pos_from_byte(b)
             IN /\ v.buf[k] \in E /\ b \in Bytes /\ child_exists(u, q)
                /\ child_idx_from_pos(u, q) = IF k < i THEN k ELSE k + 1
  <2> DEFINE b == f[v.buf[k]]
             q == child_pos_from_byte(b)
  <2>1. /\ v.buf[k] \in E /\ b \in Bytes /\ child_exists(t, q)
        /\ child_idx_from_pos(t, q) = k
    BY DEF InStep
  <2>2. q \in Positions /\ f[c] \in Int /\ b \in Int /\ k \in Int
    BY <1>1, <1>7, <2>1, PositionOf, BytesAreNumbers
  <2>3. b # f[c]
    BY <2>1
  <2> HIDE DEF b
  <2>4. CASE b < f[c]
    <3>1. Before(q, p)
      BY <2>1, <2>4, PositionOrder
    <3>2. k < i
      BY <1>1, <2>1, <2>2, <3>1, RankMonotone DEF i
    <3>3. ~Before(p, q)
      BY <1>1, <2>2, <3>1 DEF Before, Positions
    <3>4. QED
      BY <1>3, <2>1, <2>2, <3>2, <3>3 DEF b
  <2>5. CASE f[c] < b
    <3>1. Before(p, q)
      BY <2>1, <2>5, PositionOrder
    <3>2. i <= k
      BY <1>1, <2>1, <2>2, <3>1, RankMonotone DEF i
    <3>3. QED
      BY <1>1, <1>3, <2>1, <2>2, <3>1, <3>2 DEF b
  <2>6. QED
    BY <2>2, <2>3, <2>4, <2>5
<1>9. InStep(u, f, E)
  <2> SUFFICES ASSUME NEW j \in 0 .. n
               PROVE  LET b == f[u.vec.buf[j]]
                          q == child_pos_from_byte(b)
                      IN /\ u.vec.buf[j] \in E /\ b \in Bytes /\ child_exists(u, q)
                         /\ child_idx_from_pos(u, q) = j
    BY <1>7 DEF InStep
  <2>1. CASE j < i
    <3>1. j \in Visited(t) /\ u.vec.buf[j] = v.buf[j]
      BY <1>1, <1>5, <1>7, <2>1
    <3>2. QED
      BY <1>8, <2>1, <3>1
  <2>2. CASE j = i
    <3>1. u.vec.buf[j] = c
      BY <1>1, <1>5, <2>2
    <3>2. ~Before(p, p)
      BY <1>1 DEF Before, Positions
    <3>3. child_exists(u, p) /\ child_idx_from_pos(u, p) = i
      BY <1>1, <1>3, <3>2 DEF i
    <3>4. QED
      BY <2>2, <3>1, <3>3
  <2>3. CASE i < j
    <3>1. j - 1 \in Visited(t) /\ ~(j - 1 < i) /\ u.vec.buf[j] = v.buf[j - 1]
      BY <1>1, <1>5, <1>7, <2>3
    <3>2. (j - 1) + 1 = j
      BY <1>1
    <3>3. QED
      BY <1>8, <3>1, <3>2
  <2>4. QED
    BY <1>1, <2>1, <2>2, <2>3
<1>10. Elements(u) = Elements(t) \cup {c}
  <2>1. ASSUME NEW x \in Elements(u)
        PROVE  x \in Elements(t) \cup {c}
    <3>1. PICK j \in 0 .. n : x = u.vec.buf[j]
      BY <1>7, <2>1 DEF Elements
    <3>2. CASE j < i
      BY <1>1, <1>5, <1>7, <3>1, <3>2 DEF Elements
    <3>3. CASE j = i
      BY <1>1, <1>5, <3>1, <3>3
    <3>4. CASE i < j
      <4>1. j - 1 \in Visited(t) /\ x = v.buf[j - 1]
        BY <1>1, <1>5, <1>7, <3>1, <3>4
      <4>2. QED
        BY <4>1 DEF Elements
    <3>5. QED
      BY <1>1, <3>2, <3>3, <3>4
  <2>2. ASSUME NEW x \in Elements(t)
        PROVE  x \in Elements(u)
    <3>1. PICK k \in 0 .. n - 1 : x = v.buf[k]
      BY <1>7, <2>2 DEF Elements
    <3>2. CASE k < i
      <4>1. k \in Visited(u) /\ u.vec.buf[k] = x
        BY <1>1, <1>5, <1>7, <3>1, <3>2
      <4>2. QED
        BY <4>1 DEF Elements
    <3>3. CASE i <= k
      <4>1. k + 1 \in Visited(u) /\ (k + 1) - 1 = k /\ ~(k + 1 < i) /\ k + 1 # i
        BY <1>1, <1>7, <3>3
      <4>2. u.vec.buf[k + 1] = x
        BY <1>5, <1>7, <3>1, <4>1
      <4>3. QED
        BY <4>1, <4>2 DEF Elements
    <3>4. QED
      BY <1>1, <3>2, <3>3
  <2>3. c \in Elements(u)
    <3>1. i \in Visited(u) /\ u.vec.buf[i] = c
      BY <1>1, <1>5, <1>7
    <3>2. QED
      BY <3>1 DEF Elements
  <2>4. QED
    BY <2>1, <2>2, <2>3
<1>11. QED
  BY <1>6, <1>9, <1>10 DEF u

(* What remove_child does: the child found for the byte is gone, and the   *)
(* others stay filed.                                                      *)
LEMMA RemoveStep ==
  ASSUME NEW t, NEW f, NEW E, Whole(t), InStep(t, f, E), NEW b \in Present(t)
  PROVE  LET u == remove_child(t, child_pos_from_byte(b))
         IN Whole(u) /\ InStep(u, f, E) /\ Elements(u) = Elements(t) \ {Child(t, b)}
<1> DEFINE p == child_pos_from_byte(b)
           n == len_children(t)
           v == t.vec
           i == child_idx_from_pos(t, p)
           u == remove_child(t, p)
<1>1. /\ b \in Bytes /\ child_exists(t, p)
      /\ IsBitmap(t.bitmap) /\ p \in Positions /\ n \in Nat
      /\ i \in Nat /\ i < n /\ n <= capacity(v)
  BY PositionOf, Counts, RankBound DEF Whole, Present
<1>2. /\ u.bitmap = [t.bitmap EXCEPT ![p.idx] = @ \ {p.bit}]
      /\ u.vec = vec_remove(v, i, n)
  BY DEF remove_child
<1>3. /\ v = [null |-> v.null, tag |-> v.tag, buf |-> v.buf]
      /\ DOMAIN v.buf = 0 .. capacity(v) - 1
      /\ v.null \in BOOLEAN /\ v.tag \in 0 .. TAG_MAX
  BY DEF Whole
<1>4. /\ u.vec.null = v.null /\ u.vec.tag = v.tag
      /\ u.vec = [null |-> u.vec.null, tag |-> u.vec.tag, buf |-> u.vec.buf]
      /\ u.vec.buf = [k \in DOMAIN v.buf |->
                        IF k < i THEN v.buf[k]
                        ELSE IF k < n - 1 THEN v.buf[k + 1] ELSE Junk]
  BY <1>2, <1>3 DEF vec_remove
<1>5. /\ IsBitmap(u.bitmap) /\ ~child_exists(u, p)
      /\ t.bitmap = [u.bitmap EXCEPT ![p.idx] = @ \cup {p.bit}]
  <2>1. p.idx \in 0 .. 3 /\ p.bit \in 0 .. WordBits - 1 /\ p.bit \in t.bitmap[p.idx]
    BY <1>1 DEF Positions, child_exists
  <2>2. IsBitmap(u.bitmap)
    BY <1>1, <1>2, <2>1 DEF IsBitmap
  <2>3. \A w \in 0 .. 3 :
          u.bitmap[w] = IF w = p.idx THEN t.bitmap[w] \ {p.bit} ELSE t.bitmap[w]
    BY <1>1, <1>2 DEF IsBitmap
  <2>4. ~child_exists(u, p)
    BY <2>1, <2>3 DEF child_exists
  <2> DEFINE s == [u.bitmap EXCEPT ![p.idx] = @ \cup {p.bit}]
  <2>5. s \in [0 .. 3 -> SUBSET (0 .. WordBits - 1)]
    BY <2>1, <2>2 DEF IsBitmap
  <2>6. \A w \in 0 .. 3 : s[w] = t.bitmap[w]
    <3> TAKE w \in 0 .. 3
    <3>1. s[w] = IF w = p.idx THEN u.bitmap[w] \cup {p.bit} ELSE u.bitmap[w]
      BY <2>2 DEF IsBitmap
    <3>2. CASE w = p.idx
      <4>1. (t.bitmap[w] \ {p.bit}) \cup {p.bit} = t.bitmap[w]
        BY <2>1, <3>2
      <4>2. QED
        BY <2>3, <3>1, <3>2, <4>1
    <3>3. CASE w # p.idx
      BY <2>3, <3>1, <3>3
    <3>4. QED
      BY <3>2, <3>3
  <2>7. t.bitmap \in [0 .. 3 -> SUBSET (0 .. WordBits - 1)]
    BY <1>1 DEF IsBitmap
  <2> HIDE DEF s
  <2>8. t.bitmap = s
    BY <2>5, <2>6, <2>7
  <2>9. QED
    BY <2>2, <2>4, <2>8 DEF s
<1> HIDE DEF u
<1>6. /\ n = len_children(u) + 1
      /\ \A q \in Positions :
           /\ child_exists(t, q) <=> child_exists(u, q) \/ q = p
           /\ child_idx_from_pos(t, q) =
                child_idx_from_pos(u, q) + (IF Before(p, q) THEN 1 ELSE 0)
  BY <1>1, <1>5, RankAdd
<1>7. len_children(u) \in Nat /\ \A q \in Positions : child_idx_from_pos(u, q) \in Nat
  BY <1>5, Counts, RankBound
<1>8. capacity(u.vec) = capacity(v)
  BY <1>4 DEF capacity
<1>9. Whole(u)
  <2>1. DOMAIN u.vec.buf = 0 .. capacity(u.vec) - 1
    BY <1>3, <1>4, <1>8
  <2>2. len_children(u) <= capacity(u.vec)
    <3>1. capacity(v) \in Nat
      BY <1>3, Capacities DEF capacity
    <3>2. QED
      BY <1>1, <1>6, <1>7, <1>8, <3>1
  <2>3. QED
    BY <1>3, <1>4, <1>5, <2>1, <2>2 DEF Whole
<1> HIDE DEF i, n
<1>10. Visited(t) = 0 .. n - 1 /\ Visited(u) = 0 .. n - 2
  BY <1>1, <1>6, <1>7 DEF Visited, n
<1>11. \A j \in 0 .. n - 2 : u.vec.buf[j] = IF j < i THEN v.buf[j] ELSE v.buf[j + 1]
  <2> TAKE j \in 0 .. n - 2
  <2>1. capacity(v) \in Nat
    BY <1>3, Capacities DEF capacity
  <2>2. j \in DOMAIN v.buf /\ j < n - 1
    BY <1>1, <1>3, <2>1
  <2>3. QED
    BY <1>4, <2>2
<1>12. ASSUME NEW k \in Visited(t), k # i
       PROVE  LET a == f[v.buf[k]]
                  q == child_pos_from_byte(a)
              IN /\ v.buf[k] \in E /\ a \in Bytes /\ child_exists(u, q)
                 /\ child_idx_from_pos(u, q) = IF k < i THEN k ELSE k - 1
  <2> DEFINE a == f[v.buf[k]]
             q == child_pos_from_byte(a)
  <2>1. /\ v.buf[k] \in E /\ a \in Bytes /\ child_exists(t, q)
        /\ child_idx_from_pos(t, q) = k
    BY DEF InStep
  <2>2. q \in Positions /\ b \in Int /\ a \in Int /\ k \in Int
    BY <1>1, <1>10, <2>1, PositionOf, BytesAreNumbers
  <2>3. q # p
    BY <1>12, <2>1 DEF i
  <2>4. child_exists(u, q)
    BY <1>6, <2>1, <2>2, <2>3
  <2> HIDE DEF a
  <2>5. CASE k < i
    <3>1. ~Before(p, q)
      <4>1. Before(p, q) => i <= k
        BY <1>1, <2>1, <2>2, RankMonotone DEF i
      <4>2. QED
        BY <1>1, <2>2, <2>5, <4>1
    <3>2. QED
      BY <1>6, <1>7, <2>1, <2>2, <2>4, <2>5, <3>1 DEF a
  <2>6. CASE i < k
    <3>1. Before(p, q)
      <4>1. a < b => k < i
        BY <1>1, <2>1, <2>2, PositionOrder, RankMonotone DEF i
      <4>2. b < a
        BY <1>1, <2>2, <2>3, <2>6, <4>1
      <4>3. QED
        BY <1>1, <2>1, <4>2, PositionOrder
    <3>2. QED
      BY <1>1, <1>6, <1>7, <2>1, <2>2, <2>4, <2>6, <3>1 DEF a
  <2>7. QED
    BY <1>1, <1>12, <2>2, <2>5, <2>6
<1>13. InStep(u, f, E)
  <2> SUFFICES ASSUME NEW j \in 0 .. n - 2
               PROVE  LET a == f[u.vec.buf[j]]
                          q == child_pos_from_byte(a)
                      IN /\ u.vec.buf[j] \in E /\ a \in Bytes /\ child_exists(u, q)
                         /\ child_idx_from_pos(u, q) = j
    BY <1>10 DEF InStep
  <2>1. CASE j < i
    <3>1. j \in Visited(t) /\ j # i /\ u.vec.buf[j] = v.buf[j]
      BY <1>1, <1>10, <1>11, <2>1
    <3>2. QED
      BY <1>12, <2>1, <3>1
  <2>2. CASE i <= j
    <3>1. /\ j + 1 \in Visited(t) /\ j + 1 # i /\ ~(j + 1 < i)
          /\ u.vec.buf[j] = v.buf[j + 1] /\ (j + 1) - 1 = j
      BY <1>1, <1>10, <1>11, <2>2
    <3>2. QED
      BY <1>12, <3>1
  <2>3. QED
    BY <1>1, <2>1, <2>2
<1>14. Child(t, b) = v.buf[i] /\ i \in Visited(t)
  BY <1>1, <1>10 DEF Child, get_child_by_pos, get_child_by_idx, i
<1>15. \A k \in Visited(t) : k # i => v.buf[k] # v.buf[i]
  BY <1>14 DEF InStep
<1>16. Elements(u) = Elements(t) \ {v.buf[i]}
  <2>1. ASSUME NEW x \in Elements(u)
        PROVE  x \in Elements(t) \ {v.buf[i]}
    <3>1. PICK j \in 0 .. n - 2 : x = u.vec.buf[j]
      BY <1>10, <2>1 DEF Elements
    <3>2. CASE j < i
      <4>1. j \in Visited(t) /\ j # i /\ x = v.buf[j]
        BY <1>1, <1>10, <1>11, <3>1, <3>2
      <4>2. QED
        BY <1>15, <4>1 DEF Elements
    <3>3. CASE i <= j
      <4>1. j + 1 \in Visited(t) /\ j + 1 # i /\ x = v.buf[j + 1]
        BY <1>1, <1>10, <1>11, <3>1, <3>3
      <4>2. QED
        BY <1>15, <4>1 DEF Elements
    <3>4. QED
      BY <1>1, <3>2, <3>3
  <2>2. ASSUME NEW x \in Elements(t), x # v.buf[i]
        PROVE  x \in Elements(u)
    <3>1. PICK k \in 0 .. n - 1 : x = v.buf[k] /\ k # i
      BY <1>10, <2>2 DEF Elements
    <3>2. CASE k < i
      <4>1. k \in Visited(u) /\ u.vec.buf[k] = x
        BY <1>1, <1>10, <1>11, <3>1, <3>2
      <4>2. QED
        BY <4>1 DEF Elements
    <3>3. CASE i < k
      <4>1. k - 1 \in Visited(u) /\ (k - 1) + 1 = k /\ ~(k - 1 < i)
        BY <1>1, <1>10, <3>1, <3>3
      <4>2. u.vec.buf[k - 1] = x
        BY <1>10, <1>11, <3>1, <4>1
      <4>3. QED
        BY <4>1, <4>2 DEF Elements
    <3>4. QED
      BY <1>1, <3>1, <3>2, <3>3
  <2>3. QED
    BY <2>1, <2>2
<1>17. QED
  BY <1>9, <1>13, <1>14, <1>16 DEF u

------------------------------------------------------------------------------
(* A prefix is always what new makes of some bytes, and these are what it  *)
(* gives back, whichever of the two forms it has.                          *)

Prefixes == {new(d) : d \in Seq(Bytes)}

LEMMA Forms ==
  ASSUME NEW d \in Seq(Bytes)
  PROVE  /\ len(new(d)) = Len(d)
         /\ as_ref(new(d)) = d
         /\ Len(d) > 0 => first_byte(new(d)) = d[1]
<1>1. INLINE_CAP \in 1 .. 127 /\ Len(d) \in Nat
  BY InlineAssumption
<1>2. CASE Len(d) <= INLINE_CAP
  <2> DEFINE area == [k \in 1 .. INLINE_CAP |-> IF k <= Len(d) THEN d[k] ELSE 0]
  <2>1. new(d).tag = 2 * Len(d) + 1 /\ new(d).area = area
    <3>1. (2 * Len(d)) % 256 = 2 * Len(d)
      BY <1>1, <1>2
    <3>2. QED
      BY <1>2, <3>1 DEF new, Inline
  <2>2. (2 * Len(d) + 1) % 2 = 1 /\ (2 * Len(d) + 1) \div 2 = Len(d)
    BY <1>1
  <2>3. is_inline(new(d)) /\ len(new(d)) = Len(d)
    BY <2>1, <2>2 DEF is_inline, len
  <2>4. as_ref(new(d)) = SubSeq(area, 1, Len(d))
    BY <2>1, <2>3 DEF as_ref
  <2>5. \A k \in 1 .. Len(d) : area[k] = d[k] /\ area[k] \in Bytes
    BY <1>1, <1>2
  <2> HIDE DEF area
  <2> DEFINE u == SubSeq(area, 1, Len(d))
  <2>6. 1 \in Int /\ Len(d) \in Int /\ \A k \in 1 .. Len(d) : area[k] \in Bytes
    BY <1>1, <2>5
  <2>7. /\ u \in Seq(Bytes)
        /\ Len(u) = IF 1 <= Len(d) THEN Len(d) - 1 + 1 ELSE 0
        /\ \A k \in 1 .. Len(d) - 1 + 1 : u[k] = area[1 + k - 1]
    BY <2>6, SubSeqProperties
  <2> HIDE DEF u
  <2>8. Len(u) = Len(d) /\ \A k \in 1 .. Len(u) : u[k] = d[k]
    BY <1>1, <2>5, <2>7
  <2>9. u = d
    BY <2>7, <2>8, SeqEqual
  <2>10. Len(d) > 0 => first_byte(new(d)) = d[1]
    BY <1>1, <2>1, <2>3, <2>5 DEF first_byte
  <2>11. QED
    BY <2>3, <2>4, <2>9, <2>10 DEF u
<1>3. CASE ~(Len(d) <= INLINE_CAP)
  <2>1. new(d) = [tag |-> 0, len |-> Len(d), first |-> d[1], block |-> d]
    BY <1>3 DEF new, OnHeap
  <2>2. ~is_inline(new(d))
    BY <2>1 DEF is_inline
  <2>3. len(new(d)) = Len(d) /\ first_byte(new(d)) = d[1]
    BY <2>1, <2>2 DEF len, first_byte
  <2>4. as_ref(new(d)) = SubSeq(d, 1, Len(d))
    BY <2>1, <2>2, <2>3 DEF as_ref
  <2>5. SubSeq(d, 1, Len(d)) = d
    OBVIOUS
  <2>6. QED
    BY <2>3, <2>4, <2>5
<1>4. QED
  BY <1>2, <1>3

(* Joining slices is making a prefix of their concatenation.               *)
LEMMA JoinedForm ==
  ASSUME NEW s \in Seq(Bytes), NEW t \in Seq(Bytes)
  PROVE  /\ s \o t \in Seq(Bytes)
         /\ from_slices(s, t) = new(s \o t)
         /\ s # <<>> => (s \o t)[1] = s[1]
<1>1. INLINE_CAP \in 1 .. 127 /\ Len(s) \in Nat /\ Len(t) \in Nat
  BY InlineAssumption
<1>2. s \o t \in Seq(Bytes) /\ Len(s \o t) = Len(s) + Len(t)
  OBVIOUS
<1>3. \A k \in 1 .. Len(s) + Len(t) :
        (s \o t)[k] = IF k <= Len(s) THEN s[k] ELSE t[k - Len(s)]
  OBVIOUS
<1>4. s \o t = [k \in 1 .. Len(s) + Len(t) |-> (s \o t)[k]]
  BY <1>2, LenProperties
<1>5. Joined(s, t) = s \o t
  BY <1>3, <1>4 DEF Joined
<1>6. s # <<>> => Len(s) > 0
  OBVIOUS
<1>7. s # <<>> => (s \o t)[1] = s[1]
  BY <1>1, <1>3, <1>6
<1>8. s = <<>> /\ Len(t) > 0 => (s \o t)[1] = t[1]
  BY <1>1, <1>3
<1>9. CASE Len(s) + Len(t) <= INLINE_CAP
  BY <1>2, <1>5, <1>7, <1>9 DEF from_slices, new
<1>10. CASE ~(Len(s) + Len(t) <= INLINE_CAP)
  <2>1. s = <<>> => Len(t) > 0
    BY <1>1, <1>10
  <2>2. (s \o t)[1] = IF s # <<>> THEN s[1] ELSE t[1]
    BY <1>7, <1>8, <2>1
  <2>3. QED
    BY <1>2, <1>5, <1>7, <1>10, <2>2 DEF from_slices, new
<1>11. QED
  BY <1>9, <1>10

(* A cut keeps the first byte, unless it leaves none.                      *)
LEMMA CutForm ==
  ASSUME NEW d \in Seq(Bytes), NEW l \in 0 .. Len(d) - 1
  PROVE  /\ SubSeq(d, 1, l) \in Seq(Bytes) /\ Len(SubSeq(d, 1, l)) = l
         /\ l > 0 => SubSeq(d, 1, l)[1] = d[1]
OBVIOUS

------------------------------------------------------------------------------
(* The inductive invariant.  L, H, P and T stand for live, hands, prefix   *)
(* and table: its parts are stated of values, for the states before and    *)
(* after a step.                                                           *)

First(P) == [c \in Names |-> first_byte(P[c])]

Filed(L, P, T) == \A n \in Names : InStep(T[n], First(P), L)

Parents(L, H, T) ==
  /\ \A c \in L : c \in H <=> \A m \in L : c \notin Elements(T[m])
  /\ \A m, k \in L : m # k => Elements(T[m]) \cap Elements(T[k]) = {}

Shapes(L, F, T) ==
  /\ DOMAIN T = Names /\ T = [n \in Names |-> T[n]]
  /\ \A n \in Names : Whole(T[n])
  /\ \A n \in Names : n \notin L \/ n \in F => T[n] = NoChildren

Kept(V, A, O) ==
  /\ O \subseteq Values
  /\ A \in [Names -> Values \cup {Junk}]
  /\ \A n \in Names : A[n] \in IF n \in V THEN Values ELSE {Junk}
  /\ \A v \in Values : v \in O <=> \A n \in V : A[n] # v
  /\ \A m, n \in V : A[m] = A[n] => m = n

IInv ==
  /\ leaf \cup valued \cup hands \subseteq live /\ live \subseteq Names /\ use \in Uses
  /\ prefix \in [Names -> Prefixes]
  /\ Shapes(live, leaf, table)
  /\ Filed(live, prefix, table)
  /\ Parents(live, hands, table)
  /\ Kept(valued, val, outside)

LEMMA SlotsAre == \A n : Slots(n) = Elements(table[n])
BY DEF Slots, Elements, get_child_by_idx

LEMMA PrefixIs ==
  ASSUME NEW P \in [Names -> Prefixes], NEW n \in Names
  PROVE  /\ as_ref(P[n]) \in Seq(Bytes) /\ P[n] = new(as_ref(P[n]))
         /\ len(P[n]) = Len(as_ref(P[n]))
         /\ len(P[n]) > 0 => /\ first_byte(P[n]) = as_ref(P[n])[1]
                             /\ first_byte(P[n]) \in Bytes
<1>1. PICK d \in Seq(Bytes) : P[n] = new(d)
  BY DEF Prefixes
<1>2. len(P[n]) = Len(d) /\ as_ref(P[n]) = d /\ (Len(d) > 0 => first_byte(P[n]) = d[1])
  BY <1>1, Forms
<1>3. Len(d) > 0 => d[1] \in Bytes
  OBVIOUS
<1>4. QED
  BY <1>1, <1>2, <1>3

(* A table stays filed when its elements keep their bytes.                 *)
LEMMA InStepStays ==
  ASSUME NEW t, NEW f, NEW g, NEW E, NEW G, InStep(t, f, E),
         \A c \in Elements(t) : c \in G /\ g[c] = f[c]
  PROVE  InStep(t, g, G)
<1>1. ASSUME NEW j \in Visited(t)
      PROVE  t.vec.buf[j] \in G /\ g[t.vec.buf[j]] = f[t.vec.buf[j]]
  BY DEF Elements
<1>2. QED
  BY <1>1 DEF InStep

LEMMA ChildrenLive ==
  ASSUME NEW t, NEW f, NEW E, InStep(t, f, E)
  PROVE  Elements(t) \subseteq E
BY DEF InStep, Elements

(* Facts about the state that the actions need.                            *)
LEMMA State ==
  ASSUME IInv
  PROVE  /\ live \subseteq Names /\ hands \subseteq live
         /\ \A n \in Names : Elements(table[n]) \subseteq live
         /\ \A n \in Names \ live : Elements(table[n]) = {}
         /\ \A n \in leaf : table[n] = NoChildren
<1>1. ASSUME NEW n \in Names
      PROVE  Elements(table[n]) \subseteq live
  BY ChildrenLive DEF IInv, Filed
<1>2. ASSUME NEW n \in Names \ live
      PROVE  Elements(table[n]) = {}
  BY EmptyTable DEF IInv, Shapes
<1>3. leaf \subseteq Names /\ \A n \in leaf : table[n] = NoChildren
  BY DEF IInv, Shapes
<1>4. QED
  BY <1>1, <1>2, <1>3 DEF IInv

------------------------------------------------------------------------------
LEMMA InitInv == Init => IInv
<1> SUFFICES ASSUME Init PROVE IInv
  OBVIOUS
<1>1. Blank \in Prefixes
  BY EmptySeq DEF Blank, Prefixes
<1>2. prefix \in [Names -> Prefixes]
  BY <1>1 DEF Init
<1>3. \A n \in Names : table[n] = NoChildren
  BY DEF Init
<1>4. Shapes(live, leaf, table)
  BY <1>3, EmptyTable DEF Init, Shapes
<1>5. Filed(live, prefix, table)
  BY <1>3, EmptyTable DEF Filed, InStep
<1>6. Parents(live, hands, table) /\ Kept(valued, val, outside)
  BY NamesAssumption DEF Init, Parents, Kept
<1>7. QED
  BY <1>2, <1>4, <1>5, <1>6 DEF Init, IInv

(* New: a node without children, which no slot holds.                      *)
LEMMA NewInv ==
  ASSUME IInv, NEW n \in Names, NEW text \in use.texts, New(n, text)
  PROVE  IInv'
<1>1. /\ n \notin live /\ live' = live \cup {n} /\ leaf' = leaf \cup {n}
      /\ hands' = hands \cup {n} /\ prefix' = [prefix EXCEPT ![n] = new(text)]
      /\ UNCHANGED <<valued, val, table, outside, use>>
  BY DEF New
<1>2. text \in Seq(Bytes)
  BY UsesAssumption DEF IInv
<1>3. prefix' \in [Names -> Prefixes]
  BY <1>1, <1>2 DEF IInv, Prefixes
<1>4. \A m \in Names : Elements(table[m]) \subseteq live
  BY State
<1>5. table[n] = NoChildren /\ Elements(table[n]) = {}
  BY <1>1, EmptyTable DEF IInv, Shapes
<1>6. Shapes(live', leaf', table')
  BY <1>1, <1>5 DEF IInv, Shapes
<1>7. Filed(live', prefix', table')
  <2> SUFFICES ASSUME NEW m \in Names
               PROVE  InStep(table[m], First(prefix'), live')
    BY <1>1 DEF Filed
  <2>1. InStep(table[m], First(prefix), live)
    BY DEF IInv, Filed
  <2>2. ASSUME NEW c \in Elements(table[m])
        PROVE  c \in live' /\ First(prefix')[c] = First(prefix)[c]
    <3>1. c \in live /\ c \in Names /\ c # n
      BY <1>1, <1>4 DEF IInv
    <3>2. prefix'[c] = prefix[c]
      BY <1>1, <3>1 DEF IInv
    <3>3. QED
      BY <1>1, <3>1, <3>2 DEF First
  <2>3. QED
    BY <2>1, <2>2, InStepStays
<1>8. Parents(live', hands', table')
  <2>1. \A m \in live : n \notin Elements(table[m])
    BY <1>1, <1>4 DEF IInv
  <2>2. QED
    BY <1>1, <1>5, <2>1 DEF IInv, Parents
<1>9. QED
  BY <1>1, <1>3, <1>6, <1>7, <1>8 DEF IInv

(* Values move between the nodes and the outside.                          *)
LEMMA SetValInv ==
  ASSUME IInv, NEW n \in live, NEW v, SetVal(n, v)
  PROVE  IInv'
<1>1. /\ v \in outside
      /\ outside' = (outside \ {v}) \cup (IF n \in valued THEN {val[n]} ELSE {})
      /\ val' = [val EXCEPT ![n] = v] /\ valued' = valued \cup {n}
      /\ UNCHANGED <<live, leaf, prefix, table, hands, use>>
  BY DEF SetVal
<1>2. /\ n \in Names /\ valued \subseteq Names /\ Kept(valued, val, outside)
      /\ v \in Values
  BY <1>1 DEF IInv, Kept
<1>3. \A m \in Names : val'[m] = IF m = n THEN v ELSE val[m]
  BY <1>1, <1>2 DEF Kept
<1>4. Kept(valued', val', outside')
  <2>1. val' \in [Names -> Values \cup {Junk}] /\ outside' \subseteq Values
    BY <1>1, <1>2 DEF Kept
  <2>2. \A m \in Names : val'[m] \in IF m \in valued' THEN Values ELSE {Junk}
    BY <1>1, <1>2, <1>3 DEF Kept
  <2>3. ASSUME NEW w \in Values
        PROVE  w \in outside' <=> \A m \in valued' : val'[m] # w
    BY <1>1, <1>2, <1>3 DEF Kept
  <2>4. ASSUME NEW m \in valued', NEW k \in valued', val'[m] = val'[k]
        PROVE  m = k
    BY <1>1, <1>2, <1>3, <2>4 DEF Kept
  <2>5. QED
    BY <2>1, <2>2, <2>3, <2>4 DEF Kept
<1>5. QED
  BY <1>1, <1>4 DEF IInv

LEMMA TakeValInv ==
  ASSUME IInv, NEW n \in live, TakeVal(n)
  PROVE  IInv'
<1>1. /\ n \in valued /\ outside' = outside \cup {val[n]}
      /\ val' = [val EXCEPT ![n] = Junk] /\ valued' = valued \ {n}
      /\ UNCHANGED <<live, leaf, prefix, table, hands, use>>
  BY DEF TakeVal
<1>2. n \in Names /\ valued \subseteq Names /\ Kept(valued, val, outside)
  BY DEF IInv
<1>3. \A m \in Names : val'[m] = IF m = n THEN Junk ELSE val[m]
  BY <1>1, <1>2 DEF Kept
<1>4. Kept(valued', val', outside')
  <2>1. val' \in [Names -> Values \cup {Junk}] /\ outside' \subseteq Values
    BY <1>1, <1>2 DEF Kept
  <2>2. \A m \in Names : val'[m] \in IF m \in valued' THEN Values ELSE {Junk}
    BY <1>1, <1>2, <1>3 DEF Kept
  <2>3. ASSUME NEW w \in Values
        PROVE  w \in outside' <=> \A m \in valued' : val'[m] # w
    BY <1>1, <1>2, <1>3 DEF Kept
  <2>4. ASSUME NEW m \in valued', NEW k \in valued', val'[m] = val'[k]
        PROVE  m = k
    BY <1>1, <1>2, <1>3, <2>4 DEF Kept
  <2>5. QED
    BY <2>1, <2>2, <2>3, <2>4 DEF Kept
<1>5. QED
  BY <1>1, <1>4 DEF IInv

(* A child leaves the caller's hands for a slot of n.                      *)
LEMMA InsertChildInv ==
  ASSUME IInv, NEW n \in live, NEW c \in live, InsertChild(n, c)
  PROVE  IInv'
<1> DEFINE b == first_byte(prefix[c])
           pos == child_pos_from_byte(b)
           f == First(prefix)
           grown == insert_child(table[n], pos, c)
<1>1. Upgraded(n) = table[n]
  BY State DEF Upgraded
<1>2. /\ c \in hands /\ n \notin Below(c) /\ len(prefix[c]) > 0
      /\ ~child_exists(table[n], pos)
      /\ ~Overflows(table[n].vec, len_children(table[n]))
      /\ table' = [table EXCEPT ![n] = grown] /\ leaf' = leaf \ {n}
      /\ hands' = hands \ {c}
      /\ UNCHANGED <<live, valued, val, prefix, outside, use>>
  BY <1>1 DEF InsertChild
<1>3. n \in Names /\ c \in Names /\ n # c
  BY <1>2 DEF IInv, Below
<1>4. b \in Bytes /\ f[c] = b
  BY <1>2, <1>3, PrefixIs DEF IInv, First
<1>5. Whole(table[n]) /\ InStep(table[n], f, live)
  BY <1>3 DEF IInv, Shapes, Filed
<1>6. Whole(grown) /\ InStep(grown, f, live) /\ Elements(grown) = Elements(table[n]) \cup {c}
  BY <1>2, <1>4, <1>5, InsertStep
<1> HIDE DEF grown, f
<1>7. \A m \in Names : table'[m] = IF m = n THEN grown ELSE table[m]
  BY <1>2, <1>3 DEF IInv, Shapes
<1>8. Shapes(live', leaf', table')
  <2>1. DOMAIN table' = Names /\ table' = [m \in Names |-> table'[m]]
    BY <1>2 DEF IInv, Shapes
  <2>2. \A m \in Names : Whole(table'[m])
    BY <1>6, <1>7 DEF IInv, Shapes
  <2>3. \A m \in Names : m \notin live' \/ m \in leaf' => table'[m] = NoChildren
    BY <1>2, <1>7 DEF IInv, Shapes
  <2>4. QED
    BY <2>1, <2>2, <2>3 DEF Shapes
<1>9. Filed(live', prefix', table')
  BY <1>2, <1>6, <1>7 DEF IInv, Filed, f
<1>10. Parents(live', hands', table')
  <2>1. \A m \in live : Elements(table'[m]) =
          IF m = n THEN Elements(table[m]) \cup {c} ELSE Elements(table[m])
    BY <1>6, <1>7 DEF IInv
  <2>2. \A m \in live : c \notin Elements(table[m])
    BY <1>2 DEF IInv, Parents
  <2>3. ASSUME NEW x, NEW m \in live
        PROVE  x \in Elements(table'[m]) <=> x \in Elements(table[m]) \/ (m = n /\ x = c)
    BY <2>1
  <2>4. ASSUME NEW x \in live
        PROVE  x \in hands' <=> \A m \in live : x \notin Elements(table'[m])
    <3>1. x \in hands <=> \A m \in live : x \notin Elements(table[m])
      BY DEF IInv, Parents
    <3>2. x \in hands' <=> x \in hands /\ x # c
      BY <1>2
    <3>3. QED
      BY <2>3, <3>1, <3>2
  <2>5. ASSUME NEW m \in live, NEW k \in live, m # k
        PROVE  Elements(table'[m]) \cap Elements(table'[k]) = {}
    <3> SUFFICES ASSUME NEW x, x \in Elements(table'[m]), x \in Elements(table'[k])
                 PROVE  FALSE
      OBVIOUS
    <3>1. x \notin Elements(table[m]) \/ x \notin Elements(table[k])
      BY <2>5 DEF IInv, Parents
    <3>2. QED
      BY <2>2, <2>3, <2>5, <3>1
  <2>6. QED
    BY <1>2, <2>4, <2>5 DEF Parents
<1>11. QED
  BY <1>2, <1>8, <1>9, <1>10 DEF IInv

(* A child leaves its slot for the caller's hands.                         *)
LEMMA RemoveChildInv ==
  ASSUME IInv, NEW n \in live, NEW b \in Present(table[n]), RemoveChild(n, b)
  PROVE  IInv'
<1> DEFINE pos == child_pos_from_byte(b)
           c == Child(table[n], b)
           f == First(prefix)
           rest == remove_child(table[n], pos)
<1>1. /\ hands' = hands \cup {c} /\ table' = [table EXCEPT ![n] = rest]
      /\ UNCHANGED <<live, leaf, valued, val, prefix, outside, use>>
  BY DEF RemoveChild, Child
<1>2. n \in Names /\ Whole(table[n]) /\ InStep(table[n], f, live)
  BY DEF IInv, Shapes, Filed
<1>3. c \in Elements(table[n]) /\ c \in live
  BY <1>2, Lookup
<1>4. Whole(rest) /\ InStep(rest, f, live) /\ Elements(rest) = Elements(table[n]) \ {c}
  BY <1>2, RemoveStep
<1>5. n \notin leaf
  BY <1>3, State, EmptyTable
<1> HIDE DEF c, rest, f
<1>6. \A m \in Names : table'[m] = IF m = n THEN rest ELSE table[m]
  BY <1>1, <1>2 DEF IInv, Shapes
<1>7. Shapes(live', leaf', table')
  <2>1. DOMAIN table' = Names /\ table' = [m \in Names |-> table'[m]]
    BY <1>1 DEF IInv, Shapes
  <2>2. \A m \in Names : Whole(table'[m])
    BY <1>4, <1>6 DEF IInv, Shapes
  <2>3. \A m \in Names : m \notin live' \/ m \in leaf' => table'[m] = NoChildren
    BY <1>1, <1>5, <1>6 DEF IInv, Shapes
  <2>4. QED
    BY <2>1, <2>2, <2>3 DEF Shapes
<1>8. Filed(live', prefix', table')
  BY <1>1, <1>4, <1>6 DEF IInv, Filed, f
<1>9. Parents(live', hands', table')
  <2>1. \A m \in live : Elements(table'[m]) =
          IF m = n THEN Elements(table[m]) \ {c} ELSE Elements(table[m])
    BY <1>4, <1>6 DEF IInv
  <2>2. \A m \in live : c \in Elements(table[m]) => m = n
    BY <1>3 DEF IInv, Parents
  <2>3. ASSUME NEW x \in live
        PROVE  x \in hands' <=> \A m \in live : x \notin Elements(table'[m])
    <3>1. x \in hands <=> \A m \in live : x \notin Elements(table[m])
      BY DEF IInv, Parents
    <3>2. x \in hands' <=> x \in hands \/ x = c
      BY <1>1
    <3>3. \A m \in live :
            x \in Elements(table'[m]) <=> x \in Elements(table[m]) /\ ~(m = n /\ x = c)
      BY <2>1
    <3>4. QED
      BY <2>2, <3>1, <3>2, <3>3
  <2>4. ASSUME NEW m \in live, NEW k \in live, m # k
        PROVE  Elements(table'[m]) \cap Elements(table'[k]) = {}
    BY <2>1, <2>4 DEF IInv, Parents
  <2>5. QED
    BY <1>1, <2>3, <2>4 DEF Parents
<1>10. QED
  BY <1>1, <1>3, <1>7, <1>8, <1>9 DEF IInv

(* The children of n change their parent.                                  *)
LEMMA TransferChildrenInv ==
  ASSUME IInv, NEW n \in live, NEW m \in live, TransferChildren(n, m)
  PROVE  IInv'
<1>1. /\ n \notin leaf /\ Unrelated(n, m) /\ Slots(m) = {}
      /\ table' = [table EXCEPT ![m] = table[n], ![n] = NoChildren]
      /\ leaf' = leaf \ {m}
      /\ UNCHANGED <<live, valued, val, prefix, hands, outside, use>>
  BY DEF TransferChildren
<1>2. n \in Names /\ m \in Names /\ n # m
  BY <1>1 DEF IInv, Unrelated, Below
<1>3. Elements(table[m]) = {}
  BY <1>1, SlotsAre
<1>4. \A k \in Names :
        table'[k] = IF k = n THEN NoChildren ELSE IF k = m THEN table[n] ELSE table[k]
  BY <1>1, <1>2 DEF IInv, Shapes
<1>5. Shapes(live', leaf', table')
  <2>1. DOMAIN table' = Names /\ table' = [k \in Names |-> table'[k]]
    BY <1>1 DEF IInv, Shapes
  <2>2. \A k \in Names : Whole(table'[k])
    BY <1>2, <1>4, EmptyTable DEF IInv, Shapes
  <2>3. \A k \in Names : k \notin live' \/ k \in leaf' => table'[k] = NoChildren
    BY <1>1, <1>4 DEF IInv, Shapes
  <2>4. QED
    BY <2>1, <2>2, <2>3 DEF Shapes
<1>6. Filed(live', prefix', table')
  <2>1. InStep(NoChildren, First(prefix), live)
    BY EmptyTable DEF InStep
  <2>2. QED
    BY <1>1, <1>2, <1>4, <2>1 DEF IInv, Filed
<1>7. Parents(live', hands', table')
  <2>1. \A k \in live : Elements(table'[k]) =
          IF k = n THEN {} ELSE IF k = m THEN Elements(table[n]) ELSE Elements(table[k])
    BY <1>4, EmptyTable DEF IInv
  <2>2. ASSUME NEW x \in live
        PROVE  x \in hands' <=> \A k \in live : x \notin Elements(table'[k])
    <3>1. (\A k \in live : x \notin Elements(table'[k]))
            <=> \A k \in live : x \notin Elements(table[k])
      BY <1>2, <1>3, <2>1
    <3>2. QED
      BY <1>1, <3>1 DEF IInv, Parents
  <2>3. ASSUME NEW j \in live, NEW k \in live, j # k
        PROVE  Elements(table'[j]) \cap Elements(table'[k]) = {}
    BY <1>2, <1>3, <2>1, <2>3 DEF IInv, Parents
  <2>4. QED
    BY <1>1, <2>2, <2>3 DEF Parents
<1>8. QED
  BY <1>1, <1>5, <1>6, <1>7 DEF IInv

(* A node with a parent keeps the first byte of its prefix.                *)
LEMMA SetPrefixInv ==
  ASSUME IInv, NEW n \in live, NEW d \in Seq(Bytes), SetPrefix(n, new(d)),
         n \in hands \/ first_byte(new(d)) = first_byte(prefix[n])
  PROVE  IInv'
<1>1. /\ prefix' = [prefix EXCEPT ![n] = new(d)]
      /\ UNCHANGED <<live, leaf, valued, val, table, hands, outside, use>>
  BY DEF SetPrefix
<1>2. prefix' \in [Names -> Prefixes]
  BY <1>1 DEF IInv, Prefixes
<1>3. Filed(live', prefix', table')
  <2> SUFFICES ASSUME NEW m \in Names
               PROVE  InStep(table[m], First(prefix'), live)
    BY <1>1 DEF Filed
  <2>1. InStep(table[m], First(prefix), live)
    BY DEF IInv, Filed
  <2>2. ASSUME NEW c \in Elements(table[m])
        PROVE  c \in live /\ First(prefix')[c] = First(prefix)[c]
    <3>1. m \in live /\ c \in live /\ c \in Names
      BY <2>2, State
    <3>2. c \notin hands
      BY <3>1 DEF IInv, Parents
    <3>3. first_byte(prefix'[c]) = first_byte(prefix[c])
      BY <1>1, <3>1, <3>2 DEF IInv
    <3>4. QED
      BY <3>1, <3>3 DEF First
  <2>3. QED
    BY <2>1, <2>2, InStepStays
<1>4. QED
  BY <1>1, <1>2, <1>3 DEF IInv

LEMMA CutPrefixInv ==
  ASSUME IInv, NEW n \in live, NEW l \in 0 .. len(prefix[n]) - 1, CutPrefix(n, l)
  PROVE  IInv'
<1> DEFINE d == as_ref(prefix[n])
           e == SubSeq(d, 1, l)
<1>1. n \in Names /\ prefix \in [Names -> Prefixes]
  BY DEF IInv
<1>2. d \in Seq(Bytes) /\ prefix[n] = new(d) /\ len(prefix[n]) = Len(d)
  BY <1>1, PrefixIs
<1>3. l \in 0 .. Len(d) - 1 /\ Len(d) \in Nat
  BY <1>2
<1>4. e \in Seq(Bytes) /\ Len(e) = l /\ (l > 0 => e[1] = d[1])
  BY <1>2, <1>3, CutForm
<1>5. SetPrefix(n, new(e)) /\ (n \in hands \/ l > 0)
  BY DEF CutPrefix
<1> HIDE DEF d, e
<1>6. l > 0 => first_byte(new(e)) = first_byte(prefix[n])
  BY <1>2, <1>3, <1>4, Forms
<1>7. QED
  BY <1>4, <1>5, <1>6, SetPrefixInv

LEMMA JoinPrefixesInv ==
  ASSUME IInv, NEW n \in live, NEW p \in live, NEW q \in live, JoinPrefixes(n, p, q)
  PROVE  IInv'
<1> DEFINE s == as_ref(prefix[p])
           t == as_ref(prefix[q])
<1>1. p \in Names /\ q \in Names /\ prefix \in [Names -> Prefixes]
  BY DEF IInv
<1>2. /\ s \in Seq(Bytes) /\ prefix[p] = new(s) /\ len(prefix[p]) = Len(s)
      /\ t \in Seq(Bytes)
  BY <1>1, PrefixIs
<1>3. /\ n \in {p, q} /\ q \in hands /\ (n \in hands \/ len(prefix[p]) > 0)
      /\ SetPrefix(n, from_slices(s, t))
  BY DEF JoinPrefixes
<1>4. /\ s \o t \in Seq(Bytes) /\ from_slices(s, t) = new(s \o t)
      /\ s # <<>> => (s \o t)[1] = s[1]
  BY <1>2, JoinedForm
<1>5. SetPrefix(n, new(s \o t))
  BY <1>3, <1>4
<1>6. n \in hands \/ first_byte(new(s \o t)) = first_byte(prefix[n])
  <2>1. SUFFICES ASSUME n \notin hands
                 PROVE  first_byte(new(s \o t)) = first_byte(prefix[n])
    OBVIOUS
  <2>2. n = p /\ Len(s) > 0 /\ s # <<>>
    BY <1>2, <1>3, <2>1
  <2>3. Len(s \o t) > 0
    BY <1>2, <2>2
  <2>4. first_byte(new(s \o t)) = (s \o t)[1]
    BY <1>4, <2>3, Forms
  <2>5. first_byte(new(s)) = s[1]
    BY <1>2, <2>2, Forms
  <2>6. QED
    BY <1>2, <1>4, <2>2, <2>4, <2>5
<1>7. QED
  BY <1>4, <1>5, <1>6, SetPrefixInv

------------------------------------------------------------------------------
(* A subtree is closed under children, and only its root has no parent in  *)
(* it.                                                                     *)
LEMMA Subtree ==
  ASSUME IInv, NEW n \in live
  PROVE  /\ n \in Below(n) /\ Below(n) \subseteq live
         /\ \A m \in Below(n) : Elements(table[m]) \subseteq Below(n)
         /\ \A c \in Below(n) \ {n} : \E m \in Below(n) : c \in Elements(table[m])
<1> DEFINE D == Below(n)
<1>1. n \in D /\ D \subseteq live
  BY DEF Below
<1>2. ASSUME NEW m \in D, NEW c \in Elements(table[m])
      PROVE  c \in D
  <2>1. c \in live
    BY <1>1, State
  <2>2. ASSUME NEW S \in SUBSET live, n \in S, Closed(S)
        PROVE  c \in S
    <3>1. m \in S
      BY <2>2 DEF Below
    <3>2. QED
      BY <2>2, <3>1, SlotsAre DEF Closed
  <2>3. QED
    BY <2>1, <2>2 DEF Below
<1>3. ASSUME NEW c \in D \ {n}, \A m \in D : c \notin Elements(table[m])
      PROVE  FALSE
  <2>1. D \ {c} \in SUBSET live /\ n \in D \ {c}
    BY <1>1
  <2>2. Closed(D \ {c})
    BY <1>2, <1>3, SlotsAre DEF Closed
  <2>3. c \in D \ {c}
    BY <2>1, <2>2 DEF Below
  <2>4. QED
    BY <2>3
<1>4. QED
  BY <1>1, <1>2, <1>3

(* The subtree goes; a child of any other node stays.                      *)
LEMMA DropNodeInv ==
  ASSUME IInv, NEW n \in live, DropNode(n)
  PROVE  IInv'
<1> DEFINE D == Below(n)
<1>1. /\ n \in hands /\ live' = live \ D /\ leaf' = leaf \ D /\ valued' = valued \ D
      /\ outside' = outside \cup {val[x] : x \in D \cap valued}
      /\ val' = [x \in Names |-> IF x \in D THEN Junk ELSE val[x]]
      /\ prefix' = [x \in Names |-> IF x \in D THEN Blank ELSE prefix[x]]
      /\ table' = [x \in Names |-> IF x \in D THEN NoChildren ELSE table[x]]
      /\ hands' = hands \ {n} /\ use' = use
  BY DEF DropNode
<1>2. /\ n \in D /\ D \subseteq live
      /\ \A m \in D : Elements(table[m]) \subseteq D
      /\ \A c \in D \ {n} : \E m \in D : c \in Elements(table[m])
  BY Subtree
<1> HIDE DEF D
<1>3. /\ leaf \cup valued \cup hands \subseteq live /\ live \subseteq Names
      /\ Parents(live, hands, table) /\ Kept(valued, val, outside)
  BY DEF IInv
<1>4. hands' \subseteq live'
  BY <1>1, <1>2, <1>3 DEF Parents
<1>5. prefix' \in [Names -> Prefixes]
  <2>1. Blank \in Prefixes
    BY EmptySeq DEF Blank, Prefixes
  <2>2. QED
    BY <1>1, <2>1 DEF IInv
<1>6. \A m \in Names : table'[m] = IF m \in D THEN NoChildren ELSE table[m]
  BY <1>1
<1>7. Shapes(live', leaf', table')
  <2>1. DOMAIN table' = Names /\ table' = [m \in Names |-> table'[m]]
    BY <1>1
  <2>2. \A m \in Names : Whole(table'[m])
    BY <1>6, EmptyTable DEF IInv, Shapes
  <2>3. \A m \in Names : m \notin live' \/ m \in leaf' => table'[m] = NoChildren
    BY <1>1, <1>6 DEF IInv, Shapes
  <2>4. QED
    BY <2>1, <2>2, <2>3 DEF Shapes
<1>8. ASSUME NEW m \in live \ D, NEW c \in Elements(table[m])
      PROVE  c \in live \ D
  <2>1. c \in live
    BY <1>3, State
  <2>2. c \notin hands
    BY <1>3, <2>1 DEF Parents
  <2>3. c # n
    BY <1>1, <2>2
  <2>4. ASSUME c \in D
        PROVE  FALSE
    <3>1. PICK k \in D : c \in Elements(table[k])
      BY <1>2, <2>3, <2>4
    <3>2. k \in live /\ k # m /\ m \in live
      BY <1>2
    <3>3. Elements(table[m]) \cap Elements(table[k]) = {}
      BY <1>3, <3>2 DEF Parents
    <3>4. QED
      BY <3>1, <3>3
  <2>5. QED
    BY <2>1, <2>4
<1>9. Filed(live', prefix', table')
  <2> SUFFICES ASSUME NEW m \in Names
               PROVE  InStep(table'[m], First(prefix'), live')
    BY DEF Filed
  <2>1. CASE m \in D
    BY <1>6, <2>1, EmptyTable DEF InStep
  <2>2. CASE m \notin D
    <3>1. InStep(table[m], First(prefix), live)
      BY DEF IInv, Filed
    <3>2. ASSUME NEW c \in Elements(table[m])
          PROVE  c \in live' /\ First(prefix')[c] = First(prefix)[c]
      <4>1. m \in live \ D
        BY <2>2, <3>2, State
      <4>2. c \in live \ D /\ c \in Names
        BY <1>3, <1>8, <4>1
      <4>3. QED
        BY <1>1, <4>2 DEF First
    <3>3. table'[m] = table[m]
      BY <1>6, <2>2
    <3>4. QED
      BY <3>1, <3>2, <3>3, InStepStays
  <2>3. QED
    BY <2>1, <2>2
<1>10. Parents(live', hands', table')
  <2>1. \A m \in live \ D : table'[m] = table[m]
    BY <1>3, <1>6
  <2>2. ASSUME NEW c \in live \ D
        PROVE  c \in hands' <=> \A m \in live \ D : c \notin Elements(table'[m])
    <3>1. c \in hands' <=> c \in hands
      BY <1>1, <1>2
    <3>2. c \in hands <=> \A m \in live : c \notin Elements(table[m])
      BY <1>3 DEF Parents
    <3>3. \A m \in D : c \notin Elements(table[m])
      BY <1>2
    <3>4. QED
      BY <2>1, <3>1, <3>2, <3>3
  <2>3. \A m, k \in live \ D : m # k => Elements(table'[m]) \cap Elements(table'[k]) = {}
    BY <1>3, <2>1 DEF Parents
  <2>4. QED
    BY <1>1, <2>2, <2>3 DEF Parents
<1>11. Kept(valued', val', outside')
  <2>1. \A m \in Names : val'[m] = IF m \in D THEN Junk ELSE val[m]
    BY <1>1
  <2>2. val' \in [Names -> Values \cup {Junk}] /\ outside' \subseteq Values
    BY <1>1, <1>3 DEF Kept
  <2>3. \A m \in Names : val'[m] \in IF m \in valued' THEN Values ELSE {Junk}
    BY <1>1, <1>3, <2>1 DEF Kept
  <2>4. ASSUME NEW v \in Values
        PROVE  v \in outside' <=> \A m \in valued' : val'[m] # v
    <3>1. v \in outside <=> \A m \in valued : val[m] # v
      BY <1>3 DEF Kept
    <3>2. v \in outside' <=> v \in outside \/ \E m \in valued \cap D : val[m] = v
      BY <1>1
    <3>3. \A m \in valued' : m \in valued \ D /\ val'[m] = val[m]
      BY <1>1, <1>3, <2>1
    <3>4. \A m, k \in valued : val[m] = val[k] => m = k
      BY <1>3 DEF Kept
    <3>5. QED
      BY <1>1, <3>1, <3>2, <3>3, <3>4
  <2>5. \A m, k \in valued' : val'[m] = val'[k] => m = k
    BY <1>1, <1>3, <2>1 DEF Kept
  <2>6. QED
    BY <2>2, <2>3, <2>4, <2>5 DEF Kept
<1>12. QED
  BY <1>1, <1>3, <1>4, <1>5, <1>7, <1>9, <1>10, <1>11 DEF IInv

------------------------------------------------------------------------------
LEMMA StepInv == IInv /\ [Next]_vars => IInv'
<1> SUFFICES ASSUME IInv, [Next]_vars PROVE IInv'
  OBVIOUS
<1>1. CASE UNCHANGED vars
  BY <1>1 DEF vars, IInv
<1>2. ASSUME NEW n \in Names, NEW text \in use.texts, New(n, text)
      PROVE  IInv'
  BY <1>2, NewInv
<1>3. ASSUME NEW n \in live, NEW v \in use.values, SetVal(n, v)
      PROVE  IInv'
  BY <1>3, SetValInv
<1>4. ASSUME NEW n \in live, TakeVal(n)
      PROVE  IInv'
  BY <1>4, TakeValInv
<1>5. ASSUME NEW n \in live, NEW c \in live, InsertChild(n, c)
      PROVE  IInv'
  BY <1>5, InsertChildInv
<1>6. ASSUME NEW n \in live, NEW b \in Present(table[n]), RemoveChild(n, b)
      PROVE  IInv'
  BY <1>6, RemoveChildInv
<1>7. ASSUME NEW n \in live, NEW m \in live, TransferChildren(n, m)
      PROVE  IInv'
  BY <1>7, TransferChildrenInv
<1>8. ASSUME NEW n \in live, NEW l \in 0 .. len(prefix[n]) - 1, CutPrefix(n, l)
      PROVE  IInv'
  BY <1>8, CutPrefixInv
<1>9. ASSUME NEW n \in live, NEW p \in live, NEW q \in live, JoinPrefixes(n, p, q)
      PROVE  IInv'
  BY <1>9, JoinPrefixesInv
<1>10. ASSUME NEW n \in live, DropNode(n)
       PROVE  IInv'
  BY <1>10, DropNodeInv
<1>11. QED
  BY <1>1, <1>2, <1>3, <1>4, <1>5, <1>6, <1>7, <1>8, <1>9, <1>10 DEF Next

LEMMA Invariant == Spec => []IInv
BY InitInv, StepInv, PTL DEF Spec

(* No memory that holds no value is read as one, and a prefix is bytes.    *)
THEOREM TypeCorrect == Spec => []TypeOK
<1>1. IInv => TypeOK
  <2> SUFFICES ASSUME IInv PROVE TypeOK
    OBVIOUS
  <2>1. \A n \in Names : as_ref(prefix[n]) \in Seq(Bytes)
    BY PrefixIs DEF IInv
  <2>2. \A n \in Names : val[n] \in IF n \in valued THEN Values ELSE {Junk}
    BY DEF IInv, Kept
  <2>3. \A n \in Names : n \in leaf => table[n] = NoChildren
    BY DEF IInv, Shapes
  <2>4. QED
    BY <2>1, <2>2, <2>3 DEF TypeOK, IInv, Kept
<1>2. QED
  BY Invariant, <1>1, PTL

(* node.rs:220: the bits below that of a byte count to the slot of the     *)
(* child that starts with it, whatever was inserted and removed before.    *)
THEOREM FiledCorrectly == Spec => []FiledInOrder
<1>1. IInv => FiledInOrder
  <2> SUFFICES ASSUME IInv, NEW n \in live
               PROVE
                 /\ len_children(table[n]) <= capacity(table[n].vec)
                 /\ \A b \in Present(table[n]) :
                      /\ Child(table[n], b) \in live
                      /\ first_byte(prefix[Child(table[n], b)]) = b
                 /\ \A i, j \in Visited(table[n]) :
                      i < j => first_byte(prefix[get_child_by_idx(table[n], i)])
                                 < first_byte(prefix[get_child_by_idx(table[n], j)])
    BY DEF FiledInOrder
  <2> DEFINE t == table[n]
             f == First(prefix)
  <2>1. n \in Names /\ live \subseteq Names /\ Whole(t) /\ InStep(t, f, live)
    BY DEF IInv, Shapes, Filed
  <2>2. \A c \in live : f[c] = first_byte(prefix[c])
    BY <2>1 DEF First
  <2> HIDE DEF t, f
  <2>3. len_children(t) <= capacity(t.vec)
    BY <2>1 DEF Whole
  <2>4. ASSUME NEW b \in Present(t)
        PROVE  Child(t, b) \in live /\ first_byte(prefix[Child(t, b)]) = b
    BY <2>1, <2>2, Lookup
  <2>5. ASSUME NEW i \in Visited(t), NEW j \in Visited(t), i < j
        PROVE  first_byte(prefix[get_child_by_idx(t, i)])
                 < first_byte(prefix[get_child_by_idx(t, j)])
    <3>1. f[t.vec.buf[i]] < f[t.vec.buf[j]]
      BY <2>1, <2>5, Ordered
    <3>2. t.vec.buf[i] \in live /\ t.vec.buf[j] \in live
      BY <2>1 DEF InStep
    <3>3. QED
      BY <2>2, <3>1, <3>2 DEF get_child_by_idx
  <2>6. QED
    BY <2>3, <2>4, <2>5 DEF t
<1>2. QED
  BY Invariant, <1>1, PTL

(* util.rs:125: the assertion on the tag cannot fail.                      *)
THEOREM RoomSuffices == Spec => []RoomForAll
<1>1. IInv => RoomForAll
  <2> SUFFICES ASSUME IInv, NEW n \in live, Bytes # Present(table[n])
               PROVE  ~Overflows(table[n].vec, len_children(table[n]))
    BY DEF RoomForAll
  <2>1. Whole(table[n]) /\ InStep(table[n], First(prefix), live)
    BY DEF IInv, Shapes, Filed
  <2>2. QED
    BY <2>1, Room
<1>2. QED
  BY Invariant, <1>1, PTL

(* node.rs:311, 353 and 395: a node and a value have one owner.            *)
THEOREM OneOwner == Spec => []OwnedOnce
<1>1. IInv => OwnedOnce
  <2> SUFFICES ASSUME IInv PROVE OwnedOnce
    OBVIOUS
  <2>1. live \subseteq Names /\ Parents(live, hands, table) /\ Kept(valued, val, outside)
    BY DEF IInv
  <2>2. \A n \in live : n \in hands <=> \A m \in live : n \notin Slots(m)
    BY <2>1, SlotsAre DEF Parents
  <2>3. ASSUME NEW m \in live, NEW n \in live,
               NEW i \in Visited(table[m]), NEW j \in Visited(table[n]),
               get_child_by_idx(table[m], i) = get_child_by_idx(table[n], j)
        PROVE  m = n /\ i = j
    <3> DEFINE t == table[m]
    <3>1. t.vec.buf[i] = table[n].vec.buf[j]
      BY <2>3 DEF get_child_by_idx
    <3>2. t.vec.buf[i] \in Elements(t) /\ table[n].vec.buf[j] \in Elements(table[n])
      BY DEF Elements
    <3>3. m = n
      BY <2>1, <3>1, <3>2 DEF Parents
    <3>4. Whole(t) /\ InStep(t, First(prefix), live)
      BY <2>1 DEF IInv, Shapes, Filed
    <3>5. i \in Int /\ j \in Int /\ j \in Visited(t)
      BY <3>3 DEF Visited
    <3>6. First(prefix)[t.vec.buf[i]] \in Int
      BY <3>4, BytesAreNumbers DEF InStep
    <3>7. ~(i < j) /\ ~(j < i)
      BY <3>1, <3>3, <3>4, <3>5, <3>6, Ordered
    <3>8. QED
      BY <3>3, <3>5, <3>7
  <2>4. QED
    BY <2>1, <2>2, <2>3 DEF OwnedOnce, Kept
<1>2. QED
  BY Invariant, <1>1, PTL

------------------------------------------------------------------------------
(* TrieNode implements NodeForest.  KidsOf is the map that a table stands  *)
(* for, Tree the node that NodeForest has for n.                           *)

KidsOf(t) == [b \in Present(t) |-> Child(t, b)]
Tree(n) ==
  [prefix |-> as_ref(prefix[n]),
   val |-> IF n \in valued THEN val[n] ELSE None,
   kids |-> KidsOf(table[n])]
Trees == [n \in live |-> Tree(n)]

LEMMA TreeAfter ==
  ASSUME NEW n
  PROVE  Tree(n)' = [prefix |-> as_ref(prefix'[n]),
                     val |-> IF n \in valued' THEN val'[n] ELSE None,
                     kids |-> KidsOf(table'[n])]
BY DEF Tree, KidsOf

LEMMA NoKids == KidsOf(NoChildren) = <<>> /\ Present(NoChildren) = {}
<1>1. Present(NoChildren) = {}
  BY EmptyTable, PositionOf DEF Present
<1>2. KidsOf(NoChildren) = [b \in {} |-> Child(NoChildren, b)]
  BY <1>1 DEF KidsOf
<1>3. QED
  BY <1>1, <1>2

(* What a table holds determines the map.                                  *)
LEMMA Kids ==
  ASSUME NEW t, NEW f, NEW E, Whole(t), InStep(t, f, E)
  PROVE  /\ DOMAIN KidsOf(t) = Present(t)
         /\ \A b \in Present(t) : /\ KidsOf(t)[b] = Child(t, b)
                                 /\ Child(t, b) \in Elements(t) /\ f[Child(t, b)] = b
         /\ \A c \in Elements(t) : f[c] \in Present(t) /\ Child(t, f[c]) = c
         /\ {KidsOf(t)[b] : b \in DOMAIN KidsOf(t)} = Elements(t)
<1>1. DOMAIN KidsOf(t) = Present(t) /\ \A b \in Present(t) : KidsOf(t)[b] = Child(t, b)
  BY DEF KidsOf
<1>2. ASSUME NEW b \in Present(t)
      PROVE  Child(t, b) \in Elements(t) /\ f[Child(t, b)] = b
  BY Lookup
<1>3. ASSUME NEW c \in Elements(t)
      PROVE  f[c] \in Present(t) /\ Child(t, f[c]) = c
  <2>1. PICK j \in Visited(t) : c = t.vec.buf[j]
    BY DEF Elements
  <2>2. /\ f[c] \in Bytes /\ child_exists(t, child_pos_from_byte(f[c]))
        /\ child_idx_from_pos(t, child_pos_from_byte(f[c])) = j
    BY <2>1 DEF InStep
  <2>3. QED
    BY <2>1, <2>2 DEF Present, Child, get_child_by_pos, get_child_by_idx
<1>4. {KidsOf(t)[b] : b \in DOMAIN KidsOf(t)} = Elements(t)
  BY <1>1, <1>2, <1>3
<1>5. QED
  BY <1>1, <1>2, <1>3, <1>4

LEMMA KidsAdded ==
  ASSUME NEW t, NEW u, NEW f, NEW E, Whole(t), InStep(t, f, E), Whole(u), InStep(u, f, E),
         NEW c, f[c] \notin Present(t), Elements(u) = Elements(t) \cup {c}
  PROVE  KidsOf(u) = [x \in Present(t) \cup {f[c]} |->
                        IF x = f[c] THEN c ELSE KidsOf(t)[x]]
<1>1. Present(u) = Present(t) \cup {f[c]}
  <2>1. Present(t) = {f[e] : e \in Elements(t)} /\ Present(u) = {f[e] : e \in Elements(u)}
    BY Kids
  <2>2. QED
    BY <2>1
<1>2. Child(u, f[c]) = c
  BY Kids
<1>3. ASSUME NEW x \in Present(t)
      PROVE  Child(u, x) = Child(t, x) /\ KidsOf(t)[x] = Child(t, x)
  <2>1. Child(t, x) \in Elements(u) /\ f[Child(t, x)] = x /\ KidsOf(t)[x] = Child(t, x)
    BY Kids
  <2>2. QED
    BY <2>1, Kids
<1>4. QED
  BY <1>1, <1>2, <1>3 DEF KidsOf

LEMMA KidsRemoved ==
  ASSUME NEW t, NEW u, NEW f, NEW E, Whole(t), InStep(t, f, E), Whole(u), InStep(u, f, E),
         NEW b \in Present(t), Elements(u) = Elements(t) \ {Child(t, b)}
  PROVE  KidsOf(u) = [x \in Present(t) \ {b} |-> KidsOf(t)[x]]
<1>1. /\ Present(t) = {f[e] : e \in Elements(t)} /\ Present(u) = {f[e] : e \in Elements(u)}
      /\ \A x \in Present(t) : /\ Child(t, x) \in Elements(t) /\ f[Child(t, x)] = x
                              /\ KidsOf(t)[x] = Child(t, x)
      /\ \A e \in Elements(t) : Child(t, f[e]) = e
      /\ \A e \in Elements(u) : Child(u, f[e]) = e
  BY Kids
<1>2. Present(u) = Present(t) \ {b}
  BY <1>1
<1>3. ASSUME NEW x \in Present(t) \ {b}
      PROVE  Child(u, x) = KidsOf(t)[x]
  BY <1>1
<1>4. QED
  BY <1>2, <1>3 DEF KidsOf

LEMMA TreeStays ==
  ASSUME NEW n, prefix'[n] = prefix[n], table'[n] = table[n], val'[n] = val[n],
         n \in valued' <=> n \in valued
  PROVE  Tree(n)' = Tree(n)
BY DEF Tree, KidsOf

(* The subtrees are the same on both levels.                               *)
LEMMA SameSubtrees ==
  ASSUME IInv
  PROVE  /\ \A n \in live : Trees[n] = Tree(n) /\ Forest!Kids(n) = Slots(n)
         /\ \A n : Forest!Below(n) = Below(n)
<1>1. ASSUME NEW n \in live
      PROVE  Trees[n] = Tree(n) /\ Forest!Kids(n) = Slots(n)
  <2>1. Whole(table[n]) /\ InStep(table[n], First(prefix), live)
    BY DEF IInv, Shapes, Filed
  <2>2. {KidsOf(table[n])[b] : b \in DOMAIN KidsOf(table[n])} = Elements(table[n])
    BY <2>1, Kids
  <2>3. Forest!Kids(n) = {KidsOf(table[n])[b] : b \in DOMAIN KidsOf(table[n])}
    BY DEF Forest!Kids, KidsOf
  <2>4. QED
    BY <2>2, <2>3, SlotsAre DEF Trees
<1>2. ASSUME NEW S \in SUBSET live
      PROVE  Forest!Closed(S) <=> Closed(S)
  BY <1>1 DEF Forest!Closed, Closed
<1>3. Forest!live = live
  BY DEF Forest!live
<1>4. ASSUME NEW n
      PROVE  Forest!Below(n) = Below(n)
  BY <1>2, <1>3 DEF Forest!Below, Below
<1>5. QED
  BY <1>1, <1>4

LEMMA NewMaps ==
  ASSUME IInv, IInv', NEW n \in Names, NEW text \in use.texts, New(n, text)
  PROVE  Forest!Next
<1>1. /\ n \notin live /\ live' = live \cup {n} /\ hands' = hands \cup {n}
      /\ prefix' = [prefix EXCEPT ![n] = new(text)]
      /\ valued' = valued /\ val' = val /\ table' = table
  BY DEF New
<1>2. text \in Texts /\ text \in Seq(Bytes)
  BY UsesAssumption DEF IInv
<1>3. Tree(n)' = Forest!Node(text)
  <2>1. as_ref(prefix'[n]) = text
    BY <1>1, <1>2, Forms DEF IInv
  <2>2. table'[n] = NoChildren /\ n \notin valued'
    BY <1>1 DEF IInv, Shapes
  <2>3. QED
    BY <2>1, <2>2, NoKids DEF Tree, KidsOf, Forest!Node
<1>4. ASSUME NEW x \in live
      PROVE  Tree(x)' = Trees[x]
  <2>1. prefix'[x] = prefix[x]
    BY <1>1, <1>4 DEF IInv
  <2>2. QED
    BY <1>1, <2>1, TreeStays DEF Trees
<1>5. Trees' = [x \in live \cup {n} |-> IF x = n THEN Forest!Node(text) ELSE Trees[x]]
  BY <1>1, <1>3, <1>4 DEF Trees
<1>6. Forest!New(n, text)
  BY <1>1, <1>5 DEF Forest!New, Forest!live, Trees, Tree, KidsOf, IInv
<1>7. QED
  BY <1>2, <1>6 DEF Forest!Next

(* A step that changes one node, and what it is to change it.              *)
LEMMA OneChange ==
  ASSUME NEW n \in live, live' = live,
         \A x \in live \ {n} : Tree(x)' = Tree(x)
  PROVE  Trees' = [Trees EXCEPT ![n] = Tree(n)']
BY DEF Trees

LEMMA SetValMaps ==
  ASSUME IInv, IInv', NEW n \in live, NEW v \in use.values, SetVal(n, v)
  PROVE  Forest!Next
<1>1. /\ v \in outside /\ val' = [val EXCEPT ![n] = v] /\ valued' = valued \cup {n}
      /\ live' = live /\ prefix' = prefix /\ table' = table /\ hands' = hands
  BY DEF SetVal
<1>2. v \in Values /\ n \in Names /\ live \subseteq Names
  BY <1>1 DEF IInv, Kept
<1>3. \A x \in Names : val'[x] = IF x = n THEN v ELSE val[x]
  BY <1>1 DEF IInv, Kept
<1>4. ASSUME NEW x \in live \ {n}
      PROVE  Tree(x)' = Tree(x)
  BY <1>1, <1>2, <1>3, TreeStays
<1>5. Tree(n)' = [Tree(n) EXCEPT !.val = v]
  BY <1>1, <1>2, <1>3, TreeAfter DEF Tree
<1>6. Trees' = [Trees EXCEPT ![n].val = v]
  BY <1>1, <1>4, <1>5, OneChange DEF Trees
<1>7. Forest!SetVal(n, v)
  BY <1>1, <1>6 DEF Forest!SetVal, Trees, Tree, KidsOf
<1>8. QED
  BY <1>2, <1>7 DEF Forest!Next, Forest!live

LEMMA TakeValMaps ==
  ASSUME IInv, IInv', NEW n \in live, TakeVal(n)
  PROVE  Forest!Next
<1>1. /\ n \in valued /\ val' = [val EXCEPT ![n] = Junk] /\ valued' = valued \ {n}
      /\ live' = live /\ prefix' = prefix /\ table' = table /\ hands' = hands
  BY DEF TakeVal
<1>2. n \in Names /\ live \subseteq Names /\ val[n] # None
  BY <1>1, NamesAssumption DEF IInv, Kept
<1>3. \A x \in Names : val'[x] = IF x = n THEN Junk ELSE val[x]
  BY <1>1 DEF IInv, Kept
<1>4. ASSUME NEW x \in live \ {n}
      PROVE  Tree(x)' = Tree(x)
  BY <1>1, <1>2, <1>3, TreeStays
<1>5. Tree(n)' = [Tree(n) EXCEPT !.val = None]
  BY <1>1, <1>2, <1>3, TreeAfter DEF Tree
<1>6. Trees' = [Trees EXCEPT ![n].val = None]
  BY <1>1, <1>4, <1>5, OneChange DEF Trees
<1>7. Forest!SetVal(n, None)
  BY <1>1, <1>6 DEF Forest!SetVal, Trees, Tree, KidsOf
<1>8. Trees[n].val # None
  BY <1>1, <1>2 DEF Trees, Tree
<1>9. Forest!TakeVal(n)
  BY <1>7, <1>8 DEF Forest!TakeVal, Trees, Tree, KidsOf
<1>10. QED
  BY <1>9 DEF Forest!Next, Forest!live

LEMMA InsertChildMaps ==
  ASSUME IInv, IInv', NEW n \in live, NEW c \in live, InsertChild(n, c)
  PROVE  Forest!Next
<1> DEFINE b == first_byte(prefix[c])
           pos == child_pos_from_byte(b)
           f == First(prefix)
           t == table[n]
           u == insert_child(t, pos, c)
           old == Trees[n].kids
<1>1. Upgraded(n) = t
  BY State DEF Upgraded
<1>2. /\ c \in hands /\ n \notin Below(c) /\ len(prefix[c]) > 0
      /\ ~child_exists(t, pos) /\ ~Overflows(t.vec, len_children(t))
      /\ table' = [table EXCEPT ![n] = u] /\ hands' = hands \ {c}
      /\ live' = live /\ valued' = valued /\ val' = val /\ prefix' = prefix
  BY <1>1 DEF InsertChild
<1>3. n \in Names /\ c \in Names /\ n # c /\ live \subseteq Names
  BY <1>2 DEF IInv, Below
<1>4. /\ b \in Bytes /\ f[c] = b
      /\ Len(as_ref(prefix[c])) > 0 /\ b = as_ref(prefix[c])[1]
  BY <1>2, <1>3, PrefixIs DEF IInv, First
<1>5. Whole(t) /\ InStep(t, f, live)
  BY <1>3 DEF IInv, Shapes, Filed
<1>6. Whole(u) /\ InStep(u, f, live) /\ Elements(u) = Elements(t) \cup {c}
  BY <1>2, <1>4, <1>5, InsertStep
<1>7. old = KidsOf(t) /\ DOMAIN old = Present(t) /\ b \notin Present(t)
  BY <1>2 DEF Trees, Tree, KidsOf, Present
<1>8. KidsOf(u) = [x \in DOMAIN old \cup {b} |-> IF x = b THEN c ELSE old[x]]
  <2> HIDE DEF f, t, u, b, old
  <2>1. f[c] \notin Present(t)
    BY <1>4, <1>7
  <2>2. KidsOf(u) = [x \in Present(t) \cup {f[c]} |-> IF x = f[c] THEN c ELSE KidsOf(t)[x]]
    BY <1>5, <1>6, <2>1, KidsAdded
  <2>3. QED
    BY <1>4, <1>7, <2>2
<1> HIDE DEF u, old
<1>9. \A x \in Names : table'[x] = IF x = n THEN u ELSE table[x]
  BY <1>2, <1>3 DEF IInv, Shapes
<1>10. ASSUME NEW x \in live \ {n}
       PROVE  Tree(x)' = Tree(x)
  BY <1>2, <1>3, <1>9, TreeStays
<1>11. Tree(n)' = [Tree(n) EXCEPT !.kids = KidsOf(u)]
  BY <1>2, <1>3, <1>9, TreeAfter DEF Tree
<1>12. Trees' = [Trees EXCEPT ![n].kids = KidsOf(u)]
  BY <1>2, <1>10, <1>11, OneChange DEF Trees
<1>13. Trees[c].prefix = as_ref(prefix[c]) /\ Trees[c].prefix # <<>>
  BY <1>4 DEF Trees, Tree
<1>14. n \notin Forest!Below(c)
  BY <1>2, SameSubtrees
<1>15. Forest!InsertChild(n, c)
  <2> DEFINE bb == Trees[c].prefix[1]
  <2>1. bb = b
    BY <1>4, <1>13
  <2>2. /\ c \in hands /\ hands' = hands \ {c}
        /\ Trees[c].prefix # <<>> /\ bb \notin DOMAIN Trees[n].kids
        /\ Trees' = [Trees EXCEPT ![n].kids =
                       [x \in DOMAIN Trees[n].kids \cup {bb} |->
                          IF x = bb THEN c ELSE Trees[n].kids[x]]]
    <3>1. bb \notin DOMAIN Trees[n].kids
      BY <1>7, <2>1 DEF old
    <3>2. KidsOf(u) = [x \in DOMAIN Trees[n].kids \cup {bb} |->
                        IF x = bb THEN c ELSE Trees[n].kids[x]]
      BY <1>8, <2>1 DEF old
    <3>3. QED
      BY <1>2, <1>12, <1>13, <3>1, <3>2
  <2>3. QED
    BY <1>14, <2>2 DEF Forest!InsertChild, Trees, Tree, KidsOf
<1>16. QED
  BY <1>3, <1>15 DEF Forest!Next, Forest!live

LEMMA RemoveChildMaps ==
  ASSUME IInv, IInv', NEW n \in live, NEW b \in Present(table[n]), RemoveChild(n, b)
  PROVE  Forest!Next
<1> DEFINE t == table[n]
           u == remove_child(t, child_pos_from_byte(b))
           f == First(prefix)
<1>1. /\ hands' = hands \cup {Child(t, b)} /\ table' = [table EXCEPT ![n] = u]
      /\ live' = live /\ valued' = valued /\ val' = val /\ prefix' = prefix
  BY DEF RemoveChild, Child
<1>2. n \in Names /\ live \subseteq Names /\ Whole(t) /\ InStep(t, f, live)
  BY DEF IInv, Shapes, Filed
<1>3. Whole(u) /\ InStep(u, f, live) /\ Elements(u) = Elements(t) \ {Child(t, b)}
  BY <1>2, RemoveStep
<1>4. KidsOf(u) = [x \in Present(t) \ {b} |-> KidsOf(t)[x]]
  <2> HIDE DEF f, t, u
  <2>1. b \in Present(t)
    BY DEF t
  <2>2. QED
    BY <1>2, <1>3, <2>1, KidsRemoved
<1> HIDE DEF u
<1>5. \A x \in Names : table'[x] = IF x = n THEN u ELSE table[x]
  BY <1>1, <1>2 DEF IInv, Shapes
<1>6. ASSUME NEW x \in live \ {n}
      PROVE  Tree(x)' = Tree(x)
  BY <1>1, <1>2, <1>5, TreeStays
<1>7. Tree(n)' = [Tree(n) EXCEPT !.kids = KidsOf(u)]
  BY <1>1, <1>2, <1>5, TreeAfter DEF Tree
<1>8. Trees' = [Trees EXCEPT ![n].kids = KidsOf(u)]
  BY <1>1, <1>6, <1>7, OneChange DEF Trees
<1>9. /\ Trees[n].kids = KidsOf(t) /\ DOMAIN Trees[n].kids = Present(t)
      /\ Trees[n].kids[b] = Child(t, b)
  BY DEF Trees, Tree, KidsOf
<1>10. Trees' = [Trees EXCEPT ![n].kids =
                   [x \in DOMAIN Trees[n].kids \ {b} |-> Trees[n].kids[x]]]
  BY <1>4, <1>8, <1>9
<1>11. b \in DOMAIN Trees[n].kids /\ hands' = hands \cup {Trees[n].kids[b]}
  BY <1>1, <1>9
<1>12. Forest!RemoveChild(n, b)
  BY <1>10, <1>11 DEF Forest!RemoveChild, Trees, Tree, KidsOf
<1>13. QED
  BY <1>11, <1>12 DEF Forest!Next, Forest!live, Trees, Tree, KidsOf

LEMMA TransferChildrenMaps ==
  ASSUME IInv, IInv', NEW n \in live, NEW m \in live, TransferChildren(n, m)
  PROVE  Forest!Next
<1>1. /\ Unrelated(n, m) /\ Slots(m) = {} /\ hands' = hands
      /\ table' = [table EXCEPT ![m] = table[n], ![n] = NoChildren]
      /\ live' = live /\ valued' = valued /\ val' = val /\ prefix' = prefix
  BY DEF TransferChildren
<1>2. n \in Names /\ m \in Names /\ live \subseteq Names /\ n # m
  BY <1>1 DEF IInv, Unrelated, Below
<1>3. \A x \in Names :
        table'[x] = IF x = n THEN NoChildren ELSE IF x = m THEN table[n] ELSE table[x]
  BY <1>1, <1>2 DEF IInv, Shapes
<1>4. ASSUME NEW x \in live \ {n, m}
      PROVE  Tree(x)' = Tree(x)
  BY <1>1, <1>2, <1>3, TreeStays
<1>5. Tree(n)' = [Tree(n) EXCEPT !.kids = <<>>]
  <2>1. KidsOf(table'[n]) = <<>>
    BY <1>2, <1>3, NoKids
  <2>2. QED
    BY <1>1, <2>1, TreeAfter DEF Tree
<1>6. Tree(m)' = [Tree(m) EXCEPT !.kids = Tree(n).kids]
  BY <1>1, <1>2, <1>3, TreeAfter DEF Tree
<1>7. Trees' = [Trees EXCEPT ![n].kids = <<>>, ![m].kids = Trees[n].kids]
  BY <1>1, <1>2, <1>4, <1>5, <1>6 DEF Trees
<1>8. Forest!Kids(m) = {} /\ n \notin Forest!Below(m) /\ m \notin Forest!Below(n)
  BY <1>1, SameSubtrees DEF Unrelated
<1>9. Forest!TransferChildren(n, m)
  BY <1>1, <1>7, <1>8 DEF Forest!TransferChildren, Trees, Tree, KidsOf
<1>10. QED
  BY <1>2, <1>9 DEF Forest!Next, Forest!live

LEMMA SetPrefixMaps ==
  ASSUME IInv, NEW n \in live, NEW d \in Seq(Bytes), SetPrefix(n, new(d)),
         n \in hands \/ (d # <<>> /\ d[1] = as_ref(prefix[n])[1])
  PROVE  /\ hands' = hands
         /\ n \in hands \/ (d # <<>> /\ d[1] = Trees[n].prefix[1])
         /\ Trees' = [Trees EXCEPT ![n].prefix = d]
<1>1. /\ prefix' = [prefix EXCEPT ![n] = new(d)] /\ live' = live /\ hands' = hands
      /\ valued' = valued /\ val' = val /\ table' = table
  BY DEF SetPrefix
<1>2. n \in Names /\ live \subseteq Names
  BY DEF IInv
<1>3. \A x \in Names : prefix'[x] = IF x = n THEN new(d) ELSE prefix[x]
  BY <1>1, <1>2 DEF IInv
<1>4. ASSUME NEW x \in live \ {n}
      PROVE  Tree(x)' = Tree(x)
  BY <1>1, <1>2, <1>3, TreeStays
<1>5. as_ref(prefix'[n]) = d
  BY <1>2, <1>3, Forms
<1>6. Tree(n)' = [Tree(n) EXCEPT !.prefix = d]
  BY <1>1, <1>5, TreeAfter DEF Tree
<1>7. Trees' = [Trees EXCEPT ![n].prefix = d]
  BY <1>1, <1>4, <1>6, OneChange DEF Trees
<1>8. Trees[n].prefix = as_ref(prefix[n])
  BY DEF Trees, Tree
<1>9. QED
  BY <1>1, <1>7, <1>8

LEMMA CutPrefixMaps ==
  ASSUME IInv, NEW n \in live, NEW l \in 0 .. len(prefix[n]) - 1, CutPrefix(n, l)
  PROVE  Forest!Next
<1> DEFINE d == as_ref(prefix[n])
           e == SubSeq(d, 1, l)
<1>1. n \in Names /\ prefix \in [Names -> Prefixes]
  BY DEF IInv
<1>2. d \in Seq(Bytes) /\ len(prefix[n]) = Len(d)
  BY <1>1, PrefixIs
<1>3. l \in 0 .. Len(d) - 1
  BY <1>2
<1>4. e \in Seq(Bytes) /\ Len(e) = l /\ (l > 0 => e[1] = d[1])
  BY <1>2, <1>3, CutForm
<1>5. SetPrefix(n, new(e)) /\ (n \in hands \/ l > 0)
  BY DEF CutPrefix
<1>6. Trees[n].prefix = d
  BY DEF Trees, Tree
<1> HIDE DEF d, e
<1>7. n \in hands \/ (e # <<>> /\ e[1] = d[1])
  BY <1>4, <1>5
<1>8. /\ hands' = hands
      /\ n \in hands \/ (e # <<>> /\ e[1] = Trees[n].prefix[1])
      /\ Trees' = [Trees EXCEPT ![n].prefix = e]
  BY <1>4, <1>5, <1>7, SetPrefixMaps DEF d
<1>9. Forest!Cut(n, l) /\ l \in 0 .. Len(Trees[n].prefix) - 1
  <2>1. e = SubSeq(Trees[n].prefix, 1, l)
    BY <1>6 DEF e
  <2>2. Forest!Cut(n, l)
    BY <1>8, <2>1 DEF Forest!Cut, Forest!Refile, Trees, Tree, KidsOf
  <2>3. QED
    BY <1>3, <1>6, <2>2
<1>10. QED
  BY <1>9 DEF Forest!Next, Forest!live, Trees, Tree, KidsOf

LEMMA JoinPrefixesMaps ==
  ASSUME IInv, NEW n \in live, NEW p \in live, NEW q \in live, p # q,
         JoinPrefixes(n, p, q)
  PROVE  Forest!Next
<1> DEFINE s == as_ref(prefix[p])
           t == as_ref(prefix[q])
<1>1. p \in Names /\ q \in Names /\ prefix \in [Names -> Prefixes]
  BY DEF IInv
<1>2. s \in Seq(Bytes) /\ len(prefix[p]) = Len(s) /\ t \in Seq(Bytes)
  BY <1>1, PrefixIs
<1>3. /\ n \in {p, q} /\ q \in hands /\ (n \in hands \/ len(prefix[p]) > 0)
      /\ SetPrefix(n, from_slices(s, t))
  BY DEF JoinPrefixes
<1>4. /\ s \o t \in Seq(Bytes) /\ from_slices(s, t) = new(s \o t)
      /\ s # <<>> => (s \o t)[1] = s[1]
  BY <1>2, JoinedForm
<1>5. Trees[p].prefix = s /\ Trees[q].prefix = t
  BY DEF Trees, Tree
<1>6. n \in hands \/ (s \o t # <<>> /\ (s \o t)[1] = as_ref(prefix[n])[1])
  <2>1. SUFFICES ASSUME n \notin hands
                 PROVE  s \o t # <<>> /\ (s \o t)[1] = as_ref(prefix[n])[1]
    OBVIOUS
  <2>2. n = p /\ Len(s) > 0 /\ s # <<>>
    BY <1>2, <1>3, <2>1
  <2>3. s \o t # <<>>
    BY <1>2, <2>2
  <2>4. QED
    BY <1>4, <2>2, <2>3
<1> DEFINE d == s \o t
<1>7. d \in Seq(Bytes) /\ SetPrefix(n, new(d)) /\ d = Trees[p].prefix \o Trees[q].prefix
  BY <1>3, <1>4, <1>5
<1> HIDE DEF s, t, d
<1>8. /\ hands' = hands
      /\ n \in hands \/ (d # <<>> /\ d[1] = Trees[n].prefix[1])
      /\ Trees' = [Trees EXCEPT ![n].prefix = d]
  BY <1>6, <1>7, SetPrefixMaps DEF d
<1>9. Forest!Join(n, p, q)
  BY <1>3, <1>7, <1>8 DEF Forest!Join, Forest!Refile, Trees, Tree, KidsOf
<1>10. QED
  BY <1>9 DEF Forest!Next, Forest!live

LEMMA DropNodeMaps ==
  ASSUME IInv, NEW n \in live, DropNode(n)
  PROVE  Forest!Next
<1> DEFINE D == Below(n)
<1>1. /\ n \in hands /\ live' = live \ D /\ valued' = valued \ D
      /\ val' = [x \in Names |-> IF x \in D THEN Junk ELSE val[x]]
      /\ prefix' = [x \in Names |-> IF x \in D THEN Blank ELSE prefix[x]]
      /\ table' = [x \in Names |-> IF x \in D THEN NoChildren ELSE table[x]]
      /\ hands' = hands \ {n}
  BY DEF DropNode
<1>2. live \subseteq Names
  BY DEF IInv
<1> HIDE DEF D
<1>3. ASSUME NEW x \in live \ D
      PROVE  Tree(x)' = Tree(x)
  <2>1. x \in Names
    BY <1>2
  <2>2. QED
    BY <1>1, <2>1, TreeStays
<1>4. Trees' = [x \in live \ D |-> Trees[x]]
  BY <1>1, <1>3 DEF Trees
<1>5. Forest!Below(n) = D /\ Forest!live = live
  BY SameSubtrees DEF Forest!live, D
<1>6. Forest!DropNode(n)
  BY <1>1, <1>4, <1>5 DEF Forest!DropNode, Trees, Tree, KidsOf
<1>7. QED
  BY <1>6 DEF Forest!Next, Forest!live

(* The nodes in memory are the trees of NodeForest: whatever the form of   *)
(* prefixes, the moves of children in and between vectors, and the tags,   *)
(* a call does to the trees what its name says and nothing else.           *)
THEOREM NodesAreTrees == Spec => ForestSpec
<1>1. Init => Forest!Init
  BY DEF Init, Forest!Init
<1>2. IInv /\ IInv' /\ [Next]_vars => [Forest!Next]_<<Trees, hands>>
  <2> SUFFICES ASSUME IInv, IInv', [Next]_vars
               PROVE  Forest!Next \/ UNCHANGED <<Trees, hands>>
    OBVIOUS
  <2>1. CASE UNCHANGED vars
    BY <2>1 DEF vars, Trees, Tree, KidsOf
  <2>2. ASSUME NEW n \in Names, NEW text \in use.texts, New(n, text)
        PROVE  Forest!Next
    BY <2>2, NewMaps
  <2>3. ASSUME NEW n \in live, NEW v \in use.values, SetVal(n, v)
        PROVE  Forest!Next
    BY <2>3, SetValMaps
  <2>4. ASSUME NEW n \in live, TakeVal(n)
        PROVE  Forest!Next
    BY <2>4, TakeValMaps
  <2>5. ASSUME NEW n \in live, NEW c \in live, InsertChild(n, c)
        PROVE  Forest!Next
    BY <2>5, InsertChildMaps
  <2>6. ASSUME NEW n \in live, NEW b \in Present(table[n]), RemoveChild(n, b)
        PROVE  Forest!Next
    BY <2>6, RemoveChildMaps
  <2>7. ASSUME NEW n \in live, NEW m \in live, TransferChildren(n, m)
        PROVE  Forest!Next
    BY <2>7, TransferChildrenMaps
  <2>8. ASSUME NEW n \in live, NEW l \in 0 .. len(prefix[n]) - 1, CutPrefix(n, l)
        PROVE  Forest!Next
    BY <2>8, CutPrefixMaps
  <2>9. ASSUME NEW n \in live, NEW p \in live, NEW q \in live, p # q, JoinPrefixes(n, p, q)
        PROVE  Forest!Next
    BY <2>9, JoinPrefixesMaps
  <2>10. ASSUME NEW n \in live, DropNode(n)
         PROVE  Forest!Next
    BY <2>10, DropNodeMaps
  <2>11. QED
    BY <2>1, <2>2, <2>3, <2>4, <2>5, <2>6, <2>7, <2>8, <2>9, <2>10 DEF Next
<1>3. QED
  BY Invariant, <1>1, <1>2, PTL DEF Spec, ForestSpec, Forest!Spec, Trees, Tree, KidsOf

------------------------------------------------------------------------------
(* Nothing leaks.  The ledger is the sum over the nodes of what each one   *)
(* has, and the nodes are the smallest closed set that has the caller's.   *)

Stock(F, T, P, n) ==
  {IF n \in F THEN Leaf ELSE Internal} \cup BufferOf(T[n].vec) \cup BytesOf(P[n])
Owned(F, T, P) == [n \in Names |-> Stock(F, T, P, n)]

Count(L, A, l) == Cardinality({x \in L : l \in A[x]})
Tallied(L, A, G) == \A l \in Layouts : G[l] = Count(L, A, l)

ClosedIn(T, S) == \A n \in S : Elements(T[n]) \subseteq S
Reached(L, H, T) == \A S \in SUBSET L : H \subseteq S /\ ClosedIn(T, S) => S = L

LInv ==
  /\ IsFiniteSet(live)
  /\ Tallied(live, Owned(leaf, table, prefix), ledger)
  /\ Reached(live, hands, table)

(* Layouts of different kinds differ.                                      *)
LEMMA Kinds ==
  /\ Leaf # Internal
  /\ \A v : Leaf \notin BufferOf(v) /\ Internal \notin BufferOf(v)
  /\ \A p : Leaf \notin BytesOf(p) /\ Internal \notin BytesOf(p)
  /\ \A v, p : BufferOf(v) \cap BytesOf(p) = {}
BY DEF Leaf, Internal, BufferOf, BytesOf

LEMMA Counted ==
  ASSUME NEW L, IsFiniteSet(L), NEW A, NEW l
  PROVE  Count(L, A, l) \in Nat
<1>1. {x \in L : l \in A[x]} \subseteq L
  OBVIOUS
<1>2. IsFiniteSet({x \in L : l \in A[x]})
  BY <1>1, FS_Subset
<1>3. QED
  BY <1>2, FS_CardinalityType DEF Count

(* Only n's allocations change.                                            *)
LEMMA CountChange ==
  ASSUME NEW L, IsFiniteSet(L), NEW n \in L, NEW A, NEW B, NEW l,
         \A x \in L \ {n} : B[x] = A[x]
  PROVE  Count(L, B, l) = Count(L, A, l) - One(l, A[n]) + One(l, B[n])
<1> DEFINE X == {x \in L \ {n} : l \in A[x]}
<1>1. IsFiniteSet(X) /\ n \notin X
  <2>1. X \subseteq L
    OBVIOUS
  <2>2. QED
    BY <2>1, FS_Subset
<1>2. Cardinality(X) \in Nat /\ Cardinality(X \cup {n}) = Cardinality(X) + 1
  BY <1>1, FS_CardinalityType, FS_AddElement
<1>3. {x \in L : l \in A[x]} = IF l \in A[n] THEN X \cup {n} ELSE X
  OBVIOUS
<1>4. {x \in L : l \in B[x]} = IF l \in B[n] THEN X \cup {n} ELSE X
  OBVIOUS
<1> HIDE DEF X
<1>5. Count(L, A, l) = Cardinality(X) + One(l, A[n])
  <2>1. Count(L, A, l) = Cardinality(IF l \in A[n] THEN X \cup {n} ELSE X)
    BY <1>3, Zenon DEF Count
  <2>2. QED
    BY <1>2, <2>1 DEF One
<1>6. Count(L, B, l) = Cardinality(X) + One(l, B[n])
  <2>1. Count(L, B, l) = Cardinality(IF l \in B[n] THEN X \cup {n} ELSE X)
    BY <1>4, Zenon DEF Count
  <2>2. QED
    BY <1>2, <2>1 DEF One
<1>7. One(l, A[n]) \in Int /\ One(l, B[n]) \in Int
  BY DEF One
<1>8. QED
  BY <1>2, <1>5, <1>6, <1>7

LEMMA OneOfTwo ==
  ASSUME NEW S, NEW T, S \cap T = {}, NEW l
  PROVE  One(l, S \cup T) = One(l, S) + One(l, T)
<1>1. ~(l \in S /\ l \in T)
  OBVIOUS
<1>2. QED
  BY <1>1 DEF One

(* A step that frees and allocates for one node.                           *)
LEMMA TallyChange ==
  ASSUME LInv, NEW n \in live, live' = live, NEW freed, NEW allocated,
         Account(freed, allocated), NEW A, NEW B,
         A = Owned(leaf, table, prefix), \A x \in live \ {n} : B[x] = A[x],
         NEW rest, A[n] = freed \cup rest, B[n] = allocated \cup rest,
         freed \cap rest = {}, allocated \cap rest = {}
  PROVE  Tallied(live', B, ledger')
<1> SUFFICES ASSUME NEW l \in Layouts
             PROVE  ledger'[l] = Count(live, B, l)
  BY DEF Tallied
<1>1. ledger'[l] = ledger[l] - One(l, freed) + One(l, allocated)
  BY DEF Account
<1>2. ledger[l] = Count(live, A, l) /\ ledger[l] \in Nat
  BY Counted DEF LInv, Tallied
<1>3. Count(live, B, l) = Count(live, A, l) - One(l, A[n]) + One(l, B[n])
  BY CountChange DEF LInv
<1>4. One(l, A[n]) = One(l, freed) + One(l, rest) /\ One(l, B[n]) = One(l, allocated) + One(l, rest)
  BY OneOfTwo
<1>5. One(l, freed) \in Int /\ One(l, allocated) \in Int /\ One(l, rest) \in Int
  BY DEF One
<1>6. QED
  BY <1>1, <1>2, <1>3, <1>4, <1>5

LEMMA InitTally == Init => LInv
<1> SUFFICES ASSUME Init PROVE LInv
  OBVIOUS
<1>1. IsFiniteSet(live) /\ Cardinality({}) = 0
  BY FS_EmptySet DEF Init
<1>2. \A l : Count(live, Owned(leaf, table, prefix), l) = 0
  <2>1. \A l : {x \in live : l \in Owned(leaf, table, prefix)[x]} = {}
    BY DEF Init
  <2>2. QED
    BY <1>1, <2>1 DEF Count
<1>3. Tallied(live, Owned(leaf, table, prefix), ledger)
  BY <1>2 DEF Init, Tallied
<1>4. Reached(live, hands, table)
  BY DEF Init, Reached
<1>5. QED
  BY <1>1, <1>3, <1>4 DEF LInv

LEMMA NewTally ==
  ASSUME IInv, LInv, NEW n \in Names, NEW text \in use.texts, New(n, text)
  PROVE  LInv'
<1> DEFINE A == Owned(leaf, table, prefix)
           B == Owned(leaf', table', prefix')
<1>1. /\ n \notin live /\ live' = live \cup {n} /\ leaf' = leaf \cup {n}
      /\ hands' = hands \cup {n} /\ prefix' = [prefix EXCEPT ![n] = new(text)]
      /\ table' = table /\ Account({}, {Leaf} \cup BytesOf(new(text)))
  BY DEF New
<1>2. live \subseteq Names /\ table[n] = NoChildren /\ Elements(table[n]) = {}
  BY <1>1, EmptyTable DEF IInv, Shapes
<1>3. IsFiniteSet(live')
  BY <1>1, FS_AddElement DEF LInv
<1>4. B[n] = {Leaf} \cup BytesOf(new(text))
  <2>1. prefix'[n] = new(text) /\ n \in leaf' /\ table'[n] = NoChildren
    BY <1>1, <1>2 DEF IInv
  <2>2. BufferOf(NoChildren.vec) = {}
    BY DEF NoChildren, NewVec, BufferOf
  <2>3. QED
    BY <2>1, <2>2 DEF Owned, Stock
<1>5. ASSUME NEW x \in live
      PROVE  B[x] = A[x]
  <2>1. x \in Names /\ x # n
    BY <1>1, <1>2
  <2>2. prefix'[x] = prefix[x] /\ (x \in leaf' <=> x \in leaf)
    BY <1>1, <2>1 DEF IInv
  <2>3. QED
    BY <1>1, <2>1, <2>2 DEF Owned, Stock
<1> HIDE DEF A, B
<1>6. ASSUME NEW l \in Layouts
      PROVE  ledger'[l] = Count(live', B, l)
  <2> DEFINE X == {x \in live : l \in A[x]}
  <2>1. ledger'[l] = ledger[l] - One(l, {}) + One(l, B[n])
    BY <1>1, <1>4 DEF Account
  <2>2. ledger[l] = Cardinality(X) /\ IsFiniteSet(X) /\ n \notin X
    <3>1. X \subseteq live
      OBVIOUS
    <3>2. QED
      BY <1>1, <3>1, FS_Subset DEF LInv, Tallied, Count, A
  <2>3. Cardinality(X) \in Nat /\ Cardinality(X \cup {n}) = Cardinality(X) + 1
    BY <2>2, FS_CardinalityType, FS_AddElement
  <2>4. {x \in live' : l \in B[x]} = IF l \in B[n] THEN X \cup {n} ELSE X
    BY <1>1, <1>5
  <2> HIDE DEF X
  <2>5. Count(live', B, l) = Cardinality(IF l \in B[n] THEN X \cup {n} ELSE X)
    BY <2>4, Zenon DEF Count
  <2>6. QED
    BY <2>1, <2>2, <2>3, <2>5 DEF One
<1>7. Reached(live', hands', table')
  <2> SUFFICES ASSUME NEW S \in SUBSET live', hands' \subseteq S, ClosedIn(table', S)
               PROVE  S = live'
    BY DEF Reached
  <2> DEFINE R == S \ {n}
  <2>1. R \in SUBSET live /\ hands \subseteq R
    BY <1>1 DEF IInv
  <2>2. ClosedIn(table, R)
    <3>1. \A m \in R : Elements(table[m]) \subseteq live
      BY <1>2, <2>1, State
    <3>2. QED
      BY <1>1, <3>1 DEF ClosedIn
  <2>3. R = live
    BY <2>1, <2>2 DEF LInv, Reached
  <2>4. QED
    BY <1>1, <2>3
<1>8. QED
  BY <1>3, <1>6, <1>7 DEF LInv, Tallied, B

(* Calls that change no allocation.                                        *)
LEMMA SameTally ==
  ASSUME LInv, UNCHANGED <<live, leaf, prefix, table, hands, ledger>>
  PROVE  LInv'
BY DEF LInv

LEMMA InsertChildTally ==
  ASSUME IInv, LInv, NEW n \in live, NEW c \in live, InsertChild(n, c)
  PROVE  LInv'
<1> DEFINE pos == child_pos_from_byte(first_byte(prefix[c]))
           t == table[n]
           u == insert_child(t, pos, c)
           k == len_children(t)
           moves == Full(t.vec, k)
           freed == Downsized(n) \cup (IF moves THEN BufferOf(t.vec) ELSE {})
           allocated == Upsized(n) \cup (IF moves THEN BufferOf(u.vec) ELSE {})
           rest == (IF n \in leaf THEN {} ELSE {Internal})
                     \cup (IF moves THEN {} ELSE BufferOf(t.vec)) \cup BytesOf(prefix[n])
           A == Owned(leaf, table, prefix)
           B == Owned(leaf', table', prefix')
<1>1. Upgraded(n) = t
  BY State DEF Upgraded
<1>2. /\ c \in hands /\ n \notin Below(c) /\ len(prefix[c]) > 0
      /\ ~child_exists(t, pos) /\ ~Overflows(t.vec, k)
      /\ table' = [table EXCEPT ![n] = u] /\ leaf' = leaf \ {n} /\ hands' = hands \ {c}
      /\ live' = live /\ prefix' = prefix /\ Account(freed, allocated)
  BY <1>1 DEF InsertChild
<1>3. n \in Names /\ c \in Names /\ n # c /\ live \subseteq Names
  BY <1>2 DEF IInv, Below
<1>4. Whole(t) /\ InStep(t, First(prefix), live) /\ k \in Nat
  <2>1. Whole(t) /\ InStep(t, First(prefix), live)
    BY <1>3 DEF IInv, Shapes, Filed
  <2>2. QED
    BY <2>1, Counts DEF Whole
<1>5. Elements(u) = Elements(t) \cup {c}
  <2>1. first_byte(prefix[c]) \in Bytes /\ First(prefix)[c] = first_byte(prefix[c])
    BY <1>2, <1>3, PrefixIs DEF IInv, First
  <2>2. QED
    BY <1>2, <1>4, <2>1, InsertStep
<1>6. ~moves => BufferOf(u.vec) = BufferOf(t.vec)
  <2>1. SUFFICES ASSUME ~moves PROVE BufferOf(u.vec) = BufferOf(t.vec)
    OBVIOUS
  <2>2. ~t.vec.null
    BY <1>4, <2>1 DEF Whole, Full, capacity
  <2>3. u.vec.null = FALSE /\ u.vec.tag = t.vec.tag
    BY <2>1 DEF insert_child, vec_insert
  <2>4. QED
    BY <2>2, <2>3 DEF BufferOf, capacity
<1>7. \A x \in Names : table'[x] = IF x = n THEN u ELSE table[x]
  BY <1>2, <1>3 DEF IInv, Shapes
<1> HIDE DEF u
<1>8. \A x \in live \ {n} : B[x] = A[x]
  BY <1>2, <1>3, <1>7 DEF Owned, Stock
<1>9. A[n] = freed \cup rest
  BY <1>3 DEF Owned, Stock, Downsized
<1>10. B[n] = allocated \cup rest
  <2>1. B[n] = {Internal} \cup BufferOf(u.vec) \cup BytesOf(prefix[n])
    BY <1>2, <1>3, <1>7 DEF Owned, Stock
  <2>2. QED
    BY <1>6, <2>1 DEF Upsized
<1>11. freed \cap rest = {} /\ allocated \cap rest = {}
  BY Kinds DEF Downsized, Upsized
<1>12. Tallied(live', B, ledger')
  <2> HIDE DEF freed, allocated, rest, B
  <2>1. QED
    BY <1>2, <1>8, <1>9, <1>10, <1>11, TallyChange
<1>13. Reached(live', hands', table')
  <2> SUFFICES ASSUME NEW S \in SUBSET live, hands' \subseteq S, ClosedIn(table', S)
               PROVE  S = live
    BY <1>2 DEF Reached
  <2>1. ClosedIn(table, S)
    <3>1. ASSUME NEW m \in S
          PROVE  Elements(table[m]) \subseteq Elements(table'[m])
      BY <1>3, <1>5, <1>7
    <3>2. QED
      BY <3>1 DEF ClosedIn
  <2> DEFINE R == S \cup Below(c)
  <2>2. /\ c \in Below(c) /\ Below(c) \subseteq live
        /\ \A m \in Below(c) : Elements(table[m]) \subseteq Below(c)
    BY Subtree
  <2>3. R \in SUBSET live /\ hands \subseteq R /\ ClosedIn(table, R)
    BY <1>2, <2>1, <2>2 DEF ClosedIn
  <2>4. R = live
    BY <2>3 DEF LInv, Reached
  <2>5. n \in S
    BY <1>2, <2>4
  <2>6. c \in S
    BY <1>3, <1>5, <1>7, <2>5 DEF ClosedIn
  <2>7. hands \subseteq S
    BY <1>2, <2>6
  <2>8. QED
    BY <2>1, <2>7 DEF LInv, Reached
<1>14. QED
  BY <1>2, <1>12, <1>13 DEF LInv, B

LEMMA RemoveChildTally ==
  ASSUME IInv, LInv, NEW n \in live, NEW b \in Present(table[n]), RemoveChild(n, b)
  PROVE  LInv'
<1> DEFINE t == table[n]
           c == Child(t, b)
           u == remove_child(t, child_pos_from_byte(b))
<1>1. /\ hands' = hands \cup {c} /\ table' = [table EXCEPT ![n] = u]
      /\ live' = live /\ leaf' = leaf /\ prefix' = prefix /\ ledger' = ledger
  BY DEF RemoveChild, Child
<1>2. n \in Names /\ live \subseteq Names /\ Whole(t) /\ InStep(t, First(prefix), live)
  BY DEF IInv, Shapes, Filed
<1>3. Elements(u) = Elements(t) \ {c}
  BY <1>2, RemoveStep
<1>4. BufferOf(u.vec) = BufferOf(t.vec)
  BY <1>2 DEF Whole, remove_child, vec_remove, BufferOf, capacity
<1>5. \A x \in Names : table'[x] = IF x = n THEN u ELSE table[x]
  BY <1>1, <1>2 DEF IInv, Shapes
<1> HIDE DEF u, c
<1>6. Owned(leaf', table', prefix') = Owned(leaf, table, prefix)
  BY <1>1, <1>4, <1>5 DEF Owned, Stock
<1>7. Reached(live', hands', table')
  <2> SUFFICES ASSUME NEW S \in SUBSET live, hands' \subseteq S, ClosedIn(table', S)
               PROVE  S = live
    BY <1>1 DEF Reached
  <2>1. c \in S /\ hands \subseteq S
    BY <1>1
  <2>2. ASSUME NEW m \in S
        PROVE  Elements(table[m]) \subseteq S
    <3>1. Elements(table[m]) \subseteq Elements(table'[m]) \cup {c}
      BY <1>2, <1>3, <1>5
    <3>2. QED
      BY <2>1, <3>1 DEF ClosedIn
  <2>3. QED
    BY <2>1, <2>2 DEF LInv, Reached, ClosedIn
<1>8. QED
  BY <1>1, <1>6, <1>7 DEF LInv

LEMMA TransferChildrenTally ==
  ASSUME IInv, LInv, NEW n \in live, NEW m \in live, TransferChildren(n, m)
  PROVE  LInv'
<1> DEFINE A == Owned(leaf, table, prefix)
           B == Owned(leaf', table', prefix')
           C == [A EXCEPT ![n] = {Internal} \cup BytesOf(prefix[n])]
           moved == BufferOf(table[n].vec)
           freed == Downsized(m) \cup BufferOf(table[m].vec)
<1>1. /\ n \notin leaf /\ Unrelated(n, m) /\ Slots(m) = {}
      /\ table' = [table EXCEPT ![m] = table[n], ![n] = NoChildren]
      /\ leaf' = leaf \ {m} /\ live' = live /\ prefix' = prefix /\ hands' = hands
      /\ Account(freed, Upsized(m))
  BY DEF TransferChildren
<1>2. n \in Names /\ m \in Names /\ live \subseteq Names /\ n # m
  BY <1>1 DEF IInv, Unrelated, Below
<1>3. \A k \in Names :
        table'[k] = IF k = n THEN NoChildren ELSE IF k = m THEN table[n] ELSE table[k]
  BY <1>1, <1>2 DEF IInv, Shapes
<1>4. BufferOf(NoChildren.vec) = {}
  BY DEF NoChildren, NewVec, BufferOf
<1>5. A[n] = ({Internal} \cup BytesOf(prefix[n])) \cup moved
  BY <1>1, <1>2 DEF Owned, Stock
<1>6. A[m] = ((IF m \in leaf THEN {Leaf} ELSE {Internal}) \cup BytesOf(prefix[m]))
               \cup BufferOf(table[m].vec)
  BY <1>2 DEF Owned, Stock
<1>7. B[n] = {Internal} \cup BytesOf(prefix[n])
  BY <1>1, <1>2, <1>3, <1>4 DEF Owned, Stock
<1>8. B[m] = ({Internal} \cup BytesOf(prefix[m])) \cup moved
  BY <1>1, <1>2, <1>3 DEF Owned, Stock
<1>9. \A x \in live \ {n, m} : B[x] = A[x]
  BY <1>1, <1>2, <1>3 DEF Owned, Stock
<1>10. \A x \in Names : C[x] = IF x = n THEN {Internal} \cup BytesOf(prefix[n]) ELSE A[x]
  BY DEF Owned
<1> HIDE DEF A, B, C
<1>11. ASSUME NEW l \in Layouts
       PROVE  ledger'[l] = Count(live, B, l)
  <2>1. /\ Count(live, C, l) = Count(live, A, l) - One(l, A[n]) + One(l, C[n])
        /\ Count(live, B, l) = Count(live, C, l) - One(l, C[m]) + One(l, B[m])
    <3>1. \A x \in live \ {n} : C[x] = A[x]
      BY <1>2, <1>10
    <3>2. \A x \in live \ {m} : B[x] = C[x]
      BY <1>2, <1>7, <1>9, <1>10
    <3>3. QED
      BY <3>1, <3>2, CountChange DEF LInv
  <2>2. ledger[l] = Count(live, A, l) /\ Count(live, A, l) \in Nat
    BY Counted DEF LInv, Tallied, A
  <2>3. ledger'[l] = ledger[l] - One(l, freed) + One(l, Upsized(m))
    BY <1>1 DEF Account
  <2>4. One(l, A[n]) = One(l, C[n]) + One(l, moved)
    <3>1. C[n] = {Internal} \cup BytesOf(prefix[n]) /\ C[n] \cap moved = {}
      BY <1>2, <1>10, Kinds
    <3>2. A[n] = C[n] \cup moved
      BY <1>5, <3>1
    <3>3. QED
      BY <3>1, <3>2, OneOfTwo
  <2>5. One(l, B[m]) - One(l, C[m]) = One(l, Upsized(m)) + One(l, moved) - One(l, freed)
    <3> DEFINE buf == BufferOf(table[m].vec)
               bytes == BytesOf(prefix[m])
    <3>1. C[m] = A[m]
      BY <1>2, <1>10
    <3>2. /\ Leaf # Internal /\ Leaf \notin buf /\ Internal \notin buf
          /\ Leaf \notin bytes /\ Internal \notin bytes /\ buf \cap bytes = {}
          /\ Leaf \notin moved /\ Internal \notin moved /\ moved \cap bytes = {}
      BY Kinds
    <3>3. CASE m \in leaf
      <4>1. l \in C[m] <=> l = Leaf \/ l \in bytes \/ l \in buf
        BY <1>6, <3>1, <3>3
      <4>2. l \in B[m] <=> l = Internal \/ l \in bytes \/ l \in moved
        BY <1>8
      <4>3. l \in freed <=> l = Leaf \/ l \in buf
        BY <3>3 DEF Downsized
      <4>4. l \in Upsized(m) <=> l = Internal
        BY <3>3 DEF Upsized
      <4> HIDE DEF buf, bytes, moved, freed
      <4>5. QED
        BY <3>2, <4>1, <4>2, <4>3, <4>4 DEF One
    <3>4. CASE m \notin leaf
      <4>1. l \in C[m] <=> l = Internal \/ l \in bytes \/ l \in buf
        BY <1>6, <3>1, <3>4
      <4>2. l \in B[m] <=> l = Internal \/ l \in bytes \/ l \in moved
        BY <1>8
      <4>3. l \in freed <=> l \in buf
        BY <3>4 DEF Downsized
      <4>4. l \notin Upsized(m)
        BY <3>4 DEF Upsized
      <4> HIDE DEF buf, bytes, moved, freed
      <4>5. QED
        BY <3>2, <4>1, <4>2, <4>3, <4>4 DEF One
    <3>5. QED
      BY <3>3, <3>4
  <2>6. /\ One(l, A[n]) \in Int /\ One(l, C[n]) \in Int /\ One(l, C[m]) \in Int
        /\ One(l, B[m]) \in Int /\ One(l, Upsized(m)) \in Int /\ One(l, moved) \in Int
        /\ One(l, freed) \in Int
    BY DEF One
  <2> HIDE DEF moved, freed
  <2>7. QED
    BY <2>1, <2>2, <2>3, <2>4, <2>5, <2>6
<1>12. Reached(live', hands', table')
  <2> SUFFICES ASSUME NEW S \in SUBSET live, hands \subseteq S, ClosedIn(table', S)
               PROVE  S = live
    BY <1>1 DEF Reached
  <2> DEFINE R == S \cup Below(n)
  <2>1. /\ n \in Below(n) /\ Below(n) \subseteq live
        /\ \A x \in Below(n) : Elements(table[x]) \subseteq Below(n)
    BY Subtree
  <2>2. Elements(table[m]) = {}
    BY <1>1, SlotsAre
  <2>3. \A x \in S \ {n, m} : Elements(table[x]) \subseteq S
    BY <1>2, <1>3 DEF ClosedIn
  <2>4. ClosedIn(table, R)
    BY <2>1, <2>2, <2>3 DEF ClosedIn
  <2>5. R = live
    BY <2>1, <2>4 DEF LInv, Reached
  <2>6. m \in S
    BY <1>1, <2>5 DEF Unrelated
  <2>7. Elements(table[n]) \subseteq S
    BY <1>2, <1>3, <2>6 DEF ClosedIn
  <2>8. ClosedIn(table, S)
    BY <2>2, <2>3, <2>7 DEF ClosedIn
  <2>9. QED
    BY <2>8 DEF LInv, Reached
<1>13. QED
  BY <1>1, <1>11, <1>12 DEF LInv, Tallied, B

LEMMA SetPrefixTally ==
  ASSUME IInv, LInv, NEW n \in live, NEW p, SetPrefix(n, p)
  PROVE  LInv'
<1> DEFINE rest == {Block(n)} \cup BufferOf(table[n].vec)
           A == Owned(leaf, table, prefix)
           B == Owned(leaf', table', prefix')
<1>1. /\ prefix' = [prefix EXCEPT ![n] = p] /\ Account(BytesOf(prefix[n]), BytesOf(p))
      /\ live' = live /\ leaf' = leaf /\ table' = table /\ hands' = hands
  BY DEF SetPrefix
<1>2. n \in Names /\ live \subseteq Names
  BY DEF IInv
<1>3. \A x \in Names : prefix'[x] = IF x = n THEN p ELSE prefix[x]
  BY <1>1, <1>2 DEF IInv
<1>4. \A x \in live \ {n} : B[x] = A[x]
  BY <1>1, <1>2, <1>3 DEF Owned, Stock
<1>5. A[n] = BytesOf(prefix[n]) \cup rest /\ B[n] = BytesOf(p) \cup rest
  BY <1>1, <1>2, <1>3 DEF Owned, Stock, Block
<1>6. BytesOf(prefix[n]) \cap rest = {} /\ BytesOf(p) \cap rest = {}
  BY Kinds DEF Block
<1>7. Tallied(live', B, ledger')
  <2> HIDE DEF rest, B
  <2>1. QED
    BY <1>1, <1>4, <1>5, <1>6, TallyChange
<1>8. QED
  BY <1>1, <1>7 DEF LInv

LEMMA DropNodeTally ==
  ASSUME IInv, LInv, NEW n \in live, DropNode(n)
  PROVE  LInv'
<1> DEFINE D == Below(n)
           A == Owned(leaf, table, prefix)
           B == Owned(leaf', table', prefix')
<1>1. /\ n \in hands /\ live' = live \ D /\ leaf' = leaf \ D
      /\ prefix' = [x \in Names |-> IF x \in D THEN Blank ELSE prefix[x]]
      /\ table' = [x \in Names |-> IF x \in D THEN NoChildren ELSE table[x]]
      /\ hands' = hands \ {n}
      /\ ledger' = [l \in Layouts |->
                      ledger[l] - Cardinality({x \in D : l \in Allocations(x)})]
  BY DEF DropNode
<1>2. /\ n \in D /\ D \subseteq live /\ live \subseteq Names
      /\ \A x \in D : Elements(table[x]) \subseteq D
  BY Subtree DEF IInv
<1> HIDE DEF D
<1>3. IsFiniteSet(live')
  BY <1>1, FS_Subset DEF LInv
<1>4. \A x \in live \ D : B[x] = A[x]
  BY <1>1, <1>2 DEF Owned, Stock
<1>5. \A x \in D : Allocations(x) = A[x]
  BY <1>2 DEF Owned, Stock, Allocations, Block
<1> HIDE DEF A, B
<1>6. ASSUME NEW l \in Layouts
      PROVE  ledger'[l] = Count(live', B, l)
  <2> DEFINE X == {x \in D : l \in A[x]}
             Y == {x \in live \ D : l \in A[x]}
  <2>1. X \subseteq live /\ Y \subseteq live /\ X \cap Y = {}
    BY <1>2
  <2>2. IsFiniteSet(X) /\ IsFiniteSet(Y)
    BY <2>1, FS_Subset DEF LInv
  <2>3. {x \in live : l \in A[x]} = X \cup Y
    BY <1>2
  <2>4. Cardinality(X \cup Y) = Cardinality(X) + Cardinality(Y) - Cardinality(X \cap Y)
    BY <2>2, FS_Union
  <2>5. Cardinality(X) \in Nat /\ Cardinality(Y) \in Nat /\ Cardinality(X \cap Y) = 0
    BY <2>1, <2>2, FS_CardinalityType, FS_EmptySet
  <2>6. {x \in D : l \in Allocations(x)} = X
    BY <1>5
  <2>7. {x \in live' : l \in B[x]} = Y
    BY <1>1, <1>4
  <2>8. ledger[l] = Cardinality(X \cup Y)
    BY <2>3 DEF LInv, Tallied, Count, A
  <2>9. ledger'[l] = ledger[l] - Cardinality(X)
    BY <1>1, <2>6
  <2> HIDE DEF X, Y
  <2>10. Count(live', B, l) = Cardinality(Y)
    BY <2>7, Zenon DEF Count
  <2>11. QED
    BY <2>4, <2>5, <2>8, <2>9, <2>10
<1>7. Reached(live', hands', table')
  <2> SUFFICES ASSUME NEW S \in SUBSET (live \ D), hands' \subseteq S, ClosedIn(table', S)
               PROVE  S = live \ D
    BY <1>1 DEF Reached
  <2>1. S \cup D \in SUBSET live /\ hands \subseteq S \cup D
    BY <1>1, <1>2
  <2>2. \A x \in S : table'[x] = table[x]
    BY <1>1, <1>2
  <2>3. ClosedIn(table, S \cup D)
    BY <1>2, <2>2 DEF ClosedIn
  <2>4. S \cup D = live
    BY <2>1, <2>3 DEF LInv, Reached
  <2>5. QED
    BY <2>4
<1>8. QED
  BY <1>3, <1>6, <1>7 DEF LInv, Tallied, B

LEMMA StepTally == IInv /\ LInv /\ [Next]_vars => LInv'
<1> SUFFICES ASSUME IInv, LInv, [Next]_vars PROVE LInv'
  OBVIOUS
<1>1. CASE UNCHANGED vars
  BY <1>1, SameTally DEF vars
<1>2. ASSUME NEW n \in Names, NEW text \in use.texts, New(n, text)
      PROVE  LInv'
  BY <1>2, NewTally
<1>3. ASSUME NEW n \in live, NEW v \in use.values, SetVal(n, v)
      PROVE  LInv'
  BY <1>3, SameTally DEF SetVal
<1>4. ASSUME NEW n \in live, TakeVal(n)
      PROVE  LInv'
  BY <1>4, SameTally DEF TakeVal
<1>5. ASSUME NEW n \in live, NEW c \in live, InsertChild(n, c)
      PROVE  LInv'
  BY <1>5, InsertChildTally
<1>6. ASSUME NEW n \in live, NEW b \in Present(table[n]), RemoveChild(n, b)
      PROVE  LInv'
  BY <1>6, RemoveChildTally
<1>7. ASSUME NEW n \in live, NEW m \in live, TransferChildren(n, m)
      PROVE  LInv'
  BY <1>7, TransferChildrenTally
<1>8. ASSUME NEW n \in live, NEW l, CutPrefix(n, l)
      PROVE  LInv'
  BY <1>8, SetPrefixTally DEF CutPrefix
<1>9. ASSUME NEW n \in live, NEW p, NEW q, JoinPrefixes(n, p, q)
      PROVE  LInv'
  BY <1>9, SetPrefixTally DEF JoinPrefixes
<1>10. ASSUME NEW n \in live, DropNode(n)
       PROVE  LInv'
  BY <1>10, DropNodeTally
<1>11. QED
  BY <1>1, <1>2, <1>3, <1>4, <1>5, <1>6, <1>7, <1>8, <1>9, <1>10 DEF Next

(* util.rs:184 and prefix.rs:220: every block, buffer and heap prefix is   *)
(* freed once, with the layout it was allocated with, or is still in reach *)
(* of the caller.                                                          *)
THEOREM NoLeak == Spec => []NothingLeaks
<1>1. IInv /\ LInv => NothingLeaks
  <2> SUFFICES ASSUME IInv, LInv PROVE NothingLeaks
    OBVIOUS
  <2>1. ASSUME NEW l \in Layouts
        PROVE  ledger[l] = Cardinality({n \in live : l \in Allocations(n)})
    <3>1. \A n \in live : Allocations(n) = Owned(leaf, table, prefix)[n]
      BY DEF IInv, Owned, Stock, Allocations, Block
    <3>2. {n \in live : l \in Allocations(n)} =
            {n \in live : l \in Owned(leaf, table, prefix)[n]}
      BY <3>1
    <3>3. QED
      BY <3>2 DEF LInv, Tallied, Count
  <2>2. ASSUME NEW S \in SUBSET live, hands \subseteq S, Closed(S)
        PROVE  S = live
    <3>1. ClosedIn(table, S)
      BY <2>2, SlotsAre DEF Closed, ClosedIn
    <3>2. QED
      BY <2>2, <3>1 DEF LInv, Reached
  <2>3. QED
    BY <2>1, <2>2 DEF NothingLeaks
<1>2. QED
  BY Invariant, InitTally, StepTally, <1>1, PTL DEF Spec
==============================================================================
