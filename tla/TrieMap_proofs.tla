--------------------------- MODULE TrieMap_proofs ---------------------------
(***************************************************************************)
(* For any bytes, keys, prefixes, values and addresses: trie.rs implements *)
(* a map, its walks stay on live nodes, an insertion compresses and a      *)
(* removal leaves one node that is not compressed.  For any buffers: lcp   *)
(* is the length of the longest common prefix, as the walks take it to be. *)
(*                                                                         *)
(* What a step does to the trie is said of trees (a forest, what leads to  *)
(* each node, a root) first, then of the state.                            *)
(***************************************************************************)
EXTENDS TrieMap, CommonPrefix, SequenceTheorems, WellFoundedInduction, TLAPS

------------------------------------------------------------------------------
(* Byte strings.  A prefix is compared byte by byte.                       *)

Texts == Seq(Bytes)
Pre(s, t) == Len(s) <= Len(t) /\ \A k \in 1 .. Len(s) : s[k] = t[k]
Short(s, t) == Pre(s, t) /\ Len(s) < Len(t)

(* A set of numbers has a least element.                                   *)
LEMMA LeastOf ==
  ASSUME NEW S \in SUBSET Nat, S # {}
  PROVE  \E x \in S : \A y \in S : x <= y
<1> DEFINE R == {ss \in Nat \X Nat : ss[1] < ss[2]}
<1>1. IsWellFoundedOn(R, Nat)
  BY NatLessThanWellFounded DEF OpToRel
<1>2. \A x, y \in Nat : y < x => <<y, x>> \in R
  OBVIOUS
<1> HIDE DEF R
<1>3. PICK x \in S : \A y \in S : ~(<<y, x>> \in R)
  BY <1>1, WFMin, Zenon
<1>4. \A y \in S : ~(y < x)
  BY <1>2, <1>3
<1>. QED
  BY <1>4

(* What typing says of a byte string.                                      *)
LEMMA TextIs ==
  ASSUME NEW s \in Texts
  PROVE  /\ Len(s) \in Nat
         /\ \A k \in 1 .. Len(s) : s[k] \in Bytes
         /\ s = <<>> <=> Len(s) = 0
BY EmptySeq, LenProperties, ElementOfSeq DEF Texts

LEMMA SameText ==
  ASSUME NEW s \in Texts, NEW t \in Texts, Pre(s, t), Len(t) <= Len(s)
  PROVE  s = t
<1>1. Len(s) = Len(t)
  BY TextIs DEF Pre
<1>. QED
  BY <1>1, SeqEqual DEF Pre, Texts

LEMMA PreTrans ==
  ASSUME NEW s \in Texts, NEW t \in Texts, NEW u \in Texts, Pre(s, t), Pre(t, u)
  PROVE  Pre(s, u)
BY TextIs DEF Pre

(* Two prefixes of one string.                                             *)
LEMMA PreBoth ==
  ASSUME NEW s \in Texts, NEW t \in Texts, NEW u \in Texts, Pre(s, u), Pre(t, u),
         Len(s) <= Len(t)
  PROVE  Pre(s, t)
BY TextIs DEF Pre

(* The prefix relation of the library is the one the proofs use.           *)
LEMMA PreIs ==
  ASSUME NEW s \in Texts, NEW t \in Texts
  PROVE  Seqs!IsPrefix(s, t) <=> Pre(s, t)
<1>1. CASE Len(s) <= Len(t)
  <2>1. /\ \A k \in 1 .. Len(s) : SubSeq(s, 1, Len(s))[k] = s[k]
        /\ \A k \in 1 .. Len(s) : SubSeq(t, 1, Len(s))[k] = t[k]
        /\ Len(SubSeq(s, 1, Len(s))) = Len(s) /\ Len(SubSeq(t, 1, Len(s))) = Len(s)
        /\ SubSeq(s, 1, Len(s)) \in Seq(Bytes) /\ SubSeq(t, 1, Len(s)) \in Seq(Bytes)
    BY <1>1, TextIs
  <2>2. SubSeq(s, 1, Len(s)) = SubSeq(t, 1, Len(s))
          <=> \A k \in 1 .. Len(s) : s[k] = t[k]
    BY <2>1, SeqEqual
  <2>. QED
    BY <1>1, <2>2 DEF Pre, Seqs!IsPrefix
<1>2. CASE ~(Len(s) <= Len(t))
  BY <1>2 DEF Pre, Seqs!IsPrefix
<1>. QED
  BY <1>1, <1>2

(* Bytes left out at the beginning.                                        *)
LEMMA DropIs ==
  ASSUME NEW s \in Texts, NEW n \in 0 .. Len(s)
  PROVE  /\ Drop(s, n) \in Texts /\ Len(Drop(s, n)) = Len(s) - n
         /\ \A k \in 1 .. Len(s) - n : Drop(s, n)[k] = s[n + k]
         /\ n = 0 => Drop(s, n) = s
<1>1. Len(s) \in Nat /\ n \in Nat
  BY TextIs
<1>2. /\ Drop(s, n) \in Texts /\ Len(Drop(s, n)) = Len(s) - n
      /\ \A k \in 1 .. Len(s) - n : Drop(s, n)[k] = s[n + k]
  BY <1>1, TextIs DEF Drop, Texts
<1>3. ASSUME n = 0 PROVE Drop(s, n) = s
  BY <1>1, <1>2, <1>3, SeqEqual DEF Texts
<1>. QED
  BY <1>2, <1>3

(* Bytes left out at the end.                                              *)
LEMMA TakeIs ==
  ASSUME NEW s \in Texts, NEW n \in 0 .. Len(s)
  PROVE  /\ Take(s, n) \in Texts /\ Len(Take(s, n)) = n
         /\ \A k \in 1 .. n : Take(s, n)[k] = s[k]
         /\ Pre(Take(s, n), s)
<1>1. Len(s) \in Nat /\ n \in Nat
  BY TextIs
<1>2. /\ Take(s, n) \in Texts /\ Len(Take(s, n)) = n
      /\ \A k \in 1 .. n : Take(s, n)[k] = s[k]
  BY <1>1, TextIs DEF Take, Texts
<1>. QED
  BY <1>1, <1>2 DEF Pre

(* Two byte strings one after the other.                                   *)
LEMMA JoinIs ==
  ASSUME NEW s \in Texts, NEW t \in Texts
  PROVE  /\ s \o t \in Texts /\ Len(s \o t) = Len(s) + Len(t)
         /\ \A k \in 1 .. Len(s) : (s \o t)[k] = s[k]
         /\ \A k \in 1 .. Len(t) : (s \o t)[Len(s) + k] = t[k]
         /\ Pre(s, s \o t)
<1>1. Len(s) \in Nat /\ Len(t) \in Nat
  BY TextIs
<1>2. /\ s \o t \in Texts /\ Len(s \o t) = Len(s) + Len(t)
      /\ \A k \in 1 .. Len(s) + Len(t) : (s \o t)[k] =
                     IF k <= Len(s) THEN s[k] ELSE t[k - Len(s)]
  BY ConcatProperties DEF Texts
<1>3. /\ \A k \in 1 .. Len(s) : (s \o t)[k] = s[k]
      /\ \A k \in 1 .. Len(t) : (s \o t)[Len(s) + k] = t[k]
  BY <1>1, <1>2
<1>. QED
  BY <1>1, <1>2, <1>3 DEF Pre

(* A string is what it begins with and the rest.                           *)
LEMMA RestIs ==
  ASSUME NEW s \in Texts, NEW t \in Texts, Pre(s, t)
  PROVE  t = s \o Drop(t, Len(s))
<1>1. Len(s) \in Nat /\ Len(t) \in Nat /\ Len(s) \in 0 .. Len(t)
  BY TextIs DEF Pre
<1>2. PICK u : u = Drop(t, Len(s))
  OBVIOUS
<1>3. u \in Texts /\ Len(u) = Len(t) - Len(s) /\ \A k \in 1 .. Len(u) : u[k] = t[Len(s) + k]
  BY <1>1, <1>2, DropIs
<1>4. PICK w : w = s \o u
  OBVIOUS
<1>5. w \in Texts /\ Len(w) = Len(t)
  BY <1>1, <1>3, <1>4, JoinIs
<1>6. ASSUME NEW k \in 1 .. Len(t) PROVE t[k] = w[k]
  <2>1. CASE k <= Len(s)
    <3>1. k \in 1 .. Len(s)
      BY <1>1, <2>1
    <3>. QED
      BY <1>3, <1>4, <3>1, JoinIs DEF Pre
  <2>2. CASE k > Len(s)
    <3>1. PICK j \in 1 .. Len(u) : k = Len(s) + j
      <4>1. k - Len(s) \in 1 .. Len(u) /\ k = Len(s) + (k - Len(s))
        BY <1>1, <1>3, <2>2
      <4>. QED
        BY <4>1
    <3>. QED
      BY <1>3, <1>4, <3>1, JoinIs
  <2>. QED
    BY <1>1, <2>1, <2>2
<1>. QED
  BY <1>2, <1>4, <1>5, <1>6, SeqEqual DEF Texts

LEMMA PreRefl ==
  ASSUME NEW s \in Texts
  PROVE  Pre(s, s)
BY TextIs DEF Pre

(* The byte after a prefix.                                                *)
LEMMA NextByte ==
  ASSUME NEW s \in Texts, NEW t \in Texts, NEW u \in Texts, Pre(t, u),
         Len(s) < Len(t)
  PROVE  t[Len(s) + 1] = u[Len(s) + 1] /\ Len(s) < Len(u)
<1>1. Len(s) + 1 \in 1 .. Len(t)
  BY TextIs
<1>. QED
  BY <1>1, TextIs DEF Pre

(* A string without what it begins with.                                   *)
LEMMA DropJoin ==
  ASSUME NEW s \in Texts, NEW t \in Texts
  PROVE  Drop(s \o t, Len(s)) = t
<1>1. PICK w : w = s \o t
  OBVIOUS
<1>2. PICK u : u = Drop(w, Len(s))
  OBVIOUS
<1>3. /\ w \in Texts /\ Len(w) = Len(s) + Len(t) /\ Len(s) \in Nat /\ Len(t) \in Nat
      /\ \A k \in 1 .. Len(t) : w[Len(s) + k] = t[k]
  BY <1>1, JoinIs, TextIs
<1>4. Len(s) \in 0 .. Len(w) /\ Len(w) - Len(s) = Len(t)
  BY <1>3
<1>5. u \in Texts /\ Len(u) = Len(w) - Len(s)
      /\ \A k \in 1 .. Len(w) - Len(s) : u[k] = w[Len(s) + k]
  BY <1>2, <1>3, <1>4, DropIs, Zenon
<1>. QED
  BY <1>1, <1>2, <1>3, <1>4, <1>5, SeqEqual DEF Texts

LEMMA DropTwice ==
  ASSUME NEW s \in Texts, NEW a \in 0 .. Len(s), NEW l \in 0 .. Len(s) - a
  PROVE  Drop(Drop(s, a), l) = Drop(s, a + l)
<1>1. PICK u : u = Drop(s, a)
  OBVIOUS
<1>2. PICK w : w = Drop(u, l)
  OBVIOUS
<1>3. PICK x : x = Drop(s, a + l)
  OBVIOUS
<1>4. Len(s) \in Nat /\ a \in Nat /\ l \in Nat /\ a + l \in 0 .. Len(s)
  BY TextIs
<1>5. u \in Texts /\ Len(u) = Len(s) - a /\ \A k \in 1 .. Len(s) - a : u[k] = s[a + k]
  BY <1>1, DropIs, Zenon
<1>6. l \in 0 .. Len(u)
  BY <1>5
<1>7. w \in Texts /\ Len(w) = Len(u) - l /\ \A k \in 1 .. Len(u) - l : w[k] = u[l + k]
  BY <1>2, <1>5, <1>6, DropIs, Zenon
<1>8. /\ x \in Texts /\ Len(x) = Len(s) - (a + l)
      /\ \A k \in 1 .. Len(s) - (a + l) : x[k] = s[a + l + k]
  BY <1>3, <1>4, DropIs, Zenon
<1>9. Len(w) = Len(x)
  BY <1>4, <1>5, <1>7, <1>8
<1>10. ASSUME NEW k \in 1 .. Len(x) PROVE w[k] = x[k]
  <2>1. l + k \in 1 .. Len(s) - a /\ k \in 1 .. Len(u) - l
        /\ k \in 1 .. Len(s) - (a + l) /\ a + (l + k) = a + l + k
    BY <1>4, <1>5, <1>8
  <2>. QED
    BY <1>5, <1>7, <1>8, <2>1
<1>. QED
  BY <1>1, <1>2, <1>3, <1>7, <1>8, <1>9, <1>10, SeqEqual DEF Texts

LEMMA TakeOfDrop ==
  ASSUME NEW s \in Texts, NEW a \in 0 .. Len(s), NEW l \in 0 .. Len(s) - a
  PROVE  Take(Drop(s, a), l) = Drop(Take(s, a + l), a)
<1>1. PICK u : u = Drop(s, a)
  OBVIOUS
<1>2. PICK w : w = Take(u, l)
  OBVIOUS
<1>3. PICK y : y = Take(s, a + l)
  OBVIOUS
<1>4. PICK x : x = Drop(y, a)
  OBVIOUS
<1>5. Len(s) \in Nat /\ a \in Nat /\ l \in Nat /\ a + l \in 0 .. Len(s)
  BY TextIs
<1>6. u \in Texts /\ Len(u) = Len(s) - a /\ \A k \in 1 .. Len(s) - a : u[k] = s[a + k]
  BY <1>1, DropIs, Zenon
<1>7. l \in 0 .. Len(u)
  BY <1>6
<1>8. w \in Texts /\ Len(w) = l /\ \A k \in 1 .. l : w[k] = u[k]
  BY <1>2, <1>6, <1>7, TakeIs, Zenon
<1>9. y \in Texts /\ Len(y) = a + l /\ \A k \in 1 .. a + l : y[k] = s[k]
  BY <1>3, <1>5, TakeIs, Zenon
<1>10. a \in 0 .. Len(y) /\ Len(y) - a = l
  BY <1>5, <1>9
<1>11. x \in Texts /\ Len(x) = Len(y) - a /\ \A k \in 1 .. Len(y) - a : x[k] = y[a + k]
  BY <1>4, <1>9, <1>10, DropIs, Zenon
<1>12. ASSUME NEW k \in 1 .. l PROVE w[k] = x[k]
  <2>1. k \in 1 .. Len(s) - a /\ a + k \in 1 .. a + l
    BY <1>5
  <2>. QED
    BY <1>6, <1>8, <1>9, <1>10, <1>11, <2>1
<1>. QED
  BY <1>1, <1>2, <1>3, <1>4, <1>8, <1>10, <1>11, <1>12, SeqEqual DEF Texts

(* A split string and what goes on with it: the joined prefix of two nodes *)
(* leads from the upper parent to the lower node.                          *)
LEMMA DropThenRest ==
  ASSUME NEW s \in Texts, NEW t \in Texts, Pre(s, t), NEW a \in 0 .. Len(s)
  PROVE  Drop(s, a) \o Drop(t, Len(s)) = Drop(t, a)
<1>1. PICK u : u = Drop(s, a)
  OBVIOUS
<1>2. PICK w : w = Drop(t, Len(s))
  OBVIOUS
<1>3. PICK x : x = Drop(t, a)
  OBVIOUS
<1>4. PICK y : y = u \o w
  OBVIOUS
<1>5. /\ Len(s) \in Nat /\ Len(t) \in Nat /\ a \in Nat /\ a \in 0 .. Len(t)
      /\ Len(s) \in 0 .. Len(t) /\ \A k \in 1 .. Len(s) : s[k] = t[k]
  BY TextIs DEF Pre
<1>6. u \in Texts /\ Len(u) = Len(s) - a /\ \A k \in 1 .. Len(s) - a : u[k] = s[a + k]
  BY <1>1, DropIs, Zenon
<1>7. w \in Texts /\ Len(w) = Len(t) - Len(s)
      /\ \A k \in 1 .. Len(t) - Len(s) : w[k] = t[Len(s) + k]
  BY <1>2, <1>5, DropIs, Zenon
<1>8. x \in Texts /\ Len(x) = Len(t) - a /\ \A k \in 1 .. Len(t) - a : x[k] = t[a + k]
  BY <1>3, <1>5, DropIs, Zenon
<1>9. /\ y \in Texts /\ Len(y) = Len(u) + Len(w)
      /\ \A k \in 1 .. Len(u) : y[k] = u[k]
      /\ \A k \in 1 .. Len(w) : y[Len(u) + k] = w[k]
  BY <1>4, <1>6, <1>7, JoinIs, Zenon
<1>10. Len(y) = Len(x)
  BY <1>5, <1>6, <1>7, <1>8, <1>9
<1>11. ASSUME NEW k \in 1 .. Len(t) - a PROVE y[k] = x[k]
  <2>1. x[k] = t[a + k]
    BY <1>8
  <2>2. CASE k <= Len(s) - a
    <3>1. k \in 1 .. Len(u) /\ k \in 1 .. Len(s) - a /\ a + k \in 1 .. Len(s)
      BY <1>5, <1>6, <2>2
    <3>. QED
      BY <1>5, <1>6, <1>9, <2>1, <3>1
  <2>3. CASE k > Len(s) - a
    <3>1. PICK j : j = k - (Len(s) - a)
      OBVIOUS
    <3>2. /\ j \in 1 .. Len(w) /\ j \in 1 .. Len(t) - Len(s) /\ Len(u) + j = k
          /\ Len(s) + j = a + k
      BY <1>5, <1>6, <1>7, <2>3, <3>1
    <3>3. y[k] = w[j] /\ w[j] = t[Len(s) + j]
      BY <1>7, <1>9, <3>2
    <3>. QED
      BY <2>1, <3>2, <3>3
  <2>. QED
    BY <1>5, <2>2, <2>3
<1>. QED
  BY <1>1, <1>2, <1>3, <1>4, <1>8, <1>9, <1>10, <1>11, SeqEqual DEF Texts

(* What Common computes.                                                   *)
LEMMA CommonIs ==
  ASSUME NEW s \in Texts, NEW t \in Texts
  PROVE  /\ Common(s, t) \in 0 .. Len(s) /\ Common(s, t) <= Len(t)
         /\ \A k \in 1 .. Common(s, t) : s[k] = t[k]
         /\ Common(s, t) < Len(s) /\ Common(s, t) < Len(t) =>
              s[Common(s, t) + 1] # t[Common(s, t) + 1]
<1> DEFINE Is(n) == /\ n <= Len(t)
                    /\ \A k \in 1 .. n : s[k] = t[k]
                    /\ n < Len(s) /\ n < Len(t) => s[n + 1] # t[n + 1]
           D == {n \in Nat : n < Len(s) /\ n < Len(t) /\ s[n + 1] # t[n + 1]}
<1>0. Len(s) \in Nat /\ Len(t) \in Nat
  BY TextIs
<1>1. \E n \in 0 .. Len(s) : Is(n)
  <2>1. CASE D = {}
    <3> DEFINE m == IF Len(s) <= Len(t) THEN Len(s) ELSE Len(t)
    <3>1. m \in 0 .. Len(s) /\ m <= Len(t) /\ ~(m < Len(s) /\ m < Len(t))
      BY <1>0
    <3>2. ASSUME NEW k \in 1 .. m PROVE s[k] = t[k]
      <4>1. k - 1 \in Nat /\ k - 1 < Len(s) /\ k - 1 < Len(t) /\ (k - 1) + 1 = k
        BY <1>0, <3>1
      <4>2. k - 1 \notin D
        BY <2>1
      <4>. QED
        BY <4>1, <4>2
    <3> HIDE DEF m
    <3>. QED
      BY <3>1, <3>2
  <2>2. CASE D # {}
    <3>1. D \in SUBSET Nat
      OBVIOUS
    <3> HIDE DEF D
    <3>2. PICK n \in D : \A y \in D : n <= y
      BY <2>2, <3>1, LeastOf, Zenon
    <3>3. n \in 0 .. Len(s) /\ n <= Len(t) /\ s[n + 1] # t[n + 1]
      BY <1>0, <3>2 DEF D
    <3>4. ASSUME NEW k \in 1 .. n PROVE s[k] = t[k]
      <4>1. k - 1 \in Nat /\ k - 1 < n /\ (k - 1) + 1 = k
        BY <3>3
      <4>2. k - 1 \notin D
        BY <3>2, <3>3, <4>1
      <4>. QED
        BY <1>0, <3>3, <4>1, <4>2 DEF D
    <3>. QED
      BY <3>3, <3>4
  <2>. QED
    BY <2>1, <2>2
<1>2. Common(s, t) = CHOOSE n \in 0 .. Len(s) : Is(n)
  BY DEF Common
<1>3. Common(s, t) \in 0 .. Len(s) /\ Is(Common(s, t))
  <2> HIDE DEF Is
  <2>. QED
    BY <1>1, <1>2
<1>. QED
  BY <1>3

------------------------------------------------------------------------------
(* Trees.  The nodes F, what leads to them P and the root R are parameters *)
(* here, so that what is said of a tree can be said of the next one too.   *)

Tables(N) == UNION {[B -> N] : B \in SUBSET Bytes}
NodesOver(N) == [prefix : Texts, val : Values \cup {None}, kids : Tables(N)]

Typed(F, P) ==
  /\ DOMAIN P = DOMAIN F
  /\ \A n \in DOMAIN F : P[n] \in Texts /\ F[n] \in NodesOver(DOMAIN F)

(* A child is found under the byte that its way goes on with.              *)
KidOf(F, P, R, n, b) ==
  LET c == F[n].kids[b]
  IN /\ c # R /\ Short(P[n], P[c])
     /\ P[c][Len(P[n]) + 1] = b
     /\ F[c].prefix = Drop(P[c], Len(P[n]))
KidsFiled(F, P, R) == \A n \in DOMAIN F : \A b \in DOMAIN F[n].kids : KidOf(F, P, R, n, b)

(* Whatever begins with the bytes of n is below n.                         *)
WayDown(F, P, n, x) ==
  LET b == P[x][Len(P[n]) + 1]
  IN Len(P[n]) < Len(P[x]) /\ b \in DOMAIN F[n].kids /\ Pre(P[F[n].kids[b]], P[x])
Nested(F, P) ==
  \A n, x \in DOMAIN F : n # x /\ Pre(P[n], P[x]) => WayDown(F, P, n, x)

HasParent(F, x) == \E y \in DOMAIN F : \E b \in DOMAIN F[y].kids : F[y].kids[b] = x
Rooted(F, P, R) ==
  /\ IF R = None THEN DOMAIN F = {} ELSE R \in DOMAIN F /\ F[R].prefix = P[R]
  /\ \A x \in DOMAIN F : Pre(P[R], P[x]) /\ (x # R => HasParent(F, x))

Tree(F, P, R) ==
  Typed(F, P) /\ KidsFiled(F, P, R) /\ Nested(F, P) /\ Rooted(F, P, R)

(* What a tree says of a node,                                             *)
LEMMA TreeNode ==
  ASSUME NEW F, NEW P, NEW R, Tree(F, P, R), NEW n \in DOMAIN F
  PROVE  /\ P[n] \in Texts /\ Len(P[n]) \in Nat /\ n \in DOMAIN P
         /\ F[n] \in NodesOver(DOMAIN F)
         /\ F[n].prefix \in Texts /\ F[n].val \in Values \cup {None}
         /\ F[n].kids \in Tables(DOMAIN F)
         /\ DOMAIN F[n].kids \subseteq Bytes
         /\ \A b \in DOMAIN F[n].kids : F[n].kids[b] \in DOMAIN F
<1>1. P[n] \in Texts /\ n \in DOMAIN P /\ F[n] \in NodesOver(DOMAIN F)
  BY DEF Tree, Typed
<1>2. F[n].prefix \in Texts /\ F[n].val \in Values \cup {None}
      /\ F[n].kids \in Tables(DOMAIN F)
  BY <1>1 DEF NodesOver
<1>. QED
  BY <1>1, <1>2, TextIs DEF Tables

(* of its child at a byte,                                                 *)
LEMMA TreeKid ==
  ASSUME NEW F, NEW P, NEW R, Tree(F, P, R), NEW n \in DOMAIN F,
         NEW b \in DOMAIN F[n].kids, NEW c, c = F[n].kids[b]
  PROVE  /\ c \in DOMAIN F /\ c # R /\ Pre(P[n], P[c]) /\ Len(P[n]) < Len(P[c])
         /\ P[c][Len(P[n]) + 1] = b /\ c # n
         /\ F[c].prefix = Drop(P[c], Len(P[n]))
<1>1. c \in DOMAIN F /\ Len(P[n]) \in Nat
  BY TreeNode
<1>. QED
  BY <1>1 DEF Tree, KidsFiled, KidOf, Short

(* of a node whose path goes on from its own,                              *)
LEMMA TreeWay ==
  ASSUME NEW F, NEW P, NEW R, Tree(F, P, R), NEW n \in DOMAIN F, NEW x \in DOMAIN F,
         n # x, Pre(P[n], P[x]), NEW b, b = P[x][Len(P[n]) + 1]
  PROVE  /\ Len(P[n]) < Len(P[x]) /\ b \in DOMAIN F[n].kids
         /\ F[n].kids[b] \in DOMAIN F /\ Pre(P[F[n].kids[b]], P[x])
<1>1. WayDown(F, P, n, x)
  BY DEF Tree, Nested
<1>. QED
  BY <1>1, TreeNode DEF WayDown

(* and of the root.                                                        *)
LEMMA TreeRoot ==
  ASSUME NEW F, NEW P, NEW R, Tree(F, P, R), NEW x \in DOMAIN F
  PROVE  /\ R # None /\ R \in DOMAIN F /\ F[R].prefix = P[R] /\ Pre(P[R], P[x])
         /\ x # R => HasParent(F, x)
BY DEF Tree, Rooted

(* No two nodes are reached by the same bytes, and each by one parent.     *)
LEMMA Distinct ==
  ASSUME NEW F, NEW P, NEW R, Tree(F, P, R), NEW n \in DOMAIN F, NEW m \in DOMAIN F,
         Pre(P[n], P[m]), Len(P[m]) <= Len(P[n])
  PROVE  n = m
<1>1. Len(P[n]) \in Nat /\ Len(P[m]) \in Nat
  BY TreeNode
<1>2. n # m => Len(P[n]) < Len(P[m])
  BY TreeWay
<1>. QED
  BY <1>1, <1>2

(* Of two parents of a node the upper one would have the lower one below   *)
(* it, at a child on the same way: the node itself.                        *)
LEMMA OneParentBelow ==
  ASSUME NEW F, NEW P, NEW R, Tree(F, P, R), NEW n \in DOMAIN F, NEW m \in DOMAIN F,
         NEW b \in DOMAIN F[n].kids, NEW d \in DOMAIN F[m].kids,
         F[n].kids[b] = F[m].kids[d], Len(P[n]) <= Len(P[m])
  PROVE  n = m /\ b = d
<1>1. PICK c : c = F[n].kids[b]
  OBVIOUS
<1>2. /\ c \in DOMAIN F /\ Pre(P[n], P[c]) /\ Pre(P[m], P[c]) /\ Len(P[m]) < Len(P[c])
      /\ P[c][Len(P[n]) + 1] = b /\ P[c][Len(P[m]) + 1] = d
  BY <1>1, TreeKid
<1>3. P[n] \in Texts /\ P[m] \in Texts /\ P[c] \in Texts
      /\ Len(P[n]) \in Nat /\ Len(P[m]) \in Nat /\ Len(P[c]) \in Nat
  BY <1>2, TreeNode
<1>4. Pre(P[n], P[m])
  BY <1>2, <1>3, PreBoth
<1>5. ASSUME n # m PROVE FALSE
  <2>1. PICK e : e = P[m][Len(P[n]) + 1]
    OBVIOUS
  <2>2. Len(P[n]) < Len(P[m]) /\ Pre(P[F[n].kids[e]], P[m])
    BY <1>4, <1>5, <2>1, TreeWay
  <2>3. e = b
    BY <1>2, <1>3, <2>1, <2>2, NextByte
  <2>4. Len(P[c]) <= Len(P[m])
    BY <1>1, <2>2, <2>3 DEF Pre
  <2>. QED
    BY <1>2, <1>3, <2>4
<1>. QED
  BY <1>2, <1>5

(* A node is filed in one place.                                           *)
LEMMA OneParent ==
  ASSUME NEW F, NEW P, NEW R, Tree(F, P, R), NEW n \in DOMAIN F, NEW m \in DOMAIN F,
         NEW b \in DOMAIN F[n].kids, NEW d \in DOMAIN F[m].kids,
         F[n].kids[b] = F[m].kids[d]
  PROVE  n = m /\ b = d
<1>1. Len(P[n]) \in Nat /\ Len(P[m]) \in Nat
  BY TreeNode
<1>2. Len(P[n]) <= Len(P[m]) \/ Len(P[m]) <= Len(P[n])
  BY <1>1
<1>. QED
  BY <1>2, OneParentBelow

(* The prefix of a node is the end of what leads to it, from Begin on.     *)
Begin(F, P, n) == Len(P[n]) - Len(F[n].prefix)

LEMMA PrefixIs ==
  ASSUME NEW F, NEW P, NEW R, Tree(F, P, R), NEW n \in DOMAIN F,
         NEW a, a = Begin(F, P, n)
  PROVE  /\ a \in 0 .. Len(P[n]) /\ F[n].prefix = Drop(P[n], a)
         /\ n = R => a = 0 /\ F[n].prefix = P[n]
         /\ n # R => a < Len(P[n])
         /\ \A y \in DOMAIN F : \A b \in DOMAIN F[y].kids :
              F[y].kids[b] = n => Len(P[y]) = a
<1>1. P[n] \in Texts /\ Len(P[n]) \in Nat
  BY TreeNode
<1>2. ASSUME NEW y \in DOMAIN F, NEW b \in DOMAIN F[y].kids, F[y].kids[b] = n
      PROVE  a = Len(P[y]) /\ a \in 0 .. Len(P[n]) /\ F[n].prefix = Drop(P[n], a)
             /\ a < Len(P[n])
  <2>1. Len(P[y]) < Len(P[n]) /\ F[n].prefix = Drop(P[n], Len(P[y])) /\ Len(P[y]) \in Nat
    BY <1>2, TreeKid, TreeNode
  <2>2. Len(P[y]) \in 0 .. Len(P[n])
    BY <1>1, <2>1
  <2>3. Len(F[n].prefix) = Len(P[n]) - Len(P[y])
    BY <1>1, <2>1, <2>2, DropIs, Zenon
  <2>4. a = Len(P[y])
    BY <1>1, <2>1, <2>3 DEF Begin
  <2>. QED
    BY <2>1, <2>2, <2>4
<1>3. CASE n = R
  <2>1. F[n].prefix = P[n] /\ \A y \in DOMAIN F : \A b \in DOMAIN F[y].kids : F[y].kids[b] # n
    BY <1>3, TreeRoot, TreeKid
  <2>2. a = 0 /\ 0 \in 0 .. Len(P[n])
    BY <1>1, <2>1 DEF Begin
  <2>3. Drop(P[n], 0) = P[n]
    BY <1>1, <2>2, DropIs, Zenon
  <2>. QED
    BY <1>3, <2>1, <2>2, <2>3
<1>4. CASE n # R
  <2>1. \E y \in DOMAIN F : \E b \in DOMAIN F[y].kids : F[y].kids[b] = n
    BY <1>4, TreeRoot DEF HasParent
  <2>. QED
    BY <1>2, <1>4, <2>1
<1>. QED
  BY <1>3, <1>4

(* A string that goes the way of n for one byte of its prefix is either    *)
(* below n or not in the tree.                                             *)
LEMMA Entered ==
  ASSUME NEW F, NEW P, NEW R, Tree(F, P, R), NEW n \in DOMAIN F, NEW x \in DOMAIN F,
         NEW a, a = Begin(F, P, n),
         n = R \/ (a + 1 <= Len(P[x]) /\ \A k \in 1 .. a + 1 : P[x][k] = P[n][k])
  PROVE  Pre(P[n], P[x])
<1>1. CASE n = R
  BY <1>1, TreeRoot
<1>2. CASE n # R
  <2>1. PICK y \in DOMAIN F : \E b \in DOMAIN F[y].kids : F[y].kids[b] = n
    BY <1>2, TreeRoot DEF HasParent
  <2>2. PICK b \in DOMAIN F[y].kids : F[y].kids[b] = n
    BY <2>1
  <2>3. /\ Pre(P[y], P[n]) /\ Len(P[y]) < Len(P[n]) /\ P[n][Len(P[y]) + 1] = b
        /\ F[n].prefix = Drop(P[n], Len(P[y]))
    BY <2>2, TreeKid
  <2>4. /\ P[y] \in Texts /\ P[n] \in Texts /\ P[x] \in Texts
        /\ Len(P[y]) \in Nat /\ Len(P[n]) \in Nat /\ Len(P[x]) \in Nat
    BY TreeNode
  <2>5. Len(P[y]) \in 0 .. Len(P[n])
    BY <2>3, <2>4
  <2>6. a = Len(P[y])
    <3>1. Len(Drop(P[n], Len(P[y]))) = Len(P[n]) - Len(P[y])
      BY <2>4, <2>5, DropIs, Zenon
    <3>. QED
      BY <2>3, <2>4, <3>1 DEF Begin
  <2>7. Len(P[y]) + 1 <= Len(P[x]) /\ \A k \in 1 .. Len(P[y]) + 1 : P[x][k] = P[n][k]
    BY <1>2, <2>6
  <2>8. Pre(P[y], P[x])
    <3>1. \A k \in 1 .. Len(P[y]) : k \in 1 .. Len(P[y]) + 1
      BY <2>4
    <3>2. \A k \in 1 .. Len(P[y]) : P[y][k] = P[x][k]
      BY <2>3, <2>7, <3>1 DEF Pre
    <3>. QED
      BY <2>4, <2>7, <3>2 DEF Pre
  <2>9. P[x][Len(P[y]) + 1] = b /\ y # x
    <3>1. Len(P[y]) + 1 \in 1 .. Len(P[y]) + 1 /\ Len(P[y]) # Len(P[x])
      BY <2>4, <2>7
    <3>. QED
      BY <2>3, <2>7, <3>1
  <2>. QED
    BY <2>2, <2>8, <2>9, TreeWay
<1>. QED
  BY <1>1, <1>2

(* What is dropped with a node is all that begins with its bytes.          *)
LEMMA UnderIs ==
  ASSUME Tree(forest, path, root), NEW n \in nodes
  PROVE  Under(n) = {x \in nodes : Pre(path[n], path[x])}
<1> DEFINE Open(S) == n \in S /\ \A y \in S : Kids(y) \subseteq S
<1>1. Under(n) = {x \in nodes : \A S \in SUBSET nodes : Open(S) => x \in S}
  BY DEF Under
<1>2. ASSUME NEW x \in Under(n) PROVE Pre(path[n], path[x])
  <2> DEFINE S == {y \in nodes : Pre(path[n], path[y])}
  <2>1. n \in S
    BY TreeNode, PreRefl DEF nodes
  <2>2. ASSUME NEW y \in S, NEW c \in Kids(y) PROVE c \in S
    <3>1. PICK b \in DOMAIN forest[y].kids : c = forest[y].kids[b]
      BY DEF Kids, Branches
    <3>2. y \in nodes /\ Pre(path[n], path[y])
      OBVIOUS
    <3>3. c \in nodes /\ Pre(path[y], path[c])
      BY <3>1, <3>2, TreeKid DEF nodes
    <3>4. path[n] \in Texts /\ path[y] \in Texts /\ path[c] \in Texts
      BY <3>2, <3>3, TreeNode DEF nodes
    <3>5. Pre(path[n], path[c])
      BY <3>2, <3>3, <3>4, PreTrans
    <3>. QED
      BY <3>3, <3>5
  <2>3. S \in SUBSET nodes /\ Open(S)
    BY <2>1, <2>2
  <2>4. \A T \in SUBSET nodes : Open(T) => x \in T
    BY <1>1
  <2>5. x \in S
    <3> HIDE DEF S, Open
    <3>. QED
      BY <2>3, <2>4
  <2>. QED
    BY <2>5
<1>3. ASSUME NEW x \in nodes, Pre(path[n], path[x]), NEW S \in SUBSET nodes, Open(S)
      PROVE  x \in S
  <2> DEFINE D == {d \in Nat : \E y \in S : Pre(path[y], path[x])
                                            /\ d = Len(path[x]) - Len(path[y])}
  <2>1. ASSUME NEW y \in S, Pre(path[y], path[x])
        PROVE  Len(path[x]) - Len(path[y]) \in D
    <3>1. Len(path[x]) \in Nat /\ Len(path[y]) \in Nat
      BY TreeNode DEF nodes
    <3>2. Len(path[x]) - Len(path[y]) \in Nat
      BY <2>1, <3>1 DEF Pre
    <3>. QED
      BY <2>1, <3>2
  <2>2. D \in SUBSET Nat /\ D # {}
    BY <1>3, <2>1
  <2> HIDE DEF D
  <2>3. PICK d \in D : \A e \in D : d <= e
    BY <2>2, LeastOf, Zenon
  <2>4. PICK y \in S : Pre(path[y], path[x]) /\ d = Len(path[x]) - Len(path[y])
    BY <2>3 DEF D
  <2>5. ASSUME y # x PROVE FALSE
    <3>1. PICK b : b = path[x][Len(path[y]) + 1]
      OBVIOUS
    <3>2. PICK c : c = forest[y].kids[b]
      OBVIOUS
    <3>3. y \in nodes
      OBVIOUS
    <3>4. b \in DOMAIN forest[y].kids /\ c \in nodes /\ Pre(path[c], path[x])
      BY <2>4, <2>5, <3>1, <3>2, <3>3, TreeWay DEF nodes
    <3>5. Len(path[y]) < Len(path[c])
      BY <3>2, <3>3, <3>4, TreeKid DEF nodes
    <3>6. c \in S
      BY <1>3, <3>2, <3>4 DEF Kids, Branches
    <3>7. d <= Len(path[x]) - Len(path[c])
      BY <2>1, <2>3, <3>4, <3>6
    <3>8. Len(path[x]) \in Nat /\ Len(path[y]) \in Nat /\ Len(path[c]) \in Nat
      BY <3>3, <3>4, TreeNode DEF nodes
    <3>. QED
      BY <2>4, <3>5, <3>7, <3>8
  <2>. QED
    BY <2>5
<1>4. ASSUME NEW x \in nodes, Pre(path[n], path[x]) PROVE x \in Under(n)
  <2> HIDE DEF Open
  <2>. QED
    BY <1>1, <1>3, <1>4
<1>5. \A x \in Under(n) : x \in nodes
  BY DEF Under
<1>. QED
  BY <1>2, <1>4, <1>5

------------------------------------------------------------------------------
(* What the operations do to a tree.                                       *)

LEMMA EmptyTree == Tree(<<>>, <<>>, None)
BY DEF Tree, Typed, KidsFiled, Nested, Rooted

LEMMA NewNode ==
  ASSUME NEW t \in Texts, NEW v \in Values \cup {None}, NEW N
  PROVE  /\ Node(t, v) \in NodesOver(N) /\ Node(t, v).prefix = t
         /\ Node(t, v).val = v /\ DOMAIN Node(t, v).kids = {}
<1>1. <<>> \in [{} -> N]
  OBVIOUS
<1>2. [{} -> N] \subseteq Tables(N)
  <2>1. {} \in SUBSET Bytes
    OBVIOUS
  <2>. QED
    BY <2>1, Zenon DEF Tables
<1>. QED
  BY <1>1, <1>2 DEF Node, NodesOver

OneNodeOf(t, v, n, F, P) == F = [x \in {n} |-> Node(t, v)] /\ P = [x \in {n} |-> t]

LEMMA OneNodeTree ==
  ASSUME NEW t \in Texts, NEW v \in Values \cup {None}, NEW n, n # None,
         NEW F, NEW P, OneNodeOf(t, v, n, F, P)
  PROVE  Tree(F, P, n) /\ DOMAIN F = {n} /\ P[n] = t /\ F[n] = Node(t, v)
<1> USE DEF OneNodeOf
<1>1. /\ DOMAIN F = {n} /\ DOMAIN P = {n} /\ P[n] = t
      /\ F[n] \in NodesOver({n}) /\ F[n].prefix = t /\ DOMAIN F[n].kids = {}
      /\ F[n] = Node(t, v)
  BY NewNode
<1>2. Typed(F, P)
  BY <1>1 DEF Typed
<1>3. KidsFiled(F, P, n) /\ Nested(F, P)
  BY <1>1 DEF KidsFiled, Nested
<1>4. Rooted(F, P, n)
  BY <1>1, PreRefl DEF Rooted
<1>. QED
  BY <1>1, <1>2, <1>3, <1>4 DEF Tree

(* A value is no part of the tree's shape.                                 *)
RevaluedOf(F, n, v, F2) == F2 = [F EXCEPT ![n].val = v]

(* A value is written or taken.                                            *)
LEMMA RevaluedTree ==
  ASSUME NEW F, NEW P, NEW R, Tree(F, P, R), NEW n \in DOMAIN F,
         NEW v \in Values \cup {None}, NEW F2, RevaluedOf(F, n, v, F2)
  PROVE  /\ Tree(F2, P, R) /\ DOMAIN F2 = DOMAIN F /\ F2[n].val = v
         /\ \A x \in DOMAIN F : x # n => F2[x] = F[x]
         /\ \A x \in DOMAIN F : F2[x].kids = F[x].kids
<1> USE DEF RevaluedOf
<1>1. DOMAIN F2 = DOMAIN F /\ \A x \in DOMAIN F : x # n => F2[x] = F[x]
  OBVIOUS
<1>2. F[n] \in NodesOver(DOMAIN F) /\ F2[n] = [F[n] EXCEPT !.val = v]
  BY TreeNode
<1>3. /\ F2[n] \in NodesOver(DOMAIN F) /\ F2[n].prefix = F[n].prefix
      /\ F2[n].kids = F[n].kids /\ F2[n].val = v
  BY <1>2 DEF NodesOver
<1>4. \A x \in DOMAIN F : F2[x].prefix = F[x].prefix /\ F2[x].kids = F[x].kids
  BY <1>1, <1>3
<1>5. Typed(F2, P)
  BY <1>1, <1>3 DEF Typed, Tree
<1>6. KidsFiled(F2, P, R)
  <2> SUFFICES ASSUME NEW x \in DOMAIN F, NEW b \in DOMAIN F[x].kids
               PROVE  KidOf(F2, P, R, x, b)
    BY <1>1, <1>4 DEF KidsFiled
  <2>1. KidOf(F, P, R, x, b) /\ F[x].kids[b] \in DOMAIN F
    BY TreeNode DEF Tree, KidsFiled
  <2>. QED
    BY <1>4, <2>1 DEF KidOf
<1>7. Nested(F2, P)
  <2> SUFFICES ASSUME NEW x \in DOMAIN F, NEW y \in DOMAIN F, x # y, Pre(P[x], P[y])
               PROVE  WayDown(F2, P, x, y)
    BY <1>1 DEF Nested
  <2>1. WayDown(F, P, x, y)
    BY DEF Tree, Nested
  <2>. QED
    BY <1>4, <2>1 DEF WayDown
<1>8. Rooted(F2, P, R)
  <2>1. \A x \in DOMAIN F : HasParent(F, x) => HasParent(F2, x)
    BY <1>1, <1>4 DEF HasParent
  <2>. QED
    BY <1>1, <1>4, <2>1 DEF Rooted, Tree
<1>. QED
  BY <1>1, <1>3, <1>4, <1>5, <1>6, <1>7, <1>8 DEF Tree

GrownOf(F, P, m, n, t, v, F2, P2) ==
  /\ F2 = [x \in DOMAIN F \cup {n} |->
             CASE x = n -> Node(t, v)
               [] x = m -> [F[m] EXCEPT !.kids =
                    [d \in DOMAIN F[m].kids \cup {t[1]} |->
                       IF d = t[1] THEN n ELSE F[m].kids[d]]]
               [] OTHER -> F[x]]
  /\ P2 = [x \in DOMAIN F \cup {n} |-> IF x = n THEN P[m] \o t ELSE P[x]]

(* insert puts a leaf under a node that has nothing at its first byte.     *)
LEMMA GrownTree ==
  ASSUME NEW F, NEW P, NEW R, Tree(F, P, R), NEW m \in DOMAIN F,
         NEW n, n \notin DOMAIN F, NEW t \in Texts, t # <<>>,
         NEW v \in Values \cup {None}, t[1] \notin DOMAIN F[m].kids,
         NEW F2, NEW P2, GrownOf(F, P, m, n, t, v, F2, P2)
  PROVE  /\ Tree(F2, P2, R)
         /\ P2[n] = P[m] \o t /\ \A x \in DOMAIN F : P2[x] = P[x]
         /\ \A x \in DOMAIN F : F2[x].val = F[x].val
         /\ F2[n].val = v
         /\ \A x \in DOMAIN F \ {m} : F2[x] = F[x]
         /\ \A d : d \in DOMAIN F2[m].kids <=> d \in DOMAIN F[m].kids \/ d = t[1]
<1> DEFINE b == t[1]
           N == DOMAIN F
           M == N \cup {n}
<1>0. Len(t) \in Nat /\ 1 <= Len(t) /\ b \in Bytes /\ 1 \in 1 .. Len(t)
  BY TextIs
<1>1. /\ DOMAIN F2 = M /\ DOMAIN P2 = M /\ F2[n] = Node(t, v) /\ P2[n] = P[m] \o t
      /\ \A x \in N : P2[x] = P[x]
      /\ \A x \in N : x # m => F2[x] = F[x]
      /\ F2[m] = [F[m] EXCEPT !.kids = [d \in DOMAIN F[m].kids \cup {b} |->
                                                IF d = b THEN n ELSE F[m].kids[d]]]
  BY DEF GrownOf
<1> HIDE DEF b
<1>2. /\ F[m] \in NodesOver(N) /\ P[m] \in Texts /\ DOMAIN F[m].kids \subseteq Bytes
      /\ \A d \in DOMAIN F[m].kids : F[m].kids[d] \in N
  BY TreeNode
<1>3. /\ F2[m].prefix = F[m].prefix /\ F2[m].val = F[m].val
      /\ F2[m].kids = [d \in DOMAIN F[m].kids \cup {b} |->
                                                IF d = b THEN n ELSE F[m].kids[d]]
  BY <1>1, <1>2 DEF NodesOver
<1>4. /\ DOMAIN F2[m].kids = DOMAIN F[m].kids \cup {b} /\ F2[m].kids[b] = n
      /\ \A d \in DOMAIN F[m].kids : F2[m].kids[d] = F[m].kids[d]
  <2>1. b \notin DOMAIN F[m].kids
    BY DEF b
  <2>2. PICK D : D = DOMAIN F[m].kids
    OBVIOUS
  <2>3. F2[m].kids = [d \in D \cup {b} |-> IF d = b THEN n ELSE F[m].kids[d]] /\ b \notin D
    BY <1>3, <2>1, <2>2
  <2>4. DOMAIN F2[m].kids = D \cup {b}
    BY <2>3
  <2>5. F2[m].kids[b] = n
    BY <2>3
  <2>6. ASSUME NEW d \in D PROVE F2[m].kids[d] = F[m].kids[d]
    BY <2>3
  <2>. QED
    BY <2>2, <2>4, <2>5, <2>6
<1>5. /\ F2[n] \in NodesOver(M) /\ F2[n].prefix = t /\ F2[n].val = v /\ DOMAIN F2[n].kids = {}
  <2>1. /\ Node(t, v) \in NodesOver(M) /\ Node(t, v).prefix = t
        /\ Node(t, v).val = v /\ DOMAIN Node(t, v).kids = {}
    BY NewNode
  <2>. QED
    BY <1>1, <2>1, Zenon
<1>6. \A x \in N : /\ F2[x].prefix = F[x].prefix /\ F2[x].val = F[x].val
                   /\ \A d \in DOMAIN F[x].kids : d \in DOMAIN F2[x].kids
                                                   /\ F2[x].kids[d] = F[x].kids[d]
  BY <1>1, <1>3, <1>4
<1>7. /\ P2[n] \in Texts /\ Len(P2[n]) = Len(P[m]) + Len(t) /\ Len(P[m]) \in Nat
      /\ Pre(P[m], P2[n]) /\ P2[n][Len(P[m]) + 1] = b
  <2>1. P2[n][Len(P[m]) + 1] = b
    BY <1>0, <1>1, <1>2, JoinIs DEF b
  <2>2. P[m] \o t \in Texts /\ Len(P[m] \o t) = Len(P[m]) + Len(t) /\ Pre(P[m], P[m] \o t)
    BY <1>2, JoinIs, Zenon
  <2>3. Len(P[m]) \in Nat
    BY <1>2, TextIs
  <2>. QED
    BY <1>1, <2>1, <2>2, <2>3
<1>8. Typed(F2, P2)
  <2>1. ASSUME NEW x \in M PROVE P2[x] \in Texts
    <3>1. x \in N => P2[x] = P[x] /\ P[x] \in Texts
      BY <1>1, TreeNode
    <3>. QED
      BY <1>7, <3>1
  <2>2. ASSUME NEW K \in Tables(N) PROVE K \in Tables(M)
    BY DEF Tables
  <2>3. F2[m] \in NodesOver(M)
    <3>1. F2[m].kids \in [DOMAIN F[m].kids \cup {b} -> M]
      BY <1>2, <1>3
    <3>2. DOMAIN F[m].kids \cup {b} \in SUBSET Bytes
      BY <1>0, <1>2
    <3>3. F2[m].kids \in Tables(M)
      BY <3>1, <3>2, Zenon DEF Tables
    <3>4. F2[m] = [prefix |-> F[m].prefix, val |-> F[m].val, kids |-> F2[m].kids]
      BY <1>1, <1>2, <1>3 DEF NodesOver
    <3>. QED
      BY <1>2, <3>3, <3>4 DEF NodesOver
  <2>4. ASSUME NEW x \in N, x # m PROVE F2[x] \in NodesOver(M)
    <3>1. F[x] \in NodesOver(N) /\ F2[x] = F[x]
      BY <1>1, <2>4, TreeNode
    <3>. QED
      BY <2>2, <3>1 DEF NodesOver
  <2>. QED
    BY <1>1, <1>5, <2>1, <2>3, <2>4 DEF Typed
<1>9. KidsFiled(F2, P2, R)
  <2> SUFFICES ASSUME NEW x \in M, NEW d \in DOMAIN F2[x].kids
               PROVE  KidOf(F2, P2, R, x, d)
    BY <1>1 DEF KidsFiled
  <2>1. CASE x \in N /\ d \in DOMAIN F[x].kids
    <3>1. KidOf(F, P, R, x, d) /\ F[x].kids[d] \in N
      BY <2>1, TreeNode DEF Tree, KidsFiled
    <3>2. /\ F2[x].kids[d] = F[x].kids[d] /\ P2[x] = P[x]
          /\ P2[F[x].kids[d]] = P[F[x].kids[d]]
          /\ F2[F[x].kids[d]].prefix = F[F[x].kids[d]].prefix
      BY <1>1, <1>6, <2>1, <3>1
    <3> HIDE DEF N, M
    <3>. QED
      BY <3>1, <3>2 DEF KidOf
  <2>2. CASE x = m /\ d = b
    <3>1. n # R
      BY TreeRoot
    <3>2. Drop(P2[n], Len(P[m])) = t
      BY <1>1, <1>2, DropJoin
    <3>3. F2[m].kids[b] = n /\ F2[n].prefix = t /\ P2[m] = P[m] /\ Len(P[m]) < Len(P2[n])
      BY <1>0, <1>1, <1>4, <1>5, <1>7
    <3> HIDE DEF N, M
    <3>. QED
      BY <1>7, <2>2, <3>1, <3>2, <3>3 DEF KidOf, Short
  <2>. QED
    BY <1>1, <1>4, <1>5, <2>1, <2>2
<1>10. Nested(F2, P2)
  <2> SUFFICES ASSUME NEW x \in M, NEW y \in M, x # y, Pre(P2[x], P2[y])
               PROVE  WayDown(F2, P2, x, y)
    BY <1>1 DEF Nested
  <2>0. P2[x] \in Texts /\ P2[y] \in Texts /\ Len(P2[x]) \in Nat /\ Len(P2[y]) \in Nat
    BY <1>1, <1>8, TextIs DEF Typed
  <2>1. CASE x \in N /\ y \in N
    <3>1. WayDown(F, P, x, y)
      BY <1>1, <2>1 DEF Tree, Nested
    <3>2. PICK d : d = P[y][Len(P[x]) + 1]
      OBVIOUS
    <3>3. Len(P[x]) < Len(P[y]) /\ d \in DOMAIN F[x].kids /\ Pre(P[F[x].kids[d]], P[y])
      BY <3>1, <3>2 DEF WayDown
    <3>4. F[x].kids[d] \in N
      BY <2>1, <3>3, TreeNode
    <3>5. /\ P2[x] = P[x] /\ P2[y] = P[y] /\ d \in DOMAIN F2[x].kids
          /\ F2[x].kids[d] = F[x].kids[d] /\ P2[F[x].kids[d]] = P[F[x].kids[d]]
      BY <1>1, <1>6, <2>1, <3>3, <3>4
    <3> HIDE DEF N, M
    <3>. QED
      BY <3>2, <3>3, <3>5 DEF WayDown
  <2>2. CASE x = m /\ y = n
    <3>1. /\ F2[m].kids[b] = n /\ b \in DOMAIN F2[m].kids /\ P2[m] = P[m]
      BY <1>1, <1>4
    <3>2. Len(P[m]) < Len(P2[n]) /\ Pre(P2[n], P2[n])
      BY <1>0, <1>7, PreRefl
    <3> HIDE DEF N, M
    <3>. QED
      BY <1>7, <2>2, <3>1, <3>2 DEF WayDown
  <2>3. ASSUME NEW z \in N, z # m, Pre(P[m], P[z]), Pre(P[z], P2[n]) \/ Pre(P2[n], P[z])
        PROVE  FALSE
    <3>1. PICK d : d = P[z][Len(P[m]) + 1]
      OBVIOUS
    <3>2. d \in DOMAIN F[m].kids /\ Len(P[m]) < Len(P[z])
      BY <2>3, <3>1, TreeWay
    <3>3. P[z] \in Texts
      BY TreeNode
    <3>4. CASE Pre(P[z], P2[n])
      BY <1>2, <1>7, <3>1, <3>2, <3>3, <3>4, NextByte DEF b
    <3>5. CASE Pre(P2[n], P[z])
      <4>1. Len(P[m]) < Len(P2[n])
        BY <1>0, <1>7
      <4>. QED
        BY <1>2, <1>7, <3>1, <3>2, <3>3, <3>5, <4>1, NextByte DEF b
    <3>. QED
      BY <2>3, <3>4, <3>5
  <2>4. CASE x \in N /\ x # m /\ y = n
    <3>1. P[x] \in Texts /\ Len(P[x]) \in Nat /\ Pre(P[x], P2[n])
      BY <1>1, <2>4, TreeNode
    <3>2. Len(P[x]) <= Len(P[m])
      BY <1>2, <1>7, <2>3, <2>4, <3>1, PreBoth
    <3>3. Pre(P[x], P[m])
      BY <1>2, <1>7, <3>1, <3>2, PreBoth
    <3>4. PICK d : d = P[m][Len(P[x]) + 1]
      OBVIOUS
    <3>5. Len(P[x]) < Len(P[m]) /\ d \in DOMAIN F[x].kids
          /\ F[x].kids[d] \in N /\ Pre(P[F[x].kids[d]], P[m])
      BY <2>4, <3>3, <3>4, TreeWay
    <3>6. PICK e : e = F[x].kids[d]
      OBVIOUS
    <3>7. P2[n][Len(P[x]) + 1] = d /\ Len(P[x]) < Len(P2[n])
      BY <1>2, <1>7, <3>1, <3>4, <3>5, NextByte
    <3>8. Pre(P[e], P2[n])
      BY <1>2, <1>7, <3>5, <3>6, PreTrans, TreeNode
    <3>. QED
      BY <1>1, <2>4, <3>5, <3>6, <3>7, <3>8 DEF WayDown
  <2>5. CASE x = n /\ y \in N
    <3>1. P[y] \in Texts /\ Pre(P2[n], P[y])
      BY <1>1, <2>5, TreeNode
    <3>2. Pre(P[m], P[y]) /\ y # m
      <4>1. Pre(P[m], P[y])
        BY <1>2, <1>7, <3>1, PreTrans
      <4>2. Len(P2[n]) <= Len(P[y])
        BY <3>1 DEF Pre
      <4>. QED
        BY <1>0, <1>7, <4>1, <4>2
    <3>. QED
      BY <2>3, <2>5, <3>1, <3>2
  <2>. QED
    BY <2>1, <2>2, <2>4, <2>5
<1>11. Rooted(F2, P2, R)
  <2>1. R \in N /\ R # None /\ F[R].prefix = P[R]
    BY TreeRoot
  <2>2. \A x \in N : HasParent(F, x) => HasParent(F2, x)
    BY <1>1, <1>6 DEF HasParent
  <2>3. HasParent(F2, n)
    BY <1>1, <1>4 DEF HasParent
  <2>4. Pre(P[R], P2[n])
    BY <1>2, <1>7, <2>1, PreTrans, TreeRoot, TreeNode
  <2>5. \A x \in N : Pre(P[R], P[x]) /\ (x # R => HasParent(F, x))
    BY TreeRoot
  <2>. QED
    BY <1>1, <1>6, <2>1, <2>2, <2>3, <2>4, <2>5 DEF Rooted
<1>. QED
  BY <1>1, <1>4, <1>5, <1>6, <1>8, <1>9, <1>10, <1>11 DEF Tree, b

(* n takes the prefix of m from byte l + 1 on and all that m holds.        *)
SplitOf(F, P, m, n, l, F2, P2) ==
  LET t == F[m].prefix
      low == [F[m] EXCEPT !.prefix = Drop(t, l)]
      high == [prefix |-> Take(t, l), val |-> None, kids |-> [b \in {t[l + 1]} |-> n]]
  IN /\ F2 = [x \in DOMAIN F \cup {n} |->
                CASE x = n -> low [] x = m -> high [] OTHER -> F[x]]
     /\ P2 = [x \in DOMAIN F \cup {n} |->
                CASE x = n -> P[m]
                  [] x = m -> Take(P[m], Len(P[m]) - Len(low.prefix))
                  [] OTHER -> P[x]]

SplitFacts(F, P, m, n, a, l, F2, P2) ==
  /\ DOMAIN F2 = DOMAIN F \cup {n} /\ DOMAIN P2 = DOMAIN F \cup {n}
  /\ \A x \in DOMAIN F : x # m => F2[x] = F[x] /\ P2[x] = P[x]
  /\ P2[n] = P[m] /\ P2[m] \in Texts /\ Len(P2[m]) = a + l /\ Pre(P2[m], P[m])
  /\ F2[n] \in NodesOver(DOMAIN F) /\ F2[n].kids = F[m].kids /\ F2[n].val = F[m].val
  /\ F2[n].prefix = Drop(P[m], a + l)
  /\ F2[m].prefix \in Texts /\ F2[m].prefix = Drop(P2[m], a) /\ F2[m].val = None
  /\ DOMAIN F2[m].kids = {P[m][a + l + 1]} /\ F2[m].kids[P[m][a + l + 1]] = n
  /\ P[m][a + l + 1] \in Bytes
  /\ F2[m] = [prefix |-> F2[m].prefix, val |-> F2[m].val, kids |-> F2[m].kids]
  /\ F2[m].kids \in [{P[m][a + l + 1]} -> DOMAIN F \cup {n}]

(* insert cuts the prefix of a node in two: the new node takes its path and*)
(* its children, and the old one ends higher.                              *)
LEMMA SplitIs ==
  ASSUME NEW F, NEW P, NEW R, Tree(F, P, R), NEW m \in DOMAIN F,
         NEW n, n \notin DOMAIN F, NEW l \in Nat, l < Len(F[m].prefix),
         NEW F2, NEW P2, SplitOf(F, P, m, n, l, F2, P2),
         NEW a, a = Begin(F, P, m)
  PROVE  SplitFacts(F, P, m, n, a, l, F2, P2)
<1>1. /\ P[m] \in Texts /\ Len(P[m]) \in Nat /\ F[m] \in NodesOver(DOMAIN F)
      /\ F[m].prefix \in Texts /\ Len(F[m].prefix) \in Nat
  BY TreeNode, TextIs
<1>2. a \in 0 .. Len(P[m]) /\ F[m].prefix = Drop(P[m], a)
  BY PrefixIs
<1>3. PICK t : t = F[m].prefix
  OBVIOUS
<1>4. t \in Texts /\ Len(t) = Len(P[m]) - a /\ t = Drop(P[m], a) /\ l < Len(t)
  <2>1. Len(Drop(P[m], a)) = Len(P[m]) - a
    BY <1>1, <1>2, DropIs, Zenon
  <2>. QED
    BY <1>1, <1>2, <1>3, <2>1, Zenon
<1>5. l \in 0 .. Len(P[m]) - a /\ l \in 0 .. Len(t) /\ a + l \in 0 .. Len(P[m])
      /\ l + 1 \in 1 .. Len(P[m]) - a /\ l + 1 \in 1 .. Len(t)
      /\ a + (l + 1) = a + l + 1
  <2>1. PICK p : p = Len(P[m])
    OBVIOUS
  <2>2. PICK h : h = Len(t)
    OBVIOUS
  <2>3. p \in Nat /\ a \in 0 .. p /\ h = p - a /\ l \in Nat /\ l < h
    BY <1>1, <1>2, <1>4, <2>1, <2>2, Zenon
  <2>4. l \in 0 .. p - a /\ l \in 0 .. h /\ a + l \in 0 .. p
        /\ l + 1 \in 1 .. p - a /\ l + 1 \in 1 .. h /\ a + (l + 1) = a + l + 1
    BY <2>3
  <2>. QED
    BY <2>1, <2>2, <2>4, Zenon
<1>6. PICK b : b = t[l + 1]
  OBVIOUS
<1>7. b = P[m][a + l + 1] /\ b \in Bytes
  <2>1. \A k \in 1 .. Len(P[m]) - a : Drop(P[m], a)[k] = P[m][a + k]
    BY <1>1, <1>2, DropIs, Zenon
  <2>2. b = P[m][a + (l + 1)]
    BY <1>4, <1>5, <1>6, <2>1
  <2>. QED
    BY <1>4, <1>5, <1>6, <2>2, TextIs, Zenon
<1>8. Drop(t, l) = Drop(P[m], a + l) /\ Drop(t, l) \in Texts
      /\ Len(Drop(t, l)) = Len(P[m]) - a - l
  <2>1. Drop(t, l) = Drop(P[m], a + l)
    BY <1>1, <1>2, <1>4, <1>5, DropTwice, Zenon
  <2>2. Drop(t, l) \in Texts /\ Len(Drop(t, l)) = Len(t) - l
    BY <1>4, <1>5, DropIs, Zenon
  <2>. QED
    BY <1>4, <2>1, <2>2
<1>9. PICK q : q = Take(P[m], a + l)
  OBVIOUS
<1>10. q \in Texts /\ Len(q) = a + l /\ Pre(q, P[m]) /\ Take(t, l) = Drop(q, a)
       /\ Take(t, l) \in Texts
  <2>1. q \in Texts /\ Len(q) = a + l /\ Pre(q, P[m])
    BY <1>1, <1>5, <1>9, TakeIs, Zenon
  <2>2. Take(t, l) = Drop(q, a)
    BY <1>1, <1>2, <1>4, <1>5, <1>9, TakeOfDrop, Zenon
  <2>3. Take(t, l) \in Texts
    BY <1>4, <1>5, TakeIs, Zenon
  <2>. QED
    BY <2>1, <2>2, <2>3
<1>11. PICK low : low = [F[m] EXCEPT !.prefix = Drop(t, l)]
  OBVIOUS
<1>12. low \in NodesOver(DOMAIN F) /\ low.prefix = Drop(t, l) /\ low.kids = F[m].kids
       /\ low.val = F[m].val
  BY <1>1, <1>8, <1>11 DEF NodesOver
<1>13. Len(P[m]) - Len(low.prefix) = a + l
  <2>1. Len(low.prefix) = Len(P[m]) - a - l
    BY <1>8, <1>12, Zenon
  <2>2. PICK p : p = Len(P[m])
    OBVIOUS
  <2>3. PICK h : h = Len(low.prefix)
    OBVIOUS
  <2>4. p \in Nat /\ a \in 0 .. p /\ h = p - a - l /\ l \in Nat
    BY <1>1, <1>2, <2>1, <2>2, <2>3, Zenon
  <2>5. p - h = a + l
    BY <2>4
  <2>. QED
    BY <2>2, <2>3, <2>5, Zenon
<1>14. PICK high : high = [prefix |-> Take(t, l), val |-> None, kids |-> [d \in {b} |-> n]]
  OBVIOUS
<1>15. /\ F2 = [x \in DOMAIN F \cup {n} |->
                CASE x = n -> low [] x = m -> high [] OTHER -> F[x]]
       /\ P2 = [x \in DOMAIN F \cup {n} |->
                CASE x = n -> P[m] [] x = m -> q [] OTHER -> P[x]]
  <2>1. low.prefix = [F[m] EXCEPT !.prefix = Drop(F[m].prefix, l)].prefix
    BY <1>3, <1>11
  <2>. QED
    BY <1>3, <1>6, <1>9, <1>11, <1>13, <1>14, <2>1 DEF SplitOf
<1>16. n # m
  OBVIOUS
<1>17. /\ DOMAIN F2 = DOMAIN F \cup {n} /\ DOMAIN P2 = DOMAIN F \cup {n}
       /\ \A x \in DOMAIN F : x # m => F2[x] = F[x] /\ P2[x] = P[x]
       /\ F2[n] = low /\ P2[n] = P[m] /\ F2[m] = high /\ P2[m] = q
  BY <1>15, <1>16
<1>18. /\ high.prefix = Take(t, l) /\ high.val = None /\ DOMAIN high.kids = {b}
       /\ high.kids[b] = n /\ high.kids \in [{b} -> DOMAIN F \cup {n}]
       /\ high = [prefix |-> high.prefix, val |-> high.val, kids |-> high.kids]
  BY <1>14
<1>. QED
  BY <1>7, <1>8, <1>10, <1>12, <1>17, <1>18 DEF SplitFacts

(* What begins with a node that was split in its middle is below it.       *)
LEMMA SplitTree ==
  ASSUME NEW F, NEW P, NEW R, Tree(F, P, R), NEW m \in DOMAIN F,
         NEW n, n \notin DOMAIN F, NEW l \in Nat, l < Len(F[m].prefix), l > 0 \/ m = R,
         NEW F2, NEW P2, SplitOf(F, P, m, n, l, F2, P2)
  PROVE  Tree(F2, P2, R)
<1> DEFINE N == DOMAIN F
           M == N \cup {n}
<1>1. PICK a : a = Begin(F, P, m)
  OBVIOUS
<1>2. SplitFacts(F, P, m, n, a, l, F2, P2)
  BY <1>1, SplitIs
<1>3. a \in Nat /\ Len(P[m]) \in Nat /\ P[m] \in Texts /\ a <= Len(P[m])
      /\ a + l < Len(P[m]) /\ (m = R => a = 0)
  <2>1. /\ a \in 0 .. Len(P[m]) /\ F[m].prefix = Drop(P[m], a)
        /\ P[m] \in Texts /\ Len(P[m]) \in Nat /\ (m = R => a = 0)
    BY <1>1, PrefixIs, TreeNode
  <2>2. Len(F[m].prefix) = Len(P[m]) - a
    BY <2>1, DropIs, Zenon
  <2>3. PICK p : p = Len(P[m])
    OBVIOUS
  <2>4. l < p - a
    BY <2>2, <2>3, Zenon
  <2>5. p \in Nat /\ a \in 0 .. p /\ l \in Nat
    BY <2>1, <2>3, Zenon
  <2>6. a \in Nat /\ a <= p /\ a + l < p
    BY <2>4, <2>5
  <2>. QED
    BY <2>1, <2>3, <2>6, Zenon
<1>4. PICK b : b = P[m][a + l + 1]
  OBVIOUS
<1>5. /\ DOMAIN F2 = M /\ DOMAIN P2 = M /\ b \in Bytes
      /\ \A x \in N : x # m => F2[x] = F[x] /\ P2[x] = P[x]
      /\ P2[n] = P[m] /\ P2[m] \in Texts /\ Len(P2[m]) = a + l /\ Pre(P2[m], P[m])
      /\ F2[n] \in NodesOver(N) /\ F2[n].kids = F[m].kids
      /\ F2[n].prefix = Drop(P[m], a + l)
      /\ F2[m].prefix \in Texts /\ F2[m].prefix = Drop(P2[m], a) /\ F2[m].val = None
      /\ DOMAIN F2[m].kids = {b} /\ F2[m].kids[b] = n /\ F2[m].kids \in [{b} -> M]
      /\ F2[m] = [prefix |-> F2[m].prefix, val |-> F2[m].val, kids |-> F2[m].kids]
  BY <1>2, <1>4 DEF SplitFacts
<1>6. n # m /\ n # R
  BY TreeRoot
<1> HIDE DEF N, M
<1>7. \A x \in N : x \in DOMAIN F /\ x \in M /\ x # n
  BY DEF N, M
<1>8. \A x \in M : x \in N \/ x = n
  BY DEF N, M
<1>9. m \in N /\ n \in M
  BY DEF N, M
<1>10. \A x \in M : P2[x] \in Texts /\ Len(P2[x]) \in Nat
  BY <1>3, <1>5, <1>7, <1>8, TreeNode, TextIs
(* Prefixes of the upper half, other than itself, end where it begins.     *)
<1>11. ASSUME NEW x \in N, x # m, Pre(P[x], P[m])
       PROVE  Len(P[x]) <= a /\ m # R
  <2>1. P[x] \in Texts /\ Len(P[x]) \in Nat
    BY <1>7, TreeNode
  <2>2. ~Pre(P[m], P[x])
    <3>1. Pre(P[m], P[x]) => Len(P[m]) <= Len(P[x])
      BY DEF Pre
    <3>. QED
      BY <1>7, <1>11, <3>1, Distinct
  <2>3. m # R
    BY <1>7, <2>2, TreeRoot
  <2>4. ASSUME a + 1 <= Len(P[x]) PROVE FALSE
    <3>1. \A k \in 1 .. a + 1 : P[x][k] = P[m][k]
      BY <1>3, <1>11, <2>1, <2>4 DEF Pre
    <3>. QED
      BY <1>1, <1>7, <2>2, <2>4, <3>1, Entered
  <2>. QED
    BY <1>3, <2>1, <2>3, <2>4
<1>12. ASSUME NEW x \in N, Pre(P2[m], P[x]) PROVE Pre(P[m], P[x])
  <2>1. CASE m = R
    BY <1>7, <2>1, TreeRoot
  <2>2. CASE m # R
    <3>1. P[x] \in Texts /\ Len(P[x]) \in Nat
      BY <1>7, TreeNode
    <3>2. a + 1 <= Len(P2[m]) /\ Len(P2[m]) \in Nat
      BY <1>3, <1>5, <2>2
    <3>3. a + 1 <= Len(P[x])
      BY <1>3, <1>12, <3>1, <3>2 DEF Pre
    <3>4. \A k \in 1 .. a + 1 : P[x][k] = P[m][k]
      BY <1>3, <1>5, <1>12, <3>1, <3>2 DEF Pre
    <3>. QED
      BY <1>1, <1>7, <3>3, <3>4, Entered
  <2>. QED
    BY <2>1, <2>2
<1>13. Typed(F2, P2)
  <2>1. ASSUME NEW K \in Tables(N) PROVE K \in Tables(M)
    BY <1>7 DEF Tables
  <2>2. F2[m] \in NodesOver(M)
    <3>1. {b} \in SUBSET Bytes
      BY <1>5
    <3>2. F2[m].kids \in Tables(M)
      BY <1>5, <3>1, Zenon DEF Tables
    <3>. QED
      BY <1>5, <3>2 DEF NodesOver
  <2>3. ASSUME NEW q \in NodesOver(N) PROVE q \in NodesOver(M)
    BY <2>1 DEF NodesOver
  <2>4. \A x \in N : F[x] \in NodesOver(N)
    BY TreeNode DEF N
  <2>. QED
    BY <1>5, <1>8, <1>10, <2>2, <2>3, <2>4 DEF Typed
<1>14. KidsFiled(F2, P2, R)
  <2> SUFFICES ASSUME NEW x \in M, NEW d \in DOMAIN F2[x].kids
               PROVE  KidOf(F2, P2, R, x, d)
    BY <1>5 DEF KidsFiled
  <2>1. CASE x = m
    <3>1. d = b /\ F2[x].kids[d] = n
      BY <1>5, <2>1
    <3>. QED
      BY <1>3, <1>4, <1>5, <1>6, <2>1, <3>1 DEF KidOf, Short
  <2>2. ASSUME NEW y \in N, NEW e \in DOMAIN F[y].kids, x # m,
               y = m => x = n, y # m => x = y, d = e
        PROVE  KidOf(F2, P2, R, x, d)
    <3>1. PICK c : c = F[y].kids[e]
      OBVIOUS
    <3>2. /\ c \in N /\ c # R /\ Pre(P[y], P[c]) /\ Len(P[y]) < Len(P[c])
          /\ P[c][Len(P[y]) + 1] = e /\ c # y
          /\ F[c].prefix = Drop(P[c], Len(P[y]))
      BY <1>7, <3>1, TreeKid DEF N
    <3>3. P2[x] = P[y] /\ F2[x].kids[d] = c
      BY <1>5, <2>2, <3>1
    <3>4. CASE c # m
      <4>1. F2[c] = F[c] /\ P2[c] = P[c]
        BY <1>5, <3>2, <3>4
      <4>. QED
        BY <2>2, <3>2, <3>3, <4>1 DEF KidOf, Short
    <3>5. CASE c = m
      <4>1. Len(P[y]) = a /\ y # m
        <5>1. y \in DOMAIN F /\ e \in DOMAIN F[y].kids /\ F[y].kids[e] = m
          BY <1>7, <2>2, <3>1, <3>5
        <5>. QED
          BY <1>1, <3>2, <3>5, <5>1, PrefixIs
      <4>2. m # R /\ l > 0
        BY <3>2, <3>5
      <4>3. Len(P2[x]) < Len(P2[m])
        BY <1>3, <1>5, <3>3, <4>1, <4>2
      <4>4. P[y] \in Texts
        BY <1>7, TreeNode
      <4>5. Pre(P[y], P2[m])
        BY <1>5, <3>2, <3>3, <3>5, <4>3, <4>4, <1>3, PreBoth
      <4>6. P2[m][Len(P[y]) + 1] = e
        BY <1>3, <1>5, <3>2, <3>3, <3>5, <4>3, <4>4, NextByte
      <4>. QED
        BY <1>5, <2>2, <3>2, <3>3, <3>5, <4>1, <4>3, <4>5, <4>6 DEF KidOf, Short
    <3>. QED
      BY <3>4, <3>5
  <2>3. CASE x = n
    <3>1. d \in DOMAIN F[m].kids
      BY <1>5, <2>3
    <3>. QED
      BY <1>6, <1>9, <2>2, <2>3, <3>1
  <2>4. CASE x \in N /\ x # m
    <3>1. d \in DOMAIN F[x].kids
      BY <1>5, <2>4
    <3>. QED
      BY <2>2, <2>4, <3>1
  <2>. QED
    BY <1>8, <2>1, <2>3, <2>4
<1>15. Nested(F2, P2)
  <2> SUFFICES ASSUME NEW x \in M, NEW y \in M, x # y, Pre(P2[x], P2[y])
               PROVE  WayDown(F2, P2, x, y)
    BY <1>5 DEF Nested
  <2>1. P2[x] \in Texts /\ P2[y] \in Texts /\ Len(P2[x]) \in Nat /\ Len(P2[y]) \in Nat
        /\ Len(P2[x]) <= Len(P2[y])
    BY <1>10 DEF Pre
  (* From the upper half the way leads to the lower one.                   *)
  <2>2. CASE x = m
    <3>1. Pre(P[m], P2[y])
      <4>1. CASE y = n
        BY <1>3, <1>5, <4>1, PreRefl
      <4>2. CASE y # n
        <5>1. y \in N /\ P2[y] = P[y]
          BY <1>5, <1>8, <2>2, <4>2
        <5>. QED
          BY <1>12, <2>2, <5>1
      <4>. QED
        BY <4>1, <4>2
    <3>2. P2[y][Len(P2[m]) + 1] = b /\ Len(P2[m]) < Len(P2[y])
      BY <1>3, <1>4, <1>5, <2>1, <3>1, NextByte
    <3>. QED
      BY <1>5, <2>2, <3>1, <3>2 DEF WayDown
  (* Elsewhere it leads where it led, to m for what is now n.              *)
  <2>3. ASSUME NEW z \in N, NEW u \in N, z # u, Pre(P[z], P[u]), x # m,
               P2[x] = P[z], F2[x].kids = F[z].kids,
               u = m => y = m \/ y = n, u # m => y = u,
               y = m => z # m /\ Len(P[z]) < a + l
        PROVE  WayDown(F2, P2, x, y)
    <3>1. PICK d : d = P[u][Len(P[z]) + 1]
      OBVIOUS
    <3>2. PICK e : e = F[z].kids[d]
      OBVIOUS
    <3>3. Len(P[z]) < Len(P[u]) /\ d \in DOMAIN F[z].kids /\ e \in N /\ Pre(P[e], P[u])
      BY <1>7, <2>3, <3>1, <3>2, TreeWay DEF N
    <3>4. P[z] \in Texts /\ P[u] \in Texts /\ P[e] \in Texts
          /\ Len(P[z]) \in Nat /\ Len(P[u]) \in Nat /\ Len(P[e]) \in Nat
      BY <1>7, <3>3, TreeNode
    <3>5. P2[e] \in Texts /\ Pre(P2[e], P[e])
      BY <1>5, <3>3, <3>4, PreRefl
    <3>6. Pre(P2[e], P[u])
      BY <3>3, <3>4, <3>5, PreTrans
    <3>7. CASE y # m
      <4>1. P2[y] = P[u]
        BY <1>5, <2>3, <3>7
      <4>. QED
        BY <2>3, <3>1, <3>2, <3>3, <3>6, <4>1 DEF WayDown
    <3>8. CASE y = m
      <4>1. u = m /\ z # m /\ Len(P[z]) < a + l
        BY <1>6, <2>3, <3>8
      <4>2. Pre(P2[e], P2[m])
        <5>1. CASE e = m
          BY <1>5, <5>1, PreRefl
        <5>2. CASE e # m
          <6>1. Len(P[e]) <= a
            BY <1>11, <3>3, <4>1, <5>2
          <6>2. Len(P2[e]) <= Len(P2[m])
            BY <1>3, <1>5, <3>3, <3>4, <5>2, <6>1
          <6>. QED
            BY <1>3, <1>5, <3>5, <3>6, <4>1, <6>2, PreBoth
        <5>. QED
          BY <5>1, <5>2
      <4>3. Len(P[z]) < Len(P2[m])
        BY <1>5, <4>1
      <4>4. P2[m][Len(P[z]) + 1] = d
        BY <1>3, <1>5, <3>1, <3>4, <4>1, <4>3, NextByte
      <4>. QED
        BY <2>3, <3>2, <3>3, <3>8, <4>2, <4>3, <4>4 DEF WayDown
    <3>. QED
      BY <3>7, <3>8
  <2>4. CASE x = n
    <3>1. y # m
      BY <1>3, <1>5, <2>1, <2>4
    <3>2. y \in N /\ P2[y] = P[y] /\ Pre(P[m], P[y])
      BY <1>5, <1>8, <2>4, <3>1
    <3>. QED
      BY <1>5, <1>6, <1>9, <2>3, <2>4, <3>1, <3>2
  <2>5. CASE x \in N /\ x # m
    <3>1. P2[x] = P[x] /\ F2[x] = F[x] /\ P[x] \in Texts
      BY <1>5, <1>7, <2>5, TreeNode
    <3>2. CASE y = m \/ y = n
      <4>1. Pre(P[x], P[m])
        BY <1>3, <1>5, <3>1, <3>2, PreTrans
      <4>2. Len(P[x]) <= a /\ l > 0
        BY <1>11, <2>5, <4>1
      <4>3. Len(P[x]) < a + l
        BY <1>3, <2>1, <3>1, <4>2
      <4>. QED
        BY <1>9, <2>3, <2>5, <3>1, <3>2, <4>1, <4>3
    <3>3. CASE y \in N /\ y # m
      <4>1. Pre(P[x], P[y])
        BY <1>5, <3>1, <3>3
      <4>. QED
        BY <2>3, <2>5, <3>1, <3>3, <4>1
    <3>. QED
      BY <1>8, <3>2, <3>3
  <2>. QED
    BY <1>8, <2>2, <2>4, <2>5
<1>16. Rooted(F2, P2, R)
  <2>1. R \in N /\ R # None /\ F[R].prefix = P[R]
    BY TreeRoot DEF N
  <2>2. F2[R].prefix = P2[R]
    <3>1. CASE R = m
      <4>1. a = 0 /\ 0 \in 0 .. Len(P2[m])
        BY <1>3, <1>5, <3>1
      <4>2. Drop(P2[m], 0) = P2[m]
        BY <1>5, <4>1, DropIs, Zenon
      <4>. QED
        BY <1>5, <3>1, <4>1, <4>2
    <3>. QED
      BY <1>5, <2>1, <3>1
  <2>3. ASSUME NEW x \in M PROVE Pre(P2[R], P2[x])
    <3>1. Pre(P2[R], P[R])
      BY <1>5, <1>7, <2>1, PreRefl, TreeNode
    <3>2. CASE x = n
      <4>1. Pre(P[R], P[m])
        BY TreeRoot
      <4>. QED
        BY <1>3, <1>5, <1>7, <1>10, <2>1, <3>1, <3>2, <4>1, PreTrans, TreeNode
    <3>3. CASE x \in N /\ x # m
      <4>1. Pre(P[R], P[x])
        BY <1>7, <3>3, TreeRoot
      <4>. QED
        BY <1>5, <1>7, <1>10, <2>1, <3>1, <3>3, <4>1, PreTrans, TreeNode
    <3>4. CASE x = m
      <4>1. CASE R = m
        BY <1>5, <3>4, <4>1, PreRefl
      <4>2. CASE R # m
        <5>1. Pre(P[R], P[m]) /\ P2[R] = P[R]
          BY <1>5, <2>1, <4>2, TreeRoot
        <5>2. Len(P[R]) <= Len(P2[m]) /\ P[R] \in Texts
          <6>1. Len(P[R]) <= a /\ Len(P[R]) \in Nat /\ P[R] \in Texts
            BY <1>7, <1>11, <2>1, <4>2, <5>1, TreeNode
          <6>. QED
            BY <1>3, <1>5, <6>1
        <5>. QED
          BY <1>3, <1>5, <3>4, <5>1, <5>2, PreBoth
      <4>. QED
        BY <4>1, <4>2
    <3>. QED
      BY <1>8, <3>2, <3>3, <3>4
  <2>4. ASSUME NEW x \in M, x # R PROVE HasParent(F2, x)
    <3>1. CASE x = n
      BY <1>5, <1>7, <1>9, <3>1 DEF HasParent
    <3>2. CASE x \in N
      <4>1. PICK y \in N : \E d \in DOMAIN F[y].kids : F[y].kids[d] = x
        BY <1>7, <2>4, <3>2, TreeRoot DEF HasParent, N
      <4>2. PICK d \in DOMAIN F[y].kids : F[y].kids[d] = x
        BY <4>1
      <4>3. y # m => d \in DOMAIN F2[y].kids /\ F2[y].kids[d] = x
        BY <1>5, <4>2
      <4>4. y = m => d \in DOMAIN F2[n].kids /\ F2[n].kids[d] = x
        BY <1>5, <4>2
      <4>. QED
        BY <1>5, <1>7, <1>9, <4>3, <4>4 DEF HasParent
    <3>. QED
      BY <1>8, <3>1, <3>2
  <2>. QED
    BY <1>5, <1>7, <2>1, <2>2, <2>3, <2>4 DEF Rooted
<1>. QED
  BY <1>13, <1>14, <1>15, <1>16 DEF Tree

(* The child of n under b is gone with all that is below it.               *)
CutOff(F, P, c) == {x \in DOMAIN F : Pre(P[c], P[x])}
DropOf(F, P, n, b, F2, P2) ==
  LET left == DOMAIN F \ CutOff(F, P, F[n].kids[b])
  IN /\ F2 = [x \in left |->
                IF x = n THEN [F[n] EXCEPT !.kids =
                                 [d \in DOMAIN F[n].kids \ {b} |-> F[n].kids[d]]]
                         ELSE F[x]]
     /\ P2 = [x \in left |-> P[x]]

(* A child is dropped with all that is below it.                           *)
LEMMA DropTree ==
  ASSUME NEW F, NEW P, NEW R, Tree(F, P, R), NEW n \in DOMAIN F,
         NEW b \in DOMAIN F[n].kids, NEW F2, NEW P2, DropOf(F, P, n, b, F2, P2)
  PROVE  /\ Tree(F2, P2, R)
         /\ DOMAIN F2 = DOMAIN F \ CutOff(F, P, F[n].kids[b]) /\ n \in DOMAIN F2
         /\ \A x \in DOMAIN F2 : P2[x] = P[x] /\ F2[x].val = F[x].val
                                 /\ (x # n => F2[x] = F[x])
         /\ \A d \in DOMAIN F2[n].kids : d \in DOMAIN F[n].kids /\ d # b
         /\ \A d \in DOMAIN F[n].kids : d # b => d \in DOMAIN F2[n].kids
         /\ \A d \in DOMAIN F2[n].kids : F2[n].kids[d] = F[n].kids[d]
<1> DEFINE N == DOMAIN F
<1>1. PICK c : c = F[n].kids[b]
  OBVIOUS
<1>2. PICK M : M = N \ CutOff(F, P, c)
  OBVIOUS
<1>3. c \in N /\ c # R /\ Pre(P[n], P[c]) /\ Len(P[n]) < Len(P[c]) /\ c # n
      /\ P[n] \in Texts /\ P[c] \in Texts /\ Len(P[n]) \in Nat /\ Len(P[c]) \in Nat
  <2>1. c \in N /\ c # R /\ Pre(P[n], P[c]) /\ Len(P[n]) < Len(P[c]) /\ c # n
    BY <1>1, TreeKid
  <2>. QED
    BY <2>1, TreeNode
<1>4. n \in M /\ R \in M
  <2>1. ~Pre(P[c], P[n])
    BY <1>3 DEF Pre
  <2>2. R \in N /\ P[R] \in Texts
    BY TreeRoot, TreeNode
  <2>3. ~Pre(P[c], P[R])
    <3>1. Pre(P[c], P[R]) => Len(P[c]) <= Len(P[R])
      BY DEF Pre
    <3>2. Pre(P[R], P[c])
      BY <1>3, TreeRoot
    <3>. QED
      BY <1>3, <2>2, <3>1, <3>2, Distinct
  <2>. QED
    BY <1>2, <2>1, <2>2, <2>3 DEF CutOff
<1>5. PICK K : K = [d \in DOMAIN F[n].kids \ {b} |-> F[n].kids[d]]
  OBVIOUS
<1>6. F[n] \in NodesOver(N)
  BY TreeNode
<1>7. /\ DOMAIN F2 = M /\ DOMAIN P2 = M
      /\ \A x \in M : x \in N /\ P2[x] = P[x] /\ (x # n => F2[x] = F[x])
      /\ F2[n] = [F[n] EXCEPT !.kids = K]
  BY <1>1, <1>2, <1>4, <1>5 DEF DropOf
<1>8. /\ F2[n].kids = K /\ F2[n].prefix = F[n].prefix /\ F2[n].val = F[n].val
      /\ F2[n] = [prefix |-> F[n].prefix, val |-> F[n].val, kids |-> K]
  BY <1>6, <1>7 DEF NodesOver
<1>9. DOMAIN K = DOMAIN F[n].kids \ {b} /\ \A d \in DOMAIN K : K[d] = F[n].kids[d]
  BY <1>5
<1>10. \A x \in M : /\ F2[x].prefix = F[x].prefix /\ F2[x].val = F[x].val
                    /\ DOMAIN F2[x].kids = DOMAIN F[x].kids \ (IF x = n THEN {b} ELSE {})
                    /\ \A d \in DOMAIN F2[x].kids : F2[x].kids[d] = F[x].kids[d]
  BY <1>7, <1>8, <1>9
<1>11. \A x \in N : x \in M <=> ~Pre(P[c], P[x])
  BY <1>2 DEF CutOff
(* What is left has its children left but for c.                           *)
<1>12. ASSUME NEW x \in M, NEW d \in DOMAIN F[x].kids, x # n \/ d # b
       PROVE  F[x].kids[d] \in M /\ d \in DOMAIN F2[x].kids
  <2>1. PICK e : e = F[x].kids[d]
    OBVIOUS
  <2>2. x \in N /\ P[x] \in Texts /\ Len(P[x]) \in Nat
    BY <1>7, TreeNode
  <2>3. e \in N /\ Pre(P[x], P[e]) /\ P[e][Len(P[x]) + 1] = d /\ Len(P[x]) < Len(P[e])
    BY <2>1, <2>2, TreeKid
  <2>4. P[e] \in Texts /\ Len(P[e]) \in Nat
    BY <2>3, TreeNode
  <2>5. ASSUME Pre(P[c], P[e]) PROVE FALSE
    <3>1. ~Pre(P[c], P[x])
      BY <1>11, <2>2
    <3>2. Len(P[x]) < Len(P[c])
      BY <1>3, <2>2, <2>3, <2>4, <2>5, <3>1, PreBoth
    <3>3. Pre(P[x], P[c])
      BY <1>3, <2>2, <2>3, <2>4, <2>5, <3>2, PreBoth
    <3>4. P[c][Len(P[x]) + 1] = d
      BY <1>3, <2>2, <2>3, <2>4, <2>5, <3>2, NextByte
    <3>5. Pre(P[F[x].kids[d]], P[c])
      BY <1>3, <2>2, <3>2, <3>3, <3>4, TreeWay
    <3>6. Pre(P[e], P[c])
      BY <2>1, <3>5
    <3>7. Len(P[c]) <= Len(P[e])
      BY <2>5 DEF Pre
    <3>8. e = c
      BY <1>3, <2>3, <3>6, <3>7, Distinct
    <3>9. F[n].kids[b] = F[x].kids[d]
      BY <1>1, <2>1, <3>8
    <3>. QED
      BY <1>12, <2>2, <3>9, OneParent
  <2>. QED
    BY <1>10, <1>11, <1>12, <2>1, <2>3, <2>5
<1> HIDE DEF N
<1>13. \A x \in M : x \in DOMAIN F
  BY <1>7 DEF N
<1>14. Typed(F2, P2)
  <2>1. ASSUME NEW x \in M PROVE P2[x] \in Texts
    BY <1>7, <1>13, TreeNode
  <2>2. ASSUME NEW x \in M PROVE F2[x] \in NodesOver(M)
    <3>1. F[x] \in NodesOver(N) /\ DOMAIN F[x].kids \subseteq Bytes
      BY <1>13, TreeNode DEF N
    <3>2. F2[x].kids \in [DOMAIN F2[x].kids -> M]
      <4>1. \A d \in DOMAIN F2[x].kids : F2[x].kids[d] \in M
        BY <1>10, <1>12
      <4>2. F2[x].kids = [d \in DOMAIN F2[x].kids |-> F2[x].kids[d]]
        <5>1. CASE x = n
          BY <1>5, <1>8, <5>1
        <5>2. CASE x # n
          BY <1>7, <3>1, <5>2 DEF NodesOver, Tables
        <5>. QED
          BY <5>1, <5>2
      <4>. QED
        BY <4>1, <4>2
    <3>3. DOMAIN F2[x].kids \in SUBSET Bytes
      BY <1>10, <3>1
    <3>4. F2[x].kids \in Tables(M)
      BY <3>2, <3>3, Zenon DEF Tables
    <3>5. F2[x] = [prefix |-> F[x].prefix, val |-> F[x].val, kids |-> F2[x].kids]
      BY <1>7, <1>8, <3>1 DEF NodesOver
    <3>. QED
      BY <3>1, <3>4, <3>5 DEF NodesOver
  <2>. QED
    BY <1>7, <2>1, <2>2 DEF Typed
<1>15. KidsFiled(F2, P2, R)
  <2> SUFFICES ASSUME NEW x \in M, NEW d \in DOMAIN F2[x].kids
               PROVE  KidOf(F2, P2, R, x, d)
    BY <1>7 DEF KidsFiled
  <2>1. d \in DOMAIN F[x].kids /\ (x # n \/ d # b) /\ F2[x].kids[d] = F[x].kids[d]
    BY <1>10
  <2>2. PICK e : e = F[x].kids[d]
    OBVIOUS
  <2>3. e \in M /\ F2[x].kids[d] = e
    BY <1>12, <2>1, <2>2
  <2>4. P2[x] = P[x] /\ P2[e] = P[e] /\ F2[e].prefix = F[e].prefix
    BY <1>7, <1>10, <2>3
  <2>5. /\ e # R /\ Pre(P[x], P[e]) /\ Len(P[x]) < Len(P[e])
        /\ P[e][Len(P[x]) + 1] = d /\ F[e].prefix = Drop(P[e], Len(P[x]))
    BY <1>13, <2>1, <2>2, TreeKid
  <2>. QED
    BY <2>3, <2>4, <2>5 DEF KidOf, Short
<1>16. Nested(F2, P2)
  <2> SUFFICES ASSUME NEW x \in M, NEW y \in M, x # y, Pre(P2[x], P2[y])
               PROVE  WayDown(F2, P2, x, y)
    BY <1>7 DEF Nested
  <2>1. P2[x] = P[x] /\ P2[y] = P[y] /\ Pre(P[x], P[y]) /\ P[y] \in Texts
    BY <1>7, <1>13, TreeNode
  <2>2. PICK d : d = P[y][Len(P[x]) + 1]
    OBVIOUS
  <2>3. PICK e : e = F[x].kids[d]
    OBVIOUS
  <2>4. Len(P[x]) < Len(P[y]) /\ d \in DOMAIN F[x].kids /\ e \in DOMAIN F /\ Pre(P[e], P[y])
    BY <1>13, <2>1, <2>2, <2>3, TreeWay
  <2>5. x # n \/ d # b
    <3>1. ~Pre(P[c], P[y])
      BY <1>7, <1>11
    <3>. QED
      BY <1>1, <2>3, <2>4, <3>1
  <2>6. e \in M /\ d \in DOMAIN F2[x].kids
    BY <1>12, <2>3, <2>4, <2>5
  <2>7. F2[x].kids[d] = e /\ P2[e] = P[e]
    BY <1>7, <1>10, <2>3, <2>6
  <2>. QED
    BY <2>1, <2>2, <2>4, <2>6, <2>7 DEF WayDown
<1>17. Rooted(F2, P2, R)
  <2>1. R # None /\ F2[R].prefix = P2[R]
    BY <1>4, <1>7, <1>10, <1>13, TreeRoot
  <2>2. ASSUME NEW x \in M PROVE Pre(P2[R], P2[x])
    BY <1>4, <1>7, <1>13, TreeRoot
  <2>3. ASSUME NEW x \in M, x # R PROVE HasParent(F2, x)
    <3>1. PICK y \in DOMAIN F : \E d \in DOMAIN F[y].kids : F[y].kids[d] = x
      BY <1>13, <2>3, TreeRoot DEF HasParent
    <3>2. PICK d \in DOMAIN F[y].kids : F[y].kids[d] = x
      BY <3>1
    <3>3. Pre(P[y], P[x]) /\ x \in DOMAIN F /\ ~Pre(P[c], P[x]) /\ x # c
      <4>1. x \in N /\ ~Pre(P[c], P[x])
        BY <1>7, <1>11
      <4>2. Pre(P[c], P[c])
        BY <1>3, PreRefl
      <4>. QED
        BY <3>2, <4>1, <4>2, TreeKid DEF N
    <3>4. y \in M
      <4>1. P[y] \in Texts /\ P[x] \in Texts
        BY <3>3, TreeNode
      <4>2. ~Pre(P[c], P[y])
        BY <1>3, <3>3, <4>1, PreTrans
      <4>. QED
        BY <1>11, <4>2 DEF N
    <3>5. y # n \/ d # b
      BY <1>1, <3>2, <3>3
    <3>6. d \in DOMAIN F2[y].kids /\ F2[y].kids[d] = x
      BY <1>10, <1>12, <3>2, <3>4, <3>5
    <3>. QED
      BY <1>7, <3>4, <3>6 DEF HasParent
  <2>. QED
    BY <1>4, <1>7, <2>1, <2>2, <2>3 DEF Rooted
<1>18. DOMAIN F2 = DOMAIN F \ CutOff(F, P, F[n].kids[b])
  BY <1>1, <1>2, <1>7 DEF N
<1>. QED
  BY <1>4, <1>7, <1>8, <1>9, <1>10, <1>14, <1>15, <1>16, <1>17, <1>18 DEF Tree

(* n takes over what its only child has.                                   *)
JoinOf(F, P, n, b, F2, P2) ==
  LET c == F[n].kids[b]
      left == DOMAIN F \ {c}
  IN /\ F2 = [x \in left |->
                IF x = n THEN [F[c] EXCEPT !.prefix = F[n].prefix \o @] ELSE F[x]]
     /\ P2 = [x \in left |-> IF x = n THEN P[c] ELSE P[x]]

(* compress joins a node with its only child, whose path it takes.         *)
LEMMA JoinTree ==
  ASSUME NEW F, NEW P, NEW R, Tree(F, P, R), NEW n \in DOMAIN F,
         NEW b, DOMAIN F[n].kids = {b}, NEW c, c = F[n].kids[b],
         NEW F2, NEW P2, JoinOf(F, P, n, b, F2, P2)
  PROVE  Tree(F2, P2, R)
<1> DEFINE N == DOMAIN F
<1>1. PICK M : M = N \ {c}
  OBVIOUS
<1>2. b \in DOMAIN F[n].kids
  OBVIOUS
<1>3. /\ c \in N /\ c # R /\ Pre(P[n], P[c]) /\ Len(P[n]) < Len(P[c]) /\ c # n
      /\ F[c].prefix = Drop(P[c], Len(P[n])) /\ P[c][Len(P[n]) + 1] = b
  BY <1>2, TreeKid
<1>4. P[n] \in Texts /\ P[c] \in Texts /\ Len(P[n]) \in Nat /\ Len(P[c]) \in Nat
      /\ F[n] \in NodesOver(N) /\ F[c] \in NodesOver(N)
  BY <1>3, TreeNode
<1>5. PICK a : a = Begin(F, P, n)
  OBVIOUS
<1>6. a \in 0 .. Len(P[n]) /\ F[n].prefix = Drop(P[n], a) /\ (n = R => a = 0)
  BY <1>5, PrefixIs
<1>7. PICK t : t = Drop(P[c], a)
  OBVIOUS
<1>8. t \in Texts /\ F[n].prefix \o F[c].prefix = t
  <2>1. Drop(P[n], a) \o Drop(P[c], Len(P[n])) = t
    BY <1>3, <1>4, <1>6, <1>7, DropThenRest, Zenon
  <2>2. a \in 0 .. Len(P[c])
    BY <1>3, <1>4, <1>6
  <2>3. t \in Texts
    BY <1>4, <1>7, <2>2, DropIs, Zenon
  <2>. QED
    BY <1>3, <1>6, <2>1, <2>3
<1>9. n \in M /\ R \in M
  BY <1>1, <1>3, TreeRoot
<1>10. PICK q : q = [F[c] EXCEPT !.prefix = t]
  OBVIOUS
<1>11. q = [F[c] EXCEPT !.prefix = F[n].prefix \o @]
  BY <1>4, <1>8, <1>10 DEF NodesOver
<1>12. /\ DOMAIN F2 = M /\ DOMAIN P2 = M
       /\ \A x \in M : x \in N /\ x # c /\ (x # n => F2[x] = F[x] /\ P2[x] = P[x])
       /\ F2[n] = q /\ P2[n] = P[c]
  BY <1>1, <1>9, <1>11 DEF JoinOf
<1>13. /\ F2[n].kids = F[c].kids /\ F2[n].prefix = t /\ F2[n].val = F[c].val
       /\ F2[n] = [prefix |-> t, val |-> F[c].val, kids |-> F[c].kids]
  BY <1>4, <1>10, <1>12 DEF NodesOver
<1> HIDE DEF N
<1>14. \A x \in M : x \in DOMAIN F
  BY <1>12 DEF N
<1>15. n \in DOMAIN F /\ c \in DOMAIN F /\ \A x \in DOMAIN F : x \in M \/ x = c
  BY <1>1, <1>3 DEF N
<1>16. \A x \in M : P2[x] \in Texts /\ Len(P2[x]) \in Nat /\ P[x] \in Texts /\ Len(P[x]) \in Nat
  BY <1>4, <1>12, <1>14, TreeNode
(* Its child is nobody else's.                                             *)
<1>17. ASSUME NEW x \in DOMAIN F, x # n, NEW d \in DOMAIN F[x].kids
       PROVE  F[x].kids[d] \in M
  <2>1. F[x].kids[d] # c
    BY <1>2, <1>15, <1>17, OneParent
  <2>2. F[x].kids[d] \in DOMAIN F
    BY TreeNode
  <2>. QED
    BY <1>15, <2>1, <2>2
<1>18. Typed(F2, P2)
  <2>1. ASSUME NEW K \in Tables(N), \A d \in DOMAIN K : K[d] \in M
        PROVE  K \in Tables(M)
    BY <2>1 DEF Tables
  <2>2. ASSUME NEW x \in DOMAIN F, x # n, NEW p \in Texts
        PROVE  [prefix |-> p, val |-> F[x].val, kids |-> F[x].kids] \in NodesOver(M)
    <3>1. F[x] \in NodesOver(N)
      BY TreeNode DEF N
    <3>2. F[x].kids \in Tables(M)
      BY <1>17, <2>1, <2>2, <3>1 DEF NodesOver
    <3>. QED
      BY <3>1, <3>2 DEF NodesOver
  <2>3. F2[n] \in NodesOver(M)
    BY <1>3, <1>8, <1>13, <1>15, <2>2
  <2>4. ASSUME NEW x \in M, x # n PROVE F2[x] \in NodesOver(M)
    <3>1. F[x] \in NodesOver(N) /\ x \in DOMAIN F
      BY <1>14, TreeNode DEF N
    <3>2. F[x] = [prefix |-> F[x].prefix, val |-> F[x].val, kids |-> F[x].kids]
          /\ F[x].prefix \in Texts
      BY <3>1 DEF NodesOver
    <3>. QED
      BY <1>12, <2>2, <2>4, <3>1, <3>2
  <2>. QED
    BY <1>12, <1>16, <2>3, <2>4 DEF Typed
<1>19. KidsFiled(F2, P2, R)
  <2> SUFFICES ASSUME NEW x \in M, NEW d \in DOMAIN F2[x].kids
               PROVE  KidOf(F2, P2, R, x, d)
    BY <1>12 DEF KidsFiled
  <2>1. PICK y \in DOMAIN F : y = (IF x = n THEN c ELSE x)
    BY <1>14, <1>15
  <2>2. y # n /\ P2[x] = P[y] /\ F2[x].kids = F[y].kids
    BY <1>3, <1>12, <1>13, <2>1
  <2>3. PICK e : e = F[y].kids[d]
    OBVIOUS
  <2>4. d \in DOMAIN F[y].kids /\ e \in M /\ F2[x].kids[d] = e
    BY <1>17, <2>2, <2>3
  <2>5. /\ e # R /\ Pre(P[y], P[e]) /\ Len(P[y]) < Len(P[e])
        /\ P[e][Len(P[y]) + 1] = d /\ F[e].prefix = Drop(P[e], Len(P[y]))
    BY <2>3, <2>4, TreeKid
  <2>6. CASE e # n
    <3>1. P2[e] = P[e] /\ F2[e].prefix = F[e].prefix
      BY <1>12, <2>4, <2>6
    <3>. QED
      BY <2>2, <2>4, <2>5, <3>1 DEF KidOf, Short
  <2>7. CASE e = n
    <3>1. a = Len(P[y])
      <4>1. F[y].kids[d] = n
        BY <2>3, <2>7
      <4>. QED
        BY <1>5, <1>15, <2>4, <4>1, PrefixIs
    <3>2. P[y] \in Texts /\ Len(P[y]) \in Nat
      BY TreeNode
    <3>3. Pre(P[y], P[c])
      BY <1>3, <1>4, <2>5, <2>7, <3>2, PreTrans
    <3>4. P[c][Len(P[y]) + 1] = d /\ Len(P[y]) < Len(P[c])
      BY <1>3, <1>4, <2>5, <2>7, <3>2, NextByte
    <3>5. P2[e] = P[c] /\ F2[e].prefix = Drop(P[c], Len(P[y]))
      BY <1>7, <1>12, <1>13, <2>7, <3>1
    <3>. QED
      BY <2>2, <2>4, <2>5, <3>3, <3>4, <3>5 DEF KidOf, Short
  <2>. QED
    BY <2>6, <2>7
<1>20. Nested(F2, P2)
  <2> SUFFICES ASSUME NEW x \in M, NEW y \in M, x # y, Pre(P2[x], P2[y])
               PROVE  WayDown(F2, P2, x, y)
    BY <1>12 DEF Nested
  <2>1. PICK z \in DOMAIN F : z = (IF x = n THEN c ELSE x)
    BY <1>14, <1>15
  <2>2. PICK u \in DOMAIN F : u = (IF y = n THEN c ELSE y)
    BY <1>14, <1>15
  <2>3. /\ z # n /\ P2[x] = P[z] /\ F2[x].kids = F[z].kids /\ P2[y] = P[u] /\ z # u
        /\ Pre(P[z], P[u]) /\ u # n
    BY <1>3, <1>12, <1>13, <2>1, <2>2
  <2>4. PICK d : d = P[u][Len(P[z]) + 1]
    OBVIOUS
  <2>5. PICK e : e = F[z].kids[d]
    OBVIOUS
  <2>6. Len(P[z]) < Len(P[u]) /\ d \in DOMAIN F[z].kids /\ Pre(P[e], P[u]) /\ e \in M
    BY <1>17, <2>3, <2>4, <2>5, TreeWay
  <2>7. Pre(P2[e], P[u])
    <3>1. CASE e # n
      BY <1>12, <2>6, <3>1
    <3>2. CASE e = n
      <4>1. PICK h : h = P[u][Len(P[n]) + 1]
        OBVIOUS
      <4>2. h \in DOMAIN F[n].kids /\ Pre(P[F[n].kids[h]], P[u])
        BY <1>15, <2>3, <2>6, <3>2, <4>1, TreeWay
      <4>. QED
        BY <1>12, <3>2, <4>2
    <3>. QED
      BY <3>1, <3>2
  <2>. QED
    BY <2>3, <2>4, <2>5, <2>6, <2>7 DEF WayDown
<1>21. Rooted(F2, P2, R)
  <2>1. R # None /\ F[R].prefix = P[R] /\ R \in DOMAIN F
    BY <1>9, <1>14, TreeRoot
  <2>2. F2[R].prefix = P2[R]
    <3>1. CASE R = n
      <4>1. t = P[c]
        <5>1. 0 \in 0 .. Len(P[c])
          BY <1>4
        <5>2. Drop(P[c], 0) = P[c]
          BY <1>4, <5>1, DropIs, Zenon
        <5>. QED
          BY <1>6, <1>7, <3>1, <5>2
      <4>. QED
        BY <1>12, <1>13, <3>1, <4>1
    <3>2. CASE R # n
      BY <1>9, <1>12, <2>1, <3>2
    <3>. QED
      BY <3>1, <3>2
  <2>3. ASSUME NEW x \in M PROVE Pre(P2[R], P2[x])
    <3>1. PICK y \in DOMAIN F : y = (IF x = n THEN c ELSE x)
      BY <1>14, <1>15
    <3>2. P2[x] = P[y] /\ Pre(P[R], P[y]) /\ y # n
      BY <1>3, <1>12, <3>1, TreeRoot
    <3>3. CASE R # n
      BY <1>9, <1>12, <3>2, <3>3
    <3>4. CASE R = n
      <4>1. PICK h : h = P[y][Len(P[n]) + 1]
        OBVIOUS
      <4>2. h \in DOMAIN F[n].kids /\ Pre(P[F[n].kids[h]], P[y])
        BY <1>15, <3>2, <3>4, <4>1, TreeWay
      <4>. QED
        BY <1>12, <3>2, <3>4, <4>2
    <3>. QED
      BY <3>3, <3>4
  <2>4. ASSUME NEW x \in M, x # R PROVE HasParent(F2, x)
    <3>1. PICK y \in DOMAIN F : \E d \in DOMAIN F[y].kids : F[y].kids[d] = x
      BY <1>14, <2>4, TreeRoot DEF HasParent
    <3>2. PICK d \in DOMAIN F[y].kids : F[y].kids[d] = x
      BY <3>1
    <3>3. y # n
      BY <1>12, <3>2
    <3>4. PICK z \in M : z = (IF y = c THEN n ELSE y)
      BY <1>9, <1>15
    <3>5. F2[z].kids = F[y].kids
      BY <1>3, <1>12, <1>13, <3>3, <3>4
    <3>. QED
      BY <1>12, <3>2, <3>4, <3>5 DEF HasParent
  <2>. QED
    BY <1>9, <1>12, <2>1, <2>2, <2>3, <2>4 DEF Rooted
<1>. QED
  BY <1>1, <1>9, <1>12, <1>13, <1>15, <1>18, <1>19, <1>20, <1>21 DEF Tree, N

(* The root is gone, and its only child is the root.                       *)
RootJoinOf(F, P, R, c, F2, P2) ==
  LET left == DOMAIN F \ {R}
  IN /\ F2 = [x \in left |->
                IF x = c THEN [F[c] EXCEPT !.prefix = F[R].prefix \o @] ELSE F[x]]
     /\ P2 = [x \in left |-> P[x]]

(* compress makes the only child of the root the root.                     *)
LEMMA RootJoinTree ==
  ASSUME NEW F, NEW P, NEW R, Tree(F, P, R), NEW b, R \in DOMAIN F,
         DOMAIN F[R].kids = {b}, NEW c, c = F[R].kids[b], c # None,
         NEW F2, NEW P2, RootJoinOf(F, P, R, c, F2, P2)
  PROVE  /\ Tree(F2, P2, c) /\ DOMAIN F2 = DOMAIN F \ {R} /\ c \in DOMAIN F2
         /\ \A x \in DOMAIN F2 : /\ P2[x] = P[x] /\ F2[x].val = F[x].val
                                 /\ F2[x].kids = F[x].kids
<1> DEFINE N == DOMAIN F
<1>1. PICK M : M = N \ {R}
  OBVIOUS
<1>2. b \in DOMAIN F[R].kids
  OBVIOUS
<1>3. /\ c \in N /\ c # R /\ Pre(P[R], P[c]) /\ Len(P[R]) < Len(P[c])
      /\ F[c].prefix = Drop(P[c], Len(P[R]))
  BY <1>2, TreeKid
<1>4. P[R] \in Texts /\ P[c] \in Texts /\ F[c] \in NodesOver(N) /\ F[R].prefix = P[R]
  BY <1>3, TreeNode, TreeRoot
<1>5. F[R].prefix \o F[c].prefix = P[c]
  BY <1>3, <1>4, RestIs
<1>6. PICK q : q = [F[c] EXCEPT !.prefix = P[c]]
  OBVIOUS
<1>7. q = [F[c] EXCEPT !.prefix = F[R].prefix \o @]
  BY <1>4, <1>5, <1>6 DEF NodesOver
<1>8. c \in M
  BY <1>1, <1>3
<1>9. /\ DOMAIN F2 = M /\ DOMAIN P2 = M
      /\ \A x \in M : x \in N /\ x # R /\ P2[x] = P[x] /\ (x # c => F2[x] = F[x])
      /\ F2[c] = q
  BY <1>1, <1>7, <1>8 DEF RootJoinOf
<1>10. /\ F2[c].kids = F[c].kids /\ F2[c].prefix = P[c] /\ F2[c].val = F[c].val
       /\ F2[c] = [prefix |-> P[c], val |-> F[c].val, kids |-> F[c].kids]
  BY <1>4, <1>6, <1>9 DEF NodesOver
<1>11. \A x \in M : F2[x].val = F[x].val /\ F2[x].kids = F[x].kids
  BY <1>9, <1>10
<1> HIDE DEF N
<1>12. \A x \in M : x \in DOMAIN F /\ x # R
  BY <1>9 DEF N
<1>13. \A x \in DOMAIN F : x \in M \/ x = R
  BY <1>1 DEF N
<1>14. ASSUME NEW x \in M, NEW d \in DOMAIN F[x].kids
       PROVE  F[x].kids[d] \in M /\ F[x].kids[d] # c
  <2>1. F[x].kids[d] \in DOMAIN F /\ F[x].kids[d] # R
    BY <1>12, TreeKid
  <2>2. F[x].kids[d] # c
    BY <1>2, <1>12, OneParent
  <2>. QED
    BY <1>13, <2>1, <2>2
<1>15. Typed(F2, P2)
  <2>1. ASSUME NEW x \in M PROVE F2[x] \in NodesOver(M)
    <3>1. F[x] \in NodesOver(N)
      BY <1>12, TreeNode DEF N
    <3>2. F[x].kids \in Tables(M)
      BY <1>14, <3>1 DEF NodesOver, Tables
    <3>3. F2[x] = [prefix |-> F2[x].prefix, val |-> F[x].val, kids |-> F[x].kids]
          /\ F2[x].prefix \in Texts
      BY <1>4, <1>9, <1>10, <3>1 DEF NodesOver
    <3>. QED
      BY <3>1, <3>2, <3>3 DEF NodesOver
  <2>. QED
    BY <1>9, <1>12, <2>1, TreeNode DEF Typed
<1>16. KidsFiled(F2, P2, c)
  <2> SUFFICES ASSUME NEW x \in M, NEW d \in DOMAIN F2[x].kids
               PROVE  KidOf(F2, P2, c, x, d)
    BY <1>9 DEF KidsFiled
  <2>1. PICK e : e = F[x].kids[d]
    OBVIOUS
  <2>2. d \in DOMAIN F[x].kids /\ e \in M /\ F2[x].kids[d] = e /\ e # c
    BY <1>11, <1>14, <2>1
  <2>3. /\ Pre(P[x], P[e]) /\ Len(P[x]) < Len(P[e])
        /\ P[e][Len(P[x]) + 1] = d /\ F[e].prefix = Drop(P[e], Len(P[x]))
    BY <1>12, <2>1, <2>2, TreeKid
  <2>4. P2[x] = P[x] /\ P2[e] = P[e] /\ F2[e].prefix = F[e].prefix
    BY <1>9, <2>2
  <2>. QED
    BY <2>2, <2>3, <2>4 DEF KidOf, Short
<1>17. Nested(F2, P2)
  <2> SUFFICES ASSUME NEW x \in M, NEW y \in M, x # y, Pre(P2[x], P2[y])
               PROVE  WayDown(F2, P2, x, y)
    BY <1>9 DEF Nested
  <2>1. PICK d : d = P[y][Len(P[x]) + 1]
    OBVIOUS
  <2>2. PICK e : e = F[x].kids[d]
    OBVIOUS
  <2>3. Len(P[x]) < Len(P[y]) /\ d \in DOMAIN F[x].kids /\ Pre(P[e], P[y])
    BY <1>9, <1>12, <2>1, <2>2, TreeWay
  <2>4. e \in M /\ P2[e] = P[e] /\ P2[x] = P[x] /\ P2[y] = P[y] /\ F2[x].kids = F[x].kids
    BY <1>9, <1>11, <1>14, <2>2, <2>3
  <2>. QED
    BY <2>1, <2>2, <2>3, <2>4 DEF WayDown
<1>18. Rooted(F2, P2, c)
  <2>1. ASSUME NEW x \in M PROVE Pre(P2[c], P2[x])
    <3>1. PICK h : h = P[x][Len(P[R]) + 1]
      OBVIOUS
    <3>2. h \in DOMAIN F[R].kids /\ Pre(P[F[R].kids[h]], P[x])
      BY <1>12, <3>1, TreeRoot, TreeWay
    <3>. QED
      BY <1>8, <1>9, <3>2
  <2>2. ASSUME NEW x \in M, x # c PROVE HasParent(F2, x)
    <3>1. PICK y \in DOMAIN F : \E d \in DOMAIN F[y].kids : F[y].kids[d] = x
      BY <1>12, TreeRoot DEF HasParent
    <3>2. PICK d \in DOMAIN F[y].kids : F[y].kids[d] = x
      BY <3>1
    <3>3. y # R
      BY <2>2, <3>2
    <3>. QED
      BY <1>9, <1>11, <1>13, <3>2, <3>3 DEF HasParent
  <2>. QED
    BY <1>8, <1>9, <1>10, <2>1, <2>2 DEF Rooted
<1>. QED
  BY <1>1, <1>8, <1>9, <1>11, <1>15, <1>16, <1>17, <1>18 DEF Tree, N

------------------------------------------------------------------------------
(* The map that a tree stands for.                                         *)

ValuedIn(F) == {n \in DOMAIN F : F[n].val # None}
MapOf(F, P) ==
  [k \in {P[n] : n \in ValuedIn(F)} |-> F[CHOOSE n \in ValuedIn(F) : P[n] = k].val]

(* A map has the pairs of a tree and no others.                            *)
HasPairs(G, F, P) ==
  /\ G = [k \in DOMAIN G |-> G[k]]
  /\ \A n \in ValuedIn(F) : P[n] \in DOMAIN G /\ G[P[n]] = F[n].val
  /\ \A k \in DOMAIN G : \E n \in ValuedIn(F) : P[n] = k

(* No two nodes have one path, so that the map of values by path has each  *)
(* of them.                                                                *)
LEMMA MapHasPairs ==
  ASSUME NEW F, NEW P, NEW R, Tree(F, P, R)
  PROVE  HasPairs(MapOf(F, P), F, P)
<1> DEFINE V == ValuedIn(F)
           G == [k \in {P[n] : n \in V} |-> F[CHOOSE n \in V : P[n] = k].val]
<1>1. MapOf(F, P) = G
  BY DEF MapOf
<1>2. ASSUME NEW n \in V PROVE P[n] \in DOMAIN G /\ G[P[n]] = F[n].val
  <2>1. PICK m : m = CHOOSE x \in V : P[x] = P[n]
    OBVIOUS
  <2>2. m \in V /\ P[m] = P[n]
    BY <2>1
  <2>3. n \in DOMAIN F /\ m \in DOMAIN F
    BY <2>2 DEF ValuedIn
  <2>4. Pre(P[n], P[m]) /\ Len(P[m]) <= Len(P[n])
    BY <2>2, <2>3, TreeNode, PreRefl
  <2>5. n = m
    BY <2>3, <2>4, Distinct
  <2>. QED
    BY <2>1, <2>5
<1>3. \A k \in DOMAIN G : \E n \in V : P[n] = k
  OBVIOUS
<1>4. G = [k \in DOMAIN G |-> G[k]]
  OBVIOUS
<1> HIDE DEF G
<1>. QED
  BY <1>1, <1>2, <1>3, <1>4 DEF HasPairs

LEMMA ContentsIs ==
  ASSUME Tree(forest, path, root)
  PROVE  HasPairs(contents, forest, path)
<1>1. Valued = ValuedIn(forest)
  BY DEF Valued, ValuedIn, Bare, nodes
<1>2. contents = MapOf(forest, path)
  BY <1>1 DEF contents, MapOf
<1>. QED
  BY <1>2, MapHasPairs

LEMMA ContentsIsNext ==
  ASSUME Tree(forest', path', root')
  PROVE  HasPairs(contents', forest', path')
<1>1. Valued' = ValuedIn(forest')
  BY DEF Valued, ValuedIn, Bare, nodes
<1>2. contents' = MapOf(forest', path')
  BY <1>1 DEF contents, MapOf
<1>. QED
  BY <1>2, MapHasPairs

------------------------------------------------------------------------------
(* What a walk knows at a node m.                                          *)

(* The bytes before m's prefix are the key's, and s is what follows them.  *)
(* At a node other than the root the next byte is the key's too.           *)
Reached(F, P, R, m, key, s) ==
  LET a == Begin(F, P, m)
  IN /\ m \in DOMAIN F /\ a <= Len(key) /\ s = Drop(key, a)
     /\ \A k \in 1 .. a : P[m][k] = key[k]
     /\ m # R => a < Len(key) /\ P[m][a + 1] = key[a + 1]

WalkAt(F, P, m, key, a, c) ==
  /\ a \in Nat /\ c \in Nat /\ Len(P[m]) \in Nat /\ Len(key) \in Nat
  /\ a + c <= Len(P[m]) /\ a + c <= Len(key)
  /\ Len(F[m].prefix) = Len(P[m]) - a
  /\ \A k \in 1 .. a + c : P[m][k] = key[k]
  /\ a + c < Len(P[m]) /\ a + c < Len(key) => P[m][a + c + 1] # key[a + c + 1]

(* What is known of s and of the bytes common to it and to m's prefix.     *)
WalkHas(F, P, R, m, key, s, a, c) ==
  /\ WalkAt(F, P, m, key, a, c) /\ m \in DOMAIN F /\ P[m] \in Texts
  /\ s \in Texts /\ Len(s) = Len(key) - a
  /\ Drop(s, c) = Drop(key, a + c) /\ Drop(s, c) \in Texts
  /\ Len(Drop(s, c)) = Len(key) - (a + c)
  /\ a + c < Len(key) => Drop(s, c)[1] = key[a + c + 1]
  /\ m # R => 0 < c

(* What the comparison of the prefix with the rest of the key says of the  *)
(* path and the key.                                                       *)
LEMMA WalkIs ==
  ASSUME NEW F, NEW P, NEW R, Tree(F, P, R), NEW m, NEW key \in Texts, NEW s,
         Reached(F, P, R, m, key, s),
         NEW a, a = Begin(F, P, m), NEW c, c = Common(F[m].prefix, s)
  PROVE  WalkHas(F, P, R, m, key, s, a, c)
<1>1. /\ m \in DOMAIN F /\ a <= Len(key) /\ s = Drop(key, a)
      /\ \A k \in 1 .. a : P[m][k] = key[k]
      /\ m # R => a < Len(key) /\ P[m][a + 1] = key[a + 1]
  BY DEF Reached
<1>2. P[m] \in Texts /\ Len(P[m]) \in Nat /\ Len(key) \in Nat
  BY <1>1, TreeNode, TextIs
<1>3. a \in 0 .. Len(P[m]) /\ F[m].prefix = Drop(P[m], a) /\ (m # R => a < Len(P[m]))
  BY <1>1, PrefixIs
<1>4. a \in Nat /\ a \in 0 .. Len(key)
  BY <1>1, <1>2, <1>3
<1>5. PICK t : t = F[m].prefix
  OBVIOUS
<1>6. t \in Texts /\ Len(t) = Len(P[m]) - a /\ \A k \in 1 .. Len(P[m]) - a : t[k] = P[m][a + k]
  <2>1. t = Drop(P[m], a)
    BY <1>3, <1>5
  <2>2. a \in 0 .. Len(P[m])
    BY <1>3
  <2>. QED
    BY <1>2, <2>1, <2>2, DropIs, Zenon
<1>7. s \in Texts /\ Len(s) = Len(key) - a /\ \A k \in 1 .. Len(key) - a : s[k] = key[a + k]
  BY <1>1, <1>4, DropIs, Zenon
<1>8. /\ c \in 0 .. Len(t) /\ c <= Len(s) /\ \A k \in 1 .. c : t[k] = s[k]
      /\ c < Len(t) /\ c < Len(s) => t[c + 1] # s[c + 1]
  BY <1>5, <1>6, <1>7, CommonIs, Zenon
<1>9. c \in Nat /\ a + c <= Len(P[m]) /\ a + c <= Len(key) /\ a + c \in 0 .. Len(key)
      /\ c \in 0 .. Len(key) - a
  BY <1>2, <1>3, <1>4, <1>6, <1>7, <1>8
<1>10. ASSUME NEW k \in 1 .. a + c PROVE P[m][k] = key[k]
  <2>1. CASE k <= a
    BY <1>1, <1>4, <2>1
  <2>2. CASE k > a
    <3>1. PICK j \in 1 .. c : k = a + j
      <4>1. k - a \in 1 .. c /\ k = a + (k - a)
        BY <1>4, <1>9, <2>2
      <4>. QED
        BY <4>1
    <3>2. j \in 1 .. Len(P[m]) - a /\ j \in 1 .. Len(key) - a
      BY <1>2, <1>4, <1>9
    <3>3. t[j] = P[m][a + j] /\ s[j] = key[a + j] /\ t[j] = s[j]
      BY <1>6, <1>7, <1>8, <3>2
    <3>. QED
      BY <3>1, <3>3
  <2>. QED
    BY <1>4, <1>9, <2>1, <2>2
<1>11. ASSUME a + c < Len(P[m]), a + c < Len(key) PROVE P[m][a + c + 1] # key[a + c + 1]
  <2>1. /\ c + 1 \in 1 .. Len(P[m]) - a /\ c + 1 \in 1 .. Len(key) - a
        /\ a + (c + 1) = a + c + 1 /\ c < Len(t) /\ c < Len(s)
    <3>1. PICK p : p = Len(P[m])
      OBVIOUS
    <3>2. PICK q : q = Len(key)
      OBVIOUS
    <3>3. Len(t) = p - a /\ Len(s) = q - a /\ a + c < p /\ a + c < q
      BY <1>6, <1>7, <1>11, <3>1, <3>2, Zenon
    <3>4. p \in Nat /\ q \in Nat /\ a \in Nat /\ c \in Nat
      BY <1>2, <1>4, <1>9, <3>1, <3>2
    <3>5. c + 1 \in 1 .. p - a /\ c + 1 \in 1 .. q - a /\ a + (c + 1) = a + c + 1
          /\ c < p - a /\ c < q - a
      <4>1. a + c < p /\ a + c < q
        BY <3>3
      <4>. QED
        BY <3>4, <4>1
    <3>. QED
      BY <3>1, <3>2, <3>3, <3>5, Zenon
  <2>2. t[c + 1] = P[m][a + c + 1] /\ s[c + 1] = key[a + c + 1]
    BY <1>6, <1>7, <2>1
  <2>. QED
    BY <1>8, <2>1, <2>2
<1>12. Drop(s, c) = Drop(key, a + c)
  BY <1>1, <1>4, <1>9, DropTwice, Zenon
<1>13. /\ Drop(s, c) \in Texts /\ Len(Drop(s, c)) = Len(key) - (a + c)
       /\ \A k \in 1 .. Len(key) - (a + c) : Drop(s, c)[k] = key[a + c + k]
  <2>1. PICK u : u = Drop(key, a + c)
    OBVIOUS
  <2>2. u \in Texts /\ Len(u) = Len(key) - (a + c)
        /\ \A k \in 1 .. Len(key) - (a + c) : u[k] = key[(a + c) + k]
    BY <1>9, <2>1, DropIs, Zenon
  <2>. QED
    BY <1>12, <2>1, <2>2
<1>14. ASSUME a + c < Len(key) PROVE Drop(s, c)[1] = key[a + c + 1]
  <2>1. 1 \in 1 .. Len(key) - (a + c)
    BY <1>2, <1>4, <1>9, <1>14
  <2>. QED
    BY <1>13, <2>1
<1>15. ASSUME m # R PROVE 0 < c
  <2>1. a < Len(P[m]) /\ a < Len(key) /\ P[m][a + 1] = key[a + 1]
    BY <1>1, <1>3, <1>15
  <2>2. c = 0 => P[m][a + 1] # key[a + 1]
    BY <1>4, <1>11, <2>1
  <2>. QED
    BY <1>9, <2>1, <2>2
<1>. QED
  BY <1>1, <1>2, <1>3, <1>4, <1>5, <1>6, <1>7, <1>9, <1>10, <1>11, <1>12, <1>13,
     <1>14, <1>15 DEF WalkAt, WalkHas

(* Whatever begins with the key is below the node reached.                 *)
LEMMA OnlyWay ==
  ASSUME NEW F, NEW P, NEW R, Tree(F, P, R), NEW m, NEW key \in Texts, NEW s,
         Reached(F, P, R, m, key, s), NEW x \in DOMAIN F, Pre(key, P[x])
  PROVE  Pre(P[m], P[x])
<1>1. PICK a : a = Begin(F, P, m)
  OBVIOUS
<1>2. /\ m \in DOMAIN F
      /\ \A k \in 1 .. a : P[m][k] = key[k]
      /\ m # R => a < Len(key) /\ P[m][a + 1] = key[a + 1]
  BY <1>1 DEF Reached
<1>3. a \in 0 .. Len(P[m]) /\ Len(P[m]) \in Nat
  BY <1>1, <1>2, PrefixIs, TreeNode
<1>4. Len(key) \in Nat /\ Len(P[x]) \in Nat
  BY TextIs, TreeNode
<1>5. ASSUME m # R PROVE a + 1 <= Len(P[x]) /\ \A k \in 1 .. a + 1 : P[x][k] = P[m][k]
  BY <1>2, <1>3, <1>4, <1>5 DEF Pre
<1>. QED
  BY <1>1, <1>2, <1>5, Entered

(* Where a walk goes on: the key has all that leads to m.                  *)
LEMMA WholeIs ==
  ASSUME NEW F, NEW P, NEW m, NEW key \in Texts, P[m] \in Texts, NEW a, NEW c,
         WalkAt(F, P, m, key, a, c), c = Len(F[m].prefix)
  PROVE  a + c = Len(P[m]) /\ Pre(P[m], key)
BY DEF WalkAt, Pre

LEMMA EndsIs ==
  ASSUME NEW F, NEW P, NEW m, NEW key \in Texts, P[m] \in Texts, NEW a, NEW c,
         WalkAt(F, P, m, key, a, c), c = Len(key) - a
  PROVE  a + c = Len(key) /\ Pre(key, P[m])
BY DEF WalkAt, Pre

(* A walk that can go no further has shown that nothing begins with the    *)
(* key.                                                                    *)
LEMMA NothingThere ==
  ASSUME NEW F, NEW P, NEW R, Tree(F, P, R), NEW m, NEW key \in Texts, NEW s,
         Reached(F, P, R, m, key, s),
         NEW c, c = Common(F[m].prefix, s), c # Len(s),
         c = Len(F[m].prefix) => Drop(s, c)[1] \notin DOMAIN F[m].kids,
         NEW x \in DOMAIN F, Pre(key, P[x])
  PROVE  FALSE
<1>1. PICK a : a = Begin(F, P, m)
  OBVIOUS
<1>2. /\ WalkAt(F, P, m, key, a, c) /\ m \in DOMAIN F /\ P[m] \in Texts
      /\ Len(s) = Len(key) - a
      /\ a + c < Len(key) => Drop(s, c)[1] = key[a + c + 1]
  <2>1. WalkHas(F, P, R, m, key, s, a, c)
    BY <1>1, WalkIs
  <2>. QED
    BY <2>1 DEF WalkHas
<1>3. P[x] \in Texts /\ Len(P[x]) \in Nat /\ Pre(P[m], P[x])
  BY OnlyWay, TreeNode
<1>4. /\ a \in Nat /\ c \in Nat /\ Len(P[m]) \in Nat /\ Len(key) \in Nat
      /\ a + c <= Len(P[m]) /\ a + c < Len(key) /\ Len(F[m].prefix) = Len(P[m]) - a
  BY <1>2 DEF WalkAt
<1>5. CASE a + c < Len(P[m])
  <2>1. P[m][a + c + 1] # key[a + c + 1]
    BY <1>2, <1>4, <1>5 DEF WalkAt
  <2>2. a + c + 1 \in 1 .. Len(P[m]) /\ a + c + 1 \in 1 .. Len(key)
    BY <1>4, <1>5
  <2>. QED
    BY <1>3, <2>1, <2>2 DEF Pre
<1>6. CASE a + c = Len(P[m])
  <2>1. c = Len(F[m].prefix)
    BY <1>4, <1>6
  <2>2. key[Len(P[m]) + 1] \notin DOMAIN F[m].kids
    BY <1>2, <1>4, <1>6, <2>1
  <2>3. Len(P[m]) < Len(key)
    BY <1>4, <1>6
  <2>4. key[Len(P[m]) + 1] = P[x][Len(P[m]) + 1] /\ Len(P[m]) < Len(P[x])
    BY <1>2, <1>3, <2>3, NextByte
  <2>5. m # x
    BY <1>3, <2>4
  <2>. QED
    BY <1>2, <1>3, <2>2, <2>4, <2>5, TreeWay
<1>. QED
  BY <1>4, <1>5, <1>6

------------------------------------------------------------------------------
(* The invariant.                                                          *)

Removals == {"remove", "remove_prefix"}

Nodes ==
  /\ Tree(forest, path, root) /\ nodes \subseteq Names
  /\ \A n \in nodes : ~Bare(n) => path[n] # <<>>
  /\ ret \in Values \cup {None} \cup (Texts \X Values)

(* What an operation has at hand when it is at a step.                     *)
InCall ==
  /\ step \in {"idle", "walk", "split", "compress", "join", "visit"}
  /\ step \in {"walk", "split"} => call \in Calls /\ ret = None
  /\ step \in {"idle", "compress", "join"} => call = NoCall
  /\ step = "visit" => call.op = "visit" /\ call.key \in Texts
  /\ step # "visit" => todo = {}
  /\ step \in {"idle", "split", "visit"} => visited = <<>>
  /\ step = "walk" /\ call.op \notin Removals => visited = <<>>
  /\ step \in {"compress", "join"} => root # None
  /\ step \in {"idle", "compress", "visit"} => cur = None
  /\ step = "walk" /\ root = None => cur = None
  /\ step = "join" => cur \in nodes

OnTheWay ==
  /\ (step = "walk" /\ root # None) \/ step = "split" =>
       Reached(forest, path, root, cur, call.key, rest)
  /\ step = "split" =>
       /\ call.op = "insert" /\ ~Refused /\ root # None
       /\ Whole /\ (Ends \/ Missing) /\ \E b \in Bytes : Branches(cur) = {b}

(* V leads from the root along children down to m.                         *)
Links(F, P, R, V) ==
  /\ V \in Seq((DOMAIN F) \X Bytes)
  /\ \A k \in 1 .. Len(V) :
       /\ V[k][2] \in DOMAIN F[V[k][1]].kids
       /\ k < Len(V) => F[V[k][1]].kids[V[k][2]] = V[k + 1][1]
       /\ \A j \in 1 .. k - 1 : Len(P[V[j][1]]) < Len(P[V[k][1]])
  /\ V # <<>> => V[1][1] = R
LeadsTo(F, P, V, m) ==
  \A k \in 1 .. Len(V) :
    /\ Len(P[V[k][1]]) < Len(P[m])
    /\ k = Len(V) => F[V[k][1]].kids[V[k][2]] = m

Chain ==
  /\ Links(forest, path, root, visited)
  /\ step \in {"walk", "join"} => LeadsTo(forest, path, visited, cur)
  /\ step = "walk" /\ visited = <<>> /\ call.op \in Removals => cur = root

(* What is to be visited lies below the key, and no two nodes of it on one *)
(* way.                                                                    *)
Visits ==
  /\ \A f \in todo : /\ f \in nodes \X Texts
                     /\ path[f[1]] = call.key \o f[2]
  /\ \A f, g \in todo : Pre(path[f[1]], path[g[1]]) => f = g

(* Where a useless leaf may be.                                            *)
focus == IF visited = <<>> THEN root ELSE forest[last[1]].kids[last[2]]

OneUseless == \A n, m \in nodes : ~Useful(n) /\ ~Useful(m) => n = m
Tidy ==
  tidy =>
    /\ step = "walk" => Compressed
    /\ step = "split" => \A n \in nodes \ {cur} : Useful(n)
    /\ step \in {"compress", "join"} => OneUseless
    /\ step = "compress" =>
         \A n \in nodes : ~Useful(n) /\ Branches(n) = {} => n = focus
    /\ step = "join" => \A n \in nodes : ~Useful(n) => Branches(n) # {}

IInv == Nodes /\ InCall /\ OnTheWay /\ Chain /\ Visits /\ Tidy


------------------------------------------------------------------------------
(* The way a removal came by.                                              *)

LEMMA LinkAt ==
  ASSUME NEW F, NEW P, NEW R, NEW V, Links(F, P, R, V), NEW k \in 1 .. Len(V)
  PROVE  /\ Len(V) \in Nat /\ V[k] \in (DOMAIN F) \X Bytes
         /\ V[k][1] \in DOMAIN F /\ V[k][2] \in DOMAIN F[V[k][1]].kids
         /\ k < Len(V) => F[V[k][1]].kids[V[k][2]] = V[k + 1][1]
         /\ \A j \in 1 .. k - 1 : Len(P[V[j][1]]) < Len(P[V[k][1]])
<1>1. V \in Seq((DOMAIN F) \X Bytes)
  BY DEF Links
<1>2. Len(V) \in Nat /\ V[k] \in (DOMAIN F) \X Bytes
  BY <1>1, LenProperties, ElementOfSeq
<1>. QED
  BY <1>2 DEF Links

LEMMA NoLinks ==
  ASSUME NEW F, NEW P, NEW R, NEW m
  PROVE  Links(F, P, R, <<>>) /\ LeadsTo(F, P, <<>>, m)
<1>1. Len(<<>>) = 0 /\ <<>> \in Seq((DOMAIN F) \X Bytes)
  OBVIOUS
<1>. QED
  BY <1>1 DEF Links, LeadsTo

(* A removal goes down a link.                                             *)
LEMMA LinkAdded ==
  ASSUME NEW F, NEW P, NEW R, Tree(F, P, R), NEW V, Links(F, P, R, V),
         NEW m \in DOMAIN F, LeadsTo(F, P, V, m), V = <<>> => m = R,
         NEW b \in DOMAIN F[m].kids
  PROVE  /\ Links(F, P, R, Append(V, <<m, b>>))
         /\ LeadsTo(F, P, Append(V, <<m, b>>), F[m].kids[b])
         /\ Append(V, <<m, b>>) # <<>>
<1> DEFINE e == <<m, b>>
<1>1. PICK l : l = Len(V)
  OBVIOUS
<1>2. PICK W : W = Append(V, e)
  OBVIOUS
<1>3. V \in Seq((DOMAIN F) \X Bytes) /\ e \in (DOMAIN F) \X Bytes /\ l \in Nat
  BY <1>1, TreeNode, LenProperties DEF Links
<1>4. /\ W \in Seq((DOMAIN F) \X Bytes) /\ Len(W) = l + 1 /\ W[l + 1] = e
      /\ \A k \in 1 .. l : W[k] = V[k]
  <2> HIDE DEF e
  <2>. QED
    BY <1>1, <1>2, <1>3, AppendProperties
<1>5. W[l + 1][1] = m /\ W[l + 1][2] = b
  BY <1>4
<1>6. PICK c : c = F[m].kids[b]
  OBVIOUS
<1>7. c \in DOMAIN F /\ Len(P[m]) < Len(P[c]) /\ Len(P[m]) \in Nat /\ Len(P[c]) \in Nat
  BY <1>6, TreeKid, TreeNode
<1>8. ASSUME NEW k \in 1 .. l
      PROVE  /\ W[k] = V[k] /\ V[k][1] \in DOMAIN F /\ V[k][2] \in DOMAIN F[V[k][1]].kids
             /\ F[V[k][1]].kids[V[k][2]] = W[k + 1][1]
             /\ \A j \in 1 .. k - 1 : Len(P[W[j][1]]) < Len(P[W[k][1]])
             /\ Len(P[V[k][1]]) < Len(P[m]) /\ Len(P[V[k][1]]) \in Nat
  <2>1. k \in 1 .. Len(V) /\ W[k] = V[k]
    BY <1>1, <1>4
  <2>2. /\ V[k][1] \in DOMAIN F /\ V[k][2] \in DOMAIN F[V[k][1]].kids
        /\ k < l => F[V[k][1]].kids[V[k][2]] = V[k + 1][1]
        /\ \A j \in 1 .. k - 1 : Len(P[V[j][1]]) < Len(P[V[k][1]])
    BY <1>1, <2>1, LinkAt
  <2>3. Len(P[V[k][1]]) < Len(P[m]) /\ (k = l => F[V[k][1]].kids[V[k][2]] = m)
    BY <1>1, <2>1 DEF LeadsTo
  <2>4. Len(P[V[k][1]]) \in Nat
    BY <2>2, TreeNode
  <2>5. \A j \in 1 .. k - 1 : W[j] = V[j]
    BY <1>3, <1>4
  <2>6. F[V[k][1]].kids[V[k][2]] = W[k + 1][1]
    <3>1. CASE k = l
      BY <1>5, <2>3, <3>1
    <3>2. CASE k < l
      <4>1. W[k + 1] = V[k + 1]
        BY <1>3, <1>4, <3>2
      <4>. QED
        BY <2>2, <3>2, <4>1
    <3>. QED
      BY <1>3, <3>1, <3>2
  <2>. QED
    BY <2>1, <2>2, <2>3, <2>4, <2>5, <2>6
<1> HIDE DEF e
<1>9. \A k \in 1 .. l + 1 : k \in 1 .. l \/ k = l + 1
  BY <1>3
<1>10. \A j \in 1 .. (l + 1) - 1 : Len(P[W[j][1]]) < Len(P[m])
  <2>1. \A j \in 1 .. (l + 1) - 1 : j \in 1 .. l
    BY <1>3
  <2>. QED
    BY <1>8, <2>1
<1>11. W # <<>> /\ W[1][1] = R
  <2>1. CASE V = <<>>
    <3>1. l = 0
      BY <1>1, <2>1
    <3>. QED
      BY <1>4, <1>5, <2>1, <3>1
  <2>2. CASE V # <<>>
    <3>1. l # 0
      BY <1>1, <1>3, <2>2, EmptySeq
    <3>2. 1 \in 1 .. l
      BY <1>3, <3>1
    <3>3. W[1] = V[1]
      BY <1>8, <3>2
    <3>. QED
      BY <1>4, <1>3, <2>2, <3>3 DEF Links
  <2>. QED
    BY <2>1, <2>2
<1>12. Links(F, P, R, W)
  <2>1. ASSUME NEW k \in 1 .. Len(W)
        PROVE  /\ W[k][2] \in DOMAIN F[W[k][1]].kids
               /\ k < Len(W) => F[W[k][1]].kids[W[k][2]] = W[k + 1][1]
               /\ \A j \in 1 .. k - 1 : Len(P[W[j][1]]) < Len(P[W[k][1]])
    <3>1. CASE k \in 1 .. l
      BY <1>8, <3>1
    <3>2. CASE k = l + 1
      BY <1>4, <1>5, <1>10, <3>2
    <3>. QED
      BY <1>4, <1>9, <3>1, <3>2
  <2>. QED
    BY <1>4, <1>11, <2>1 DEF Links
<1>13. LeadsTo(F, P, W, c)
  <2>1. ASSUME NEW k \in 1 .. Len(W)
        PROVE  /\ Len(P[W[k][1]]) < Len(P[c])
               /\ k = Len(W) => F[W[k][1]].kids[W[k][2]] = c
    <3>1. CASE k \in 1 .. l
      <4>1. W[k] = V[k] /\ Len(P[V[k][1]]) < Len(P[m]) /\ Len(P[V[k][1]]) \in Nat
        BY <1>8, <3>1
      <4>. QED
        BY <1>3, <1>4, <1>7, <3>1, <4>1
    <3>2. CASE k = l + 1
      BY <1>4, <1>5, <1>6, <1>7, <3>2
    <3>. QED
      BY <1>4, <1>9, <3>1, <3>2
  <2>. QED
    BY <2>1 DEF LeadsTo
<1>. QED
  BY <1>2, <1>6, <1>11, <1>12, <1>13 DEF e

(* compress goes up a link.                                                *)
LEMMA LinkTaken ==
  ASSUME NEW F, NEW P, NEW R, Tree(F, P, R), NEW V, Links(F, P, R, V), V # <<>>,
         NEW m, m = V[Len(V)][1], NEW b, b = V[Len(V)][2]
  PROVE  /\ m \in DOMAIN F /\ b \in DOMAIN F[m].kids
         /\ Links(F, P, R, SubSeq(V, 1, Len(V) - 1))
         /\ LeadsTo(F, P, SubSeq(V, 1, Len(V) - 1), m)
         /\ SubSeq(V, 1, Len(V) - 1) = <<>> => m = R
<1>1. PICK l : l = Len(V) - 1
  OBVIOUS
<1>2. V \in Seq((DOMAIN F) \X Bytes) /\ Len(V) \in Nat /\ Len(V) # 0
  BY EmptySeq, LenProperties DEF Links
<1>3. l \in Nat /\ Len(V) = l + 1 /\ l + 1 \in 1 .. Len(V)
  BY <1>1, <1>2
<1>4. PICK W : W = SubSeq(V, 1, Len(V) - 1)
  OBVIOUS
<1>5. W \in Seq((DOMAIN F) \X Bytes) /\ Len(W) = l /\ \A k \in 1 .. l : W[k] = V[k]
  BY <1>1, <1>2, <1>3, <1>4
<1>6. m \in DOMAIN F /\ b \in DOMAIN F[m].kids
  BY <1>3, LinkAt
<1>7. ASSUME NEW k \in 1 .. l
      PROVE  /\ k \in 1 .. Len(V) /\ W[k] = V[k] /\ V[k][2] \in DOMAIN F[V[k][1]].kids
             /\ F[V[k][1]].kids[V[k][2]] = V[k + 1][1]
             /\ \A j \in 1 .. k - 1 : Len(P[V[j][1]]) < Len(P[V[k][1]])
             /\ Len(P[V[k][1]]) < Len(P[m])
  <2>1. k \in 1 .. Len(V) /\ k < Len(V) /\ k \in 1 .. (l + 1) - 1
    BY <1>3
  <2>2. Len(P[V[k][1]]) < Len(P[V[l + 1][1]])
    BY <1>3, <2>1, LinkAt
  <2>3. /\ V[k][2] \in DOMAIN F[V[k][1]].kids
        /\ k < Len(V) => F[V[k][1]].kids[V[k][2]] = V[k + 1][1]
        /\ \A j \in 1 .. k - 1 : Len(P[V[j][1]]) < Len(P[V[k][1]])
    BY <2>1, LinkAt
  <2>4. V[l + 1][1] = m
    BY <1>3
  <2>. QED
    BY <1>5, <2>1, <2>2, <2>3, <2>4
<1>8. Links(F, P, R, W)
  <2>1. ASSUME NEW k \in 1 .. Len(W)
        PROVE  /\ W[k][2] \in DOMAIN F[W[k][1]].kids
               /\ k < Len(W) => F[W[k][1]].kids[W[k][2]] = W[k + 1][1]
               /\ \A j \in 1 .. k - 1 : Len(P[W[j][1]]) < Len(P[W[k][1]])
    <3>1. k \in 1 .. l
      BY <1>5
    <3>2. k < l => W[k + 1] = V[k + 1]
      BY <1>3, <1>5, <3>1
    <3>3. \A j \in 1 .. k - 1 : W[j] = V[j]
      BY <1>3, <1>5, <3>1
    <3>. QED
      BY <1>5, <1>7, <3>1, <3>2, <3>3
  <2>2. W # <<>> => W[1][1] = R
    <3>1. W # <<>> => 1 \in 1 .. l
      BY <1>3, <1>5, EmptySeq
    <3>. QED
      BY <1>5, <3>1 DEF Links
  <2>. QED
    BY <1>5, <2>1, <2>2 DEF Links
<1>9. LeadsTo(F, P, W, m)
  <2>1. ASSUME NEW k \in 1 .. Len(W)
        PROVE  /\ Len(P[W[k][1]]) < Len(P[m])
               /\ k = Len(W) => F[W[k][1]].kids[W[k][2]] = m
    <3>1. k \in 1 .. l
      BY <1>5
    <3>. QED
      BY <1>3, <1>5, <1>7, <3>1
  <2>. QED
    BY <2>1 DEF LeadsTo
<1>10. W = <<>> => m = R
  <2>1. W = <<>> => Len(V) = 1
    BY <1>3, <1>5
  <2>. QED
    BY <2>1 DEF Links
<1>. QED
  BY <1>4, <1>6, <1>8, <1>9, <1>10

(* Changes at m and below it leave the way to m as it was.                 *)
LEMMA LinksKept ==
  ASSUME NEW F, NEW P, NEW R, Tree(F, P, R), NEW V, Links(F, P, R, V),
         NEW m \in DOMAIN F, LeadsTo(F, P, V, m),
         NEW F2, NEW P2, Len(P[m]) <= Len(P2[m]), Len(P2[m]) \in Nat,
         \A x \in DOMAIN F : Len(P[x]) < Len(P[m]) =>
           x \in DOMAIN F2 /\ P2[x] = P[x] /\ F2[x].kids = F[x].kids
  PROVE  Links(F2, P2, R, V) /\ LeadsTo(F2, P2, V, m)
<1>1. ASSUME NEW k \in 1 .. Len(V)
      PROVE  /\ V[k][1] \in DOMAIN F2 /\ P2[V[k][1]] = P[V[k][1]]
             /\ F2[V[k][1]].kids = F[V[k][1]].kids
             /\ Len(P[V[k][1]]) < Len(P2[m])
  <2>1. V[k][1] \in DOMAIN F /\ Len(P[V[k][1]]) < Len(P[m])
    BY LinkAt DEF LeadsTo
  <2>2. Len(P[V[k][1]]) \in Nat /\ Len(P[m]) \in Nat
    BY <2>1, TreeNode
  <2>. QED
    BY <2>1, <2>2
<1>2. V \in Seq((DOMAIN F2) \X Bytes)
  <2>1. V \in Seq((DOMAIN F) \X Bytes) /\ Len(V) \in Nat
    BY LenProperties DEF Links
  <2>2. \A k \in 1 .. Len(V) : V[k] \in (DOMAIN F2) \X Bytes
    BY <1>1, LinkAt
  <2>. QED
    BY <2>1, <2>2, SeqDef
<1>3. \A k \in 1 .. Len(V) : \A j \in 1 .. k - 1 : j \in 1 .. Len(V)
  <2>1. Len(V) \in Nat
    BY <1>2, LenProperties
  <2>. QED
    BY <2>1
<1>4. ASSUME NEW k \in 1 .. Len(V)
      PROVE  /\ V[k][2] \in DOMAIN F2[V[k][1]].kids
             /\ k < Len(V) => F2[V[k][1]].kids[V[k][2]] = V[k + 1][1]
             /\ \A j \in 1 .. k - 1 : Len(P2[V[j][1]]) < Len(P2[V[k][1]])
  <2>1. /\ V[k][2] \in DOMAIN F[V[k][1]].kids
        /\ k < Len(V) => F[V[k][1]].kids[V[k][2]] = V[k + 1][1]
        /\ \A j \in 1 .. k - 1 : Len(P[V[j][1]]) < Len(P[V[k][1]])
    BY LinkAt
  <2>. QED
    BY <1>1, <1>3, <2>1
<1>5. Links(F2, P2, R, V)
  BY <1>2, <1>4 DEF Links
<1>6. LeadsTo(F2, P2, V, m)
  BY <1>1 DEF LeadsTo
<1>. QED
  BY <1>5, <1>6

------------------------------------------------------------------------------
(* How a change of the tree changes the map.                               *)

PutIn(G, k, v) == [x \in DOMAIN G \cup {k} |-> IF x = k THEN v ELSE G[x]]
Less(G, S) == [x \in DOMAIN G \ S |-> G[x]]

(* Each value of F at a key not in S is one of F2 too, at the same key.    *)
Keeps(F, P, S, F2, P2) ==
  \A x \in ValuedIn(F) : P[x] \notin S =>
    \E y \in ValuedIn(F2) : P2[y] = P[x] /\ F2[y].val = F[x].val

(* When nothing but the value at one path changes, the map does there.     *)
LEMMA PutIs ==
  ASSUME NEW F, NEW P, NEW G, HasPairs(G, F, P),
         NEW F2, NEW P2, NEW H, HasPairs(H, F2, P2), NEW k,
         Keeps(F, P, {k}, F2, P2), Keeps(F2, P2, {k}, F, P),
         NEW n \in ValuedIn(F2), P2[n] = k
  PROVE  H = PutIn(G, k, F2[n].val)
<1>1. H = [x \in DOMAIN H |-> H[x]]
  BY DEF HasPairs
<1>2. k \in DOMAIN H /\ H[k] = F2[n].val
  BY DEF HasPairs
<1>3. ASSUME NEW x \in DOMAIN G, x # k PROVE x \in DOMAIN H /\ H[x] = G[x]
  <2>1. PICK y \in ValuedIn(F) : P[y] = x
    BY DEF HasPairs
  <2>2. PICK z \in ValuedIn(F2) : P2[z] = P[y] /\ F2[z].val = F[y].val
    BY <1>3, <2>1 DEF Keeps
  <2>. QED
    BY <2>1, <2>2 DEF HasPairs
<1>4. ASSUME NEW x \in DOMAIN H, x # k PROVE x \in DOMAIN G
  <2>1. PICK y \in ValuedIn(F2) : P2[y] = x
    BY DEF HasPairs
  <2>2. PICK z \in ValuedIn(F) : P[z] = P2[y]
    BY <1>4, <2>1 DEF Keeps
  <2>. QED
    BY <2>1, <2>2 DEF HasPairs
<1>5. DOMAIN H = DOMAIN G \cup {k}
  BY <1>2, <1>3, <1>4
<1>. QED
  BY <1>1, <1>2, <1>3, <1>5 DEF PutIn

(* When nothing but the values at some paths are gone, they are from the   *)
(* map.                                                                    *)
LEMMA LessIs ==
  ASSUME NEW F, NEW P, NEW G, HasPairs(G, F, P),
         NEW F2, NEW P2, NEW H, HasPairs(H, F2, P2), NEW S,
         Keeps(F, P, S, F2, P2), Keeps(F2, P2, {}, F, P),
         \A y \in ValuedIn(F2) : P2[y] \notin S
  PROVE  H = Less(G, S)
<1>1. H = [x \in DOMAIN H |-> H[x]]
  BY DEF HasPairs
<1>2. ASSUME NEW x \in DOMAIN G, x \notin S PROVE x \in DOMAIN H /\ H[x] = G[x]
  <2>1. PICK y \in ValuedIn(F) : P[y] = x
    BY DEF HasPairs
  <2>2. PICK z \in ValuedIn(F2) : P2[z] = P[y] /\ F2[z].val = F[y].val
    BY <1>2, <2>1 DEF Keeps
  <2>. QED
    BY <2>1, <2>2 DEF HasPairs
<1>3. ASSUME NEW x \in DOMAIN H PROVE x \in DOMAIN G /\ x \notin S
  <2>1. PICK y \in ValuedIn(F2) : P2[y] = x
    BY DEF HasPairs
  <2>2. PICK z \in ValuedIn(F) : P[z] = P2[y]
    BY <2>1 DEF Keeps
  <2>. QED
    BY <2>1, <2>2 DEF HasPairs
<1>4. DOMAIN H = DOMAIN G \ S
  BY <1>2, <1>3
<1>. QED
  BY <1>1, <1>2, <1>4 DEF Less

LEMMA NothingLess ==
  ASSUME NEW F, NEW P, NEW G, HasPairs(G, F, P), NEW S,
         \A x \in ValuedIn(F) : P[x] \notin S
  PROVE  Less(G, S) = G
<1>1. Keeps(F, P, S, F, P) /\ Keeps(F, P, {}, F, P)
  BY DEF Keeps
<1>. QED
  BY <1>1, LessIs

LEMMA SameMapIs ==
  ASSUME NEW F, NEW P, NEW G, HasPairs(G, F, P),
         NEW F2, NEW P2, NEW H, HasPairs(H, F2, P2),
         Keeps(F, P, {}, F2, P2), Keeps(F2, P2, {}, F, P)
  PROVE  H = G
<1>1. H = Less(G, {})
  BY LessIs
<1>2. Less(G, {}) = G
  BY NothingLess
<1>. QED
  BY <1>1, <1>2

------------------------------------------------------------------------------
(* The steps of the map.                                                   *)

(* The keys of the map are the paths of the nodes with a value.            *)
LEMMA KeysAre ==
  ASSUME Tree(forest, path, root)
  PROVE  /\ \A n \in Valued : n \in nodes /\ path[n] \in DOMAIN contents
                              /\ contents[path[n]] = forest[n].val
         /\ \A k \in DOMAIN contents : \E n \in Valued : path[n] = k
         /\ DOMAIN contents \subseteq Texts
<1>1. Valued = ValuedIn(forest)
  BY DEF Valued, ValuedIn, Bare, nodes
<1>2. HasPairs(contents, forest, path)
  BY ContentsIs
<1>3. \A n \in Valued : n \in nodes /\ path[n] \in Texts
  BY TreeNode DEF Valued, nodes
<1>. QED
  BY <1>1, <1>2, <1>3 DEF HasPairs

LEMMA SameTree ==
  ASSUME UNCHANGED <<forest, path>>
  PROVE  contents' = contents /\ nodes' = nodes /\ Valued' = Valued
BY DEF contents, Valued, Bare, nodes

LEMMA NoneLeft == todo = {} => unvisited = {}
BY DEF unvisited

LEMMA NoneLeftNext == todo' = {} => unvisited' = {}
BY DEF unvisited

LEMMA ValueIs ==
  ASSUME NEW k
  PROVE  Map!Value(k) = IF k \in DOMAIN contents THEN contents[k] ELSE None
BY DEF Map!Value

(* A step that the map does not see.                                       *)
LEMMA Unseen ==
  ASSUME Tree(forest, path, root), Tree(forest', path', root'),
         Keeps(forest, path, {}, forest', path'), Keeps(forest', path', {}, forest, path),
         call' = call, ret' = ret, todo = {}, todo' = {}
  PROVE  UNCHANGED <<contents, call, unvisited, ret>>
BY ContentsIs, ContentsIsNext, SameMapIs, NoneLeft, NoneLeftNext

LEMMA MapPut ==
  ASSUME Tree(forest, path, root), Tree(forest', path', root'), NEW k,
         Keeps(forest, path, {k}, forest', path'), Keeps(forest', path', {k}, forest, path),
         NEW n \in ValuedIn(forest'), path'[n] = k, NEW v, v = forest'[n].val
  PROVE  contents' = Map!Put(k, v)
<1>1. contents' = PutIn(contents, k, v)
  BY ContentsIs, ContentsIsNext, PutIs
<1>. QED
  BY <1>1 DEF PutIn, Map!Put

LEMMA MapLess ==
  ASSUME Tree(forest, path, root), Tree(forest', path', root'), NEW S,
         Keeps(forest, path, S, forest', path'), Keeps(forest', path', {}, forest, path),
         \A y \in ValuedIn(forest') : path'[y] \notin S
  PROVE  contents' = Map!Without(S)
<1>1. contents' = Less(contents, S)
  BY ContentsIs, ContentsIsNext, LessIs
<1>. QED
  BY <1>1 DEF Less, Map!Without

LEMMA MapSame ==
  ASSUME Tree(forest, path, root), NEW S, \A k \in DOMAIN contents : k \notin S
  PROVE  Map!Without(S) = contents
<1>1. HasPairs(contents, forest, path)
  BY ContentsIs
<1>2. \A x \in ValuedIn(forest) : path[x] \notin S
  BY <1>1 DEF HasPairs
<1>3. Less(contents, S) = contents
  BY <1>1, <1>2, NothingLess
<1>. QED
  BY <1>3 DEF Less, Map!Without

(* The keys that for_each_prefix and remove_prefix are about.              *)
LEMMA ExtensionsAre ==
  ASSUME Tree(forest, path, root), NEW p \in Texts
  PROVE  Map!Extensions(p) = {k \in DOMAIN contents : Pre(p, k)}
<1>1. \A k \in DOMAIN contents : Map!Seqs!IsPrefix(p, k) <=> Pre(p, k)
  <2>1. DOMAIN contents \subseteq Texts
    BY KeysAre
  <2>2. ASSUME NEW k \in DOMAIN contents PROVE Map!Seqs!IsPrefix(p, k) <=> Seqs!IsPrefix(p, k)
    BY DEF Map!Seqs!IsPrefix, Seqs!IsPrefix
  <2>. QED
    BY <2>1, <2>2, PreIs
<1>. QED
  BY <1>1 DEF Map!Extensions

(* A call that finds nothing and changes nothing.                          *)
LEMMA FindsNothing ==
  ASSUME Tree(forest, path, root), call \in Calls, todo = {}, ret = None,
         call.op # "insert", call.key \in Texts,
         call.op \in {"get", "get_mut", "remove"} => call.key \notin DOMAIN contents,
         call.op \in {"for_each", "remove_prefix"} =>
           \A k \in DOMAIN contents : ~Pre(call.key, k),
         Leave(None)
  PROVE  Map!Next
<1>1. /\ call' = NoCall /\ todo' = {} /\ ret' = None
      /\ contents' = contents /\ unvisited' = unvisited /\ Map!NoCall = NoCall
  BY SameTree, NoneLeft, NoneLeftNext DEF Leave, Finish, Map!NoCall, NoCall
<1>2. call.op \in {"get", "get_mut", "remove", "for_each", "remove_prefix"}
  BY DEF Calls
<1>3. CASE call.op = "get"
  <2>1. Map!Value(call.key) = None
    BY <1>3, ValueIs
  <2>. QED
    BY <1>1, <1>3, <2>1 DEF Map!Next, Map!Get, Map!Returns
<1>4. CASE call.op = "get_mut"
  <2>1. Map!Value(call.key) = None
    BY <1>4, ValueIs
  <2>. QED
    BY <1>1, <1>4, <2>1 DEF Map!Next, Map!GetMut, Map!Returns
<1>5. CASE call.op = "remove"
  <2>1. Map!Value(call.key) = None
    BY <1>5, ValueIs
  <2>2. Map!Without({call.key}) = contents
    BY <1>5, MapSame
  <2>. QED
    BY <1>1, <1>5, <2>1, <2>2 DEF Map!Next, Map!Remove, Map!Returns
<1>6. ASSUME call.op \in {"for_each", "remove_prefix"} PROVE Map!Extensions(call.key) = {}
  BY <1>6, ExtensionsAre
<1>7. CASE call.op = "for_each"
  BY <1>1, <1>6, <1>7 DEF Map!Next, Map!FindNothing, Map!Returns
<1>8. CASE call.op = "remove_prefix"
  <2>1. Map!Without({}) = contents
    BY MapSame
  <2>. QED
    BY <1>1, <1>6, <1>8, <2>1 DEF Map!Next, Map!RemovePrefix, Map!Returns
<1>. QED
  BY <1>2, <1>3, <1>4, <1>5, <1>7, <1>8

------------------------------------------------------------------------------
(* A call in progress.                                                     *)

LEMMA CallIs ==
  ASSUME call \in Calls
  PROVE  /\ call.key \in Texts
         /\ call.op \in {"insert", "get", "get_mut", "remove", "for_each", "remove_prefix"}
         /\ call.op \in {"insert", "get_mut"} => call.val \in Values
         /\ Map!NoCall = NoCall /\ call # NoCall
<1>1. Keys \subseteq Texts /\ Prefixes \subseteq Texts
  BY TextsAssumption DEF Texts
<1>2. call.op # "none"
  BY DEF Calls
<1>3. call # NoCall /\ Map!NoCall = NoCall
  BY <1>2 DEF NoCall, Map!NoCall
<1>. QED
  BY <1>1, <1>3 DEF Calls

InWalk == (step = "walk" /\ root # None) \/ step = "split"

(* What is known in an iteration of a loop that walks down:                *)
LEMMA InWalkIs ==
  ASSUME IInv, InWalk
  PROVE  /\ Tree(forest, path, root) /\ call \in Calls /\ call.key \in Texts /\ ret = None
         /\ Reached(forest, path, root, cur, call.key, rest)
         /\ cur \in nodes /\ cur \in DOMAIN forest /\ path[cur] \in Texts
         /\ root # None /\ todo = {} /\ call # NoCall
<1>1. call \in Calls /\ ret = None /\ root # None /\ todo = {}
  BY DEF IInv, InCall, InWalk, OnTheWay
<1>2. Tree(forest, path, root) /\ Reached(forest, path, root, cur, call.key, rest)
  BY DEF IInv, Nodes, OnTheWay, InWalk
<1>3. cur \in nodes /\ cur \in DOMAIN forest
  BY <1>2 DEF Reached, nodes
<1>. QED
  BY <1>1, <1>2, <1>3, CallIs, TreeNode

(* What the walk knows at cur, in the words of the operations.             *)
LEMMA AtCur ==
  ASSUME IInv, InWalk, NEW a, a = Begin(forest, path, cur)
  PROVE  /\ WalkAt(forest, path, cur, call.key, a, common)
         /\ a \in Nat /\ common \in Nat /\ Len(path[cur]) \in Nat /\ Len(call.key) \in Nat
         /\ a + common <= Len(path[cur]) /\ a + common <= Len(call.key)
         /\ rest \in Texts /\ text \in Texts /\ below \in Texts
         /\ Len(text) = Len(path[cur]) - a /\ Len(rest) = Len(call.key) - a
         /\ below = Drop(call.key, a + common)
         /\ Len(below) = Len(call.key) - (a + common)
         /\ a + common < Len(call.key) => below[1] = call.key[a + common + 1]
         /\ cur # root => 0 < common
<1>1. PICK c : c = Common(forest[cur].prefix, rest)
  OBVIOUS
<1>2. common = c /\ below = Drop(rest, c) /\ text = forest[cur].prefix
  BY <1>1 DEF common, below, text
<1>3. PICK key \in Texts : key = call.key
  BY InWalkIs
<1>4. Tree(forest, path, root) /\ Reached(forest, path, root, cur, key, rest)
      /\ cur \in DOMAIN forest
  BY <1>3, InWalkIs
<1>5. /\ WalkAt(forest, path, cur, key, a, c)
      /\ rest \in Texts /\ Len(rest) = Len(key) - a
      /\ Drop(rest, c) = Drop(key, a + c) /\ Drop(rest, c) \in Texts
      /\ Len(Drop(rest, c)) = Len(key) - (a + c)
      /\ a + c < Len(key) => Drop(rest, c)[1] = key[a + c + 1]
      /\ cur # root => 0 < c
  <2>1. PICK s : s = rest
    OBVIOUS
  <2>2. Reached(forest, path, root, cur, key, s) /\ c = Common(forest[cur].prefix, s)
    BY <1>1, <1>4, <2>1
  <2>3. /\ WalkAt(forest, path, cur, key, a, c)
        /\ s \in Texts /\ Len(s) = Len(key) - a
        /\ Drop(s, c) = Drop(key, a + c) /\ Drop(s, c) \in Texts
        /\ Len(Drop(s, c)) = Len(key) - (a + c)
        /\ a + c < Len(key) => Drop(s, c)[1] = key[a + c + 1]
        /\ cur # root => 0 < c
    <3>1. WalkHas(forest, path, root, cur, key, s, a, c)
      BY <1>4, <2>2, WalkIs
    <3>. QED
      BY <3>1, Zenon DEF WalkHas
  <2>. QED
    BY <2>1, <2>3, Zenon
<1>6. text \in Texts
  BY <1>2, <1>4, TreeNode
<1>7. /\ a \in Nat /\ c \in Nat /\ Len(path[cur]) \in Nat /\ Len(key) \in Nat
      /\ a + c <= Len(path[cur]) /\ a + c <= Len(key)
      /\ Len(forest[cur].prefix) = Len(path[cur]) - a
  BY <1>5 DEF WalkAt
<1>. QED
  BY <1>2, <1>3, <1>5, <1>6, <1>7, Zenon

(* when the prefix of cur is all common with the key, the key is its path  *)
(* or goes on from it;                                                     *)
LEMMA WholeHere ==
  ASSUME IInv, InWalk, Whole
  PROVE  /\ Pre(path[cur], call.key)
         /\ Begin(forest, path, cur) + common = Len(path[cur])
         /\ Len(path[cur]) <= Len(call.key)
         /\ Ends => path[cur] = call.key
         /\ ~Ends => /\ Len(path[cur]) < Len(call.key) /\ below # <<>>
                     /\ below = Drop(call.key, Len(path[cur])) /\ below \in Texts
                     /\ call.key = path[cur] \o below
                     /\ below[1] = call.key[Len(path[cur]) + 1]
<1>1. PICK a : a = Begin(forest, path, cur)
  OBVIOUS
<1>2. /\ WalkAt(forest, path, cur, call.key, a, common)
      /\ a \in Nat /\ common \in Nat /\ Len(path[cur]) \in Nat /\ Len(call.key) \in Nat
      /\ a + common <= Len(path[cur]) /\ a + common <= Len(call.key)
      /\ rest \in Texts /\ text \in Texts /\ below \in Texts
      /\ Len(text) = Len(path[cur]) - a /\ Len(rest) = Len(call.key) - a
      /\ below = Drop(call.key, a + common)
      /\ Len(below) = Len(call.key) - (a + common)
      /\ a + common < Len(call.key) => below[1] = call.key[a + common + 1]
  BY <1>1, AtCur
<1>3. path[cur] \in Texts /\ call.key \in Texts
  BY InWalkIs
<1>4. common = Len(text) /\ common = Len(forest[cur].prefix)
  BY DEF Whole, text
<1>5. a + common = Len(path[cur]) /\ Pre(path[cur], call.key)
  BY <1>2, <1>3, <1>4, WholeIs
<1>6. ASSUME Ends PROVE path[cur] = call.key
  <2>1. Len(call.key) <= Len(path[cur])
    BY <1>2, <1>5, <1>6 DEF Ends
  <2>. QED
    BY <1>3, <1>5, <2>1, SameText
<1>7. ASSUME ~Ends
      PROVE  /\ Len(path[cur]) < Len(call.key) /\ below # <<>>
             /\ below = Drop(call.key, Len(path[cur]))
             /\ call.key = path[cur] \o below
             /\ below[1] = call.key[Len(path[cur]) + 1]
  <2>1. common # Len(call.key) - a
    BY <1>2, <1>7 DEF Ends
  <2>2. a + common < Len(call.key)
    BY <1>2, <2>1
  <2>3. below # <<>>
    BY <1>2, <2>2, TextIs
  <2>4. call.key = path[cur] \o Drop(call.key, Len(path[cur]))
    BY <1>3, <1>5, RestIs
  <2>. QED
    BY <1>2, <1>5, <2>2, <2>3, <2>4
<1>. QED
  BY <1>1, <1>2, <1>5, <1>6, <1>7

(* when the key ends, it is the beginning of the path;                     *)
LEMMA EndsHere ==
  ASSUME IInv, InWalk, Ends
  PROVE  Pre(call.key, path[cur])
<1>1. PICK a : a = Begin(forest, path, cur)
  OBVIOUS
<1>2. WalkAt(forest, path, cur, call.key, a, common) /\ Len(rest) = Len(call.key) - a
  BY <1>1, AtCur
<1>3. common = Len(call.key) - a
  BY <1>2 DEF Ends
<1>. QED
  BY <1>2, <1>3, EndsIs, InWalkIs

(* The ways a walk can fail.                                               *)
LEMMA NotThere ==
  ASSUME IInv, InWalk, ~Ends, Whole => Missing
  PROVE  \A x \in nodes : ~Pre(call.key, path[x])
<1> SUFFICES ASSUME NEW x \in nodes, Pre(call.key, path[x]) PROVE FALSE
  OBVIOUS
<1>1. PICK c : c = Common(forest[cur].prefix, rest)
  OBVIOUS
<1>2. c # Len(rest) /\ (c = Len(forest[cur].prefix) => Drop(rest, c)[1] \notin DOMAIN forest[cur].kids)
  BY <1>1 DEF Ends, Whole, Missing, common, below, text, Branches
<1>3. /\ Tree(forest, path, root) /\ Reached(forest, path, root, cur, call.key, rest)
      /\ call.key \in Texts /\ x \in DOMAIN forest
  BY InWalkIs DEF nodes
<1>. QED
  BY <1>1, <1>2, <1>3, NothingThere

(* and when it ends within the prefix, it is no path.                      *)
LEMMA NotHere ==
  ASSUME IInv, InWalk, Ends, ~Whole
  PROVE  \A x \in nodes : path[x] # call.key
<1> SUFFICES ASSUME NEW x \in nodes, path[x] = call.key PROVE FALSE
  OBVIOUS
<1>1. /\ Tree(forest, path, root) /\ Reached(forest, path, root, cur, call.key, rest)
      /\ call.key \in Texts /\ x \in DOMAIN forest /\ path[cur] \in Texts
  BY InWalkIs DEF nodes
<1>2. Pre(call.key, path[x])
  BY <1>1, PreRefl
<1>3. Pre(path[cur], call.key)
  BY <1>1, <1>2, OnlyWay
<1>4. PICK a : a = Begin(forest, path, cur)
  OBVIOUS
<1>5. /\ a \in Nat /\ common \in Nat /\ Len(path[cur]) \in Nat /\ Len(call.key) \in Nat
      /\ a + common <= Len(path[cur])
      /\ Len(text) = Len(path[cur]) - a /\ Len(rest) = Len(call.key) - a
  BY <1>4, AtCur
<1>6. common = Len(rest) /\ common # Len(text)
  BY DEF Ends, Whole
<1>7. Len(call.key) < Len(path[cur])
  BY <1>5, <1>6
<1>. QED
  BY <1>3, <1>5, <1>7 DEF Pre

------------------------------------------------------------------------------
(* A call that ends.                                                       *)
LEMMA FinishInv ==
  ASSUME NEW r, Finish(r), Nodes'
  PROVE  IInv'
<1>1. /\ call' = NoCall /\ step' = "idle" /\ cur' = None /\ visited' = <<>> /\ todo' = {}
      /\ tidy' = TRUE
  BY DEF Finish
<1>2. InCall' /\ OnTheWay' /\ Visits' /\ Tidy'
  BY <1>1 DEF InCall, OnTheWay, Visits, Tidy
<1>3. Chain'
  BY <1>1, NoLinks DEF Chain
<1>. QED
  BY <1>1, <1>2, <1>3 DEF IInv

(* Between calls nothing is known but the tree.                            *)
LEMMA LeaveInv ==
  ASSUME NEW r, Leave(r), Nodes, r \in Values \cup {None} \cup (Texts \X Values)
  PROVE  IInv'
<1>1. Finish(r) /\ UNCHANGED <<forest, root, path>>
  BY DEF Leave
<1>2. Nodes'
  BY <1>1 DEF Finish, Nodes, nodes, Bare
<1>. QED
  BY <1>1, <1>2, FinishInv

(* The step that a call takes, and what the map sees of it.                *)
MapStep == [Map!Next]_<<contents, call, unvisited, ret>>

LEMMA InitInv == TrieInit => IInv
<1> SUFFICES ASSUME TrieInit PROVE IInv
  OBVIOUS
<1>1. /\ forest = <<>> /\ root = None /\ path = <<>> /\ call = NoCall /\ step = "idle"
      /\ cur = None /\ visited = <<>> /\ todo = {} /\ ret = None
  BY DEF TrieInit
<1>2. nodes = {}
  BY <1>1 DEF nodes
<1>3. Nodes
  BY <1>1, <1>2, EmptyTree DEF Nodes
<1>4. InCall /\ OnTheWay /\ Visits /\ Tidy
  BY <1>1, <1>2 DEF InCall, OnTheWay, Visits, Tidy
<1>5. Chain
  BY <1>1, NoLinks DEF Chain
<1>. QED
  BY <1>3, <1>4, <1>5 DEF IInv

LEMMA StartStep ==
  ASSUME IInv, Start
  PROVE  IInv' /\ MapStep
<1>1. /\ step = "idle" /\ call' \in Calls /\ step' = "walk" /\ cur' = root
      /\ rest' = call'.key /\ ret' = None /\ tidy' = Compressed
      /\ UNCHANGED <<forest, root, visited, todo, path>>
  BY DEF Start
<1>2. Tree(forest, path, root) /\ visited = <<>> /\ todo = {} /\ call = NoCall
  BY <1>1 DEF IInv, Nodes, InCall
<1>3. Nodes'
  BY <1>1 DEF IInv, Nodes, nodes, Bare
<1>4. InCall'
  BY <1>1, <1>2 DEF InCall, nodes
<1>5. OnTheWay'
  <2>1. ASSUME root # None PROVE Reached(forest, path, root, root, call'.key, call'.key)
    <3>1. root \in DOMAIN forest
      BY <1>2, <2>1 DEF Tree, Rooted
    <3>2. call'.key \in Texts
      BY <1>1, TextsAssumption DEF Calls, Texts
    <3>3. Begin(forest, path, root) = 0 /\ 0 <= Len(call'.key) /\ 0 \in 0 .. Len(call'.key)
      BY <1>2, <3>1, <3>2, PrefixIs, TextIs
    <3>4. Drop(call'.key, 0) = call'.key
      BY <3>2, <3>3, DropIs, Zenon
    <3>. QED
      BY <3>1, <3>3, <3>4 DEF Reached
  <2>. QED
    BY <1>1, <2>1 DEF OnTheWay
<1>6. Chain' /\ Visits' /\ Tidy'
  <2>1. Chain'
    BY <1>1, <1>2, NoLinks DEF Chain
  <2>2. Compressed' = Compressed
    BY <1>1 DEF Compressed, Useful, Bare, Branches, nodes
  <2>. QED
    BY <1>1, <1>2, <2>1, <2>2 DEF Visits, Tidy
<1>7. MapStep
  <2>1. contents' = contents /\ unvisited' = {} /\ unvisited = {}
    BY <1>1, <1>2, SameTree, NoneLeft, NoneLeftNext
  <2>2. Map!Call
    BY <1>1, <1>2, <2>1 DEF Map!Call, Map!NoCall, NoCall
  <2>. QED
    BY <2>2 DEF MapStep, Map!Next
<1>. QED
  BY <1>3, <1>4, <1>5, <1>6, <1>7 DEF IInv

------------------------------------------------------------------------------
(* Calls that change nothing.                                              *)

LEMMA NoRoot ==
  ASSUME Tree(forest, path, root), root = None
  PROVE  nodes = {} /\ DOMAIN contents = {}
<1>1. nodes = {}
  BY DEF Tree, Rooted, nodes
<1>2. Valued = {}
  BY <1>1 DEF Valued
<1>. QED
  BY <1>1, <1>2, KeysAre

LEMMA RefuseStep ==
  ASSUME IInv, Refuse
  PROVE  IInv' /\ MapStep
<1>1. step = "walk" /\ Refused /\ Leave(None)
  BY DEF Refuse
<1>2. Nodes /\ Tree(forest, path, root) /\ call \in Calls /\ ret = None /\ todo = {}
  BY <1>1 DEF IInv, Nodes, InCall
<1>3. IInv'
  BY <1>1, <1>2, LeaveInv
<1>4. call.key \in Texts
  BY <1>2, CallIs
<1>5. CASE call.op = "insert"
  <2>1. call.key = <<>>
    BY <1>1, <1>5 DEF Refused
  <2>2. /\ call' = NoCall /\ ret' = None /\ contents' = contents /\ unvisited' = unvisited
        /\ Map!NoCall = NoCall
    BY <1>1, <1>2, SameTree, NoneLeft, NoneLeftNext DEF Leave, Finish, Map!NoCall, NoCall
  <2>. QED
    BY <1>2, <1>3, <1>5, <2>1, <2>2 DEF MapStep, Map!Next, Map!Insert, Map!Returns
<1>6. CASE call.op # "insert"
  <2>1. ASSUME root # None
        PROVE  OnKeys /\ call.key \notin DOMAIN contents
    <3>1. OnKeys /\ call.key = <<>>
      BY <1>1, <2>1 DEF Refused
    <3>2. \A n \in Valued : path[n] # <<>>
      BY DEF IInv, Nodes, Valued
    <3>3. \A k \in DOMAIN contents : \E n \in Valued : path[n] = k
      BY <1>2, KeysAre
    <3>. QED
      BY <3>1, <3>2, <3>3
  <2>2. ASSUME root = None PROVE DOMAIN contents = {}
    BY <1>2, <2>2, NoRoot
  <2>3. OnKeys => ~(call.op \in {"for_each", "remove_prefix"})
    BY DEF OnKeys
  <2>4. call.op \in {"get", "get_mut", "remove"} => call.key \notin DOMAIN contents
    BY <2>1, <2>2
  <2>5. call.op \in {"for_each", "remove_prefix"} =>
          \A k \in DOMAIN contents : ~Pre(call.key, k)
    BY <2>1, <2>2, <2>3
  <2>6. Map!Next
    BY <1>1, <1>2, <1>4, <1>6, <2>4, <2>5, FindsNothing
  <2>. QED
    BY <1>3, <2>6 DEF MapStep
<1>. QED
  BY <1>5, <1>6

LEMMA MissStep ==
  ASSUME IInv, Miss
  PROVE  IInv' /\ MapStep
<1>1. /\ InWalk /\ call.op # "insert" /\ Leave(None)
      /\ IF Ends THEN OnKeys /\ ~Whole ELSE Whole => Missing
  BY DEF Miss, Walking, InWalk
<1>2. /\ Nodes /\ Tree(forest, path, root) /\ call \in Calls /\ ret = None /\ todo = {}
      /\ call.key \in Texts
  BY <1>1, InWalkIs DEF IInv
<1>3. IInv'
  BY <1>1, <1>2, LeaveInv
<1>4. \A k \in DOMAIN contents : \E n \in nodes : path[n] = k
  BY <1>2, KeysAre
<1>5. CASE Ends
  <2>1. call.key \notin DOMAIN contents
    BY <1>1, <1>4, <1>5, NotHere
  <2>2. ~(call.op \in {"for_each", "remove_prefix"})
    BY <1>1, <1>5 DEF OnKeys
  <2>3. Map!Next
    BY <1>1, <1>2, <2>1, <2>2, FindsNothing
  <2>. QED
    BY <1>3, <2>3 DEF MapStep
<1>6. CASE ~Ends
  <2>1. \A x \in nodes : ~Pre(call.key, path[x])
    BY <1>1, <1>6, NotThere
  <2>2. \A k \in DOMAIN contents : ~Pre(call.key, k)
    BY <1>4, <2>1
  <2>3. call.key \notin DOMAIN contents
    BY <1>2, <2>2, PreRefl
  <2>4. Map!Next
    BY <1>1, <1>2, <2>2, <2>3, FindsNothing
  <2>. QED
    BY <1>3, <2>4 DEF MapStep
<1>. QED
  BY <1>5, <1>6

(* The node at which the key ends.                                         *)
LEMMA ValueHere ==
  ASSUME IInv, InWalk, Whole, Ends
  PROVE  /\ path[cur] = call.key /\ Map!Value(call.key) = forest[cur].val
         /\ call.key \in DOMAIN contents <=> ~Bare(cur)
         /\ forest[cur].val \in Values \cup {None}
         /\ \A x \in nodes : path[x] = call.key => x = cur
<1>1. /\ Tree(forest, path, root) /\ cur \in nodes /\ cur \in DOMAIN forest
      /\ path[cur] = call.key /\ path[cur] \in Texts
  BY InWalkIs, WholeHere
<1>2. ASSUME NEW x \in nodes, path[x] = call.key PROVE x = cur
  <2>1. Pre(path[cur], path[x]) /\ Len(path[x]) <= Len(path[cur]) /\ x \in DOMAIN forest
    BY <1>1, <1>2, PreRefl, TextIs DEF nodes
  <2>. QED
    BY <1>1, <2>1, Distinct
<1>3. ~Bare(cur) => call.key \in DOMAIN contents /\ contents[call.key] = forest[cur].val
  BY <1>1, KeysAre DEF Valued
<1>4. call.key \in DOMAIN contents => ~Bare(cur)
  <2>1. call.key \in DOMAIN contents => \E n \in Valued : path[n] = call.key
    BY <1>1, KeysAre
  <2>. QED
    BY <1>2, <2>1 DEF Valued
<1>5. Map!Value(call.key) = forest[cur].val
  BY <1>3, <1>4, ValueIs DEF Bare
<1>6. forest[cur].val \in Values \cup {None}
  BY <1>1, TreeNode
<1>. QED
  BY <1>1, <1>2, <1>3, <1>4, <1>5, <1>6

LEMMA AnswerStep ==
  ASSUME IInv, Answer
  PROVE  IInv' /\ MapStep
<1>1. /\ InWalk /\ Whole /\ Ends /\ Leave(forest[cur].val)
      /\ call.op = "get" \/ (call.op = "remove" /\ Bare(cur))
  BY DEF Answer, Walking, InWalk
<1>2. Nodes /\ Tree(forest, path, root) /\ todo = {}
  BY <1>1, InWalkIs DEF IInv
<1>3. /\ Map!Value(call.key) = forest[cur].val /\ forest[cur].val \in Values \cup {None}
      /\ call.key \in DOMAIN contents <=> ~Bare(cur)
  BY <1>1, ValueHere
<1>4. IInv'
  BY <1>1, <1>2, <1>3, LeaveInv
<1>5. /\ call' = NoCall /\ ret' = forest[cur].val /\ contents' = contents
      /\ unvisited' = unvisited /\ Map!NoCall = NoCall
  BY <1>1, <1>2, SameTree, NoneLeft, NoneLeftNext DEF Leave, Finish, Map!NoCall, NoCall
<1>6. CASE call.op = "get"
  BY <1>3, <1>4, <1>5, <1>6 DEF MapStep, Map!Next, Map!Get, Map!Returns
<1>7. CASE call.op = "remove" /\ Bare(cur)
  <2>1. Map!Without({call.key}) = contents
    BY <1>2, <1>3, <1>7, MapSame
  <2>. QED
    BY <1>3, <1>4, <1>5, <1>7, <2>1 DEF MapStep, Map!Next, Map!Remove, Map!Returns
<1>. QED
  BY <1>1, <1>6, <1>7

------------------------------------------------------------------------------
(* The walk goes on at a child.                                            *)
LEMMA DescendStep ==
  ASSUME IInv, Descend
  PROVE  IInv' /\ MapStep
<1>1. PICK b : b = below[1]
  OBVIOUS
<1>2. PICK c : c = forest[cur].kids[b]
  OBVIOUS
<1>3. /\ Walking /\ InWalk /\ step = "walk" /\ Whole /\ ~Ends /\ b \in DOMAIN forest[cur].kids
      /\ cur' = c /\ rest' = below
      /\ visited' = IF call.op \in Removals THEN Append(visited, <<cur, b>>) ELSE visited
      /\ UNCHANGED <<forest, root, call, step, todo, ret, path, tidy>>
  BY <1>1, <1>2 DEF Descend, Walking, InWalk, Missing, Branches, Removals
<1>4. /\ Nodes /\ Tree(forest, path, root) /\ cur \in DOMAIN forest /\ call.key \in Texts
      /\ path[cur] \in Texts /\ root # None /\ todo = {} /\ call \in Calls
  BY <1>3, InWalkIs DEF IInv
<1>5. /\ Pre(path[cur], call.key) /\ Len(path[cur]) < Len(call.key)
      /\ below = Drop(call.key, Len(path[cur])) /\ b = call.key[Len(path[cur]) + 1]
  BY <1>1, <1>3, WholeHere
<1>6. /\ c \in DOMAIN forest /\ c # root /\ Pre(path[cur], path[c])
      /\ path[c][Len(path[cur]) + 1] = b
  BY <1>2, <1>3, <1>4, TreeKid
<1>7. Len(path[cur]) = Begin(forest, path, c)
  BY <1>2, <1>3, <1>4, <1>6, PrefixIs
<1>8. Reached(forest, path, root, c, call.key, below)
  <2>1. \A k \in 1 .. Len(path[cur]) : path[c][k] = call.key[k]
    BY <1>5, <1>6 DEF Pre
  <2>2. Len(path[cur]) <= Len(call.key)
    BY <1>5 DEF Pre
  <2>. QED
    BY <1>5, <1>6, <1>7, <2>1, <2>2 DEF Reached
<1>9. Nodes'
  BY <1>3, <1>4 DEF Nodes, nodes, Bare
<1>10. OnTheWay'
  BY <1>3, <1>8 DEF OnTheWay
<1>11. InCall'
  BY <1>3, <1>4 DEF IInv, InCall
<1>12. Chain'
  <2>1. CASE call.op \in Removals
    <3>1. /\ Links(forest, path, root, visited) /\ LeadsTo(forest, path, visited, cur)
          /\ visited = <<>> => cur = root
      BY <1>3, <2>1 DEF IInv, Chain
    <3>2. /\ Links(forest, path, root, visited') /\ LeadsTo(forest, path, visited', c)
          /\ visited' # <<>>
      BY <1>2, <1>3, <1>4, <2>1, <3>1, LinkAdded
    <3>. QED
      BY <1>3, <3>2 DEF Chain
  <2>2. CASE call.op \notin Removals
    <3>1. visited = <<>> /\ visited' = <<>>
      BY <1>3, <2>2 DEF IInv, InCall
    <3>. QED
      BY <1>3, <2>2, <3>1, NoLinks DEF Chain
  <2>. QED
    BY <2>1, <2>2
<1>13. Visits'
  BY <1>3, <1>4 DEF Visits
<1>14. Tidy'
  <2>1. Compressed' = Compressed
    BY <1>3 DEF Compressed, Useful, Bare, Branches, nodes
  <2>. QED
    BY <1>3, <2>1 DEF IInv, Tidy
<1>15. MapStep
  BY <1>3, <1>4, SameTree, NoneLeft, NoneLeftNext DEF MapStep
<1>. QED
  BY <1>9, <1>10, <1>11, <1>12, <1>13, <1>14, <1>15 DEF IInv

------------------------------------------------------------------------------
(* The value of the key changes where the key ends.                        *)
LEMMA SetHere ==
  ASSUME IInv, InWalk, Whole, Ends, call.key # <<>>, NEW v \in Values,
         forest' = [forest EXCEPT ![cur].val = v], UNCHANGED <<root, path>>,
         ret' \in Values \cup {None}
  PROVE  /\ Nodes' /\ contents' = Map!Put(call.key, v)
         /\ nodes' = nodes /\ forest'[cur].val = v /\ v # None
         /\ \A x \in nodes : x # cur => forest'[x] = forest[x]
         /\ \A x \in nodes : forest'[x].kids = forest[x].kids
<1>1. /\ Nodes /\ Tree(forest, path, root) /\ cur \in DOMAIN forest /\ path[cur] = call.key
      /\ \A x \in nodes : path[x] = call.key => x = cur
  BY InWalkIs, ValueHere DEF IInv
<1>2. v # None /\ v \in Values \cup {None}
  BY NoneAssumption
<1>3. PICK F2 : F2 = forest'
  OBVIOUS
<1>4. /\ Tree(F2, path, root) /\ DOMAIN F2 = DOMAIN forest /\ F2[cur].val = v
      /\ \A x \in DOMAIN forest : x # cur => F2[x] = forest[x]
      /\ \A x \in DOMAIN forest : F2[x].kids = forest[x].kids
  <2>1. RevaluedOf(forest, cur, v, F2)
    BY <1>3 DEF RevaluedOf
  <2>. QED
    BY <1>1, <1>2, <2>1, RevaluedTree
<1>5. nodes' = nodes /\ nodes = DOMAIN forest
  BY <1>3, <1>4 DEF nodes
<1>6. Tree(forest', path', root')
  BY <1>3, <1>4
<1>7. Nodes'
  <2>1. \A n \in nodes : F2[n].val # None => path[n] # <<>>
    BY <1>1, <1>4, <1>5 DEF Nodes, Bare
  <2>. QED
    BY <1>1, <1>3, <1>5, <1>6, <2>1 DEF Nodes, Bare
<1>8. /\ cur \in ValuedIn(F2)
      /\ Keeps(forest, path, {call.key}, F2, path) /\ Keeps(F2, path, {call.key}, forest, path)
  BY <1>1, <1>2, <1>4, <1>5 DEF Keeps, ValuedIn
<1>9. contents' = Map!Put(call.key, v)
  BY <1>1, <1>3, <1>4, <1>6, <1>8, MapPut
<1>. QED
  BY <1>2, <1>3, <1>4, <1>5, <1>7, <1>9

LEMMA GetMutStep ==
  ASSUME IInv, GetMut
  PROVE  IInv' /\ MapStep
<1>1. /\ InWalk /\ Walking /\ Whole /\ Ends /\ call.op = "get_mut"
      /\ Finish(forest[cur].val) /\ UNCHANGED <<root, path>>
      /\ forest' = IF Bare(cur) THEN forest ELSE [forest EXCEPT ![cur].val = call.val]
  BY DEF GetMut, Walking, InWalk
<1>2. /\ Nodes /\ Tree(forest, path, root) /\ call.val \in Values /\ call.key # <<>>
      /\ todo = {} /\ Map!NoCall = NoCall
  BY <1>1, InWalkIs, CallIs DEF IInv, Walking, Refused, OnKeys
<1>3. /\ Map!Value(call.key) = forest[cur].val /\ forest[cur].val \in Values \cup {None}
      /\ call.key \in DOMAIN contents <=> ~Bare(cur)
  BY <1>1, ValueHere
<1>4. /\ call' = NoCall /\ ret' = forest[cur].val /\ unvisited' = unvisited
  BY <1>1, <1>2, NoneLeft, NoneLeftNext DEF Finish
<1>5. CASE Bare(cur)
  <2>1. Leave(forest[cur].val) /\ contents' = contents
    BY <1>1, <1>5, SameTree DEF Leave
  <2>2. IInv'
    BY <1>2, <1>3, <2>1, LeaveInv
  <2>. QED
    BY <1>1, <1>2, <1>3, <1>4, <1>5, <2>1, <2>2 DEF MapStep, Map!Next, Map!GetMut, Map!Returns
<1>6. CASE ~Bare(cur)
  <2>1. Nodes' /\ contents' = Map!Put(call.key, call.val)
    BY <1>1, <1>2, <1>3, <1>4, <1>6, SetHere
  <2>2. IInv'
    BY <1>1, <2>1, FinishInv
  <2>. QED
    BY <1>1, <1>2, <1>3, <1>4, <1>6, <2>1, <2>2 DEF MapStep, Map!Next, Map!GetMut, Map!Returns
<1>. QED
  BY <1>5, <1>6

LEMMA InsertingIs ==
  ASSUME IInv, Inserting
  PROVE  /\ InWalk /\ Whole /\ call.op = "insert" /\ call.key # <<>> /\ call.val \in Values
         /\ ret = None
<1>1. InWalk /\ Whole /\ call.op = "insert" /\ ~Refused
  BY DEF Inserting, InWalk, Walking, IInv, OnTheWay
<1>2. call \in Calls /\ ret = None
  BY <1>1, InWalkIs
<1>. QED
  BY <1>1, <1>2, CallIs DEF Refused, OnKeys

LEMMA InsertHereStep ==
  ASSUME IInv, InsertHere
  PROVE  IInv' /\ MapStep /\ (tidy => Compressed')
<1>1. /\ Inserting /\ Ends /\ Finish(None) /\ UNCHANGED <<root, path>>
      /\ forest' = [forest EXCEPT ![cur].val = call.val]
  BY DEF InsertHere
<1>2. /\ InWalk /\ Whole /\ call.op = "insert" /\ call.key # <<>> /\ call.val \in Values
      /\ ret = None
  BY <1>1, InsertingIs
<1>3. ret' = None /\ call' = NoCall /\ todo' = {}
  BY <1>1 DEF Finish
<1>4. /\ Nodes' /\ contents' = Map!Put(call.key, call.val)
      /\ nodes' = nodes /\ forest'[cur].val # None
      /\ \A x \in nodes : x # cur => forest'[x] = forest[x]
      /\ \A x \in nodes : forest'[x].kids = forest[x].kids
  BY <1>1, <1>2, <1>3, SetHere
<1>5. IInv'
  BY <1>1, <1>4, FinishInv
<1>6. MapStep
  <2>1. unvisited' = unvisited /\ Map!NoCall = NoCall
    BY <1>2, <1>3, InWalkIs, NoneLeft, NoneLeftNext DEF Map!NoCall, NoCall
  <2>. QED
    BY <1>2, <1>3, <1>4, <2>1 DEF MapStep, Map!Next, Map!Insert, Map!Returns
<1>7. ASSUME tidy PROVE Compressed'
  <2>1. \A n \in nodes \ {cur} : Useful(n)
    BY <1>2, <1>7 DEF IInv, Tidy, InWalk, Compressed
  <2>. QED
    BY <1>4, <2>1 DEF Compressed, Useful, Bare, Branches
<1>. QED
  BY <1>5, <1>6, <1>7

LEMMA InsertFirstStep ==
  ASSUME IInv, NEW n \in Names, InsertFirst(n)
  PROVE  IInv' /\ MapStep /\ Compressed'
<1>1. /\ step = "walk" /\ ~Refused /\ root = None /\ root' = n /\ Finish(None)
      /\ forest' = [x \in {n} |-> Node(call.key, call.val)]
      /\ path' = [x \in {n} |-> call.key]
  BY DEF InsertFirst
<1>2. /\ call \in Calls /\ ret = None /\ todo = {} /\ Tree(forest, path, root)
      /\ call.op = "insert" /\ call.key # <<>>
  BY <1>1 DEF IInv, InCall, Nodes, Refused, OnKeys
<1>3. call.key \in Texts /\ call.val \in Values /\ Map!NoCall = NoCall
  BY <1>2, CallIs
<1>4. n # None /\ call.val # None
  BY <1>3, NoneAssumption
<1>5. PICK v : v = call.val
  OBVIOUS
<1>6. PICK k : k = call.key
  OBVIOUS
<1>7. /\ Tree(forest', path', n) /\ DOMAIN forest' = {n} /\ path'[n] = k
      /\ forest'[n] = Node(k, v)
  <2>1. OneNodeOf(k, v, n, forest', path')
    BY <1>1, <1>5, <1>6 DEF OneNodeOf
  <2>2. k \in Texts /\ v \in Values \cup {None}
    BY <1>3, <1>5, <1>6
  <2>3. PICK F2, P2 : F2 = forest' /\ P2 = path'
    OBVIOUS
  <2>4. OneNodeOf(k, v, n, F2, P2)
    BY <2>1, <2>3
  <2>5. Tree(F2, P2, n)
    BY <1>4, <2>2, <2>4, OneNodeTree
  <2>6. DOMAIN F2 = {n} /\ P2[n] = k /\ F2[n] = Node(k, v)
    BY <2>4 DEF OneNodeOf
  <2>. QED
    BY <2>3, <2>5, <2>6
<1>8. forest'[n].val = v /\ nodes' = {n} /\ v # None
  BY <1>4, <1>5, <1>7 DEF Node, nodes
<1>9. call' = NoCall /\ ret' = None /\ todo' = {}
  BY <1>1 DEF Finish
<1>10. Nodes'
  BY <1>1, <1>2, <1>6, <1>7, <1>8, <1>9 DEF Nodes
<1>11. IInv'
  BY <1>1, <1>10, FinishInv
<1>12. contents' = Map!Put(k, v)
  <2>1. DOMAIN forest = {}
    BY <1>1, <1>2, NoRoot DEF nodes
  <2>2. Keeps(forest, path, {k}, forest', path') /\ Keeps(forest', path', {k}, forest, path)
    BY <1>7, <2>1 DEF Keeps, ValuedIn
  <2>3. n \in ValuedIn(forest')
    BY <1>7, <1>8 DEF ValuedIn
  <2>. QED
    BY <1>1, <1>2, <1>7, <1>8, <2>2, <2>3, MapPut
<1>13. MapStep
  <2>1. unvisited' = unvisited
    BY <1>2, <1>9, NoneLeft, NoneLeftNext
  <2>. QED
    BY <1>2, <1>3, <1>5, <1>6, <1>9, <1>12, <2>1 DEF MapStep, Map!Next, Map!Insert, Map!Returns
<1>14. Compressed'
  BY <1>8 DEF Compressed, Useful, Bare
<1>. QED
  BY <1>11, <1>13, <1>14

LEMMA InsertLeafStep ==
  ASSUME IInv, NEW n \in Names, InsertLeaf(n)
  PROVE  IInv' /\ MapStep /\ (tidy => Compressed')
<1>1. /\ Inserting /\ ~Ends /\ Missing /\ n \notin nodes /\ Finish(None) /\ root' = root
      /\ forest' = [x \in nodes \cup {n} |->
                      CASE x = n -> Node(below, call.val)
                        [] x = cur -> WithKid(cur, below[1], n)
                        [] OTHER -> forest[x]]
      /\ path' = [x \in nodes \cup {n} |-> IF x = n THEN path[cur] \o below ELSE path[x]]
  BY DEF InsertLeaf
<1>2. /\ InWalk /\ Whole /\ call.op = "insert" /\ call.key # <<>> /\ call.val \in Values
      /\ ret = None
  BY <1>1, InsertingIs
<1>3. /\ Nodes /\ Tree(forest, path, root) /\ cur \in nodes /\ cur \in DOMAIN forest /\ todo = {}
      /\ below # <<>> /\ below \in Texts /\ call.key = path[cur] \o below
  BY <1>1, <1>2, InWalkIs, WholeHere DEF IInv
<1>4. PICK t : t = below
  OBVIOUS
<1>5. PICK v : v = call.val
  OBVIOUS
<1>6. /\ Tree(forest', path', root) /\ DOMAIN forest' = DOMAIN forest \cup {n}
      /\ path'[n] = path[cur] \o t /\ \A x \in DOMAIN forest : path'[x] = path[x]
      /\ \A x \in DOMAIN forest : forest'[x].val = forest[x].val
      /\ forest'[n].val = v
      /\ \A x \in DOMAIN forest \ {cur} : forest'[x] = forest[x]
      /\ DOMAIN forest'[cur].kids = DOMAIN forest[cur].kids \cup {t[1]}
  <2>1. GrownOf(forest, path, cur, n, t, v, forest', path')
    BY <1>1, <1>4, <1>5 DEF GrownOf, WithKid, Branches, nodes
  <2>2. t[1] \notin DOMAIN forest[cur].kids /\ n \notin DOMAIN forest
    BY <1>1, <1>4 DEF Missing, Branches, nodes
  <2>3. t \in Texts /\ t # <<>> /\ v \in Values \cup {None}
    BY <1>2, <1>3, <1>4, <1>5
  <2>4. PICK F2, P2 : F2 = forest' /\ P2 = path'
    OBVIOUS
  <2>5. GrownOf(forest, path, cur, n, t, v, F2, P2)
    BY <2>1, <2>4
  <2>6. Tree(F2, P2, root)
    BY <1>3, <2>2, <2>3, <2>5, GrownTree
  <2>7. \A x \in DOMAIN forest : F2[x].val = forest[x].val
    BY <1>3, <2>2, <2>3, <2>5, GrownTree
  <2>8. P2[n] = path[cur] \o t /\ \A x \in DOMAIN forest : P2[x] = path[x]
    BY <2>2, <2>5 DEF GrownOf
  <2>9. \A x \in DOMAIN forest \ {cur} : F2[x] = forest[x]
    BY <1>3, <2>2, <2>3, <2>5, GrownTree
  <2>10. \A d : d \in DOMAIN F2[cur].kids <=> d \in DOMAIN forest[cur].kids \/ d = t[1]
    BY <1>3, <2>2, <2>3, <2>5, GrownTree
  <2>11. F2[n].val = v
    BY <1>3, <2>2, <2>3, <2>5, GrownTree
  <2>12. DOMAIN F2 = DOMAIN forest \cup {n}
    BY <2>5 DEF GrownOf
  <2>. QED
    BY <2>4, <2>6, <2>7, <2>8, <2>9, <2>10, <2>11, <2>12
<1>7. /\ nodes' = nodes \cup {n} /\ path'[n] = call.key /\ v # None
      /\ \A x \in nodes : path'[x] = path[x] /\ forest'[x].val = forest[x].val
  BY <1>2, <1>3, <1>4, <1>5, <1>6, NoneAssumption DEF nodes
<1>8. call' = NoCall /\ ret' = None /\ todo' = {}
  BY <1>1 DEF Finish
<1>9. Nodes'
  <2>1. ASSUME NEW x \in nodes', forest'[x].val # None PROVE path'[x] # <<>>
    BY <1>2, <1>3, <1>7, <2>1 DEF Nodes, Bare
  <2>2. nodes' \subseteq Names
    BY <1>3, <1>7 DEF Nodes
  <2>. QED
    BY <1>1, <1>6, <1>8, <2>1, <2>2 DEF Nodes, Bare
<1>10. IInv'
  BY <1>1, <1>9, FinishInv
<1>11. contents' = Map!Put(call.key, v)
  <2>4. PICK k : k = call.key
    OBVIOUS
  <2>1. ValuedIn(forest') = ValuedIn(forest) \cup {n} /\ ValuedIn(forest) \subseteq nodes
    BY <1>6, <1>7 DEF ValuedIn, nodes
  <2>2. Keeps(forest, path, {k}, forest', path') /\ Keeps(forest', path', {k}, forest, path)
    BY <1>7, <2>1, <2>4 DEF Keeps
  <2>3. n \in ValuedIn(forest') /\ path'[n] = k /\ v = forest'[n].val
    BY <1>6, <1>7, <2>1, <2>4
  <2>5. Tree(forest', path', root')
    BY <1>1, <1>6
  <2>6. contents' = Map!Put(k, v)
    BY <1>3, <2>2, <2>3, <2>5, MapPut
  <2>. QED
    BY <2>4, <2>6
<1>12. MapStep
  <2>1. unvisited' = unvisited /\ Map!NoCall = NoCall
    BY <1>3, <1>8, NoneLeft, NoneLeftNext DEF Map!NoCall, NoCall
  <2>. QED
    BY <1>2, <1>5, <1>8, <1>11, <2>1 DEF MapStep, Map!Next, Map!Insert, Map!Returns
<1>13. ASSUME tidy PROVE Compressed'
  <2>1. ASSUME NEW x \in nodes, x # cur PROVE Useful(x)'
    <3>1. Useful(x)
      BY <1>2, <1>13, <2>1 DEF IInv, Tidy, InWalk, Compressed
    <3>2. forest'[x] = forest[x]
      BY <1>6, <2>1 DEF nodes
    <3>. QED
      BY <3>1, <3>2 DEF Useful, Bare, Branches
  <2>2. Useful(n)'
    BY <1>6, <1>7 DEF Useful, Bare
  <2>3. ASSUME NEW x, x = cur PROVE Useful(x)'
    <3>1. /\ forest'[x].val = forest[x].val
          /\ DOMAIN forest'[x].kids = DOMAIN forest[x].kids \cup {t[1]}
          /\ t[1] \notin DOMAIN forest[x].kids
      BY <1>1, <1>3, <1>4, <1>6, <2>3 DEF Missing, Branches
    <3>2. Useful(x) \/ \E b \in Bytes : DOMAIN forest[x].kids = {b}
      BY <1>2, <1>3, <1>13, <2>3 DEF IInv, Tidy, InWalk, Compressed, OnTheWay, Branches
    <3>3. Useful(x) => forest'[x].val # None \/ \E b, c \in DOMAIN forest'[x].kids : b # c
      BY <3>1 DEF Useful, Bare, Branches
    <3>4. ASSUME NEW b \in Bytes, DOMAIN forest[x].kids = {b}
          PROVE  \E d, c \in DOMAIN forest'[x].kids : d # c
      BY <3>1, <3>4
    <3>5. forest'[x].val # None \/ \E b, c \in DOMAIN forest'[x].kids : b # c
      BY <3>2, <3>3, <3>4
    <3>. QED
      BY <3>5 DEF Useful, Bare, Branches
  <2>. QED
    BY <1>7, <2>1, <2>2, <2>3 DEF Compressed
<1>. QED
  BY <1>10, <1>12, <1>13

(* Where a walk ends short of the node's own end.                          *)
LEMMA NotWhole ==
  ASSUME IInv, InWalk, ~Whole
  PROVE  /\ common \in Nat /\ common < Len(forest[cur].prefix)
         /\ common > 0 \/ cur = root
<1>1. PICK a : a = Begin(forest, path, cur)
  OBVIOUS
<1>2. /\ a \in Nat /\ common \in Nat /\ Len(path[cur]) \in Nat
      /\ a + common <= Len(path[cur]) /\ Len(text) = Len(path[cur]) - a
      /\ cur # root => 0 < common
  BY <1>1, AtCur
<1>3. common # Len(text) /\ text = forest[cur].prefix
  BY DEF Whole, text
<1>4. common < Len(text)
  BY <1>2, <1>3
<1>. QED
  BY <1>2, <1>3, <1>4

(* The walk stands at the upper half as it stood at the node.              *)
LEMMA AfterSplit ==
  ASSUME NEW F, NEW P, NEW R, NEW m, NEW n, NEW key \in Texts, NEW s,
         Reached(F, P, R, m, key, s), NEW a, a = Begin(F, P, m), NEW l,
         WalkAt(F, P, m, key, a, l), l > 0 \/ m = R, a + l < Len(P[m]),
         NEW F2, NEW P2, SplitFacts(F, P, m, n, a, l, F2, P2), Tree(F2, P2, R),
         NEW c, c = Common(F2[m].prefix, s)
  PROVE  Reached(F2, P2, R, m, key, s) /\ c = l /\ c = Len(F2[m].prefix)
<1>1. /\ a \in Nat /\ l \in Nat /\ Len(P[m]) \in Nat /\ Len(key) \in Nat
      /\ a + l <= Len(P[m]) /\ a + l <= Len(key) /\ \A k \in 1 .. a + l : P[m][k] = key[k]
  BY DEF WalkAt
<1>2. /\ m \in DOMAIN F /\ a <= Len(key) /\ s = Drop(key, a)
      /\ m # R => a < Len(key) /\ P[m][a + 1] = key[a + 1]
  BY DEF Reached
<1>3. /\ m \in DOMAIN F2 /\ P2[m] \in Texts /\ Len(P2[m]) = a + l /\ Pre(P2[m], P[m])
      /\ F2[m].prefix = Drop(P2[m], a)
  BY <1>2 DEF SplitFacts
<1>4. \A k \in 1 .. a + l : P2[m][k] = key[k]
  BY <1>1, <1>3 DEF Pre
<1>5. a \in 0 .. Len(P2[m])
  BY <1>1, <1>3
<1>6. Len(F2[m].prefix) = l
  <2>1. Len(Drop(P2[m], a)) = Len(P2[m]) - a
    BY <1>3, <1>5, DropIs
  <2>. QED
    BY <1>1, <1>3, <2>1
<1>7. Begin(F2, P2, m) = a
  <2>1. Begin(F2, P2, m) = (a + l) - l
    BY <1>3, <1>6, Zenon DEF Begin
  <2>. QED
    BY <1>1, <2>1
<1>8. Reached(F2, P2, R, m, key, s)
  <2>1. \A k \in 1 .. a : P2[m][k] = key[k]
    BY <1>1, <1>4
  <2>2. m # R => P2[m][a + 1] = key[a + 1]
    BY <1>1, <1>4
  <2>. QED
    BY <1>2, <1>3, <1>7, <2>1, <2>2 DEF Reached
<1>9. WalkAt(F2, P2, m, key, a, c)
  <2>1. WalkHas(F2, P2, R, m, key, s, a, c)
    BY <1>7, <1>8, WalkIs
  <2>. QED
    BY <2>1 DEF WalkHas
<1>10. /\ c \in Nat /\ a + c <= a + l
       /\ a + c < a + l /\ a + c < Len(key) => P2[m][a + c + 1] # key[a + c + 1]
  BY <1>3, <1>9 DEF WalkAt
<1>11. c = l
  <2>1. CASE c < l
    <3>1. a + c < a + l /\ a + c < Len(key) /\ a + c + 1 \in 1 .. a + l
      BY <1>1, <1>10, <2>1
    <3>. QED
      BY <1>4, <1>10, <3>1
  <2>. QED
    BY <1>1, <1>10, <2>1
<1>. QED
  BY <1>6, <1>8, <1>11

LEMMA InsertSplitStep ==
  ASSUME IInv, NEW n \in Names, InsertSplit(n)
  PROVE  IInv' /\ MapStep
<1>1. PICK l : l = common
  OBVIOUS
<1>2. PICK a : a = Begin(forest, path, cur)
  OBVIOUS
<1>3. PICK F2, P2 : F2 = forest' /\ P2 = path'
  OBVIOUS
<1>4. /\ InWalk /\ Walking /\ step = "walk" /\ ~Refused /\ root # None
      /\ call.op = "insert" /\ ~Whole /\ n \notin nodes /\ n \notin DOMAIN forest
      /\ step' = "split"
      /\ UNCHANGED <<root, call, cur, rest, visited, todo, ret, tidy>>
  BY DEF InsertSplit, Walking, InWalk, nodes
<1>5. SplitOf(forest, path, cur, n, l, F2, P2)
  BY <1>1, <1>3 DEF InsertSplit, SplitOf, text, nodes
<1>6. /\ Nodes /\ Tree(forest, path, root) /\ cur \in nodes /\ cur \in DOMAIN forest /\ todo = {}
      /\ call \in Calls /\ ret = None /\ call.key \in Texts /\ visited = <<>>
      /\ Reached(forest, path, root, cur, call.key, rest)
  BY <1>4, InWalkIs DEF IInv, InCall, Removals
<1>7. l \in Nat /\ l < Len(forest[cur].prefix) /\ (l > 0 \/ cur = root)
  BY <1>1, <1>4, NotWhole
<1>8. Tree(F2, P2, root)
  BY <1>4, <1>5, <1>6, <1>7, SplitTree
<1>9. SplitFacts(forest, path, cur, n, a, l, F2, P2)
  BY <1>2, <1>4, <1>5, <1>6, <1>7, SplitIs
<1>10. PICK key : key = call.key
  OBVIOUS
<1>11. /\ WalkAt(forest, path, cur, key, a, l)
       /\ a \in Nat /\ l \in Nat /\ Len(path[cur]) \in Nat /\ Len(key) \in Nat
       /\ below = Drop(key, a + l) /\ Len(rest) = Len(key) - a
       /\ a + l < Len(key) => below[1] = key[a + l + 1]
       /\ a + l <= Len(key) /\ Len(text) = Len(path[cur]) - a
  BY <1>1, <1>2, <1>4, <1>10, AtCur
<1>12. a + l < Len(path[cur])
  <2>1. l < Len(text)
    BY <1>7 DEF text
  <2>. QED
    BY <1>11, <2>1
<1>13. PICK c : c = Common(F2[cur].prefix, rest)
  OBVIOUS
<1>14. Reached(F2, P2, root, cur, key, rest) /\ c = l /\ c = Len(F2[cur].prefix)
  BY <1>2, <1>6, <1>7, <1>8, <1>9, <1>10, <1>11, <1>12, <1>13, AfterSplit
<1>15. PICK d : d = path[cur][a + l + 1]
  OBVIOUS
<1>16. /\ DOMAIN F2 = DOMAIN forest \cup {n}
       /\ \A x \in DOMAIN forest : x # cur => F2[x] = forest[x] /\ P2[x] = path[x]
       /\ P2[n] = path[cur] /\ F2[n].kids = forest[cur].kids /\ F2[n].val = forest[cur].val
       /\ F2[cur].val = None /\ DOMAIN F2[cur].kids = {d} /\ d \in Bytes
  BY <1>9, <1>15 DEF SplitFacts
<1>17. common' = c /\ Whole' /\ below' = below /\ (Ends' <=> Ends) /\ Branches(cur)' = {d}
  <2>1. common' = c
    BY <1>3, <1>4, <1>13 DEF common, text
  <2>2. Whole'
    BY <1>3, <1>4, <1>14, <2>1 DEF Whole, text
  <2>3. common' = common /\ rest' = rest
    BY <1>1, <1>4, <1>14, <2>1
  <2>4. below' = below /\ (Ends' <=> Ends)
    BY <2>3 DEF below, Ends
  <2>5. Branches(cur)' = {d}
    BY <1>3, <1>4, <1>16 DEF Branches
  <2>. QED
    BY <2>1, <2>2, <2>4, <2>5
<1>18. Ends' \/ Missing'
  <2>1. CASE Ends
    BY <1>17, <2>1
  <2>2. CASE ~Ends
    <3>1. l # Len(key) - a
      BY <1>1, <1>11, <2>2 DEF Ends
    <3>2. a + l < Len(key)
      BY <1>11, <3>1
    <3>3. path[cur][a + l + 1] # key[a + l + 1]
      BY <1>11, <1>12, <3>2 DEF WalkAt
    <3>4. below[1] # d
      BY <1>11, <1>15, <3>2, <3>3
    <3>. QED
      BY <1>17, <3>4 DEF Missing
  <2>. QED
    BY <2>1, <2>2
<1>19. Nodes'
  <2>1. nodes' = nodes \cup {n} /\ nodes = DOMAIN forest
    BY <1>3, <1>16 DEF nodes
  <2>2. nodes' \subseteq Names
    BY <1>6, <2>1 DEF Nodes
  <2>3. ASSUME NEW x \in nodes', F2[x].val # None PROVE P2[x] # <<>>
    <3>1. \A y \in nodes : forest[y].val # None => path[y] # <<>>
      BY <1>6 DEF Nodes, Bare
    <3>. QED
      BY <1>6, <1>16, <2>1, <2>3, <3>1
  <2>4. Tree(forest', path', root')
    BY <1>3, <1>4, <1>8
  <2>. QED
    BY <1>3, <1>4, <1>6, <2>2, <2>3, <2>4 DEF Nodes, Bare
<1>20. InCall'
  BY <1>4, <1>6 DEF InCall
<1>21. OnTheWay'
  <2>1. Refused' = Refused
    BY <1>4 DEF Refused, OnKeys
  <2>2. Reached(forest', path', root', cur', call'.key, rest')
    BY <1>3, <1>4, <1>10, <1>14
  <2>3. \E b \in Bytes : Branches(cur)' = {b}
    BY <1>16, <1>17
  <2>. QED
    BY <1>4, <1>17, <1>18, <2>1, <2>2, <2>3 DEF OnTheWay
<1>22. Chain'
  BY <1>4, <1>6, NoLinks DEF Chain
<1>23. Visits'
  BY <1>4, <1>6 DEF Visits
<1>24. Tidy'
  <2>1. ASSUME tidy, NEW x \in nodes' \ {cur} PROVE Useful(x)'
    <3>1. Compressed
      BY <1>4, <2>1 DEF IInv, Tidy
    <3>2. \E y \in nodes : F2[x].val = forest[y].val /\ F2[x].kids = forest[y].kids
      BY <1>3, <1>6, <1>16, <2>1 DEF nodes
    <3>3. \A y \in nodes : forest[y].val # None \/ \E b, e \in DOMAIN forest[y].kids : b # e
      BY <3>1 DEF Compressed, Useful, Bare, Branches
    <3>4. F2[x].val # None \/ \E b, e \in DOMAIN F2[x].kids : b # e
      BY <3>2, <3>3
    <3>. QED
      BY <1>3, <3>4 DEF Useful, Bare, Branches
  <2>. QED
    BY <1>4, <2>1 DEF Tidy
<1>25. MapStep
  <2>1. Keeps(forest, path, {}, F2, P2)
    BY <1>6, <1>16 DEF Keeps, ValuedIn
  <2>2. Keeps(F2, P2, {}, forest, path)
    BY <1>6, <1>16 DEF Keeps, ValuedIn
  <2>3. UNCHANGED <<contents, call, unvisited, ret>>
    BY <1>3, <1>4, <1>6, <1>8, <2>1, <2>2, Unseen
  <2>. QED
    BY <2>3 DEF MapStep
<1>. QED
  BY <1>19, <1>20, <1>21, <1>22, <1>23, <1>24, <1>25 DEF IInv

------------------------------------------------------------------------------
(* A removal comes to a node, and loses what it holds or the node itself.  *)

LEMMA FocusIs ==
  ASSUME NEW F, NEW P, NEW R, NEW V, Links(F, P, R, V), NEW m, LeadsTo(F, P, V, m),
         V = <<>> => m = R
  PROVE  m = IF V = <<>> THEN R ELSE F[V[Len(V)][1]].kids[V[Len(V)][2]]
<1>1. CASE V # <<>>
  <2>1. V \in Seq((DOMAIN F) \X Bytes) /\ Len(V) \in Nat /\ Len(V) # 0
    BY <1>1, EmptySeq, LenProperties DEF Links
  <2>2. Len(V) \in 1 .. Len(V)
    BY <2>1
  <2>. QED
    BY <1>1, <2>2 DEF LeadsTo
<1>. QED
  BY <1>1

(* The node a removal is at is the one it would drop first.                *)
LEMMA RemovalIs ==
  ASSUME IInv, step = "walk", root # None, call.op \in Removals
  PROVE  /\ Links(forest, path, root, visited) /\ LeadsTo(forest, path, visited, cur)
         /\ visited = <<>> => cur = root
         /\ cur = focus
<1>1. /\ Links(forest, path, root, visited) /\ LeadsTo(forest, path, visited, cur)
      /\ visited = <<>> => cur = root
  BY DEF IInv, Chain
<1>. QED
  BY <1>1, FocusIs DEF focus, last

(* The subtree below n filed under b gone, and the way to n kept.          *)
LEMMA DropLinks ==
  ASSUME NEW F, NEW P, NEW R, Tree(F, P, R), NEW n \in DOMAIN F,
         NEW b \in DOMAIN F[n].kids, NEW c, c = F[n].kids[b],
         NEW V, Links(F, P, R, V), LeadsTo(F, P, V, n),
         NEW F2, NEW P2, DropOf(F, P, n, b, F2, P2)
  PROVE  Links(F2, P2, R, V) /\ LeadsTo(F2, P2, V, n)
<1>1. Tree(F2, P2, R)
  BY DropTree
<1>2. n \in DOMAIN F2
  BY DropTree
<1>3. \A x \in DOMAIN F2 : P2[x] = P[x]
  BY DEF DropOf
<1>4. \A x \in DOMAIN F2 : x # n => F2[x] = F[x]
  BY DEF DropOf
<1>5. DOMAIN F2 = DOMAIN F \ CutOff(F, P, c)
  BY DEF DropOf
<1>6. c \in DOMAIN F /\ Len(P[n]) < Len(P[c]) /\ Len(P[n]) \in Nat /\ Len(P[c]) \in Nat
  BY TreeKid, TreeNode
<1>7. ASSUME NEW x \in DOMAIN F, Len(P[x]) < Len(P[n])
      PROVE  x \in DOMAIN F2 /\ P2[x] = P[x] /\ F2[x].kids = F[x].kids
  <2>1. Len(P[x]) \in Nat
    BY TreeNode
  <2>2. ~Pre(P[c], P[x])
    <3>1. ~(Len(P[c]) <= Len(P[x]))
      BY <1>6, <1>7, <2>1
    <3>. QED
      BY <3>1, Zenon DEF Pre
  <2>3. x \in DOMAIN F2 /\ x # n
    BY <1>5, <1>6, <1>7, <2>2 DEF CutOff
  <2>. QED
    BY <1>3, <1>4, <2>3
<1>8. Len(P[n]) <= Len(P2[n]) /\ Len(P2[n]) \in Nat
  BY <1>2, <1>3, <1>6
<1>. QED
  BY <1>7, <1>8, LinksKept

LEMMA DropKidIs ==
  ASSUME Tree(forest, path, root), NEW n \in nodes, NEW b \in Branches(n), DropKid(n, b)
  PROVE  DropOf(forest, path, n, b, forest', path')
<1>1. PICK c : c = forest[n].kids[b]
  OBVIOUS
<1>2. c \in nodes
  BY <1>1, TreeKid DEF nodes, Branches
<1>3. Under(c) = CutOff(forest, path, c)
  BY <1>2, UnderIs DEF CutOff, nodes
<1>. QED
  BY <1>1, <1>3 DEF DropKid, DropOf, WithoutKid, Branches, nodes

LEMMA RemoveHereStep ==
  ASSUME IInv, RemoveHere
  PROVE  IInv' /\ MapStep
<1>1. /\ InWalk /\ step = "walk" /\ root # None /\ Whole /\ Ends
      /\ call.op = "remove" /\ ~Bare(cur)
      /\ forest' = [forest EXCEPT ![cur].val = None]
      /\ step' = "compress" /\ call' = NoCall /\ cur' = None
      /\ ret' = forest[cur].val /\ UNCHANGED <<root, todo, tidy, visited, path>>
  BY DEF RemoveHere, Walking, InWalk, Compress
<1>2. PICK m : m = cur
  OBVIOUS
<1>3. PICK F2 : F2 = forest'
  OBVIOUS
<1>4. /\ Nodes /\ Tree(forest, path, root) /\ m \in nodes /\ m \in DOMAIN forest /\ todo = {}
  BY <1>1, <1>2, InWalkIs DEF IInv
<1>5. /\ path[m] = call.key /\ Map!Value(call.key) = forest[m].val
      /\ forest[m].val \in Values \cup {None}
      /\ \A x \in nodes : path[x] = call.key => x = m
  BY <1>1, <1>2, ValueHere
<1>6. /\ Tree(F2, path, root) /\ DOMAIN F2 = DOMAIN forest /\ F2[m].val = None
      /\ \A x \in DOMAIN forest : x # m => F2[x] = forest[x]
      /\ \A x \in DOMAIN forest : F2[x].kids = forest[x].kids
  <2>1. RevaluedOf(forest, m, None, F2) /\ None \in Values \cup {None}
    BY <1>1, <1>2, <1>3 DEF RevaluedOf
  <2>2. DOMAIN F2 = DOMAIN forest
    BY <1>1, <1>3
  <2>. QED
    BY <1>4, <2>1, <2>2, RevaluedTree
<1>7. nodes' = nodes /\ nodes = DOMAIN forest
  BY <1>3, <1>6 DEF nodes
<1>8. Nodes'
  <2>1. \A n \in nodes : F2[n].val # None => path[n] # <<>>
    BY <1>4, <1>6, <1>7 DEF Nodes, Bare
  <2>2. Tree(forest', path', root')
    BY <1>1, <1>3, <1>6
  <2>. QED
    BY <1>1, <1>2, <1>3, <1>4, <1>5, <1>7, <2>1, <2>2 DEF Nodes, Bare
<1>9. /\ Links(forest, path, root, visited) /\ LeadsTo(forest, path, visited, m)
      /\ visited = <<>> => m = root
  BY <1>1, <1>2, RemovalIs DEF Removals
<1>10. Links(F2, path, root, visited) /\ LeadsTo(F2, path, visited, m)
  <2>1. Len(path[m]) <= Len(path[m]) /\ Len(path[m]) \in Nat
    BY <1>4, TreeNode
  <2>. QED
    BY <1>4, <1>6, <1>9, <2>1, LinksKept
<1>11. InCall' /\ OnTheWay' /\ Visits'
  BY <1>1, <1>4 DEF InCall, OnTheWay, Visits
<1>12. Chain'
  BY <1>1, <1>3, <1>10 DEF Chain
<1>13. Tidy'
  <2>1. m = focus'
    <3>1. m = IF visited = <<>> THEN root
              ELSE F2[visited[Len(visited)][1]].kids[visited[Len(visited)][2]]
      BY <1>9, <1>10, FocusIs
    <3>. QED
      BY <1>1, <1>3, <3>1 DEF focus, last
  <2>2. ASSUME tidy, NEW x \in nodes', ~Useful(x)' PROVE x = m
    <3>1. Useful(x) /\ (x # m => F2[x] = forest[x])
      BY <1>1, <1>6, <1>7, <2>2 DEF IInv, Tidy, Compressed
    <3>2. F2[x] = forest[x] => (Useful(x)' <=> Useful(x))
      BY <1>3 DEF Useful, Bare, Branches
    <3>. QED
      BY <2>2, <3>1, <3>2
  <2>3. tidy => OneUseless'
    BY <2>2 DEF OneUseless
  <2>4. tidy => (\A x \in nodes : ~Useful(x) /\ Branches(x) = {} => x = focus)'
    BY <2>1, <2>2
  <2>. QED
    BY <1>1, <2>3, <2>4 DEF Tidy
<1>14. MapStep
  <2>1. PICK k : k = call.key
    OBVIOUS
  <2>2. /\ Keeps(forest, path, {k}, F2, path) /\ Keeps(F2, path, {}, forest, path)
        /\ \A y \in ValuedIn(F2) : path[y] \notin {k}
    BY <1>4, <1>5, <1>6, <1>7, <2>1 DEF Keeps, ValuedIn
  <2>3. Tree(forest', path', root') /\ path' = path
    BY <1>1, <1>3, <1>6
  <2>4. contents' = Map!Without({k})
    BY <1>3, <1>4, <2>2, <2>3, MapLess
  <2>5. unvisited' = unvisited /\ Map!NoCall = NoCall
    BY <1>1, <1>4, NoneLeft, NoneLeftNext DEF Map!NoCall, NoCall
  <2>. QED
    BY <1>1, <1>2, <1>5, <2>1, <2>4, <2>5 DEF MapStep, Map!Next, Map!Remove, Map!Returns
<1>. QED
  BY <1>8, <1>11, <1>12, <1>13, <1>14 DEF IInv

LEMMA LastIs ==
  ASSUME Tree(forest, path, root), Links(forest, path, root, visited), visited # <<>>
  PROVE  /\ last[1] \in DOMAIN forest /\ last[2] \in DOMAIN forest[last[1]].kids
         /\ Links(forest, path, root, before) /\ LeadsTo(forest, path, before, last[1])
         /\ before = <<>> => last[1] = root
BY LinkTaken DEF last, before

(* What is left when a child is dropped: the nodes whose path does not     *)
(* begin with its own.                                                     *)
LEMMA Dropped ==
  ASSUME Tree(forest, path, root), NEW n \in DOMAIN forest, NEW b \in DOMAIN forest[n].kids,
         NEW c, c = forest[n].kids[b],
         NEW F2, NEW P2, DropOf(forest, path, n, b, F2, P2)
  PROVE  /\ Tree(F2, P2, root) /\ n \in DOMAIN F2
         /\ \A x : x \in DOMAIN F2 <=> x \in DOMAIN forest /\ ~Pre(path[c], path[x])
         /\ \A x \in DOMAIN F2 : P2[x] = path[x] /\ F2[x].val = forest[x].val
         /\ \A x \in DOMAIN F2 : x # n => F2[x] = forest[x]
         /\ \A d \in DOMAIN F2[n].kids : d \in DOMAIN forest[n].kids /\ d # b
         /\ \A d \in DOMAIN forest[n].kids : d # b => d \in DOMAIN F2[n].kids
<1>1. Tree(F2, P2, root)
  BY DropTree
<1>2. n \in DOMAIN F2
  BY DropTree
<1>3. DOMAIN F2 = DOMAIN forest \ CutOff(forest, path, c)
  BY DEF DropOf
<1>4. \A x : x \in DOMAIN F2 <=> x \in DOMAIN forest /\ ~Pre(path[c], path[x])
  BY <1>3 DEF CutOff
<1>5. /\ \A x \in DOMAIN F2 : P2[x] = path[x]
      /\ \A x \in DOMAIN F2 : x # n => F2[x] = forest[x]
  BY DEF DropOf
<1>6. forest[n] \in NodesOver(DOMAIN forest)
  BY TreeNode
<1>7. F2[n] = [forest[n] EXCEPT !.kids =
                 [d \in DOMAIN forest[n].kids \ {b} |-> forest[n].kids[d]]]
  BY <1>2 DEF DropOf
<1>8. /\ F2[n].val = forest[n].val
      /\ F2[n].kids = [d \in DOMAIN forest[n].kids \ {b} |-> forest[n].kids[d]]
  BY <1>6, <1>7 DEF NodesOver
<1>9. \A x \in DOMAIN F2 : F2[x].val = forest[x].val
  BY <1>5, <1>8
<1>. QED
  BY <1>1, <1>2, <1>4, <1>5, <1>8, <1>9

LEMMA DroppedNodes ==
  ASSUME Nodes, NEW n \in DOMAIN forest, NEW b \in DOMAIN forest[n].kids,
         DropOf(forest, path, n, b, forest', path'), root' = root,
         ret' \in Values \cup {None} \cup (Texts \X Values)
  PROVE  Nodes'
<1>1. PICK F2, P2 : F2 = forest' /\ P2 = path'
  OBVIOUS
<1>2. Tree(forest, path, root)
  BY DEF Nodes
<1>3. /\ Tree(F2, P2, root)
      /\ \A x : x \in DOMAIN F2 => x \in DOMAIN forest
      /\ \A x \in DOMAIN F2 : P2[x] = path[x] /\ F2[x].val = forest[x].val
  BY <1>1, <1>2, Dropped
<1>. QED
  BY <1>1, <1>3 DEF Nodes, nodes, Bare

LEMMA CutRootStep ==
  ASSUME IInv, CutRoot
  PROVE  IInv' /\ MapStep
<1>1. /\ InWalk /\ step = "walk" /\ root # None /\ Ends /\ call.op = "remove_prefix"
      /\ visited = <<>> /\ forest' = <<>> /\ root' = None /\ path' = <<>> /\ Finish(None)
  BY DEF CutRoot, Walking, InWalk
<1>2. /\ Tree(forest, path, root) /\ call.key \in Texts /\ todo = {} /\ ret = None
      /\ path[cur] \in Texts
  BY <1>1, InWalkIs
<1>3. cur = root /\ Pre(call.key, path[cur])
  BY <1>1, RemovalIs, EndsHere DEF Removals
<1>4. nodes' = {}
  BY <1>1 DEF nodes
<1>5. Tree(forest', path', root')
  BY <1>1, EmptyTree
<1>6. call' = NoCall /\ ret' = None /\ todo' = {}
  BY <1>1 DEF Finish
<1>7. Nodes'
  BY <1>4, <1>5, <1>6 DEF Nodes
<1>8. IInv'
  BY <1>1, <1>7, FinishInv
<1>9. PICK S : S = Map!Extensions(call.key)
  OBVIOUS
<1>10. ASSUME NEW x \in ValuedIn(forest) PROVE path[x] \in S
  <2>1. x \in Valued /\ x \in DOMAIN forest
    BY DEF Valued, ValuedIn, Bare, nodes
  <2>2. path[x] \in DOMAIN contents
    BY <1>2, <2>1, KeysAre
  <2>3. Pre(path[root], path[x]) /\ path[x] \in Texts
    BY <1>2, <2>1, TreeRoot, TreeNode
  <2>4. Pre(call.key, path[x])
    BY <1>2, <1>3, <2>3, PreTrans
  <2>. QED
    BY <1>2, <1>9, <2>2, <2>4, ExtensionsAre
<1>11. contents' = Map!Without(S)
  <2>1. ValuedIn(forest') = {}
    BY <1>1 DEF ValuedIn
  <2>2. Keeps(forest, path, S, forest', path') /\ Keeps(forest', path', {}, forest, path)
    BY <1>10, <2>1 DEF Keeps
  <2>. QED
    BY <1>2, <1>5, <2>1, <2>2, MapLess
<1>12. unvisited' = unvisited /\ Map!NoCall = NoCall
  BY <1>2, <1>6, NoneLeft, NoneLeftNext DEF Map!NoCall, NoCall
<1>. QED
  BY <1>1, <1>2, <1>6, <1>8, <1>9, <1>11, <1>12
     DEF MapStep, Map!Next, Map!RemovePrefix, Map!Returns

LEMMA CutChildStep ==
  ASSUME IInv, CutChild
  PROVE  IInv' /\ MapStep
<1>1. /\ InWalk /\ step = "walk" /\ root # None /\ Ends /\ call.op = "remove_prefix"
      /\ visited # <<>> /\ DropKid(last[1], last[2]) /\ visited' = before
      /\ step' = "compress" /\ call' = NoCall /\ cur' = None /\ ret' = None
      /\ UNCHANGED <<root, todo, tidy>>
  BY DEF CutChild, Walking, InWalk, Compress
<1>2. PICK n, b : n = last[1] /\ b = last[2]
  OBVIOUS
<1>3. PICK m : m = cur
  OBVIOUS
<1>4. PICK F2, P2, V : F2 = forest' /\ P2 = path' /\ V = before
  OBVIOUS
<1>5. /\ Nodes /\ Tree(forest, path, root) /\ m \in DOMAIN forest /\ call.key \in Texts
      /\ todo = {} /\ ret = None /\ path[m] \in Texts
      /\ Reached(forest, path, root, m, call.key, rest)
  BY <1>1, <1>3, InWalkIs DEF IInv
<1>6. Links(forest, path, root, visited) /\ m = focus
  BY <1>1, <1>3, RemovalIs DEF Removals
<1>7. m = forest[n].kids[b]
  BY <1>1, <1>2, <1>6 DEF focus
<1>8. /\ n \in DOMAIN forest /\ b \in DOMAIN forest[n].kids
      /\ Links(forest, path, root, V) /\ LeadsTo(forest, path, V, n)
      /\ V = <<>> => n = root
  BY <1>1, <1>2, <1>4, <1>5, <1>6, LastIs
<1>9. DropOf(forest, path, n, b, F2, P2)
  BY <1>1, <1>2, <1>4, <1>5, <1>8, DropKidIs DEF nodes, Branches
<1>10. /\ Tree(F2, P2, root) /\ n \in DOMAIN F2
       /\ \A x : x \in DOMAIN F2 <=> x \in DOMAIN forest /\ ~Pre(path[m], path[x])
       /\ \A x \in DOMAIN F2 : P2[x] = path[x] /\ F2[x].val = forest[x].val
       /\ \A x \in DOMAIN F2 : x # n => F2[x] = forest[x]
  BY <1>5, <1>7, <1>8, <1>9, Dropped
<1>11. Links(F2, P2, root, V) /\ LeadsTo(F2, P2, V, n)
  BY <1>5, <1>8, <1>9, DropLinks
<1>12. Nodes'
  BY <1>1, <1>4, <1>5, <1>8, <1>9, DroppedNodes
<1>13. InCall' /\ OnTheWay' /\ Visits'
  BY <1>1, <1>5 DEF InCall, OnTheWay, Visits
<1>14. Chain'
  BY <1>1, <1>4, <1>11 DEF Chain
<1>15. Tidy'
  <2>1. n = focus'
    <3>1. n = IF V = <<>> THEN root ELSE F2[V[Len(V)][1]].kids[V[Len(V)][2]]
      BY <1>8, <1>11, FocusIs
    <3>2. visited' = V
      BY <1>1, <1>4
    <3>. QED
      BY <1>1, <1>4, <3>1, <3>2 DEF focus, last
  <2>2. ASSUME tidy, NEW x \in nodes', ~Useful(x)' PROVE x = n
    <3>1. Useful(x) /\ (x # n => F2[x] = forest[x])
      BY <1>1, <1>4, <1>10, <2>2 DEF IInv, Tidy, Compressed, nodes
    <3>2. F2[x] = forest[x] => (Useful(x)' <=> Useful(x))
      BY <1>4 DEF Useful, Bare, Branches
    <3>. QED
      BY <2>2, <3>1, <3>2
  <2>3. tidy => OneUseless'
    BY <2>2 DEF OneUseless
  <2>4. tidy => (\A x \in nodes : ~Useful(x) /\ Branches(x) = {} => x = focus)'
    BY <2>1, <2>2
  <2>. QED
    BY <1>1, <2>3, <2>4 DEF Tidy
<1>16. PICK S : S = Map!Extensions(call.key)
  OBVIOUS
<1>17. S = {k \in DOMAIN contents : Pre(call.key, k)}
  BY <1>5, <1>16, ExtensionsAre
<1>18. Pre(call.key, path[m])
  BY <1>1, <1>3, EndsHere
<1>19. ASSUME NEW x \in ValuedIn(forest), path[x] \notin S PROVE x \in ValuedIn(F2)
  <2>1. x \in Valued /\ x \in DOMAIN forest
    BY DEF Valued, ValuedIn, Bare, nodes
  <2>2. path[x] \in DOMAIN contents /\ path[x] \in Texts
    BY <1>5, <2>1, KeysAre, TreeNode
  <2>3. ~Pre(path[m], path[x])
    BY <1>5, <1>17, <1>18, <1>19, <2>2, PreTrans
  <2>. QED
    BY <1>10, <2>1, <2>3 DEF ValuedIn
<1>20. ASSUME NEW y \in ValuedIn(F2) PROVE y \in ValuedIn(forest) /\ path[y] \notin S
  <2>1. y \in ValuedIn(forest) /\ y \in DOMAIN forest /\ ~Pre(path[m], path[y])
    BY <1>10 DEF ValuedIn
  <2>2. ~Pre(call.key, path[y])
    BY <1>5, <2>1, OnlyWay
  <2>. QED
    BY <1>17, <2>1, <2>2
<1>21. ValuedIn(F2) \subseteq DOMAIN F2
  BY DEF ValuedIn
<1>22. contents' = Map!Without(S)
  <2>1. Keeps(forest, path, S, F2, P2) /\ Keeps(F2, P2, {}, forest, path)
    BY <1>10, <1>19, <1>20, <1>21 DEF Keeps
  <2>2. \A y \in ValuedIn(F2) : P2[y] \notin S
    BY <1>10, <1>20, <1>21
  <2>3. Tree(forest', path', root')
    BY <1>1, <1>4, <1>10
  <2>. QED
    BY <1>4, <1>5, <2>1, <2>2, <2>3, MapLess
<1>23. unvisited' = unvisited /\ Map!NoCall = NoCall
  BY <1>1, <1>5, NoneLeft, NoneLeftNext DEF Map!NoCall, NoCall
<1>24. MapStep
  BY <1>1, <1>5, <1>16, <1>22, <1>23
     DEF MapStep, Map!Next, Map!RemovePrefix, Map!Returns
<1>. QED
  BY <1>12, <1>13, <1>14, <1>15, <1>24 DEF IInv

------------------------------------------------------------------------------
(* compress                                                                *)

(* Nothing goes on from the path of a leaf.                                *)
LEMMA LeafIs ==
  ASSUME Tree(forest, path, root), NEW c \in nodes, Branches(c) = {},
         NEW x \in nodes, Pre(path[c], path[x])
  PROVE  x = c
BY TreeWay DEF nodes, Branches

LEMMA UsefulSame ==
  ASSUME NEW x, NEW F2, F2 = forest', F2[x].val = forest[x].val, F2[x].kids = forest[x].kids
  PROVE  Useful(x)' <=> Useful(x)
BY DEF Useful, Bare, Branches

LEMMA ClimbStep ==
  ASSUME IInv, Climb
  PROVE  IInv' /\ MapStep
<1>1. PICK n, b : n = last[1] /\ b = last[2]
  OBVIOUS
<1>2. PICK c : c = forest[n].kids[b]
  OBVIOUS
<1>3. PICK V : V = before
  OBVIOUS
<1>4. /\ step = "compress" /\ visited # <<>>
      /\ IF Branches(c) = {} /\ Bare(c) THEN DropKid(n, b) ELSE UNCHANGED <<forest, path>>
      /\ cur' = n /\ visited' = V /\ step' = "join"
      /\ UNCHANGED <<root, call, rest, todo, ret, tidy>>
  BY <1>1, <1>2, <1>3 DEF Climb
<1>5. /\ Nodes /\ Tree(forest, path, root) /\ Links(forest, path, root, visited)
      /\ call = NoCall /\ todo = {} /\ root # None
      /\ ret \in Values \cup {None} \cup (Texts \X Values)
  BY <1>4 DEF IInv, Nodes, Chain, InCall
<1>6. /\ n \in DOMAIN forest /\ b \in DOMAIN forest[n].kids
      /\ Links(forest, path, root, V) /\ LeadsTo(forest, path, V, n)
  BY <1>1, <1>3, <1>4, <1>5, LastIs
<1>7. c \in nodes /\ c # n
  BY <1>2, <1>5, <1>6, TreeKid DEF nodes
<1>8. c = focus
  BY <1>1, <1>2, <1>4 DEF focus
<1>9. CASE ~(Branches(c) = {} /\ Bare(c))
  <2>1. UNCHANGED <<forest, path>>
    BY <1>4, <1>9
  <2>2. Nodes'
    BY <1>4, <1>5, <2>1 DEF Nodes, nodes, Bare
  <2>3. InCall' /\ OnTheWay' /\ Visits'
    BY <1>4, <1>5, <1>6, <2>1 DEF InCall, OnTheWay, Visits, nodes
  <2>4. Chain'
    BY <1>4, <1>6, <2>1 DEF Chain
  <2>5. Tidy'
    <3>1. \A x \in nodes : /\ Useful(x)' <=> Useful(x)
                           /\ Branches(x)' = Branches(x)
      BY <2>1 DEF Useful, Bare, Branches
    <3>2. nodes' = nodes
      BY <2>1 DEF nodes
    <3>3. ASSUME tidy, NEW x \in nodes, ~Useful(x) PROVE Branches(x) # {}
      <4>1. Branches(x) = {} => x = c
        BY <1>4, <1>8, <3>3 DEF IInv, Tidy
      <4>. QED
        BY <1>9, <3>3, <4>1 DEF Useful
    <3>4. tidy => OneUseless
      BY <1>4 DEF IInv, Tidy
    <3>. QED
      BY <1>4, <3>1, <3>2, <3>3, <3>4 DEF Tidy, OneUseless
  <2>6. MapStep
    BY <1>4, <1>5, <2>1, SameTree, NoneLeft, NoneLeftNext DEF MapStep
  <2>. QED
    BY <2>2, <2>3, <2>4, <2>5, <2>6 DEF IInv
<1>10. CASE Branches(c) = {} /\ Bare(c)
  <2>1. PICK F2, P2 : F2 = forest' /\ P2 = path'
    OBVIOUS
  <2>2. DropOf(forest, path, n, b, F2, P2)
    BY <1>4, <1>5, <1>6, <1>10, <2>1, DropKidIs DEF nodes, Branches
  <2>3. /\ Tree(F2, P2, root) /\ n \in DOMAIN F2
        /\ \A x : x \in DOMAIN F2 <=> x \in DOMAIN forest /\ ~Pre(path[c], path[x])
        /\ \A x \in DOMAIN F2 : P2[x] = path[x] /\ F2[x].val = forest[x].val
        /\ \A x \in DOMAIN F2 : x # n => F2[x] = forest[x]
        /\ \A d \in DOMAIN forest[n].kids : d # b => d \in DOMAIN F2[n].kids
    BY <1>2, <1>5, <1>6, <2>2, Dropped
  <2>4. Links(F2, P2, root, V) /\ LeadsTo(F2, P2, V, n)
    BY <1>5, <1>6, <2>2, DropLinks
  <2>5. Nodes'
    BY <1>4, <1>5, <1>6, <2>1, <2>2, DroppedNodes
  <2>6. InCall' /\ OnTheWay' /\ Visits'
    BY <1>4, <1>5, <2>1, <2>3 DEF InCall, OnTheWay, Visits, nodes
  <2>7. Chain'
    BY <1>4, <2>1, <2>4 DEF Chain
  <2>8. \A x : x \in DOMAIN F2 <=> x \in nodes /\ x # c
    <3>1. Pre(path[c], path[c])
      BY <1>5, <1>7, TreeNode, PreRefl DEF nodes
    <3>. QED
      BY <1>5, <1>7, <1>10, <2>3, <3>1, LeafIs DEF nodes
  <2>9. Tidy'
    <3>1. \A x \in nodes' : x \in nodes /\ x \in DOMAIN F2 /\ x # c
      BY <2>1, <2>8 DEF nodes
    <3>2. ASSUME tidy, NEW x \in nodes, x # c PROVE Useful(x)
      <4>1. ~Useful(c) /\ OneUseless
        BY <1>4, <1>10, <3>2 DEF Useful, IInv, Tidy
      <4>. QED
        BY <1>7, <3>2, <4>1 DEF OneUseless
    <3>3. ASSUME tidy, NEW x \in nodes', ~Useful(x)' PROVE x = n
      <4>1. x # n => F2[x] = forest[x]
        BY <2>3, <3>1, <3>3
      <4>2. F2[x] = forest[x] => (Useful(x)' <=> Useful(x))
        BY <2>1 DEF Useful, Bare, Branches
      <4>. QED
        BY <3>1, <3>2, <3>3, <4>1, <4>2
    <3>4. ASSUME tidy, ~Useful(n)' PROVE Branches(n)' # {}
      <4>1. forest[n].val # None \/ \E d, e \in DOMAIN forest[n].kids : d # e
        BY <1>6, <1>7, <3>2, <3>4 DEF Useful, Bare, Branches, nodes
      <4>2. F2[n].val = None
        BY <2>1, <3>4 DEF Useful, Bare
      <4>3. \E d \in DOMAIN forest[n].kids : d # b
        BY <2>3, <4>1, <4>2
      <4>. QED
        BY <2>1, <2>3, <4>3 DEF Branches
    <3>5. tidy => OneUseless'
      BY <3>3 DEF OneUseless
    <3>6. ASSUME tidy, NEW x \in nodes', ~Useful(x)' PROVE Branches(x)' # {}
      <4>1. x = n
        BY <3>3, <3>6
      <4>2. ~Useful(n)'
        BY <3>6, <4>1
      <4>. QED
        BY <3>4, <3>6, <4>1, <4>2
    <3>. QED
      BY <1>4, <3>5, <3>6 DEF Tidy
  <2>10. MapStep
    <3>1. Keeps(forest, path, {}, F2, P2)
      BY <1>10, <2>3, <2>8 DEF Keeps, ValuedIn, Bare, nodes
    <3>2. Keeps(F2, P2, {}, forest, path)
      BY <2>3 DEF Keeps, ValuedIn
    <3>3. UNCHANGED <<contents, call, unvisited, ret>>
      BY <1>4, <1>5, <2>1, <2>3, <3>1, <3>2, Unseen
    <3>. QED
      BY <3>3 DEF MapStep
  <2>. QED
    BY <2>5, <2>6, <2>7, <2>9, <2>10 DEF IInv
<1>. QED
  BY <1>9, <1>10

LEMMA OnlyKidIs ==
  ASSUME NEW n, NEW b, Branches(n) = {b}
  PROVE  OnlyKid(n) = forest[n].kids[b] /\ DOMAIN forest[n].kids = {b}
<1>1. \A x \in {b} : x = b
  OBVIOUS
<1>2. (CHOOSE x \in {b} : TRUE) = b
  <2>1. (CHOOSE x \in {b} : TRUE) \in {b}
    OBVIOUS
  <2>. QED
    BY <2>1
<1>. QED
  BY <1>2 DEF OnlyKid, Branches

LEMMA JoinStep ==
  ASSUME IInv, Join
  PROVE  IInv' /\ MapStep
<1>1. PICK n : n = cur
  OBVIOUS
<1>2. PICK c : c = OnlyKid(n)
  OBVIOUS
<1>3. PICK F2, P2 : F2 = forest' /\ P2 = path'
  OBVIOUS
<1>4. /\ step = "join" /\ Joinable(n)
      /\ forest' = [x \in nodes \ {c} |-> IF x = n THEN Merged(n) ELSE forest[x]]
      /\ path' = [x \in nodes \ {c} |-> IF x = n THEN path[c] ELSE path[x]]
      /\ step' = "compress" /\ cur' = None
      /\ UNCHANGED <<root, call, rest, visited, todo, ret, tidy>>
  BY <1>1, <1>2 DEF Join
<1>5. /\ Nodes /\ Tree(forest, path, root) /\ n \in DOMAIN forest /\ n \in nodes
      /\ Links(forest, path, root, visited) /\ LeadsTo(forest, path, visited, n)
      /\ call = NoCall /\ todo = {} /\ root # None
      /\ ret \in Values \cup {None} \cup (Texts \X Values)
  BY <1>1, <1>4 DEF IInv, Nodes, Chain, InCall, nodes
<1>6. PICK b : Branches(n) = {b}
  BY <1>4 DEF Joinable
<1>7. Bare(n) /\ c = forest[n].kids[b] /\ DOMAIN forest[n].kids = {b}
  BY <1>2, <1>4, <1>6, OnlyKidIs DEF Joinable
<1>8. /\ c \in DOMAIN forest /\ c # n /\ Len(path[n]) < Len(path[c])
      /\ Len(path[n]) \in Nat /\ Len(path[c]) \in Nat
  BY <1>5, <1>7, TreeKid, TreeNode
<1>9. JoinOf(forest, path, n, b, F2, P2)
  BY <1>2, <1>3, <1>4, <1>7 DEF JoinOf, Merged, nodes
<1>10. /\ Tree(F2, P2, root)
       /\ P2[n] = path[c] /\ F2[n].val = forest[c].val /\ F2[n].kids = forest[c].kids
  <2>1. Tree(F2, P2, root)
    <3>1. Tree(forest, path, root) /\ n \in DOMAIN forest
      BY <1>5
    <3>2. DOMAIN forest[n].kids = {b} /\ c = forest[n].kids[b]
      BY <1>7
    <3>. QED
      BY <1>9, <3>1, <3>2, JoinTree
  <2>2. F2[n].val = forest[c].val /\ F2[n].kids = forest[c].kids
    <3>1. forest[c] \in NodesOver(DOMAIN forest)
      BY <1>5, <1>8, TreeNode
    <3>2. F2[n] = [forest[c] EXCEPT !.prefix = forest[n].prefix \o @]
      BY <1>2, <1>3, <1>4, <1>5, <1>8 DEF Merged
    <3>. QED
      BY <3>1, <3>2 DEF NodesOver
  <2>4. P2[n] = path[c]
    BY <1>3, <1>4, <1>5, <1>8
  <2>. QED
    BY <2>1, <2>2, <2>4
<1>11. /\ DOMAIN F2 = DOMAIN forest \ {c}
       /\ \A x \in DOMAIN F2 : x # n => P2[x] = path[x] /\ F2[x] = forest[x]
  BY <1>3, <1>4 DEF nodes
<1>12. nodes' = nodes \ {c} /\ nodes = DOMAIN forest /\ n \in DOMAIN F2
  BY <1>3, <1>5, <1>8, <1>11 DEF nodes
<1>13. Links(F2, P2, root, visited)
  <2>1. ASSUME NEW x \in DOMAIN forest, Len(path[x]) < Len(path[n])
        PROVE  x \in DOMAIN F2 /\ P2[x] = path[x] /\ F2[x].kids = forest[x].kids
    <3>1. Len(path[x]) \in Nat
      BY <1>5, TreeNode
    <3>2. x # n /\ x # c
      BY <1>8, <2>1, <3>1
    <3>. QED
      BY <1>11, <3>2
  <2>2. Len(path[n]) <= Len(P2[n]) /\ Len(P2[n]) \in Nat
    BY <1>8, <1>10
  <2>. QED
    BY <1>5, <2>1, <2>2, LinksKept
<1>14. Nodes'
  <2>1. \A x \in nodes : forest[x].val # None => path[x] # <<>>
    BY <1>5 DEF Nodes, Bare
  <2>2. \A x \in nodes' : F2[x].val # None => P2[x] # <<>>
    BY <1>8, <1>10, <1>11, <1>12, <2>1
  <2>3. Tree(forest', path', root') /\ nodes' \subseteq Names
    BY <1>3, <1>4, <1>5, <1>10, <1>12 DEF Nodes
  <2>. QED
    BY <1>3, <1>4, <1>5, <2>2, <2>3 DEF Nodes, Bare
<1>15. InCall' /\ OnTheWay' /\ Visits'
  BY <1>4, <1>5 DEF InCall, OnTheWay, Visits
<1>16. Chain'
  BY <1>3, <1>4, <1>13 DEF Chain
<1>17. Tidy'
  <2>1. ASSUME tidy, NEW x \in nodes' PROVE Useful(x)'
    <3>1. ~Useful(n) /\ OneUseless
      BY <1>4, <1>6, <1>7, <2>1 DEF Useful, IInv, Tidy
    <3>2. \A y \in nodes : y # n => forest[y].val # None \/ \E d, e \in DOMAIN forest[y].kids : d # e
      BY <1>5, <3>1 DEF OneUseless, Useful, Bare, Branches
    <3>3. F2[x].val # None \/ \E d, e \in DOMAIN F2[x].kids : d # e
      BY <1>8, <1>10, <1>11, <1>12, <3>2, <2>1
    <3>. QED
      BY <1>3, <3>3 DEF Useful, Bare, Branches
  <2>. QED
    BY <1>4, <2>1 DEF Tidy, OneUseless
<1>18. MapStep
  <2>1. Keeps(forest, path, {}, F2, P2)
    BY <1>5, <1>7, <1>8, <1>10, <1>11, <1>12 DEF Keeps, ValuedIn, Bare
  <2>2. Keeps(F2, P2, {}, forest, path)
    BY <1>5, <1>7, <1>8, <1>10, <1>11, <1>12 DEF Keeps, ValuedIn, Bare
  <2>3. UNCHANGED <<contents, call, unvisited, ret>>
    BY <1>3, <1>4, <1>5, <1>10, <2>1, <2>2, Unseen
  <2>. QED
    BY <2>3 DEF MapStep
<1>. QED
  BY <1>14, <1>15, <1>16, <1>17, <1>18 DEF IInv

LEMMA SettleStep ==
  ASSUME IInv, Settle
  PROVE  IInv' /\ MapStep
<1>1. /\ step = "join" /\ step' = "compress" /\ cur' = None /\ visited' = <<>>
      /\ UNCHANGED <<forest, root, call, rest, todo, ret, path, tidy>>
  BY DEF Settle
<1>2. Nodes /\ call = NoCall /\ todo = {} /\ root # None
  BY <1>1 DEF IInv, InCall
<1>3. Nodes'
  BY <1>1, <1>2 DEF Nodes, nodes, Bare
<1>4. InCall' /\ OnTheWay' /\ Visits'
  BY <1>1, <1>2 DEF InCall, OnTheWay, Visits
<1>5. Chain'
  BY <1>1, NoLinks DEF Chain
<1>6. Tidy'
  <2>1. /\ nodes' = nodes
        /\ \A x \in nodes : (Useful(x)' <=> Useful(x)) /\ Branches(x)' = Branches(x)
    BY <1>1 DEF nodes, Useful, Bare, Branches
  <2>2. tidy => OneUseless /\ \A x \in nodes : ~Useful(x) => Branches(x) # {}
    BY <1>1 DEF IInv, Tidy
  <2>. QED
    BY <1>1, <2>1, <2>2 DEF Tidy, OneUseless
<1>7. MapStep
  BY <1>1, <1>2, SameTree, NoneLeft, NoneLeftNext DEF MapStep
<1>. QED
  BY <1>3, <1>4, <1>5, <1>6, <1>7 DEF IInv

(* What is left uncompressed when a removal from a compressed trie ends.   *)
OneLeft == \A n, m \in nodes : ~Useful(n) /\ ~Useful(m) => n = m /\ Branches(n) # {}

(* When compress has come to the root, a useless leaf can only be the root.*)
LEMMA AtRootIs ==
  ASSUME IInv, AtRoot
  PROVE  /\ step = "compress" /\ Nodes /\ Tree(forest, path, root)
         /\ call = NoCall /\ todo = {}
         /\ root \in DOMAIN forest /\ root \in nodes
         /\ ret \in Values \cup {None} \cup (Texts \X Values)
         /\ tidy => OneUseless
         /\ tidy => \A n \in nodes : ~Useful(n) /\ Branches(n) = {} => n = root
<1>1. /\ step = "compress" /\ visited = <<>> /\ Nodes /\ Tree(forest, path, root)
      /\ call = NoCall /\ todo = {} /\ root # None
      /\ ret \in Values \cup {None} \cup (Texts \X Values)
      /\ tidy => OneUseless
      /\ tidy => \A n \in nodes : ~Useful(n) /\ Branches(n) = {} => n = focus
  BY DEF IInv, InCall, Nodes, Tidy, AtRoot
<1>2. root \in DOMAIN forest /\ root \in nodes
  BY <1>1 DEF Tree, Rooted, nodes
<1>. QED
  BY <1>1, <1>2 DEF focus

LEMMA RootGoneStep ==
  ASSUME IInv, RootGone
  PROVE  IInv' /\ MapStep /\ OneLeft'
<1>1. /\ AtRoot /\ Bare(root) /\ Branches(root) = {}
      /\ forest' = <<>> /\ root' = None /\ path' = <<>> /\ Finish(ret)
  BY DEF RootGone
<1>2. /\ Nodes /\ Tree(forest, path, root) /\ call = NoCall /\ todo = {} /\ root \in nodes
      /\ ret \in Values \cup {None} \cup (Texts \X Values)
  BY <1>1, AtRootIs
<1>3. call' = call /\ ret' = ret /\ todo' = {}
  BY <1>1, <1>2 DEF Finish
<1>4. nodes' = {} /\ Tree(forest', path', root')
  BY <1>1, EmptyTree DEF nodes
<1>5. Nodes'
  BY <1>2, <1>3, <1>4 DEF Nodes
<1>6. IInv'
  BY <1>1, <1>5, FinishInv
<1>7. \A x \in nodes : x = root
  <2> SUFFICES ASSUME NEW x \in nodes PROVE x = root
    OBVIOUS
  <2>1. Pre(path[root], path[x])
    BY <1>2, TreeRoot DEF nodes
  <2>. QED
    BY <1>1, <1>2, <2>1, LeafIs
<1>8. ValuedIn(forest) = {} /\ ValuedIn(forest') = {}
  BY <1>1, <1>7 DEF ValuedIn, Bare, nodes
<1>9. UNCHANGED <<contents, call, unvisited, ret>>
  BY <1>2, <1>3, <1>4, <1>8, Unseen DEF Keeps
<1>. QED
  BY <1>4, <1>6, <1>9 DEF MapStep, OneLeft

LEMMA RootJoinStep ==
  ASSUME IInv, RootJoin
  PROVE  IInv' /\ MapStep /\ (tidy => OneLeft')
<1>1. PICK R : R = root
  OBVIOUS
<1>2. PICK c : c = OnlyKid(R)
  OBVIOUS
<1>3. PICK F2, P2 : F2 = forest' /\ P2 = path'
  OBVIOUS
<1>4. /\ AtRoot /\ Joinable(R)
      /\ forest' = [x \in nodes \ {R} |-> IF x = c THEN Merged(R) ELSE forest[x]]
      /\ path' = [x \in nodes \ {R} |-> path[x]]
      /\ root' = c /\ Finish(ret)
  BY <1>1, <1>2 DEF RootJoin
<1>5. /\ Nodes /\ Tree(forest, path, R) /\ Tree(forest, path, root)
      /\ call = NoCall /\ todo = {} /\ R \in nodes
      /\ R \in DOMAIN forest
      /\ ret \in Values \cup {None} \cup (Texts \X Values)
      /\ tidy => OneUseless
  BY <1>1, <1>4, AtRootIs
<1>6. call' = call /\ ret' = ret /\ todo' = {}
  BY <1>4, <1>5 DEF Finish
<1>7. PICK b : Branches(R) = {b}
  BY <1>4 DEF Joinable
<1>8. Bare(R) /\ c = forest[R].kids[b] /\ DOMAIN forest[R].kids = {b}
  BY <1>2, <1>4, <1>7, OnlyKidIs DEF Joinable
<1>9. c \in DOMAIN forest /\ c # R /\ c # None
  <2>1. c \in DOMAIN forest /\ c # R
    BY <1>5, <1>8, TreeKid
  <2>2. c \in Names
    BY <1>5, <2>1 DEF Nodes, nodes
  <2>. QED
    BY <2>1, <2>2, NoneAssumption
<1>10. RootJoinOf(forest, path, R, c, F2, P2)
  BY <1>2, <1>3, <1>4 DEF RootJoinOf, Merged, nodes
<1>11. Tree(F2, P2, c)
  BY <1>5, <1>8, <1>9, <1>10, RootJoinTree
<1>12. /\ DOMAIN F2 = nodes \ {R} /\ nodes' = nodes \ {R} /\ nodes = DOMAIN forest
       /\ \A x \in nodes \ {R} : P2[x] = path[x]
       /\ \A x \in nodes \ {R} : x # c => F2[x] = forest[x]
  BY <1>3, <1>4 DEF nodes
<1>13. F2[c].val = forest[c].val /\ F2[c].kids = forest[c].kids
  <2>1. forest[c] \in NodesOver(DOMAIN forest)
    BY <1>5, <1>9, TreeNode
  <2>2. F2[c] = [forest[c] EXCEPT !.prefix = forest[R].prefix \o @]
    BY <1>2, <1>3, <1>4, <1>9 DEF Merged, nodes
  <2>. QED
    BY <2>1, <2>2 DEF NodesOver
<1>14. \A x \in nodes \ {R} : F2[x].val = forest[x].val /\ F2[x].kids = forest[x].kids
  BY <1>12, <1>13
<1>15. Nodes'
  <2>1. \A x \in nodes : forest[x].val # None => path[x] # <<>>
    BY <1>5 DEF Nodes, Bare
  <2>2. \A x \in nodes' : F2[x].val # None => P2[x] # <<>>
    BY <1>12, <1>14, <2>1
  <2>3. Tree(forest', path', root') /\ nodes' \subseteq Names
    BY <1>3, <1>4, <1>5, <1>11, <1>12 DEF Nodes
  <2>. QED
    BY <1>3, <1>5, <1>6, <2>2, <2>3 DEF Nodes, Bare
<1>16. IInv'
  BY <1>4, <1>15, FinishInv
<1>17. MapStep
  <2>1. Keeps(forest, path, {}, F2, P2)
    BY <1>8, <1>12, <1>14 DEF Keeps, ValuedIn, Bare
  <2>2. Keeps(F2, P2, {}, forest, path)
    BY <1>12, <1>14 DEF Keeps, ValuedIn
  <2>3. UNCHANGED <<contents, call, unvisited, ret>>
    BY <1>3, <1>4, <1>5, <1>6, <1>11, <2>1, <2>2, Unseen
  <2>. QED
    BY <2>3 DEF MapStep
<1>18. ASSUME tidy PROVE OneLeft'
  <2>1. ASSUME NEW x \in nodes' PROVE Useful(x)'
    <3>1. ~Useful(R) /\ OneUseless
      BY <1>5, <1>7, <1>8, <1>18 DEF Useful
    <3>2. Useful(x)
      BY <1>5, <1>12, <2>1, <3>1 DEF OneUseless
    <3>. QED
      BY <1>3, <1>12, <1>14, <2>1, <3>2, UsefulSame
  <2>. QED
    BY <2>1 DEF OneLeft
<1>. QED
  BY <1>16, <1>17, <1>18

LEMMA RootKeptStep ==
  ASSUME IInv, RootKept
  PROVE  IInv' /\ MapStep /\ (tidy => OneLeft')
<1>1. /\ AtRoot /\ (Branches(root) = {} => ~Bare(root)) /\ Leave(ret)
  BY DEF RootKept
<1>2. /\ Nodes /\ call = NoCall /\ todo = {}
      /\ ret \in Values \cup {None} \cup (Texts \X Values)
      /\ tidy => OneUseless
      /\ tidy => \A n \in nodes : ~Useful(n) /\ Branches(n) = {} => n = root
  BY <1>1, AtRootIs
<1>3. call' = call /\ ret' = ret /\ todo' = {} /\ UNCHANGED <<forest, root, path>>
  BY <1>1, <1>2 DEF Leave, Finish
<1>4. IInv'
  BY <1>1, <1>2, LeaveInv
<1>5. MapStep
  BY <1>2, <1>3, SameTree, NoneLeft, NoneLeftNext DEF MapStep
<1>6. ASSUME tidy PROVE OneLeft'
  <2>1. /\ nodes' = nodes
        /\ \A x \in nodes : (Useful(x)' <=> Useful(x)) /\ Branches(x)' = Branches(x)
    BY <1>3 DEF nodes, Useful, Bare, Branches
  <2>2. \A x \in nodes : ~Useful(x) => Branches(x) # {}
    BY <1>1, <1>2, <1>6 DEF Useful
  <2>. QED
    BY <1>2, <1>6, <2>1, <2>2 DEF OneLeft, OneUseless
<1>. QED
  BY <1>4, <1>5, <1>6

------------------------------------------------------------------------------
(* for_each_prefix                                                         *)

(* What is still to be handed over lies below the nodes to visit.          *)
LEMMA UnvisitedIs ==
  ASSUME Tree(forest, path, root), \A f \in todo : f[1] \in nodes
  PROVE  \A k : k \in unvisited <=>
           \E x \in Valued : path[x] = k /\ \E f \in todo : Pre(path[f[1]], path[x])
<1>1. \A x \in Valued : x \in DOMAIN forest
  BY DEF Valued, nodes
<1>2. \A x \in DOMAIN forest : path[x] \in Texts
  BY TreeNode
<1>3. \A x \in Valued : \A f \in todo :
        Seqs!IsPrefix(path[f[1]], path[x]) <=> Pre(path[f[1]], path[x])
  BY <1>1, <1>2, PreIs DEF nodes
<1>. QED
  BY <1>3 DEF unvisited

LEMMA UnvisitedNext ==
  ASSUME Tree(forest, path, root), UNCHANGED <<forest, path>>, \A f \in todo' : f[1] \in nodes
  PROVE  \A k : k \in unvisited' <=>
           \E x \in Valued : path[x] = k /\ \E f \in todo' : Pre(path[f[1]], path[x])
<1>1. \A x \in Valued : x \in DOMAIN forest
  BY DEF Valued, nodes
<1>2. \A x \in DOMAIN forest : path[x] \in Texts
  BY TreeNode
<1>3. \A x \in Valued : \A f \in todo' :
        Seqs!IsPrefix(path[f[1]], path[x]) <=> Pre(path[f[1]], path[x])
  BY <1>1, <1>2, PreIs DEF nodes
<1>4. Valued' = Valued /\ path' = path
  BY SameTree
<1>5. unvisited' = {path[n] : n \in {x \in Valued :
                       \E f \in todo' : Seqs!IsPrefix(path[f[1]], path[x])}}
  BY <1>4, Zenon DEF unvisited
<1>. QED
  BY <1>3, <1>5

(* What is left of the node's prefix is what its key has after the prefix  *)
(* looked for.                                                             *)
LEMMA FoundIs ==
  ASSUME IInv, InWalk, Ends
  PROVE  /\ Drop(text, common) \in Texts
         /\ path[cur] = call.key \o Drop(text, common)
         /\ \A x \in nodes : Pre(path[cur], path[x]) <=> Pre(call.key, path[x])
<1>1. PICK a, l : a = Begin(forest, path, cur) /\ l = common
  OBVIOUS
<1>2. PICK p, key : p = path[cur] /\ key = call.key
  OBVIOUS
<1>3. /\ a \in Nat /\ l \in Nat /\ Len(p) \in Nat /\ Len(key) \in Nat
      /\ a + l <= Len(p) /\ Len(rest) = Len(key) - a
  BY <1>1, <1>2, AtCur
<1>4. /\ Tree(forest, path, root) /\ cur \in DOMAIN forest /\ key \in Texts /\ p \in Texts
      /\ Reached(forest, path, root, cur, key, rest)
  BY <1>2, InWalkIs
<1>5. l = Len(key) - a
  BY <1>1, <1>3 DEF Ends
<1>6. a + l = Len(key) /\ a \in 0 .. Len(p) /\ l \in 0 .. Len(p) - a
  BY <1>3, <1>5
<1>7. text = Drop(p, a)
  BY <1>1, <1>2, <1>4, PrefixIs DEF text
<1>8. Drop(text, l) = Drop(p, Len(key))
  <2>1. Drop(Drop(p, a), l) = Drop(p, a + l)
    BY <1>4, <1>6, DropTwice
  <2>. QED
    BY <1>6, <1>7, <2>1
<1>9. Pre(key, p)
  BY <1>2, EndsHere
<1>10. p = key \o Drop(p, Len(key))
  BY <1>4, <1>9, RestIs
<1>11. Drop(p, Len(key)) \in Texts
  <2>1. Len(key) \in 0 .. Len(p)
    BY <1>3, <1>6
  <2>. QED
    BY <1>4, <2>1, DropIs
<1>12. ASSUME NEW x \in nodes PROVE Pre(p, path[x]) <=> Pre(key, path[x])
  <2>1. x \in DOMAIN forest /\ path[x] \in Texts
    BY <1>4, TreeNode DEF nodes
  <2>2. Pre(p, path[x]) => Pre(key, path[x])
    BY <1>4, <1>9, <2>1, PreTrans
  <2>3. Pre(key, path[x]) => Pre(p, path[x])
    BY <1>2, <1>4, <2>1, OnlyWay
  <2>. QED
    BY <2>2, <2>3
<1>. QED
  BY <1>1, <1>2, <1>8, <1>10, <1>11, <1>12

LEMMA FindStep ==
  ASSUME IInv, Find
  PROVE  IInv' /\ MapStep
<1>1. /\ InWalk /\ step = "walk" /\ root # None /\ Ends /\ call.op = "for_each"
      /\ todo' = {<<cur, Drop(text, common)>>}
      /\ call' = [call EXCEPT !.op = "visit"]
      /\ step' = "visit" /\ cur' = None
      /\ UNCHANGED <<forest, root, visited, ret, path, tidy>>
  BY DEF Find, Walking, InWalk
<1>2. PICK m, t : m = cur /\ t = Drop(text, common)
  OBVIOUS
<1>3. /\ Nodes /\ Tree(forest, path, root) /\ call \in Calls /\ call.key \in Texts
      /\ m \in nodes /\ todo = {} /\ ret = None /\ visited = <<>> /\ root # None
  BY <1>1, <1>2, InWalkIs DEF IInv, InCall, Removals
<1>4. /\ t \in Texts /\ path[m] = call.key \o t
      /\ \A x \in nodes : Pre(path[m], path[x]) <=> Pre(call.key, path[x])
  BY <1>1, <1>2, FoundIs
<1>5. call'.op = "visit" /\ call'.key = call.key
  BY <1>1, <1>3 DEF Calls
<1>6. /\ todo' = {<<m, t>>} /\ <<m, t>>[1] = m /\ <<m, t>>[2] = t
  BY <1>1, <1>2
<1>7. Nodes'
  BY <1>1, <1>3 DEF Nodes, nodes, Bare
<1>8. InCall' /\ OnTheWay'
  BY <1>1, <1>3, <1>5 DEF InCall, OnTheWay
<1>9. Chain'
  BY <1>1, <1>3, NoLinks DEF Chain
<1>10. nodes' = nodes
  BY <1>1 DEF nodes
<1>11. Visits'
  <2>1. \A f \in todo' : f = <<m, t>>
    BY <1>6
  <2>2. \A f \in todo' : f \in nodes \X Texts /\ path[f[1]] = call.key \o f[2]
    BY <1>3, <1>4, <1>6
  <2>. QED
    BY <1>1, <1>5, <1>10, <2>1, <2>2 DEF Visits
<1>12. Tidy'
  BY <1>1 DEF Tidy
<1>13. unvisited' = Map!Extensions(call.key)
  <2>1. \A k : k \in unvisited' <=>
          \E x \in Valued : path[x] = k /\ \E f \in todo' : Pre(path[f[1]], path[x])
    <3>1. \A f \in todo' : f[1] \in nodes
      BY <1>3, <1>6
    <3>. QED
      BY <1>1, <1>3, <3>1, UnvisitedNext
  <2>2. \A k : k \in unvisited' <=> \E x \in Valued : path[x] = k /\ Pre(call.key, k)
    <3>1. Valued \subseteq nodes
      BY DEF Valued
    <3>2. ASSUME NEW x PROVE (\E f \in todo' : Pre(path[f[1]], path[x])) <=> Pre(path[m], path[x])
      BY <1>6
    <3>3. \A x \in Valued : (\E f \in todo' : Pre(path[f[1]], path[x])) <=> Pre(call.key, path[x])
      BY <1>4, <3>1, <3>2
    <3>. QED
      BY <2>1, <3>3
  <2>3. \A k : k \in DOMAIN contents <=> \E x \in Valued : path[x] = k
    BY <1>3, KeysAre
  <2>4. Map!Extensions(call.key) = {k \in DOMAIN contents : Pre(call.key, k)}
    BY <1>3, ExtensionsAre
  <2>. QED
    BY <2>2, <2>3, <2>4
<1>14. MapStep
  BY <1>1, <1>13, SameTree DEF MapStep, Map!Next, Map!Find
<1>. QED
  BY <1>7, <1>8, <1>9, <1>11, <1>12, <1>14 DEF IInv

LEMMA EndVisitsStep ==
  ASSUME IInv, EndVisits
  PROVE  IInv' /\ MapStep
<1>1. step = "visit" /\ todo = {} /\ Leave(ret)
  BY DEF EndVisits
<1>2. Nodes /\ call.op = "visit" /\ ret \in Values \cup {None} \cup (Texts \X Values)
  BY <1>1 DEF IInv, InCall, Nodes
<1>3. IInv'
  BY <1>1, <1>2, LeaveInv
<1>4. /\ call' = NoCall /\ ret' = ret /\ contents' = contents
      /\ unvisited = {} /\ unvisited' = {} /\ Map!NoCall = NoCall
  BY <1>1, SameTree, NoneLeft, NoneLeftNext DEF Leave, Finish, Map!NoCall, NoCall
<1>. QED
  BY <1>2, <1>3, <1>4 DEF MapStep, Map!Next, Map!EndVisits, Map!Returns

(* A child's key goes on where its parent's ends.                          *)
LEMMA JoinAssociates ==
  ASSUME NEW p \in Texts, NEW s \in Texts, NEW t \in Texts
  PROVE  /\ s \o t \in Texts
         /\ (p \o s) \o t = p \o (s \o t)
<1>1. p \in Seq(Bytes) /\ s \in Seq(Bytes) /\ t \in Seq(Bytes)
  BY Zenon DEF Texts
<1>2. (p \o s) \o t = p \o (s \o t)
  <2>1. p \o (s \o t) = (p \o s) \o t
    BY ONLY <1>1, ConcatAssociative, SMTT(30)
  <2>. QED
    BY <2>1
<1>. QED
  BY <1>2, JoinIs

KidBelow(F, P, n, b, c) ==
  /\ c \in DOMAIN F /\ Pre(P[n], P[c]) /\ Len(P[n]) < Len(P[c])
  /\ P[c][Len(P[n]) + 1] = b
  /\ P[n] \in Texts /\ P[c] \in Texts /\ F[c].prefix \in Texts
  /\ P[c] = P[n] \o F[c].prefix

LEMMA KidHas ==
  ASSUME NEW F, NEW P, NEW R, Tree(F, P, R), NEW n \in DOMAIN F, NEW b \in DOMAIN F[n].kids
  PROVE  KidBelow(F, P, n, b, F[n].kids[b])
<1>0. PICK c : c = F[n].kids[b]
  OBVIOUS
<1>1. /\ c \in DOMAIN F /\ Pre(P[n], P[c]) /\ Len(P[n]) < Len(P[c])
      /\ P[c][Len(P[n]) + 1] = b /\ F[c].prefix = Drop(P[c], Len(P[n]))
  BY <1>0, TreeKid
<1>2. P[n] \in Texts /\ P[c] \in Texts /\ F[c].prefix \in Texts
  BY <1>1, TreeNode
<1>3. P[c] = P[n] \o F[c].prefix
  BY <1>1, <1>2, RestIs
<1>. QED
  BY <1>0, <1>1, <1>2, <1>3 DEF KidBelow

Continues(P, n, key, s) == s \in Texts /\ P[n] = key \o s

(* The suffix handed to a child is what follows the prefix in its path.    *)
LEMMA KidSuffix ==
  ASSUME NEW F, NEW P, NEW n, NEW b, NEW c, KidBelow(F, P, n, b, c),
         NEW key \in Texts, NEW s, Continues(P, n, key, s)
  PROVE  Continues(P, c, key, s \o F[c].prefix)
<1>0. s \in Texts /\ P[n] = key \o s
  BY DEF Continues
<1>1. PICK t : t = F[c].prefix
  OBVIOUS
<1>2. t \in Texts /\ P[c] = P[n] \o t
  BY <1>1 DEF KidBelow
<1>3. s \o t \in Texts /\ (key \o s) \o t = key \o (s \o t)
  BY <1>0, <1>2, JoinAssociates
<1>. QED
  BY <1>0, <1>1, <1>2, <1>3 DEF Continues

(* The children take their parent's place among the nodes to be visited.   *)
Apart(F, P, T) ==
  /\ \A f \in T : f[1] \in DOMAIN F
  /\ \A f, g \in T : Pre(P[f[1]], P[g[1]]) => f = g
KidVisits(F, n, s) ==
  {<<c, s \o F[c].prefix>> : c \in {F[n].kids[b] : b \in DOMAIN F[n].kids}}

VisitOf(F, s, c, f) ==
  f = <<c, s \o F[c].prefix>> /\ f[1] = c /\ f[2] = s \o F[c].prefix

LEMMA KidVisit ==
  ASSUME NEW F, NEW n, NEW s, NEW f, f \in KidVisits(F, n, s)
  PROVE  \E b \in DOMAIN F[n].kids : VisitOf(F, s, F[n].kids[b], f)
<1>1. PICK c \in {F[n].kids[b] : b \in DOMAIN F[n].kids} : f = <<c, s \o F[c].prefix>>
  BY DEF KidVisits
<1>2. PICK b \in DOMAIN F[n].kids : c = F[n].kids[b]
  BY <1>1
<1>3. f[1] = c /\ f[2] = s \o F[c].prefix
  BY <1>1
<1>. QED
  BY <1>1, <1>2, <1>3 DEF VisitOf

(* The ways of the nodes to visit stay apart when children replace their   *)
(* parent,                                                                 *)
LEMMA ApartNext ==
  ASSUME NEW F, NEW P, NEW R, Tree(F, P, R), NEW T, Apart(F, P, T),
         NEW e \in T, NEW n, n = e[1], NEW s,
         NEW T2, T2 = (T \ {e}) \cup KidVisits(F, n, s)
  PROVE  Apart(F, P, T2)
<1>1. n \in DOMAIN F /\ P[n] \in Texts
  BY TreeNode DEF Apart
<1>2. ASSUME NEW f \in KidVisits(F, n, s)
      PROVE  /\ f[1] \in DOMAIN F /\ P[f[1]] \in Texts
             /\ Pre(P[n], P[f[1]]) /\ Len(P[n]) < Len(P[f[1]])
             /\ \E b \in DOMAIN F[n].kids :
                  /\ VisitOf(F, s, F[n].kids[b], f)
                  /\ P[f[1]][Len(P[n]) + 1] = b
  <2>1. PICK b \in DOMAIN F[n].kids : VisitOf(F, s, F[n].kids[b], f)
    BY KidVisit
  <2>2. PICK c : c = f[1] /\ c = F[n].kids[b]
    BY <2>1 DEF VisitOf
  <2>3. /\ c \in DOMAIN F /\ Pre(P[n], P[c]) /\ Len(P[n]) < Len(P[c])
        /\ P[c][Len(P[n]) + 1] = b
    BY <1>1, <2>1, <2>2, TreeKid
  <2>. QED
    BY <2>1, <2>2, <2>3, TreeNode
<1>3. \A f \in T2 : (f \in T /\ f # e) \/ f \in KidVisits(F, n, s)
  OBVIOUS
<1>4. ASSUME NEW f \in T, f # e
      PROVE  /\ f[1] \in DOMAIN F /\ P[f[1]] \in Texts
             /\ ~Pre(P[n], P[f[1]]) /\ ~Pre(P[f[1]], P[n])
  BY <1>4, TreeNode DEF Apart
<1>5. \A f \in T2 : f[1] \in DOMAIN F
  BY <1>2, <1>3, <1>4
<1>6. ASSUME NEW f \in T2, NEW g \in T2, Pre(P[f[1]], P[g[1]]) PROVE f = g
  <2>1. CASE f \in T /\ f # e /\ g \in T /\ g # e
    BY <1>6, <2>1 DEF Apart
  <2>2. CASE f \in T /\ f # e /\ g \in KidVisits(F, n, s)
    <3>1. PICK p, q, r : p = P[f[1]] /\ q = P[n] /\ r = P[g[1]]
      OBVIOUS
    <3>2. p \in Texts /\ q \in Texts /\ r \in Texts /\ Pre(p, r) /\ Pre(q, r)
      BY <1>1, <1>2, <1>4, <1>6, <2>2, <3>1
    <3>3. Len(p) \in Nat /\ Len(q) \in Nat
      BY <3>2, TextIs
    <3>4. Pre(p, q) \/ Pre(q, p)
      <4>1. CASE Len(p) <= Len(q)
        BY <3>2, <4>1, PreBoth
      <4>2. CASE Len(q) <= Len(p)
        BY <3>2, <4>2, PreBoth
      <4>. QED
        BY <3>3, <4>1, <4>2
    <3>. QED
      BY <1>4, <2>2, <3>1, <3>4
  <2>3. CASE f \in KidVisits(F, n, s) /\ g \in T /\ g # e
    <3>1. Pre(P[n], P[g[1]])
      BY <1>1, <1>2, <1>4, <1>6, <2>3, PreTrans
    <3>. QED
      BY <1>4, <2>3, <3>1
  <2>4. CASE f \in KidVisits(F, n, s) /\ g \in KidVisits(F, n, s)
    <3>1. PICK b \in DOMAIN F[n].kids :
            /\ VisitOf(F, s, F[n].kids[b], f)
            /\ P[f[1]][Len(P[n]) + 1] = b
      BY <1>2, <2>4
    <3>2. PICK d \in DOMAIN F[n].kids :
            /\ VisitOf(F, s, F[n].kids[d], g)
            /\ P[g[1]][Len(P[n]) + 1] = d
      BY <1>2, <2>4
    <3>3. P[f[1]][Len(P[n]) + 1] = P[g[1]][Len(P[n]) + 1]
      <4>1. PICK p, q, l : p = P[f[1]] /\ q = P[g[1]] /\ l = Len(P[n])
        OBVIOUS
      <4>2. p \in Texts /\ l < Len(p) /\ l \in Nat /\ Pre(p, q)
        BY <1>1, <1>2, <1>6, <2>4, <4>1, TextIs
      <4>3. l + 1 \in 1 .. Len(p)
        BY <4>2, TextIs
      <4>4. p[l + 1] = q[l + 1]
        BY <4>2, <4>3 DEF Pre
      <4>. QED
        BY <4>1, <4>4
    <3>4. F[n].kids[b] = F[n].kids[d]
      BY <3>1, <3>2, <3>3
    <3>. QED
      BY <3>1, <3>2, <3>4, Zenon DEF VisitOf
  <2>. QED
    BY <1>3, <2>1, <2>2, <2>3, <2>4
<1>. QED
  BY <1>5, <1>6 DEF Apart

(* ... and the node is the only one that is no longer below them.          *)
Reaches(P, T, x) == \E f \in T : Pre(P[f[1]], P[x])
Visited(F, T, e, s, T2) == T2 = (T \ {e}) \cup KidVisits(F, e[1], s)
ReachesLess(P, T, n, T2, x) == Reaches(P, T2, x) <=> x # n /\ Reaches(P, T, x)

(* and but for the parent the same nodes are below them.                   *)
LEMMA BelowNext ==
  ASSUME NEW F, NEW P, NEW R, Tree(F, P, R), NEW T, Apart(F, P, T),
         NEW e \in T, NEW s, NEW T2, Visited(F, T, e, s, T2), NEW x \in DOMAIN F
  PROVE  ReachesLess(P, T, e[1], T2, x)
<1>0. PICK n : n = e[1] /\ T2 = (T \ {e}) \cup KidVisits(F, n, s)
  BY DEF Visited
<1>1. n \in DOMAIN F /\ P[n] \in Texts /\ P[x] \in Texts /\ Len(P[n]) \in Nat
  BY <1>0, TreeNode DEF Apart
<1>2. ASSUME NEW f \in T2, Pre(P[f[1]], P[x])
      PROVE  x # n /\ \E g \in T : Pre(P[g[1]], P[x])
  <2>1. CASE f \in T /\ f # e
    <3>1. ~Pre(P[f[1]], P[n])
      BY <1>0, <2>1 DEF Apart
    <3>. QED
      BY <1>2, <2>1, <3>1
  <2>2. CASE f \in KidVisits(F, n, s)
    <3>1. PICK b \in DOMAIN F[n].kids : VisitOf(F, s, F[n].kids[b], f)
      BY <2>2, KidVisit
    <3>2. PICK c : c = f[1] /\ c = F[n].kids[b]
      BY <3>1 DEF VisitOf
    <3>3. c \in DOMAIN F /\ Pre(P[n], P[c]) /\ Len(P[n]) < Len(P[c])
      BY <1>1, <3>1, <3>2, TreeKid
    <3>4. P[c] \in Texts /\ Pre(P[c], P[x])
      BY <1>2, <3>2, <3>3, TreeNode
    <3>5. Pre(P[n], P[x])
      BY <1>1, <3>3, <3>4, PreTrans
    <3>6. Len(P[c]) <= Len(P[x]) /\ Len(P[c]) \in Nat /\ Len(P[x]) \in Nat
      BY <1>1, <3>4, TextIs DEF Pre
    <3>7. x # n
      BY <1>1, <3>3, <3>6
    <3>. QED
      BY <1>0, <3>5, <3>7
  <2>. QED
    BY <1>0, <1>2, <2>1, <2>2
<1>3. ASSUME x # n, NEW f \in T, Pre(P[f[1]], P[x])
      PROVE  \E g \in T2 : Pre(P[g[1]], P[x])
  <2>1. CASE f # e
    BY <1>0, <1>3, <2>1
  <2>2. CASE f = e
    <3>1. PICK b : b = P[x][Len(P[n]) + 1]
      OBVIOUS
    <3>2. b \in DOMAIN F[n].kids /\ Pre(P[F[n].kids[b]], P[x])
      BY <1>0, <1>1, <1>3, <2>2, <3>1, TreeWay
    <3>3. PICK g : g = <<F[n].kids[b], s \o F[F[n].kids[b]].prefix>>
      OBVIOUS
    <3>4. g \in KidVisits(F, n, s) /\ g[1] = F[n].kids[b]
      BY <3>2, <3>3 DEF KidVisits
    <3>. QED
      BY <1>0, <3>2, <3>4
  <2>. QED
    BY <2>1, <2>2
<1>. QED
  BY <1>0, <1>2, <1>3 DEF Reaches, ReachesLess

LEMMA VisitStep ==
  ASSUME IInv, NEW f \in todo, Visit(f[1], f[2])
  PROVE  IInv' /\ MapStep
<1>1. PICK n, s : n = f[1] /\ s = f[2]
  OBVIOUS
<1>2. /\ step = "visit"
      /\ ret' = IF Bare(n) THEN ret ELSE <<s, forest[n].val>>
      /\ todo' = (todo \ {<<n, s>>}) \cup {<<c, s \o forest[c].prefix>> : c \in Kids(n)}
      /\ UNCHANGED <<forest, root, call, step, cur, rest, visited, path, tidy>>
  BY <1>1 DEF Visit
<1>3. /\ Nodes /\ Tree(forest, path, root) /\ call.op = "visit" /\ call.key \in Texts
      /\ visited = <<>> /\ cur = None
  BY <1>2 DEF IInv, InCall, Nodes
<1>4. /\ f \in nodes \X Texts /\ path[n] = call.key \o s
      /\ \A g \in todo : g \in nodes \X Texts /\ path[g[1]] = call.key \o g[2]
      /\ \A g, h \in todo : Pre(path[g[1]], path[h[1]]) => g = h
  BY <1>1 DEF IInv, Visits
<1>5. n \in nodes /\ n \in DOMAIN forest /\ s \in Texts /\ f = <<n, s>>
  BY <1>1, <1>4 DEF nodes
<1>6. PICK T2 : T2 = todo'
  OBVIOUS
<1>7. T2 = (todo \ {f}) \cup KidVisits(forest, n, s)
  BY <1>2, <1>5, <1>6 DEF KidVisits, Kids, Branches
<1>8. Apart(forest, path, todo)
  BY <1>4 DEF Apart, nodes
<1>9. Apart(forest, path, T2)
  BY <1>1, <1>3, <1>7, <1>8, ApartNext
<1>10. \A g \in T2 : g \in nodes \X Texts /\ path[g[1]] = call.key \o g[2]
  <2>1. ASSUME NEW g \in KidVisits(forest, n, s)
        PROVE  g \in nodes \X Texts /\ path[g[1]] = call.key \o g[2]
    <3>1. PICK b \in DOMAIN forest[n].kids : VisitOf(forest, s, forest[n].kids[b], g)
      BY KidVisit
    <3>2. PICK c : c = forest[n].kids[b]
      OBVIOUS
    <3>3. KidBelow(forest, path, n, b, c)
      BY <1>3, <1>5, <3>1, <3>2, KidHas
    <3>4. s \o forest[c].prefix \in Texts /\ path[c] = call.key \o (s \o forest[c].prefix)
      <4>1. PICK key : key = call.key
        OBVIOUS
      <4>2. key \in Texts /\ Continues(path, n, key, s)
        BY <1>3, <1>4, <1>5, <4>1 DEF Continues
      <4>3. Continues(path, c, key, s \o forest[c].prefix)
        BY <3>3, <4>2, KidSuffix
      <4>. QED
        BY <4>1, <4>3 DEF Continues
    <3>5. /\ g = <<c, s \o forest[c].prefix>> /\ g[1] = c /\ g[2] = s \o forest[c].prefix
          /\ c \in nodes
      BY <3>1, <3>2, <3>3 DEF VisitOf, KidBelow, nodes
    <3>. QED
      BY <3>4, <3>5
  <2>. QED
    BY <1>4, <1>7, <2>1
<1>11. ret' \in Values \cup {None} \cup (Texts \X Values)
  <2>1. forest[n].val \in Values \cup {None}
    BY <1>3, <1>5, TreeNode
  <2>. QED
    BY <1>2, <1>3, <1>5, <2>1 DEF Nodes, Bare
<1>12. Nodes'
  BY <1>2, <1>3, <1>11 DEF Nodes, nodes, Bare
<1>13. InCall' /\ OnTheWay'
  BY <1>2, <1>3 DEF InCall, OnTheWay
<1>14. Chain'
  BY <1>2, <1>3, NoLinks DEF Chain
<1>15. Visits'
  BY <1>2, <1>6, <1>9, <1>10 DEF Visits, Apart, nodes
<1>16. Tidy'
  BY <1>2 DEF Tidy
<1>17. \A k : k \in unvisited' <=>
         \E x \in Valued : path[x] = k /\ x # n /\ \E g \in todo : Pre(path[g[1]], path[x])
  <2>1. \A k : k \in unvisited' <=>
          \E x \in Valued : path[x] = k /\ \E g \in T2 : Pre(path[g[1]], path[x])
    <3>1. \A g \in todo' : g[1] \in nodes
      BY <1>6, <1>10
    <3>. QED
      BY <1>2, <1>3, <1>6, <3>1, UnvisitedNext
  <2>2. \A x \in Valued : (\E g \in T2 : Pre(path[g[1]], path[x])) <=>
                            x # n /\ \E g \in todo : Pre(path[g[1]], path[x])
    <3>1. ASSUME NEW x \in DOMAIN forest
          PROVE  ReachesLess(path, todo, f[1], T2, x)
      <4>1. Visited(forest, todo, f, s, T2)
        BY <1>1, <1>7 DEF Visited
      <4>. QED
        BY <1>3, <1>8, <4>1, BelowNext
    <3>. QED
      BY <1>1, <3>1 DEF ReachesLess, Reaches, Valued, nodes
  <2>. QED
    BY <2>1, <2>2
<1>18. \A k : k \in unvisited <=>
         \E x \in Valued : path[x] = k /\ \E g \in todo : Pre(path[g[1]], path[x])
  <2>1. \A g \in todo : g[1] \in nodes
    BY <1>4
  <2>. QED
    BY <1>3, <2>1, UnvisitedIs
<1>19. contents' = contents /\ call' = call
  BY <1>2, SameTree
<1>20. ASSUME Bare(n) PROVE MapStep
  <2>1. \A x \in Valued : x # n
    BY <1>20 DEF Valued
  <2>2. unvisited' = unvisited
    BY <1>17, <1>18, <2>1
  <2>. QED
    BY <1>2, <1>19, <1>20, <2>2 DEF MapStep
<1>21. ASSUME ~Bare(n) PROVE MapStep
  <2>1. n \in Valued
    BY <1>5, <1>21 DEF Valued
  <2>2. ASSUME NEW x \in Valued, path[x] = path[n] PROVE x = n
    <3>1. x \in DOMAIN forest /\ Pre(path[n], path[n]) /\ Len(path[n]) \in Nat
      BY <1>3, <1>5, TreeNode, PreRefl DEF Valued, nodes
    <3>2. Pre(path[x], path[n]) /\ Len(path[n]) <= Len(path[x])
      BY <2>2, <3>1
    <3>. QED
      BY <1>3, <1>5, <3>1, <3>2, Distinct
  <2>3. PICK k : k = path[n]
    OBVIOUS
  <2>4. Pre(path[n], path[n])
    BY <1>3, <1>5, TreeNode, PreRefl
  <2>5. k \in unvisited
    BY <1>1, <1>18, <2>1, <2>3, <2>4
  <2>6. unvisited' = unvisited \ {k}
    BY <1>17, <1>18, <2>2, <2>3
  <2>7. SubSeq(k, Len(call.key) + 1, Len(k)) = s
    BY <1>3, <1>4, <1>5, <2>3, DropJoin DEF Drop
  <2>8. contents[k] = forest[n].val
    BY <1>3, <2>1, <2>3, KeysAre
  <2>9. ret' = <<SubSeq(k, Len(call.key) + 1, Len(k)), contents[k]>>
    BY <1>2, <1>21, <2>7, <2>8
  <2>. QED
    BY <1>3, <1>19, <2>5, <2>6, <2>9 DEF MapStep, Map!Next, Map!Visit
<1>. QED
  BY <1>12, <1>13, <1>14, <1>15, <1>16, <1>20, <1>21 DEF IInv

------------------------------------------------------------------------------
(* All steps.                                                              *)

LEMMA Unchanged ==
  ASSUME IInv, UNCHANGED mapVars
  PROVE  IInv' /\ MapStep
<1>1. UNCHANGED <<forest, root, call, step, cur, rest, visited, todo, ret, path, tidy>>
  BY DEF mapVars
<1>2. nodes' = nodes /\ contents' = contents /\ unvisited' = unvisited
  BY <1>1 DEF nodes, contents, unvisited, Valued, Bare
<1>3. Nodes' /\ InCall'
  BY <1>1, <1>2 DEF IInv, Nodes, InCall, Bare
<1>4. OnTheWay'
  BY <1>1, <1>2 DEF IInv, OnTheWay, Refused, OnKeys, Whole, Ends, Missing, common, text,
    below, Branches
<1>5. Chain' /\ Visits'
  BY <1>1, <1>2 DEF IInv, Chain, Visits
<1>6. Tidy'
  BY <1>1, <1>2 DEF IInv, Tidy, Compressed, OneUseless, focus, last, Useful, Bare, Branches
<1>. QED
  BY <1>1, <1>2, <1>3, <1>4, <1>5, <1>6 DEF IInv, MapStep

(* Every step keeps the invariant, and is one of the map or none.          *)
LEMMA EveryStep ==
  ASSUME IInv, [TrieNext]_mapVars
  PROVE  IInv' /\ MapStep
<1>1. CASE Start
  BY <1>1, StartStep
<1>2. CASE Refuse
  BY <1>2, RefuseStep
<1>3. CASE Descend
  BY <1>3, DescendStep
<1>4. CASE Miss
  BY <1>4, MissStep
<1>5. CASE Answer
  BY <1>5, AnswerStep
<1>6. CASE GetMut
  BY <1>6, GetMutStep
<1>7. CASE \E n \in Names : InsertFirst(n) \/ InsertSplit(n) \/ InsertLeaf(n)
  <2>1. PICK n \in Names : InsertFirst(n) \/ InsertSplit(n) \/ InsertLeaf(n)
    BY <1>7
  <2>2. CASE InsertFirst(n)
    BY <2>2, InsertFirstStep
  <2>3. CASE InsertSplit(n)
    BY <2>3, InsertSplitStep
  <2>4. CASE InsertLeaf(n)
    BY <2>4, InsertLeafStep
  <2>. QED
    BY <2>1, <2>2, <2>3, <2>4
<1>8. CASE InsertHere
  BY <1>8, InsertHereStep
<1>9. CASE RemoveHere
  BY <1>9, RemoveHereStep
<1>10. CASE CutRoot
  BY <1>10, CutRootStep
<1>11. CASE CutChild
  BY <1>11, CutChildStep
<1>12. CASE Climb
  BY <1>12, ClimbStep
<1>13. CASE Join
  BY <1>13, JoinStep
<1>14. CASE Settle
  BY <1>14, SettleStep
<1>15. CASE RootGone
  BY <1>15, RootGoneStep
<1>16. CASE RootJoin
  BY <1>16, RootJoinStep
<1>17. CASE RootKept
  BY <1>17, RootKeptStep
<1>18. CASE Find
  BY <1>18, FindStep
<1>19. CASE \E f \in todo : Visit(f[1], f[2])
  BY <1>19, VisitStep
<1>20. CASE EndVisits
  BY <1>20, EndVisitsStep
<1>21. CASE UNCHANGED mapVars
  BY <1>21, Unchanged
<1>. QED
  BY <1>1, <1>2, <1>3, <1>4, <1>5, <1>6, <1>7, <1>8, <1>9, <1>10, <1>11, <1>12, <1>13,
     <1>14, <1>15, <1>16, <1>17, <1>18, <1>19, <1>20, <1>21 DEF TrieNext

(* However the operations are interleaved with the calls, the trie is a    *)
(* tree in which each node's key is what leads to it.                      *)
THEOREM Invariant == TrieSpec => []IInv
<1>1. TrieInit => IInv
  BY InitInv
<1>2. IInv /\ [TrieNext]_mapVars => IInv'
  BY EveryStep
<1>. QED
  BY <1>1, <1>2, PTL DEF TrieSpec

(* In a tree each child is filed as Filed says.                            *)
FiledUnder(F, P, R, n, b, c) ==
  /\ c # R /\ F[c].prefix # <<>> /\ F[c].prefix[1] = b
  /\ P[c] = P[n] \o F[c].prefix

LEMMA FiledIs ==
  ASSUME NEW F, NEW P, NEW R, Tree(F, P, R), NEW n \in DOMAIN F, NEW b \in DOMAIN F[n].kids,
         NEW c, c = F[n].kids[b]
  PROVE  FiledUnder(F, P, R, n, b, c)
<1>1. KidBelow(F, P, n, b, c) /\ c # R
  BY KidHas, TreeKid
<1>2. PICK p, q, t : p = P[n] /\ q = P[c] /\ t = F[c].prefix
  OBVIOUS
<1>3. /\ p \in Texts /\ q \in Texts /\ t \in Texts /\ q = p \o t
      /\ Len(p) < Len(q) /\ q[Len(p) + 1] = b
  BY <1>1, <1>2 DEF KidBelow
<1>4. /\ Len(q) = Len(p) + Len(t) /\ Len(p) \in Nat /\ Len(t) \in Nat
      /\ \A k \in 1 .. Len(t) : q[Len(p) + k] = t[k]
  BY <1>3, JoinIs, TextIs
<1>5. 1 \in 1 .. Len(t)
  BY <1>3, <1>4
<1>6. t # <<>> /\ t[1] = b
  BY <1>3, <1>4, <1>5
<1>. QED
  BY <1>1, <1>2, <1>3, <1>6 DEF FiledUnder

OnlyUnder(n, b, c) ==
  /\ FiledUnder(forest, path, root, n, b, c)
  /\ \A m \in nodes : \A d \in Branches(m) : forest[m].kids[d] = c => m = n /\ d = b

(* The invariant says of each node what the type does,                     *)
LEMMA TypeIs == IInv => MapTypeOK
<1> SUFFICES ASSUME IInv PROVE MapTypeOK
  OBVIOUS
<1>1. Tree(forest, path, root) /\ nodes \subseteq Names
      /\ ret \in Values \cup {None} \cup (Texts \X Values)
  BY DEF IInv, Nodes
<1>2. DOMAIN path = nodes
  BY <1>1 DEF Tree, Typed, nodes
<1>3. ASSUME NEW n \in nodes
      PROVE  /\ forest[n].prefix \in Seq(Bytes) /\ path[n] \in Seq(Bytes)
             /\ forest[n].val \in Values \cup {None}
             /\ Branches(n) \subseteq Bytes /\ Kids(n) \subseteq nodes
  BY <1>1, TreeNode DEF nodes, Branches, Kids, Texts
<1>4. /\ root \in nodes \cup {None}
      /\ root = None => nodes = {}
      /\ root # None => path[root] = forest[root].prefix
  BY <1>1 DEF Tree, Rooted, nodes
<1>5. ASSUME NEW n \in nodes, NEW b \in Branches(n)
      PROVE  OnlyUnder(n, b, forest[n].kids[b])
  <2>1. n \in DOMAIN forest /\ b \in DOMAIN forest[n].kids
    BY DEF nodes, Branches
  <2>2. PICK c : c = forest[n].kids[b]
    OBVIOUS
  <2>3. FiledUnder(forest, path, root, n, b, c)
    BY <1>1, <2>1, <2>2, FiledIs
  <2>4. ASSUME NEW m \in nodes, NEW d \in Branches(m), forest[m].kids[d] = c
        PROVE  m = n /\ d = b
    <3>1. m \in DOMAIN forest /\ d \in DOMAIN forest[m].kids
      BY DEF nodes, Branches
    <3>2. forest[m].kids[d] = forest[n].kids[b]
      BY <2>2, <2>4
    <3>. QED
      BY <1>1, <2>1, <3>1, <3>2, OneParent
  <2>. QED
    BY <2>2, <2>3, <2>4 DEF OnlyUnder
<1>6. Filed
  <2>1. ASSUME NEW n \in nodes, NEW b \in Bytes, b \in Branches(n)
        PROVE  LET c == forest[n].kids[b]
               IN /\ c # root /\ forest[c].prefix # <<>> /\ forest[c].prefix[1] = b
                  /\ path[c] = path[n] \o forest[c].prefix
                  /\ \A m \in nodes : \A d \in Branches(m) :
                       forest[m].kids[d] = c => m = n /\ d = b
    <3>1. PICK c : c = forest[n].kids[b]
      OBVIOUS
    <3>2. OnlyUnder(n, b, forest[n].kids[b])
      BY <1>5, <2>1
    <3>3. OnlyUnder(n, b, c)
      BY <3>1, <3>2
    <3>. QED
      BY <3>1, <3>3 DEF OnlyUnder, FiledUnder
  <2>. QED
    BY <1>4, <2>1 DEF Filed
<1>7. ret \in Values \cup {None} \cup (Seq(Bytes) \X Values)
  BY <1>1 DEF Texts
<1>. QED
  BY <1>1, <1>2, <1>3, <1>4, <1>6, <1>7 DEF MapTypeOK

(* and of each pointer that it is to a live node.                          *)
LEMMA TraversedIs == IInv => Traversed
<1> SUFFICES ASSUME IInv PROVE Traversed
  OBVIOUS
<1>1. Links(forest, path, root, visited)
  BY DEF IInv, Chain
<1>2. ASSUME NEW k \in 1 .. Len(visited)
      PROVE  /\ visited[k][1] \in nodes /\ visited[k][2] \in Branches(visited[k][1])
             /\ k > 1 => visited[k][1] = forest[visited[k - 1][1]].kids[visited[k - 1][2]]
  <2>1. /\ Len(visited) \in Nat /\ visited[k][1] \in DOMAIN forest
        /\ visited[k][2] \in DOMAIN forest[visited[k][1]].kids
    BY <1>1, LinkAt
  <2>2. ASSUME k > 1
        PROVE  visited[k][1] = forest[visited[k - 1][1]].kids[visited[k - 1][2]]
    <3>1. PICK j : j = k - 1
      OBVIOUS
    <3>2. j \in 1 .. Len(visited) /\ j < Len(visited) /\ k = j + 1
      BY <2>1, <2>2, <3>1
    <3>3. forest[visited[j][1]].kids[visited[j][2]] = visited[j + 1][1]
      BY <1>1, <3>2, LinkAt
    <3>. QED
      BY <3>1, <3>2, <3>3
  <2>. QED
    BY <2>1, <2>2 DEF nodes, Branches
<1>3. visited # <<>> => visited[1][1] = root
  BY <1>1 DEF Links
<1>4. cur # None => cur \in nodes
  <2>1. Reached(forest, path, root, cur, call.key, rest) => cur \in nodes
    BY DEF Reached, nodes
  <2>. QED
    BY <2>1 DEF IInv, InCall, OnTheWay
<1>. QED
  BY <1>2, <1>3, <1>4 DEF Traversed

(* Each child is filed under the first byte of its prefix and has one      *)
(* parent, and every node's bytes are those that lead to it.               *)
THEOREM WellFiled == TrieSpec => []MapTypeOK
  BY Invariant, TypeIs, PTL

(* The pointers that compress climbs along are to live nodes that have the *)
(* child that the removal came by, and cur is alive.                       *)
THEOREM PointersLive == TrieSpec => []Traversed
  BY Invariant, TraversedIs, PTL

(* The trie is a map: each operation finds, changes, removes or hands over *)
(* what the same operation of a plain map would, in the one step in which  *)
(* it takes effect.                                                        *)
THEOREM IsMap == TrieSpec => MapSpec
<1>1. TrieInit => Map!Init
  <2> SUFFICES ASSUME TrieInit PROVE Map!Init
    OBVIOUS
  <2>1. forest = <<>> /\ call = NoCall /\ todo = {} /\ ret = None /\ path = <<>>
    BY DEF TrieInit
  <2>2. Valued = {}
    BY <2>1 DEF Valued, nodes
  <2>3. contents = <<>>
    BY <2>2 DEF contents
  <2>4. unvisited = {}
    BY <2>1, NoneLeft
  <2>. QED
    BY <2>1, <2>3, <2>4 DEF Map!Init, Map!NoCall, NoCall
<1>2. IInv /\ [TrieNext]_mapVars => [Map!Next]_<<contents, call, unvisited, ret>>
  BY EveryStep DEF MapStep
<1>. QED
  BY <1>1, <1>2, Invariant, PTL DEF TrieSpec, MapSpec, Map!Spec

(* An insertion into a compressed trie leaves it compressed.               *)
THEOREM InsertsCompressed == TrieSpec => InsertStaysCompressed
<1>1. IInv /\ [TrieNext]_mapVars =>
        [call.op = "insert" /\ step' = "idle" /\ tidy => Compressed']_mapVars
  <2> SUFFICES ASSUME IInv, TrieNext, call.op = "insert", step' = "idle", tidy
               PROVE  Compressed'
    OBVIOUS
  <2>1. call # NoCall /\ step \notin {"idle", "compress", "join"}
    BY DEF NoCall, IInv, InCall
  <2>2. CASE Refuse
    <3>1. step = "walk" /\ UNCHANGED forest
      BY <2>2 DEF Refuse, Leave
    <3>2. Compressed
      BY <3>1 DEF IInv, Tidy
    <3>. QED
      BY <3>1, <3>2 DEF Compressed, nodes, Useful, Bare, Branches
  <2>3. CASE \E n \in Names : InsertFirst(n) \/ InsertSplit(n) \/ InsertLeaf(n)
    <3>1. PICK n \in Names : InsertFirst(n) \/ InsertSplit(n) \/ InsertLeaf(n)
      BY <2>3
    <3>2. ~InsertSplit(n)
      BY DEF InsertSplit
    <3>3. CASE InsertFirst(n)
      BY <3>3, InsertFirstStep
    <3>4. CASE InsertLeaf(n)
      BY <3>4, InsertLeafStep
    <3>. QED
      BY <3>1, <3>2, <3>3, <3>4
  <2>4. CASE InsertHere
    BY <2>4, InsertHereStep
  <2>5. ~Start /\ ~Descend /\ ~Find
    BY <2>1 DEF Start, Descend, Find, Walking
  <2>6. ~Miss /\ ~Answer /\ ~GetMut /\ ~EndVisits /\ ~(\E f \in todo : Visit(f[1], f[2]))
    BY DEF Miss, Answer, GetMut, EndVisits, Visit, IInv, InCall
  <2>7. ~RemoveHere /\ ~CutRoot /\ ~CutChild
    BY DEF RemoveHere, CutRoot, CutChild
  <2>8. ~Climb /\ ~Join /\ ~Settle /\ ~RootGone /\ ~RootJoin /\ ~RootKept
    BY <2>1 DEF Climb, Join, Settle, AtRoot, RootGone, RootJoin, RootKept
  <2>. QED
    BY <2>2, <2>3, <2>4, <2>5, <2>6, <2>7, <2>8 DEF TrieNext
<1>. QED
  BY <1>1, Invariant, PTL DEF TrieSpec, InsertStaysCompressed

(* A removal from a compressed trie leaves at most one node uncompressed,  *)
(* and no leaf without a value.                                            *)
THEOREM RemovalsLeaveOne == TrieSpec => RemovalLeavesOne
<1>1. IInv /\ [TrieNext]_mapVars =>
        [step = "compress" /\ step' = "idle" /\ tidy => OneLeft']_mapVars
  <2> SUFFICES ASSUME IInv, TrieNext, step = "compress", step' = "idle", tidy
               PROVE  OneLeft'
    OBVIOUS
  <2>1. CASE RootGone
    BY <2>1, RootGoneStep
  <2>2. CASE RootJoin
    BY <2>2, RootJoinStep
  <2>3. CASE RootKept
    BY <2>3, RootKeptStep
  <2>4. ~Start /\ ~Refuse /\ ~Descend /\ ~Miss /\ ~Answer /\ ~GetMut
    BY DEF Start, Refuse, Descend, Miss, Answer, GetMut, Walking
  <2>5. ~(\E n \in Names : InsertFirst(n) \/ InsertSplit(n) \/ InsertLeaf(n)) /\ ~InsertHere
    BY DEF InsertFirst, InsertSplit, InsertLeaf, InsertHere, Inserting, Walking
  <2>6. ~RemoveHere /\ ~CutRoot /\ ~CutChild
    BY DEF RemoveHere, CutRoot, CutChild, Walking
  <2>7. ~Climb /\ ~Join /\ ~Settle /\ ~Find
    BY DEF Climb, Join, Settle, Find, Walking
  <2>8. ~EndVisits /\ ~(\E f \in todo : Visit(f[1], f[2]))
    BY DEF EndVisits, Visit
  <2>. QED
    BY <2>1, <2>2, <2>3, <2>4, <2>5, <2>6, <2>7, <2>8 DEF TrieNext
<1>. QED
  BY <1>1, Invariant, PTL DEF TrieSpec, RemovalLeavesOne, OneLeft

------------------------------------------------------------------------------
(* util::lcp                                                               *)

(* While words are compared, the bytes before i agree.                     *)
InLen ==
  /\ bufs \in Seq(Nat) \X Seq(Nat)
  /\ pc \in {"idle", "loop", "done"}
  /\ i \in Nat
  /\ pc = "idle" => i = 0 /\ lcp = 0
  /\ pc = "loop" => 1 <= minLen /\ i <= minLen

Agree == pc = "loop" => \A k \in 1 .. i : bufs[1][k] = bufs[2][k]

LcpInv == InLen /\ Agree /\ LcpExact

(* Buffers have lengths, and a word is no longer than the shorter one.     *)
LEMMA Lengths ==
  ASSUME bufs \in Seq(Nat) \X Seq(Nat)
  PROVE  /\ Len(bufs[1]) \in Nat /\ Len(bufs[2]) \in Nat
         /\ minLen \in Nat /\ minLen <= Len(bufs[1]) /\ minLen <= Len(bufs[2])
         /\ width \in Nat \ {0}
         /\ 1 <= minLen => width <= minLen
<1>1. Len(bufs[1]) \in Nat /\ Len(bufs[2]) \in Nat
  OBVIOUS
<1>2. minLen \in Nat /\ minLen <= Len(bufs[1]) /\ minLen <= Len(bufs[2])
  BY <1>1 DEF minLen, Shorter
<1>3. width \in Nat \ {0} /\ (1 <= minLen => width <= minLen)
  BY <1>2 DEF width, Width
<1>4. QED
  BY <1>1, <1>2, <1>3

(* The least element is one and has none below it.                         *)
LEMMA LeastIs ==
  ASSUME NEW S \in SUBSET Nat, S # {}
  PROVE  Least(S) \in S /\ \A y \in S : Least(S) <= y
BY LeastOf DEF Least

(* Where two words differ first, if the bytes before the second are known  *)
(* to agree or to lie in the word.                                         *)
LEMMA FirstDiffExact ==
  ASSUME bufs \in Seq(Nat) \X Seq(Nat), NEW o \in Nat, o + width <= minLen,
         Diff(o) # {}, NEW j \in Nat, o <= j,
         \A k \in 1 .. j : bufs[1][k] = bufs[2][k]
  PROVE  /\ FirstDiff(o) \in 0 .. minLen - 1
         /\ \A k \in 1 .. FirstDiff(o) : bufs[1][k] = bufs[2][k]
         /\ bufs[1][FirstDiff(o) + 1] # bufs[2][FirstDiff(o) + 1]
<1> DEFINE d == Least(Diff(o))
<1>1. minLen \in Nat /\ width \in Nat \ {0}
  BY Lengths
<1>2. Diff(o) \in SUBSET Nat
  BY <1>1 DEF Diff
<1>3. d \in Diff(o) /\ \A y \in Diff(o) : d <= y
  BY <1>2, LeastIs
<1>4. d \in 0 .. width - 1 /\ bufs[1][o + d + 1] # bufs[2][o + d + 1]
  BY <1>3 DEF Diff
<1>5. FirstDiff(o) = o + d
  BY DEF FirstDiff
<1> HIDE DEF d
<1>6. ASSUME NEW k \in 1 .. o + d
      PROVE  bufs[1][k] = bufs[2][k]
  <2>1. CASE k <= j
    BY <2>1, <1>1, <1>4
  <2>2. CASE j < k
    <3>1. k - o - 1 \in 0 .. width - 1 /\ k - o - 1 < d /\ o + (k - o - 1) + 1 = k
      BY <2>2, <1>1, <1>4
    <3>2. k - o - 1 \notin Diff(o)
      BY <3>1, <1>3, <1>4, <1>1
    <3>3. QED
      BY <3>1, <3>2 DEF Diff
  <2>3. QED
    BY <2>1, <2>2, <1>1, <1>4
<1>7. o + d \in 0 .. minLen - 1
  BY <1>1, <1>4
<1>8. QED
  BY <1>4, <1>5, <1>6, <1>7

(* A word without a difference agrees.                                     *)
LEMMA WordAgrees ==
  ASSUME bufs \in Seq(Nat) \X Seq(Nat), NEW o \in Nat, Diff(o) = {},
         NEW k \in Nat, o < k, k <= o + width
  PROVE  bufs[1][k] = bufs[2][k]
<1>1. width \in Nat \ {0}
  BY Lengths
<1>2. k - o - 1 \in 0 .. width - 1 /\ o + (k - o - 1) + 1 = k
  BY <1>1
<1>3. QED
  BY <1>2 DEF Diff

------------------------------------------------------------------------------
LEMMA LcpInitInv == LcpInit => LcpInv
<1> SUFFICES ASSUME LcpInit PROVE LcpInv
  OBVIOUS
<1>1. <<>> \in Seq(Nat)
  OBVIOUS
<1>2. QED
  BY <1>1 DEF LcpInit, LcpInv, InLen, Agree, LcpExact

(* A call begins with nothing compared; two buffers of which one is empty  *)
(* have nothing in common.                                                 *)
LEMMA LcpCallInv ==
  ASSUME Buffers \subseteq Seq(Nat) \X Seq(Nat), LcpInv, Call
  PROVE  LcpInv'
<1>1. PICK p \in Buffers : /\ bufs' = p
                           /\ pc' = IF Shorter(p[1], p[2]) = 0 THEN "done" ELSE "loop"
  BY DEF Call
<1>2. i' = 0 /\ lcp' = 0
  BY DEF Call, LcpInv, InLen
<1>3. minLen' = Shorter(p[1], p[2]) /\ minLen' \in Nat
  BY <1>1 DEF minLen, Shorter
<1>4. InLen'
  BY <1>1, <1>2, <1>3 DEF InLen
<1>5. Agree' /\ LcpExact'
  BY <1>1, <1>2, <1>3 DEF Agree, LcpExact
<1>6. QED
  BY <1>4, <1>5 DEF LcpInv

(* The words compared so far agree, or the call ends at the first that do  *)
(* not.                                                                    *)
LEMMA CompareNextInv ==
  ASSUME LcpInv, CompareNext
  PROVE  LcpInv'
<1>1. /\ pc = "loop" /\ i + width <= minLen /\ i \in Nat /\ bufs' = bufs
      /\ bufs \in Seq(Nat) \X Seq(Nat) /\ 1 <= minLen
      /\ \A k \in 1 .. i : bufs[1][k] = bufs[2][k]
  BY DEF CompareNext, InLoop, Stop, LcpInv, InLen, Agree
<1>2. minLen \in Nat /\ width \in Nat \ {0}
  BY <1>1, Lengths
<1>3. minLen' = minLen
  BY <1>1 DEF minLen
<1>4. CASE Diff(i) # {}
  <2>1. pc' = "done" /\ lcp' = FirstDiff(i) /\ i' = i
    BY <1>4 DEF CompareNext, Stop
  <2>2. /\ FirstDiff(i) \in 0 .. minLen - 1
        /\ \A k \in 1 .. FirstDiff(i) : bufs[1][k] = bufs[2][k]
        /\ bufs[1][FirstDiff(i) + 1] # bufs[2][FirstDiff(i) + 1]
    <3>1. i <= i
      BY <1>1
    <3>2. QED
      BY <1>1, <1>4, <3>1, FirstDiffExact
  <2>3. LcpExact'
    BY <1>1, <1>2, <1>3, <2>1, <2>2 DEF LcpExact
  <2>4. QED
    BY <1>1, <2>1, <2>3 DEF LcpInv, InLen, Agree
<1>5. CASE Diff(i) = {}
  <2>1. pc' = pc /\ i' = i + width
    BY <1>5 DEF CompareNext
  <2>2. ASSUME NEW k \in 1 .. i + width
        PROVE  bufs[1][k] = bufs[2][k]
    <3>1. CASE k <= i
      BY <1>1, <3>1
    <3>2. CASE i < k
      <4>1. k \in Nat /\ k <= i + width
        BY <1>1, <1>2
      <4>2. QED
        BY <1>1, <1>5, <3>2, <4>1, WordAgrees
    <3>3. QED
      BY <1>1, <1>2, <3>1, <3>2
  <2>3. Agree'
    BY <1>1, <2>1, <2>2 DEF Agree
  <2>4. InLen' /\ LcpExact'
    BY <1>1, <1>2, <1>3, <2>1 DEF InLen, LcpExact
  <2>5. QED
    BY <2>3, <2>4 DEF LcpInv
<1>6. QED
  BY <1>4, <1>5

(* The word at the end begins before i: what it repeats is known to agree. *)
LEMMA CompareTailInv ==
  ASSUME LcpInv, CompareTail
  PROVE  LcpInv'
<1>1. /\ pc = "loop" /\ i + width > minLen /\ i \in Nat /\ i <= minLen /\ bufs' = bufs
      /\ bufs \in Seq(Nat) \X Seq(Nat) /\ 1 <= minLen
      /\ \A k \in 1 .. i : bufs[1][k] = bufs[2][k]
      /\ pc' = "done" /\ i' = i
      /\ lcp' = IF Diff(tail) # {} THEN FirstDiff(tail) ELSE minLen
  BY DEF CompareTail, InTail, Stop, LcpInv, InLen, Agree
<1>2. minLen \in Nat /\ width \in Nat \ {0} /\ width <= minLen
  BY <1>1, Lengths
<1>3. minLen' = minLen
  BY <1>1 DEF minLen
<1>4. tail \in Nat /\ tail <= i /\ tail + width = minLen
  BY <1>1, <1>2 DEF tail
<1>5. CASE Diff(tail) # {}
  <2>1. /\ FirstDiff(tail) \in 0 .. minLen - 1
        /\ \A k \in 1 .. FirstDiff(tail) : bufs[1][k] = bufs[2][k]
        /\ bufs[1][FirstDiff(tail) + 1] # bufs[2][FirstDiff(tail) + 1]
    <3>1. tail + width <= minLen
      BY <1>2, <1>4
    <3>2. QED
      BY <1>1, <1>4, <1>5, <3>1, FirstDiffExact
  <2>2. LcpExact'
    BY <1>1, <1>2, <1>3, <1>5, <2>1 DEF LcpExact
  <2>3. QED
    BY <1>1, <2>2 DEF LcpInv, InLen, Agree
<1>6. CASE Diff(tail) = {}
  <2>1. ASSUME NEW k \in 1 .. minLen
        PROVE  bufs[1][k] = bufs[2][k]
    <3>1. CASE k <= i
      BY <1>1, <3>1
    <3>2. CASE i < k
      <4>1. k \in Nat /\ tail < k /\ k <= tail + width
        BY <1>1, <1>2, <1>4, <3>2
      <4>2. QED
        BY <1>1, <1>4, <1>6, <4>1, WordAgrees
    <3>3. QED
      BY <1>1, <1>2, <3>1, <3>2
  <2>2. LcpExact'
    BY <1>1, <1>2, <1>3, <1>6, <2>1 DEF LcpExact
  <2>3. QED
    BY <1>1, <2>2 DEF LcpInv, InLen, Agree
<1>7. QED
  BY <1>5, <1>6

LEMMA LcpNextInv ==
  ASSUME Buffers \subseteq Seq(Nat) \X Seq(Nat), LcpInv, [LcpNext]_lcpVars
  PROVE  LcpInv'
<1>1. CASE Call
  BY <1>1, LcpCallInv
<1>2. CASE CompareNext
  BY <1>2, CompareNextInv
<1>3. CASE CompareTail
  BY <1>3, CompareTailInv
<1>4. CASE Return
  <2>1. LcpInit'
    BY <1>4 DEF Return, LcpInit
  <2>2. <<>> \in Seq(Nat)
    OBVIOUS
  <2>3. QED
    BY <2>1, <2>2 DEF LcpInit, LcpInv, InLen, Agree, LcpExact
<1>5. CASE UNCHANGED lcpVars
  BY <1>5 DEF lcpVars, LcpInv, InLen, Agree, LcpExact, minLen
<1>6. QED
  BY <1>1, <1>2, <1>3, <1>4, <1>5 DEF LcpNext

------------------------------------------------------------------------------
LEMMA LcpInvariant ==
  ASSUME Buffers \subseteq Seq(Nat) \X Seq(Nat)
  PROVE  LcpSpec => []LcpInv
<1>1. LcpInv /\ [LcpNext]_lcpVars => LcpInv'
  BY LcpNextInv
<1>2. QED
  BY <1>1, LcpInitInv, PTL DEF LcpSpec

(* What lcp returns is what the walks of TrieMap compare with: the only    *)
(* length that both descriptions fit.                                      *)
LEMMA OneCommon ==
  ASSUME LcpInv, pc = "done"
  PROVE  lcp = Common(bufs[1], bufs[2])
<1> DEFINE s == bufs[1]
           t == bufs[2]
           Fits(n) == /\ n <= Len(t) /\ \A k \in 1 .. n : s[k] = t[k]
                      /\ n < Len(s) /\ n < Len(t) => s[n + 1] # t[n + 1]
<1>1. Len(s) \in Nat /\ Len(t) \in Nat
  BY Lengths DEF LcpInv, InLen
<1>2. lcp \in 0 .. Len(s) /\ Fits(lcp)
  BY <1>1 DEF LcpInv, LcpExact, minLen, Shorter
<1>3. ASSUME NEW n \in 0 .. Len(s), NEW m \in 0 .. Len(s), Fits(n), Fits(m), n < m
      PROVE  FALSE
  <2>1. n < Len(s) /\ n < Len(t) /\ n + 1 \in 1 .. m
    BY <1>1, <1>3
  <2>. QED
    BY <1>3, <2>1
<1>4. \A n \in 0 .. Len(s) : Fits(n) => n = lcp
  <2>1. \A n \in 0 .. Len(s) : n < lcp \/ lcp < n \/ n = lcp
    BY <1>1, <1>2
  <2>. QED
    BY <1>2, <1>3, <2>1
<1>5. Common(s, t) = CHOOSE n \in 0 .. Len(s) : Fits(n)
  BY DEF Common
<1> HIDE DEF Fits
<1>. QED
  BY <1>2, <1>4, <1>5

(* For all buffers: the result of lcp is the length of their longest       *)
(* common prefix.                                                          *)
THEOREM LcpCorrect ==
  ASSUME Buffers \subseteq Seq(Nat) \X Seq(Nat)
  PROVE  LcpSpec => []LcpExact
<1>1. LcpInv => LcpExact
  BY DEF LcpInv
<1>2. QED
  BY <1>1, LcpInvariant, PTL

(* For all buffers: none of the unaligned reads of lcp leaves a buffer.    *)
THEOREM LcpReads ==
  ASSUME Buffers \subseteq Seq(Nat) \X Seq(Nat)
  PROVE  LcpSpec => []ReadsInBounds
<1>1. LcpInv => ReadsInBounds
  <2> SUFFICES ASSUME LcpInv PROVE ReadsInBounds
    OBVIOUS
  <2>1. /\ Len(bufs[1]) \in Nat /\ Len(bufs[2]) \in Nat
        /\ minLen \in Nat /\ minLen <= Len(bufs[1]) /\ minLen <= Len(bufs[2])
        /\ width \in Nat \ {0} /\ i \in Nat
        /\ pc = "loop" => width <= minLen
    BY Lengths DEF LcpInv, InLen
  <2>2. QED
    BY <2>1 DEF ReadsInBounds, InLoop, InTail, tail
<1>2. QED
  BY <1>1, LcpInvariant, PTL

(* For all buffers: a call of lcp returns the number that TrieMap's walks  *)
(* go by.                                                                  *)
THEOREM LcpIsCommon ==
  ASSUME Buffers \subseteq Seq(Nat) \X Seq(Nat)
  PROVE  LcpSpec => [](pc = "done" => lcp = Common(bufs[1], bufs[2]))
<1>1. LcpInv => (pc = "done" => lcp = Common(bufs[1], bufs[2]))
  BY OneCommon
<1>2. QED
  BY <1>1, LcpInvariant, PTL
==============================================================================
