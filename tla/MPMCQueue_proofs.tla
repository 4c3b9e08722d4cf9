--------------------------- MODULE MPMCQueue_proofs ---------------------------
(***************************************************************************)
(* Theorems about MPMCQueue, for any number of threads, every capacity but *)
(* one, every word size and start, and both readings of the memory.        *)
(***************************************************************************)
EXTENDS MPMCQueue, ModularArithmetic, FiniteSetTheorems, SequenceTheorems, TLAPS

(* The hypothesis of the theorems: pow > 0, and few enough positions that  *)
(* the difference of two of them fits into isize.  With 64-bit words that  *)
(* is any run of less than 2^62 pushes on a queue of at most 2^61 slots.   *)
Fits == Cap > 1 /\ 2 * (MaxCalls + Cap) < Modulus

(* A thread between its compare-exchange and its store of the sequence     *)
(* number holds the slot of its idx.                                       *)
Pushing(p) == pc[p] \in {"write", "publish"}
Popping(c) == pc[c] \in {"read", "release"}

(* Producers that may still claim a position.                              *)
Trying == {p \in Producers : pc[p] \in {"seq", "claim", "reload"}}

(* No thread is ahead of the index it loaded, and no more positions are    *)
(* claimed than calls were made.                                           *)
BoundInv ==
  /\ Start <= head
  /\ \A p \in Producers : idx[p] \in Start .. tail
  /\ \A c \in Consumers : idx[c] \in Start .. head
  /\ IsFiniteSet(Trying)
  /\ (tail - Start) + Cardinality(Trying) <= calls

(* A call under way has its handle, its argument and its own places.       *)
CallsInv ==
  /\ \A t \in Threads : ~Idle(t) => t \in handles
  /\ \A p \in Producers :
       /\ pc[p] \notin {"read", "release"}
       /\ ~Idle(p) => arg[p] \in Values
  /\ \A c \in Consumers : pc[c] \notin {"write", "publish"}

(* A thread about to claim has seen the sequence number it needs; the      *)
(* slot's may have grown since.                                            *)
ClaimsInv ==
  /\ \A p \in Producers :
       pc[p] = "claim" => acq[p] = idx[p] /\ idx[p] <= seq[Mask(idx[p])]
  /\ \A c \in Consumers :
       pc[c] = "claim" => acq[c] = idx[c] + 1 /\ idx[c] + 1 <= seq[Mask(idx[c])]

(* A slot whose sequence number is a position of its own waits to be       *)
(* written; the other sequence numbers follow one.                         *)
Writable(s) == Mask(seq[s]) = s

WritableInv(s) ==
  /\ seq[s] < head + Cap
  /\ seq[s] >= tail => stamp[s] = seq[s] /\ (handles # {} => data[s] = Nothing)
  /\ seq[s] < tail => \E p \in Producers : Pushing(p) /\ idx[p] = seq[s]

ReadableInv(s) ==
  /\ Mask(seq[s] - 1) = s
  /\ seq[s] <= tail
  /\ seq[s] > head => stamp[s] = seq[s] /\ (handles # {} => data[s] \in Values)
  /\ seq[s] <= head => \E c \in Consumers : Popping(c) /\ idx[c] = seq[s] - 1

SlotsInv ==
  \A s \in Slots :
    /\ seq[s] >= Start
    /\ Writable(s) => WritableInv(s)
    /\ ~Writable(s) => ReadableInv(s)

(* What a thread knows of the slot it holds.                               *)
PushersInv ==
  \A p \in Producers : Pushing(p) =>
    LET s == Mask(idx[p])
    IN /\ head <= idx[p] /\ idx[p] < tail
       /\ seq[s] = idx[p] /\ acq[p] = idx[p]
       /\ pc[p] = "write" => stamp[s] = idx[p] /\ data[s] = Nothing
       /\ pc[p] = "publish" => stamp[s] = idx[p] + 1 /\ data[s] \in Values

PoppersInv ==
  \A c \in Consumers : Popping(c) =>
    LET s == Mask(idx[c])
    IN /\ idx[c] < head /\ tail <= idx[c] + Cap
       /\ seq[s] = idx[c] + 1 /\ acq[c] = idx[c] + 1
       /\ pc[c] = "read" => stamp[s] = idx[c] + 1 /\ data[s] \in Values
       /\ pc[c] = "release" => stamp[s] = idx[c] + Cap /\ data[s] = Nothing

(* A position is claimed once on each side.                                *)
DistinctInv ==
  /\ \A p, q \in Producers : Pushing(p) /\ Pushing(q) /\ p # q => idx[p] # idx[q]
  /\ \A c, d \in Consumers : Popping(c) /\ Popping(d) /\ c # d => idx[c] # idx[d]

IInv ==
  /\ Fits
  /\ TypeOK /\ BoundInv /\ CallsInv /\ ClaimsInv
  /\ SlotsInv /\ PushersInv /\ PoppersInv /\ DistinctInv

------------------------------------------------------------------------------
(* Words and slots.                                                        *)

LEMMA Sizes ==
  Modulus \in Nat \ {0} /\ Cap \in Nat \ {0} /\ Start \in Nat /\ MaxCalls \in Nat
  BY CapAssumption, ModulusAssumption, BoundAssumption

LEMMA MaskRange == ASSUME NEW x \in Int PROVE Mask(x) \in Slots
  BY Sizes, ModRange, Zenon DEF Mask, Slots

LEMMA MaskLap == ASSUME NEW x \in Int PROVE Mask(x + Cap) = Mask(x)
  BY Sizes, ModShift, Zenon DEF Mask

LEMMA MaskInjective ==
  ASSUME NEW x \in Int, NEW y \in Int, x < y, y < x + Cap
  PROVE  Mask(x) # Mask(y)
  BY Sizes, ModInjective, Zenon DEF Mask

LEMMA MaskNext ==
  ASSUME Cap > 1, NEW x \in Int
  PROVE  Mask(x + 1) # Mask(x)
<1>1. x + 1 \in Int /\ x < x + 1 /\ x + 1 < x + Cap
  BY Sizes
<1> QED BY <1>1, MaskInjective

(* Every slot is that of one of the Cap positions from x.                  *)
LEMMA MaskOnto ==
  ASSUME NEW x \in Int, NEW s \in Slots
  PROVE  /\ x + ((s - x) % Cap) \in x .. x + Cap - 1
         /\ Mask(x + ((s - x) % Cap)) = s
<1> DEFINE k == (s - x) % Cap
           q == (s - x) \div Cap
<1>1. s \in Int /\ s - x \in Int
  BY Sizes DEF Slots
<1>2. k \in 0 .. Cap - 1
  BY <1>1, Sizes, ModRange, Zenon
<1>3. q \in Int /\ s - x = (Cap * q) + k
  BY <1>1, Sizes, DivMod, Zenon
<1> HIDE DEF k, q
<1>4. -q \in Int /\ Cap * (-q) = -(Cap * q)
  BY <1>3, Sizes
<1>5. x + k = s + Cap * (-q)
  BY <1>1, <1>2, <1>3, <1>4, Sizes
<1>6. (s + Cap * (-q)) % Cap = s % Cap
  BY <1>1, <1>4, Sizes, ModPeriodic, Zenon
<1>7. s % Cap = s
  BY Sizes, ModSmall, Zenon DEF Slots
<1>8. Mask(x + k) = s
  BY <1>5, <1>6, <1>7, Zenon DEF Mask
<1>9. x + k \in x .. x + Cap - 1
  BY <1>2, Sizes
<1> QED BY <1>8, <1>9 DEF k

(* The signed difference of two words is that of their positions, when     *)
(* these are less than half a Modulus apart.                               *)
LEMMA DiffExact ==
  ASSUME NEW a \in Int, NEW b \in Int, 2 * (a - b) < Modulus, 2 * (b - a) < Modulus
  PROVE  Diff(a, b) = a - b
<1>1. a - b \in Int
  OBVIOUS
<1>2. CASE a >= b
  <2>1. a - b \in 0 .. Modulus - 1
    BY <1>2, Sizes
  <2>2. WrapSub(a, b) = a - b
    BY <2>1, Sizes, ModSmall, Zenon DEF WrapSub, Word
  <2> QED BY <2>2 DEF Diff, AsSigned
<1>3. CASE ~(a >= b)
  <2>1. (a - b) + Modulus \in 0 .. Modulus - 1
    BY <1>3, Sizes
  <2>2. ((a - b) + Modulus) % Modulus = (a - b) + Modulus
    BY <2>1, Sizes, ModSmall, Zenon
  <2>3. ((a - b) + Modulus) % Modulus = (a - b) % Modulus
    BY <1>1, Sizes, ModShift, Zenon
  <2>4. WrapSub(a, b) = (a - b) + Modulus
    BY <2>2, <2>3, Zenon DEF WrapSub, Word
  <2>5. ~(2 * WrapSub(a, b) < Modulus)
    BY <1>3, <2>4, Sizes
  <2> QED BY <2>4, <2>5, Sizes DEF Diff, AsSigned
<1> QED BY <1>2, <1>3

(* Equal words belong to equal positions.                                  *)
LEMMA WordExact ==
  ASSUME NEW a \in Int, NEW b \in Int, a <= b, b < a + Modulus, Word(b) = Word(a)
  PROVE  a = b
<1> SUFFICES ASSUME a < b PROVE FALSE
  OBVIOUS
<1>1. a % Modulus # b % Modulus
  BY Sizes, ModInjective, Zenon
<1> QED BY <1>1 DEF Word

------------------------------------------------------------------------------
(* The invariant holds initially.                                          *)

LEMMA InitIInv == Fits /\ Init => IInv
<1> SUFFICES ASSUME Fits, Init PROVE IInv
  OBVIOUS
<1>1. Start \in Nat /\ Start + 0 = Start
  BY Sizes
<1>2. ASSUME NEW s \in Slots
      PROVE  /\ seq[s] \in Nat /\ seq[s] >= Start /\ seq[s] < Start + Cap
             /\ stamp[s] = seq[s] /\ Writable(s)
  <2>1. seq[s] = Start + ((s - Start) % Cap)
    BY DEF Init
  <2>2. seq[s] \in Start .. Start + Cap - 1 /\ Mask(seq[s]) = s
    BY <1>1, <2>1, MaskOnto
  <2> QED BY <1>1, <2>2, Sizes DEF Init, Writable
<1>3. TypeOK
  <2>1. seq \in [Slots -> Nat]
    BY <1>2 DEF Init
  <2>2. tail \in head .. head + Cap
    BY <1>1, Sizes DEF Init
  <2> QED BY <2>1, <2>2, Sizes DEF Init, TypeOK, Threads
<1>4. BoundInv
  <2>1. Trying = {}
    BY DEF Init, Trying, Threads
  <2>2. IsFiniteSet(Trying) /\ Cardinality(Trying) = 0
    BY <2>1, FS_EmptySet
  <2> QED BY <1>1, <2>2 DEF Init, BoundInv, Threads
<1>5. CallsInv /\ ClaimsInv /\ PushersInv /\ PoppersInv /\ DistinctInv
  BY DEF Init, CallsInv, ClaimsInv, PushersInv, PoppersInv, DistinctInv,
         Pushing, Popping, Idle, Threads
<1>6. SlotsInv
  BY <1>1, <1>2 DEF Init, SlotsInv, WritableInv
<1> QED BY <1>3, <1>4, <1>5, <1>6 DEF IInv

------------------------------------------------------------------------------
(* What the invariant says of one state.                                   *)

LEMMA Numbers ==
  ASSUME IInv
  PROVE  /\ head \in Nat /\ tail \in Nat /\ Start <= head
         /\ head <= tail /\ tail <= head + Cap
         /\ Cardinality(Trying) \in Nat
         /\ tail + Cardinality(Trying) <= Start + MaxCalls
         /\ \A s \in Slots : seq[s] \in Nat /\ seq[s] >= Start /\ seq[s] <= tail + Cap
         /\ Cap > 1 /\ 2 * (MaxCalls + Cap) < Modulus
         /\ \A t \in Threads : idx[t] \in Nat
<1>1. head \in Nat /\ tail \in Nat /\ head <= tail /\ tail <= head + Cap
  BY Sizes DEF IInv, TypeOK
<1>2. Cardinality(Trying) \in Nat
  BY FS_CardinalityType DEF IInv, BoundInv
<1>3. calls \in Nat /\ calls <= MaxCalls
  BY Sizes DEF IInv, TypeOK
<1>4. tail + Cardinality(Trying) <= Start + MaxCalls
  BY <1>1, <1>2, <1>3, Sizes DEF IInv, BoundInv
<1>5. ASSUME NEW s \in Slots
      PROVE  seq[s] \in Nat /\ seq[s] >= Start /\ seq[s] <= tail + Cap
  BY <1>1, Sizes DEF IInv, TypeOK, SlotsInv, WritableInv, ReadableInv
<1> QED BY <1>1, <1>2, <1>4, <1>5 DEF IInv, BoundInv, Fits, TypeOK

(* No two threads hold the same slot.                                      *)
LEMMA HoldersApart ==
  ASSUME IInv
  PROVE  /\ \A p \in Producers : Pushing(p) => Mask(idx[p]) \in Slots /\ Writable(Mask(idx[p]))
         /\ \A c \in Consumers : Popping(c) => Mask(idx[c]) \in Slots /\ ~Writable(Mask(idx[c]))
         /\ \A p, q \in Producers :
              Pushing(p) /\ Pushing(q) /\ p # q => Mask(idx[p]) # Mask(idx[q])
         /\ \A c, d \in Consumers :
              Popping(c) /\ Popping(d) /\ c # d => Mask(idx[c]) # Mask(idx[d])
<1>1. ASSUME NEW t \in Threads
      PROVE  idx[t] \in Int /\ Mask(idx[t]) \in Slots /\ Mask(idx[t] + 1) # Mask(idx[t])
  BY Numbers, MaskRange, MaskNext
<1>2. ASSUME NEW p \in Producers, Pushing(p)
      PROVE  Mask(idx[p]) \in Slots /\ Writable(Mask(idx[p]))
  BY <1>1, <1>2 DEF IInv, PushersInv, Writable, Threads
<1>3. ASSUME NEW c \in Consumers, Popping(c)
      PROVE  Mask(idx[c]) \in Slots /\ ~Writable(Mask(idx[c]))
  BY <1>1, <1>3 DEF IInv, PoppersInv, Writable, Threads
<1>4. ASSUME NEW p \in Producers, NEW q \in Producers, Pushing(p), Pushing(q), p # q
      PROVE  Mask(idx[p]) # Mask(idx[q])
  BY <1>4 DEF IInv, PushersInv, DistinctInv
<1>5. ASSUME NEW c \in Consumers, NEW d \in Consumers, Popping(c), Popping(d), c # d
      PROVE  Mask(idx[c]) # Mask(idx[d])
  <2>1. seq[Mask(idx[c])] = idx[c] + 1 /\ seq[Mask(idx[d])] = idx[d] + 1 /\ idx[c] # idx[d]
    BY <1>5 DEF IInv, PoppersInv, DistinctInv
  <2>2. idx[c] \in Nat /\ idx[d] \in Nat
    BY Numbers DEF Threads
  <2> QED BY <2>1, <2>2
<1> QED BY <1>2, <1>3, <1>4, <1>5

(* A comparison of a sequence number that was loaded is exact.             *)
LEMMA Compared ==
  ASSUME IInv, NEW t \in Threads, NEW v \in LoadableSeq(Mask(idx[t]))
  PROVE  /\ v \in Nat /\ v <= seq[Mask(idx[t])]
         /\ t \in Producers => Diff(v, idx[t]) = v - idx[t]
         /\ t \in Consumers => Diff(v, idx[t] + 1) = v - (idx[t] + 1)
<1> DEFINE s == Mask(idx[t])
<1>1. idx[t] \in Nat /\ s \in Slots
  BY Numbers, MaskRange
<1>2. v \in Nat /\ v >= Start /\ v <= seq[s]
  BY <1>1, Numbers, Sizes DEF LoadableSeq, SeqStores
<1>3. v <= Start + MaxCalls + Cap
  BY <1>1, <1>2, Numbers, Sizes
<1>4. idx[t] >= Start /\ idx[t] <= Start + MaxCalls
  BY Numbers, Sizes DEF IInv, BoundInv, Threads
<1>5. /\ 2 * (v - idx[t]) < Modulus /\ 2 * (idx[t] - v) < Modulus
      /\ 2 * (v - (idx[t] + 1)) < Modulus /\ 2 * ((idx[t] + 1) - v) < Modulus
  BY <1>1, <1>2, <1>3, <1>4, Numbers, Sizes
<1>6. Diff(v, idx[t]) = v - idx[t] /\ Diff(v, idx[t] + 1) = v - (idx[t] + 1)
  BY <1>1, <1>2, <1>5, DiffExact
<1> QED BY <1>2, <1>6

------------------------------------------------------------------------------
(* Steps of a thread that holds no slot, before or after.                  *)

Elsewhere(t) ==
  \A u \in Threads \ {t} : pc'[u] = pc[u] /\ idx'[u] = idx[u] /\ acq'[u] = acq[u]

LEMMA QuietInv ==
  ASSUME IInv, NEW t \in Threads, Elsewhere(t),
         ~Pushing(t), ~Popping(t), ~Pushing(t)', ~Popping(t)',
         UNCHANGED <<head, tail, seq, data, stamp, handles>>
  PROVE  SlotsInv' /\ PushersInv' /\ PoppersInv' /\ DistinctInv'
<1>1. ASSUME NEW u \in Threads
      PROVE  /\ Pushing(u)' <=> Pushing(u)
             /\ Popping(u)' <=> Popping(u)
             /\ Pushing(u) \/ Popping(u) =>
                  pc'[u] = pc[u] /\ idx'[u] = idx[u] /\ acq'[u] = acq[u]
  BY DEF Elsewhere, Pushing, Popping
<1>2. SlotsInv'
  <2> SUFFICES ASSUME NEW s \in Slots
               PROVE  /\ seq[s] >= Start
                      /\ Writable(s) => WritableInv(s)'
                      /\ ~Writable(s) => ReadableInv(s)'
    BY DEF SlotsInv, Writable
  <2>1. /\ seq[s] >= Start
        /\ Writable(s) => WritableInv(s)
        /\ ~Writable(s) => ReadableInv(s)
    BY DEF IInv, SlotsInv
  <2>2. WritableInv(s) => WritableInv(s)'
    BY <1>1 DEF WritableInv, Threads
  <2>3. ReadableInv(s) => ReadableInv(s)'
    BY <1>1 DEF ReadableInv, Threads
  <2> QED BY <2>1, <2>2, <2>3
<1>3. PushersInv'
  <2> SUFFICES ASSUME NEW p \in Producers, Pushing(p)'
               PROVE  /\ head <= idx'[p] /\ idx'[p] < tail
                      /\ seq[Mask(idx'[p])] = idx'[p] /\ acq'[p] = idx'[p]
                      /\ pc'[p] = "write" => stamp[Mask(idx'[p])] = idx'[p]
                                             /\ data[Mask(idx'[p])] = Nothing
                      /\ pc'[p] = "publish" => stamp[Mask(idx'[p])] = idx'[p] + 1
                                             /\ data[Mask(idx'[p])] \in Values
    BY DEF PushersInv
  <2>1. Pushing(p) /\ pc'[p] = pc[p] /\ idx'[p] = idx[p] /\ acq'[p] = acq[p]
    BY <1>1 DEF Threads
  <2> QED BY <2>1 DEF IInv, PushersInv
<1>4. PoppersInv'
  <2> SUFFICES ASSUME NEW c \in Consumers, Popping(c)'
               PROVE  /\ idx'[c] < head /\ tail <= idx'[c] + Cap
                      /\ seq[Mask(idx'[c])] = idx'[c] + 1 /\ acq'[c] = idx'[c] + 1
                      /\ pc'[c] = "read" => stamp[Mask(idx'[c])] = idx'[c] + 1
                                            /\ data[Mask(idx'[c])] \in Values
                      /\ pc'[c] = "release" => stamp[Mask(idx'[c])] = idx'[c] + Cap
                                               /\ data[Mask(idx'[c])] = Nothing
    BY DEF PoppersInv
  <2>1. Popping(c) /\ pc'[c] = pc[c] /\ idx'[c] = idx[c] /\ acq'[c] = acq[c]
    BY <1>1 DEF Threads
  <2> QED BY <2>1 DEF IInv, PoppersInv
<1>5. DistinctInv'
  BY <1>1 DEF IInv, DistinctInv, Threads
<1> QED BY <1>2, <1>3, <1>4, <1>5

(* The producers that may claim, after a step.                             *)
LEMMA TryingFewer ==
  ASSUME IInv, Trying' \subseteq Trying
  PROVE  /\ IsFiniteSet(Trying') /\ Cardinality(Trying') \in Nat
         /\ Cardinality(Trying') <= Cardinality(Trying)
<1>1. PICK S : S = Trying'
  OBVIOUS
<1>2. IsFiniteSet(Trying) /\ S \in SUBSET Trying
  BY <1>1 DEF IInv, BoundInv
<1>3. IsFiniteSet(S) /\ Cardinality(S) <= Cardinality(Trying)
  BY <1>2, FS_Subset
<1>4. Cardinality(S) \in Nat
  BY <1>3, FS_CardinalityType
<1> QED BY <1>1, <1>3, <1>4

------------------------------------------------------------------------------
(* The steps of a producer.                                                *)

LEMMA PushCallIInv ==
  ASSUME IInv, NEW p \in Producers, NEW v \in Values, PushCall(p, v) PROVE IInv'
<1> USE DEF PushCall, Goto
<1>1. PICK k \in Loadable(idx[p], tail) : idx' = [idx EXCEPT ![p] = k]
  OBVIOUS
<1>2. p \in Threads /\ p \notin Consumers
  BY ThreadsAssumption DEF Threads
<1>3. k \in Nat /\ k >= Start /\ k <= tail
  BY <1>1, Numbers, Sizes DEF Loadable, IInv, BoundInv, Threads
<1>4. TypeOK'
  BY <1>1, <1>2, <1>3, Sizes DEF IInv, TypeOK
<1>5. Elsewhere(p) /\ pc'[p] = "seq" /\ idx'[p] = k
  BY <1>1, <1>2 DEF Elsewhere, IInv, TypeOK
<1>6. SlotsInv' /\ PushersInv' /\ PoppersInv' /\ DistinctInv'
  BY <1>2, <1>5, QuietInv DEF Pushing, Popping, Idle
<1>7. CallsInv'
  BY <1>2, <1>5 DEF IInv, CallsInv, TypeOK, Idle, Elsewhere, Threads
<1>8. ClaimsInv'
  BY <1>2, <1>5 DEF IInv, ClaimsInv, Elsewhere, Threads
<1>9. BoundInv'
  <2>1. PICK S : S = Trying'
    OBVIOUS
  <2>2. S = Trying \cup {p} /\ p \notin Trying
    BY <1>2, <1>5, <2>1 DEF Trying, Elsewhere, Threads, Idle
  <2>3. IsFiniteSet(S) /\ Cardinality(S) = Cardinality(Trying) + 1
    BY <2>2, FS_AddElement DEF IInv, BoundInv
  <2>4. (tail - Start) + Cardinality(S) <= calls'
    BY <2>3, Numbers, Sizes DEF IInv, BoundInv, TypeOK
  <2>5. \A c \in Consumers : idx'[c] = idx[c]
    BY <1>2, <1>5 DEF Elsewhere, Threads
  <2>6. \A q \in Producers : idx'[q] \in Start .. tail
    BY <1>3, <1>5, Numbers, Sizes DEF IInv, BoundInv, Elsewhere, Threads
  <2> QED BY <2>1, <2>3, <2>4, <2>5, <2>6 DEF IInv, BoundInv
<1> QED BY <1>4, <1>6, <1>7, <1>8, <1>9 DEF IInv, Fits

LEMMA PushLoadSeqIInv ==
  ASSUME IInv, NEW p \in Producers, PushLoadSeq(p) PROVE IInv'
<1> USE DEF PushLoadSeq, Goto
<1>1. PICK v \in LoadableSeq(Mask(idx[p])) :
        /\ acq' = [acq EXCEPT ![p] = Acquired(v)]
        /\ LET diff == Diff(v, idx[p])
           IN \/ diff = 0 /\ pc' = [pc EXCEPT ![p] = "claim"]
              \/ diff < 0 /\ pc' = [pc EXCEPT ![p] = "full"]
              \/ diff > 0 /\ pc' = [pc EXCEPT ![p] = "reload"]
  OBVIOUS
<1>2. p \in Threads /\ p \notin Consumers
  BY ThreadsAssumption DEF Threads
<1>3. v \in Nat /\ v <= seq[Mask(idx[p])] /\ Diff(v, idx[p]) = v - idx[p]
  BY <1>2, Compared
<1>4. TypeOK'
  BY <1>1, <1>2, <1>3 DEF IInv, TypeOK, Acquired
<1>5. /\ Elsewhere(p) /\ pc'[p] \in {"claim", "full", "reload"}
      /\ idx'[p] = idx[p] /\ acq'[p] = v
      /\ pc'[p] = "claim" => Diff(v, idx[p]) = 0
  BY <1>1, <1>2, <1>3 DEF Elsewhere, IInv, TypeOK, Acquired
<1>6. SlotsInv' /\ PushersInv' /\ PoppersInv' /\ DistinctInv'
  BY <1>2, <1>5, QuietInv DEF Pushing, Popping
<1>7. CallsInv'
  BY <1>2, <1>5 DEF IInv, CallsInv, Idle, Elsewhere, Threads
<1>8. ClaimsInv'
  <2>1. pc'[p] = "claim" => v = idx[p]
    BY <1>2, <1>3, <1>5, Numbers
  <2> QED BY <1>2, <1>3, <1>5, <2>1 DEF IInv, ClaimsInv, Elsewhere, Threads
<1>9. BoundInv'
  <2>1. Trying' \subseteq Trying
    BY <1>2, <1>5 DEF Trying, Elsewhere, Threads
  <2> QED BY <2>1, TryingFewer, Numbers, Sizes DEF IInv, BoundInv, TypeOK
<1> QED BY <1>4, <1>6, <1>7, <1>8, <1>9 DEF IInv, Fits

(* PushLose and PushReload load tail again and go back to the loop's top.  *)
LEMMA PushAgainIInv ==
  ASSUME IInv, NEW p \in Producers, PushLose(p) \/ PushReload(p) PROVE IInv'
<1> USE DEF PushLose, PushReload, Goto
<1>1. PICK k \in Loadable(idx[p], tail) : idx' = [idx EXCEPT ![p] = k]
  OBVIOUS
<1>2. p \in Threads /\ p \notin Consumers
  BY ThreadsAssumption DEF Threads
<1>3. k \in Nat /\ k >= Start /\ k <= tail
  BY <1>1, Numbers, Sizes DEF Loadable, IInv, BoundInv, Threads
<1>4. TypeOK'
  BY <1>1, <1>2, <1>3 DEF IInv, TypeOK
<1>5. Elsewhere(p) /\ pc'[p] = "seq" /\ idx'[p] = k /\ pc[p] \in {"claim", "reload"}
  BY <1>1, <1>2 DEF Elsewhere, IInv, TypeOK
<1>6. SlotsInv' /\ PushersInv' /\ PoppersInv' /\ DistinctInv'
  BY <1>2, <1>5, QuietInv DEF Pushing, Popping
<1>7. CallsInv'
  BY <1>2, <1>5 DEF IInv, CallsInv, Idle, Elsewhere, Threads
<1>8. ClaimsInv'
  BY <1>2, <1>5 DEF IInv, ClaimsInv, Elsewhere, Threads
<1>9. BoundInv'
  <2>1. Trying' = Trying
    BY <1>2, <1>5 DEF Trying, Elsewhere, Threads
  <2>2. \A c \in Consumers : idx'[c] = idx[c]
    BY <1>2, <1>5 DEF Elsewhere, Threads
  <2>3. \A q \in Producers : idx'[q] \in Start .. tail
    BY <1>3, <1>5, Numbers, Sizes DEF IInv, BoundInv, Elsewhere, Threads
  <2> QED BY <2>1, <2>2, <2>3 DEF IInv, BoundInv
<1> QED BY <1>4, <1>6, <1>7, <1>8, <1>9 DEF IInv, Fits

(* The position claimed is tail, and its slot waits to be written.         *)
LEMMA ClaimedFree ==
  ASSUME IInv, NEW p \in Producers, PushClaim(p)
  PROVE  LET s == Mask(tail)
         IN /\ idx[p] = tail /\ acq[p] = tail /\ s \in Slots
            /\ seq[s] = tail /\ Writable(s) /\ tail < head + Cap
            /\ stamp[s] = tail /\ data[s] = Nothing
<1> DEFINE s == Mask(tail)
<1>1. /\ idx[p] \in Nat /\ Start <= idx[p] /\ idx[p] <= tail /\ tail \in Nat
      /\ tail < idx[p] + Modulus
  BY Numbers, Sizes DEF IInv, BoundInv, Threads
<1>2. idx[p] = tail
  BY <1>1, WordExact DEF PushClaim
<1>3. s \in Slots /\ Mask(tail - 1) # s
  <2>1. tail - 1 \in Int /\ (tail - 1) + 1 = tail
    BY <1>1
  <2> QED BY <1>1, <2>1, Numbers, MaskRange, MaskNext
<1>4. acq[p] = tail /\ tail <= seq[s]
  BY <1>2 DEF IInv, ClaimsInv, PushClaim
<1>5. Writable(s)
  <2> SUFFICES ASSUME ~Writable(s) PROVE FALSE
    OBVIOUS
  <2>1. Mask(seq[s] - 1) = s /\ seq[s] <= tail
    BY <1>3 DEF IInv, SlotsInv, ReadableInv
  <2>2. seq[s] = tail
    BY <1>1, <1>3, <1>4, <2>1, Numbers
  <2> QED BY <1>3, <2>1, <2>2
<1>6. seq[s] < head + Cap /\ stamp[s] = seq[s] /\ (handles # {} => data[s] = Nothing)
  BY <1>1, <1>3, <1>4, <1>5, Numbers DEF IInv, SlotsInv, WritableInv
<1>7. seq[s] = tail
  <2> SUFFICES ASSUME tail < seq[s] PROVE FALSE
    BY <1>1, <1>3, <1>4, Numbers
  <2>1. seq[s] \in Int /\ tail \in Int /\ seq[s] < tail + Cap
    BY <1>1, <1>3, <1>6, Numbers, Sizes
  <2>2. Mask(tail) # Mask(seq[s])
    BY <2>1, MaskInjective
  <2> QED BY <1>5, <2>2 DEF Writable
<1>8. p \in handles
  BY DEF IInv, CallsInv, PushClaim, Idle, Threads
<1> QED BY <1>2, <1>3, <1>4, <1>5, <1>6, <1>7, <1>8

LEMMA PushClaimIInv ==
  ASSUME IInv, NEW p \in Producers, PushClaim(p) PROVE IInv'
<1> USE DEF PushClaim, Goto
<1> DEFINE s == Mask(tail)
<1>1. p \in Threads /\ p \notin Consumers
  BY ThreadsAssumption DEF Threads
<1>2. /\ idx[p] = tail /\ acq[p] = tail /\ s \in Slots
      /\ seq[s] = tail /\ Writable(s) /\ tail < head + Cap
      /\ stamp[s] = tail /\ data[s] = Nothing
  BY ClaimedFree
<1> HIDE DEF s
<1>3. TypeOK'
  BY <1>1, <1>2, Numbers, Sizes DEF IInv, TypeOK
<1>4. Elsewhere(p) /\ pc'[p] = "write" /\ idx' = idx /\ acq' = acq
  BY <1>1 DEF Elsewhere, IInv, TypeOK
<1>5. ASSUME NEW u \in Threads, u # p
      PROVE  (Pushing(u)' <=> Pushing(u)) /\ (Popping(u)' <=> Popping(u)) /\ pc'[u] = pc[u]
  BY <1>4, <1>5 DEF Elsewhere, Pushing, Popping
<1>6. CallsInv'
  BY <1>1, <1>4, <1>5 DEF IInv, CallsInv, Idle, Threads
<1>7. ClaimsInv'
  BY <1>1, <1>4, <1>5 DEF IInv, ClaimsInv, Threads
<1>8. BoundInv'
  <2>1. PICK S : S = Trying'
    OBVIOUS
  <2>2. S = Trying \ {p} /\ p \in Trying
    BY <1>1, <1>4, <1>5, <2>1 DEF Trying, Threads
  <2>3. IsFiniteSet(S) /\ Cardinality(S) = Cardinality(Trying) - 1
    BY <2>2, FS_RemoveElement DEF IInv, BoundInv
  <2>4. (tail' - Start) + Cardinality(S) <= calls
    BY <2>3, Numbers, Sizes DEF IInv, BoundInv
  <2>5. \A q \in Producers : idx[q] \in Start .. tail'
    BY Numbers, Sizes DEF IInv, BoundInv
  <2> QED BY <1>4, <2>1, <2>3, <2>4, <2>5 DEF IInv, BoundInv
<1>9. SlotsInv'
  <2> SUFFICES ASSUME NEW r \in Slots
               PROVE  /\ seq[r] >= Start
                      /\ Writable(r) => WritableInv(r)'
                      /\ ~Writable(r) => ReadableInv(r)'
    BY DEF SlotsInv, Writable
  <2>1. /\ seq[r] >= Start /\ seq[r] \in Nat
        /\ Writable(r) => WritableInv(r)
        /\ ~Writable(r) => ReadableInv(r)
    BY Numbers DEF IInv, SlotsInv
  <2>2. ASSUME Writable(r) PROVE WritableInv(r)'
    <3>1. ASSUME seq[r] < tail
          PROVE  \E q \in Producers : Pushing(q)' /\ idx[q] = seq[r]
      <4>1. PICK q \in Producers : Pushing(q) /\ idx[q] = seq[r]
        BY <2>1, <2>2, <3>1 DEF WritableInv
      <4> QED BY <1>5, <4>1 DEF Threads, Pushing
    <3>2. Pushing(p)'
      BY <1>4 DEF Pushing
    <3>3. seq[r] < tail + 1 => seq[r] < tail \/ idx[p] = seq[r]
      BY <1>2, <2>1, Numbers
    <3>4. seq[r] >= tail + 1 => seq[r] >= tail
      BY <2>1, Numbers
    <3> QED BY <1>4, <2>1, <2>2, <3>1, <3>2, <3>3, <3>4 DEF WritableInv
  <2>3. ASSUME ~Writable(r) PROVE ReadableInv(r)'
    <3>1. seq[r] <= tail + 1
      BY <2>1, <2>3, Numbers DEF ReadableInv
    <3>2. seq[r] <= head => \E c \in Consumers : Popping(c)' /\ idx[c] = seq[r] - 1
      BY <1>1, <1>5, <2>1, <2>3 DEF ReadableInv, Threads
    <3> QED BY <1>4, <2>1, <2>3, <3>1, <3>2 DEF ReadableInv
  <2> QED BY <2>1, <2>2, <2>3
<1>10. PushersInv'
  <2> SUFFICES ASSUME NEW q \in Producers, Pushing(q)'
               PROVE  /\ head <= idx[q] /\ idx[q] < tail'
                      /\ seq[Mask(idx[q])] = idx[q] /\ acq[q] = idx[q]
                      /\ pc'[q] = "write" => stamp[Mask(idx[q])] = idx[q]
                                             /\ data[Mask(idx[q])] = Nothing
                      /\ pc'[q] = "publish" => stamp[Mask(idx[q])] = idx[q] + 1
                                             /\ data[Mask(idx[q])] \in Values
    BY <1>4 DEF PushersInv
  <2>1. CASE q = p
    BY <1>2, <1>4, <2>1, Numbers DEF s
  <2>2. CASE q # p
    <3>1. Pushing(q) /\ pc'[q] = pc[q]
      BY <1>5, <2>2 DEF Threads
    <3>2. idx[q] < tail => idx[q] < tail'
      BY Numbers DEF Threads
    <3> QED BY <3>1, <3>2 DEF IInv, PushersInv
  <2> QED BY <2>1, <2>2
<1>11. PoppersInv'
  <2> SUFFICES ASSUME NEW c \in Consumers, Popping(c)'
               PROVE  /\ idx[c] < head /\ tail' <= idx[c] + Cap
                      /\ seq[Mask(idx[c])] = idx[c] + 1 /\ acq[c] = idx[c] + 1
                      /\ pc'[c] = "read" => stamp[Mask(idx[c])] = idx[c] + 1
                                            /\ data[Mask(idx[c])] \in Values
                      /\ pc'[c] = "release" => stamp[Mask(idx[c])] = idx[c] + Cap
                                               /\ data[Mask(idx[c])] = Nothing
    BY <1>4 DEF PoppersInv
  <2>1. Popping(c) /\ pc'[c] = pc[c]
    BY <1>1, <1>5 DEF Threads
  <2>2. tail <= idx[c] + Cap /\ idx[c] \in Nat /\ ~Writable(Mask(idx[c]))
    BY <2>1, Numbers, HoldersApart DEF IInv, PoppersInv, Threads
  <2>3. tail # idx[c] + Cap
    <3>1. Mask(idx[c] + Cap) = Mask(idx[c])
      BY <2>2, MaskLap
    <3> QED BY <1>2, <2>2, <3>1 DEF s
  <2>4. tail' <= idx[c] + Cap
    BY <2>2, <2>3, Numbers, Sizes
  <2> QED BY <2>1, <2>4 DEF IInv, PoppersInv
<1>12. DistinctInv'
  <2>1. ASSUME NEW q \in Producers, q # p, Pushing(q) PROVE idx[q] # idx[p]
    BY <1>2, <2>1, Numbers DEF IInv, PushersInv, Threads
  <2> QED BY <1>1, <1>4, <1>5, <2>1 DEF IInv, DistinctInv, Threads
<1> QED BY <1>3, <1>6, <1>7, <1>8, <1>9, <1>10, <1>11, <1>12 DEF IInv, Fits

(* A producer that holds a slot is alone there.                            *)
LEMMA PushWriteIInv ==
  ASSUME IInv, NEW p \in Producers, PushWrite(p) PROVE IInv'
<1> USE DEF PushWrite, Goto
<1> DEFINE s == Mask(idx[p])
<1>1. p \in Threads /\ p \notin Consumers
  BY ThreadsAssumption DEF Threads
<1>2. Pushing(p)
  BY DEF Pushing
<1>3. /\ s \in Slots /\ Writable(s) /\ idx[p] \in Nat /\ idx[p] < tail
      /\ seq[s] = idx[p] /\ acq[p] = idx[p] /\ head <= idx[p]
  BY <1>1, <1>2, HoldersApart, Numbers DEF IInv, PushersInv
<1>4. arg[p] \in Values
  BY DEF IInv, CallsInv, Idle
<1>5. /\ \A q \in Producers : Pushing(q) /\ q # p => Mask(idx[q]) # s
      /\ \A c \in Consumers : Popping(c) => Mask(idx[c]) # s
  BY <1>2, <1>3, HoldersApart
<1>6. /\ \A r \in Slots \ {s} : data'[r] = data[r] /\ stamp'[r] = stamp[r]
      /\ data'[s] = arg[p] /\ stamp'[s] = idx[p] + 1
  BY <1>3 DEF IInv, TypeOK
<1>7. TypeOK'
  BY <1>1, <1>3, <1>4 DEF IInv, TypeOK
<1> HIDE DEF s
<1>8. Elsewhere(p) /\ pc'[p] = "publish" /\ idx' = idx /\ acq' = acq
  BY <1>1 DEF Elsewhere, IInv, TypeOK
<1>9. ASSUME NEW u \in Threads
      PROVE  (Pushing(u)' <=> Pushing(u)) /\ (Popping(u)' <=> Popping(u))
  BY <1>8 DEF Elsewhere, Pushing, Popping
<1>10. CallsInv'
  BY <1>1, <1>8 DEF IInv, CallsInv, Idle, Elsewhere, Threads
<1>11. ClaimsInv'
  BY <1>1, <1>8 DEF IInv, ClaimsInv, Elsewhere, Threads
<1>12. BoundInv'
  <2>1. Trying' = Trying
    BY <1>1, <1>8 DEF Trying, Elsewhere, Threads
  <2> QED BY <2>1 DEF IInv, BoundInv
<1>13. SlotsInv'
  <2> SUFFICES ASSUME NEW r \in Slots
               PROVE  /\ seq[r] >= Start
                      /\ Writable(r) => WritableInv(r)'
                      /\ ~Writable(r) => ReadableInv(r)'
    BY DEF SlotsInv, Writable
  <2>1. /\ seq[r] >= Start
        /\ Writable(r) => WritableInv(r)
        /\ ~Writable(r) => ReadableInv(r)
    BY DEF IInv, SlotsInv
  <2>2. r = s => Writable(r) /\ ~(seq[r] >= tail)
    BY <1>3, Numbers
  <2>3. Writable(r) => WritableInv(r)'
    BY <1>6, <1>8, <1>9, <2>1, <2>2 DEF WritableInv, Threads
  <2>4. ~Writable(r) => ReadableInv(r)'
    BY <1>6, <1>8, <1>9, <2>1, <2>2 DEF ReadableInv, Threads
  <2> QED BY <2>1, <2>3, <2>4
<1>14. PushersInv'
  <2> SUFFICES ASSUME NEW q \in Producers, Pushing(q)'
               PROVE  /\ head <= idx[q] /\ idx[q] < tail
                      /\ seq[Mask(idx[q])] = idx[q] /\ acq[q] = idx[q]
                      /\ pc'[q] = "write" => stamp'[Mask(idx[q])] = idx[q]
                                             /\ data'[Mask(idx[q])] = Nothing
                      /\ pc'[q] = "publish" => stamp'[Mask(idx[q])] = idx[q] + 1
                                             /\ data'[Mask(idx[q])] \in Values
    BY <1>8 DEF PushersInv
  <2>1. CASE q = p
    BY <1>3, <1>4, <1>6, <1>8, <2>1 DEF s
  <2>2. CASE q # p
    <3>1. Pushing(q) /\ pc'[q] = pc[q] /\ Mask(idx[q]) # s /\ Mask(idx[q]) \in Slots
      BY <1>5, <1>8, <1>9, <2>2, HoldersApart DEF Elsewhere, Threads
    <3> QED BY <1>6, <3>1 DEF IInv, PushersInv
  <2> QED BY <2>1, <2>2
<1>15. PoppersInv'
  <2> SUFFICES ASSUME NEW c \in Consumers, Popping(c)'
               PROVE  /\ idx[c] < head /\ tail <= idx[c] + Cap
                      /\ seq[Mask(idx[c])] = idx[c] + 1 /\ acq[c] = idx[c] + 1
                      /\ pc'[c] = "read" => stamp'[Mask(idx[c])] = idx[c] + 1
                                            /\ data'[Mask(idx[c])] \in Values
                      /\ pc'[c] = "release" => stamp'[Mask(idx[c])] = idx[c] + Cap
                                               /\ data'[Mask(idx[c])] = Nothing
    BY <1>8 DEF PoppersInv
  <2>1. Popping(c) /\ pc'[c] = pc[c] /\ Mask(idx[c]) # s /\ Mask(idx[c]) \in Slots
    BY <1>1, <1>5, <1>8, <1>9, HoldersApart DEF Elsewhere, Threads
  <2> QED BY <1>6, <2>1 DEF IInv, PoppersInv
<1>16. DistinctInv'
  BY <1>8, <1>9 DEF IInv, DistinctInv, Threads
<1> QED BY <1>7, <1>10, <1>11, <1>12, <1>13, <1>14, <1>15, <1>16 DEF IInv, Fits

LEMMA PushPublishIInv ==
  ASSUME IInv, NEW p \in Producers, PushPublish(p) PROVE IInv'
<1> USE DEF PushPublish, Goto
<1> DEFINE s == Mask(idx[p])
<1>1. p \in Threads /\ p \notin Consumers
  BY ThreadsAssumption DEF Threads
<1>2. Pushing(p)
  BY DEF Pushing
<1>3. /\ s \in Slots /\ Writable(s) /\ idx[p] \in Nat /\ idx[p] < tail
      /\ seq[s] = idx[p] /\ head <= idx[p] /\ idx[p] >= Start
      /\ stamp[s] = idx[p] + 1 /\ data[s] \in Values
  BY <1>1, <1>2, HoldersApart, Numbers DEF IInv, PushersInv, BoundInv
<1>4. /\ \A q \in Producers : Pushing(q) /\ q # p => Mask(idx[q]) # s
      /\ \A c \in Consumers : Popping(c) => Mask(idx[c]) # s
  BY <1>2, <1>3, HoldersApart
<1>5. /\ \A r \in Slots \ {s} : seq'[r] = seq[r]
      /\ seq'[s] = idx[p] + 1
  BY <1>3 DEF IInv, TypeOK
<1>6. TypeOK'
  BY <1>1, <1>3 DEF IInv, TypeOK
<1>7. Mask(idx[p] + 1) # s
  BY <1>3, Numbers, MaskNext
<1>8. Mask((idx[p] + 1) - 1) = s
  <2>1. (idx[p] + 1) - 1 = idx[p]
    BY <1>3
  <2> QED BY <2>1
<1> HIDE DEF s
<1>9. Elsewhere(p) /\ pc'[p] = "ok" /\ idx' = idx /\ acq' = acq
  BY <1>1 DEF Elsewhere, IInv, TypeOK
<1>10. /\ ~Pushing(p)' /\ ~Popping(p)'
       /\ \A u \in Threads \ {p} : (Pushing(u)' <=> Pushing(u)) /\ (Popping(u)' <=> Popping(u))
  BY <1>9 DEF Elsewhere, Pushing, Popping
<1>11. CallsInv'
  BY <1>1, <1>9 DEF IInv, CallsInv, Idle, Elsewhere, Threads
<1>12. ClaimsInv'
  <2>1. ASSUME NEW r \in Slots PROVE seq'[r] \in Nat /\ seq[r] <= seq'[r]
    BY <1>3, <1>5, Numbers
  <2>2. ASSUME NEW u \in Threads
        PROVE  /\ idx[u] \in Nat /\ Mask(idx[u]) \in Slots
               /\ pc'[u] = "claim" => pc[u] = "claim"
    BY <1>9, Numbers, MaskRange DEF Elsewhere
  <2>3. ASSUME NEW q \in Producers, pc'[q] = "claim"
        PROVE  acq[q] = idx[q] /\ idx[q] <= seq'[Mask(idx[q])]
    <3>1. acq[q] = idx[q] /\ idx[q] <= seq[Mask(idx[q])]
      BY <2>2, <2>3 DEF IInv, ClaimsInv, Threads
    <3> QED BY <2>1, <2>2, <3>1, Numbers DEF Threads
  <2>4. ASSUME NEW c \in Consumers, pc'[c] = "claim"
        PROVE  acq[c] = idx[c] + 1 /\ idx[c] + 1 <= seq'[Mask(idx[c])]
    <3>1. acq[c] = idx[c] + 1 /\ idx[c] + 1 <= seq[Mask(idx[c])]
      BY <2>2, <2>4 DEF IInv, ClaimsInv, Threads
    <3> QED BY <2>1, <2>2, <3>1, Numbers DEF Threads
  <2> QED BY <1>9, <2>3, <2>4 DEF ClaimsInv
<1>13. BoundInv'
  <2>1. Trying' = Trying
    BY <1>1, <1>9 DEF Trying, Elsewhere, Threads
  <2> QED BY <2>1 DEF IInv, BoundInv
<1>14. SlotsInv'
  <2> SUFFICES ASSUME NEW r \in Slots
               PROVE  /\ seq'[r] >= Start
                      /\ Writable(r)' => WritableInv(r)'
                      /\ ~Writable(r)' => ReadableInv(r)'
    BY DEF SlotsInv
  <2>1. CASE r = s
    <3>1. ~Writable(r)' /\ seq'[r] = idx[p] + 1
      BY <1>5, <1>7, <2>1 DEF Writable
    <3>2. seq'[r] >= Start /\ seq'[r] <= tail /\ ~(seq'[r] <= head)
      BY <1>3, <3>1, Numbers, Sizes
    <3> QED BY <1>3, <1>8, <1>9, <2>1, <3>1, <3>2 DEF ReadableInv
  <2>2. CASE r # s
    <3>1. /\ seq[r] >= Start /\ seq'[r] = seq[r]
          /\ Writable(r) => WritableInv(r)
          /\ ~Writable(r) => ReadableInv(r)
      BY <1>5, <2>2 DEF IInv, SlotsInv
    <3>2. Writable(r)' <=> Writable(r)
      BY <3>1 DEF Writable
    <3>3. ASSUME Writable(r) PROVE WritableInv(r)'
      <4>1. ASSUME seq[r] < tail
            PROVE  \E q \in Producers : Pushing(q)' /\ idx[q] = seq[r]
        <5>1. PICK q \in Producers : Pushing(q) /\ idx[q] = seq[r]
          BY <3>1, <3>3, <4>1 DEF WritableInv
        <5>2. q # p
          BY <2>2, <3>3, <5>1 DEF Writable, s
        <5> QED BY <1>10, <5>1, <5>2 DEF Threads
      <4> QED BY <1>9, <3>1, <3>3, <4>1 DEF WritableInv
    <3>4. ASSUME ~Writable(r) PROVE ReadableInv(r)'
      <4>1. seq[r] <= head => \E c \in Consumers : Popping(c)' /\ idx[c] = seq[r] - 1
        BY <1>1, <1>10, <3>1, <3>4 DEF ReadableInv, Threads
      <4> QED BY <1>9, <3>1, <3>4, <4>1 DEF ReadableInv
    <3> QED BY <3>1, <3>2, <3>3, <3>4
  <2> QED BY <2>1, <2>2
<1>15. PushersInv'
  <2> SUFFICES ASSUME NEW q \in Producers, Pushing(q)'
               PROVE  /\ head <= idx[q] /\ idx[q] < tail
                      /\ seq'[Mask(idx[q])] = idx[q] /\ acq[q] = idx[q]
                      /\ pc'[q] = "write" => stamp[Mask(idx[q])] = idx[q]
                                             /\ data[Mask(idx[q])] = Nothing
                      /\ pc'[q] = "publish" => stamp[Mask(idx[q])] = idx[q] + 1
                                             /\ data[Mask(idx[q])] \in Values
    BY <1>9 DEF PushersInv
  <2>1. q # p /\ Pushing(q) /\ pc'[q] = pc[q]
    BY <1>9, <1>10 DEF Elsewhere, Threads
  <2>2. seq'[Mask(idx[q])] = seq[Mask(idx[q])]
    BY <1>4, <1>5, <2>1, HoldersApart
  <2> QED BY <2>1, <2>2 DEF IInv, PushersInv
<1>16. PoppersInv'
  <2> SUFFICES ASSUME NEW c \in Consumers, Popping(c)'
               PROVE  /\ idx[c] < head /\ tail <= idx[c] + Cap
                      /\ seq'[Mask(idx[c])] = idx[c] + 1 /\ acq[c] = idx[c] + 1
                      /\ pc'[c] = "read" => stamp[Mask(idx[c])] = idx[c] + 1
                                            /\ data[Mask(idx[c])] \in Values
                      /\ pc'[c] = "release" => stamp[Mask(idx[c])] = idx[c] + Cap
                                               /\ data[Mask(idx[c])] = Nothing
    BY <1>9 DEF PoppersInv
  <2>1. Popping(c) /\ pc'[c] = pc[c]
    BY <1>1, <1>9, <1>10 DEF Elsewhere, Threads
  <2>2. seq'[Mask(idx[c])] = seq[Mask(idx[c])]
    BY <1>4, <1>5, <2>1, HoldersApart
  <2> QED BY <2>1, <2>2 DEF IInv, PoppersInv
<1>17. DistinctInv'
  BY <1>1, <1>9, <1>10 DEF IInv, DistinctInv, Threads
<1> QED BY <1>6, <1>11, <1>12, <1>13, <1>14, <1>15, <1>16, <1>17 DEF IInv, Fits

------------------------------------------------------------------------------
(* The steps of a consumer.                                                *)

(* PopCall, PopLose and PopReload load head and go to the loop's top.      *)
LEMMA PopAgainIInv ==
  ASSUME IInv, NEW c \in Consumers, PopCall(c) \/ PopLose(c) \/ PopReload(c) PROVE IInv'
<1> USE DEF PopCall, PopLose, PopReload, Goto
<1>1. PICK k \in Loadable(idx[c], head) : idx' = [idx EXCEPT ![c] = k]
  OBVIOUS
<1>2. c \in Threads /\ c \notin Producers
  BY ThreadsAssumption DEF Threads
<1>3. k \in Nat /\ k >= Start /\ k <= head
  BY <1>1, Numbers, Sizes DEF Loadable, IInv, BoundInv, Threads
<1>4. TypeOK'
  BY <1>1, <1>2, <1>3 DEF IInv, TypeOK
<1>5. Elsewhere(c) /\ pc'[c] = "seq" /\ idx'[c] = k
  BY <1>1, <1>2 DEF Elsewhere, IInv, TypeOK
<1>6. SlotsInv' /\ PushersInv' /\ PoppersInv' /\ DistinctInv'
  BY <1>2, <1>5, QuietInv DEF Pushing, Popping, Idle
<1>7. c \in handles
  BY <1>2 DEF IInv, CallsInv, Idle
<1>8. CallsInv'
  BY <1>2, <1>5, <1>7 DEF IInv, CallsInv, Idle, Elsewhere, Threads
<1>9. ClaimsInv'
  BY <1>2, <1>5 DEF IInv, ClaimsInv, Elsewhere, Threads
<1>10. BoundInv'
  <2>1. Trying' = Trying
    BY <1>2, <1>5 DEF Trying, Elsewhere, Threads
  <2>2. \A p \in Producers : idx'[p] = idx[p]
    BY <1>2, <1>5 DEF Elsewhere, Threads
  <2>3. \A d \in Consumers : idx'[d] \in Start .. head
    BY <1>3, <1>5, Numbers, Sizes DEF IInv, BoundInv, Elsewhere, Threads
  <2> QED BY <2>1, <2>2, <2>3 DEF IInv, BoundInv
<1> QED BY <1>4, <1>6, <1>8, <1>9, <1>10 DEF IInv, Fits

LEMMA PopLoadSeqIInv ==
  ASSUME IInv, NEW c \in Consumers, PopLoadSeq(c) PROVE IInv'
<1> USE DEF PopLoadSeq, Goto
<1>1. PICK v \in LoadableSeq(Mask(idx[c])) :
        /\ acq' = [acq EXCEPT ![c] = Acquired(v)]
        /\ LET diff == Diff(v, idx[c] + 1)
           IN \/ diff = 0 /\ pc' = [pc EXCEPT ![c] = "claim"]
              \/ diff < 0 /\ pc' = [pc EXCEPT ![c] = "empty"]
              \/ diff > 0 /\ pc' = [pc EXCEPT ![c] = "reload"]
  OBVIOUS
<1>2. c \in Threads /\ c \notin Producers
  BY ThreadsAssumption DEF Threads
<1>3. v \in Nat /\ v <= seq[Mask(idx[c])] /\ Diff(v, idx[c] + 1) = v - (idx[c] + 1)
  BY <1>2, Compared
<1>4. TypeOK'
  BY <1>1, <1>2, <1>3 DEF IInv, TypeOK, Acquired
<1>5. /\ Elsewhere(c) /\ pc'[c] \in {"claim", "empty", "reload"}
      /\ idx'[c] = idx[c] /\ acq'[c] = v
      /\ pc'[c] = "claim" => Diff(v, idx[c] + 1) = 0
  BY <1>1, <1>2, <1>3 DEF Elsewhere, IInv, TypeOK, Acquired
<1>6. SlotsInv' /\ PushersInv' /\ PoppersInv' /\ DistinctInv'
  BY <1>2, <1>5, QuietInv DEF Pushing, Popping
<1>7. CallsInv'
  BY <1>2, <1>5 DEF IInv, CallsInv, Idle, Elsewhere, Threads
<1>8. ClaimsInv'
  <2>1. pc'[c] = "claim" => v = idx[c] + 1
    BY <1>2, <1>3, <1>5, Numbers
  <2> QED BY <1>2, <1>3, <1>5, <2>1 DEF IInv, ClaimsInv, Elsewhere, Threads
<1>9. BoundInv'
  <2>1. Trying' = Trying
    BY <1>2, <1>5 DEF Trying, Elsewhere, Threads
  <2> QED BY <2>1 DEF IInv, BoundInv
<1> QED BY <1>4, <1>6, <1>7, <1>8, <1>9 DEF IInv, Fits

(* The position claimed is head, and its slot waits to be read.            *)
LEMMA ClaimedFull ==
  ASSUME IInv, NEW c \in Consumers, PopClaim(c)
  PROVE  LET s == Mask(head)
         IN /\ idx[c] = head /\ acq[c] = head + 1 /\ s \in Slots
            /\ seq[s] = head + 1 /\ ~Writable(s) /\ head < tail
            /\ stamp[s] = head + 1 /\ data[s] \in Values
<1> DEFINE s == Mask(head)
<1>1. /\ idx[c] \in Nat /\ Start <= idx[c] /\ idx[c] <= head /\ head \in Nat
      /\ head < idx[c] + Modulus
  BY Numbers, Sizes DEF IInv, BoundInv, Threads
<1>2. idx[c] = head
  BY <1>1, WordExact DEF PopClaim
<1>3. s \in Slots
  BY <1>1, MaskRange
<1>4. acq[c] = head + 1 /\ head + 1 <= seq[s]
  BY <1>2 DEF IInv, ClaimsInv, PopClaim
<1>5. ~Writable(s)
  <2> SUFFICES ASSUME Writable(s) PROVE FALSE
    OBVIOUS
  <2>1. seq[s] < head + Cap
    BY <1>3 DEF IInv, SlotsInv, WritableInv
  <2>2. head \in Int /\ seq[s] \in Int /\ head < seq[s]
    BY <1>1, <1>3, <1>4, Numbers
  <2>3. Mask(head) # Mask(seq[s])
    BY <2>1, <2>2, MaskInjective
  <2> QED BY <2>3 DEF Writable
<1>6. /\ Mask(seq[s] - 1) = s /\ seq[s] <= tail
      /\ stamp[s] = seq[s] /\ (handles # {} => data[s] \in Values)
  BY <1>1, <1>3, <1>4, <1>5, Numbers DEF IInv, SlotsInv, ReadableInv
<1>7. seq[s] = head + 1
  <2> SUFFICES ASSUME head + 1 < seq[s] PROVE FALSE
    BY <1>1, <1>3, <1>4, Numbers
  <2>1. seq[s] - 1 \in Int /\ head \in Int /\ head < seq[s] - 1 /\ seq[s] - 1 < head + Cap
    BY <1>1, <1>3, <1>6, Numbers, Sizes
  <2>2. Mask(head) # Mask(seq[s] - 1)
    BY <2>1, MaskInjective
  <2> QED BY <1>6, <2>2
<1>8. c \in handles
  BY DEF IInv, CallsInv, PopClaim, Idle, Threads
<1>9. head < tail
  BY <1>1, <1>6, <1>7, Numbers
<1> QED BY <1>2, <1>3, <1>4, <1>5, <1>6, <1>7, <1>8, <1>9

LEMMA PopClaimIInv ==
  ASSUME IInv, NEW c \in Consumers, PopClaim(c) PROVE IInv'
<1> USE DEF PopClaim, Goto
<1> DEFINE s == Mask(head)
<1>1. c \in Threads /\ c \notin Producers
  BY ThreadsAssumption DEF Threads
<1>2. /\ idx[c] = head /\ acq[c] = head + 1 /\ s \in Slots
      /\ seq[s] = head + 1 /\ ~Writable(s) /\ head < tail
      /\ stamp[s] = head + 1 /\ data[s] \in Values
  BY ClaimedFull
<1> HIDE DEF s
<1>3. TypeOK'
  BY <1>1, <1>2, Numbers, Sizes DEF IInv, TypeOK
<1>4. Elsewhere(c) /\ pc'[c] = "read" /\ idx' = idx /\ acq' = acq
  BY <1>1 DEF Elsewhere, IInv, TypeOK
<1>5. ASSUME NEW u \in Threads, u # c
      PROVE  (Pushing(u)' <=> Pushing(u)) /\ (Popping(u)' <=> Popping(u)) /\ pc'[u] = pc[u]
  BY <1>4, <1>5 DEF Elsewhere, Pushing, Popping
<1>6. CallsInv'
  BY <1>1, <1>4, <1>5 DEF IInv, CallsInv, Idle, Threads
<1>7. ClaimsInv'
  BY <1>1, <1>4, <1>5 DEF IInv, ClaimsInv, Threads
<1>8. BoundInv'
  <2>1. Trying' = Trying
    BY <1>1, <1>5 DEF Trying, Threads
  <2>2. Start <= head' /\ \A d \in Consumers : idx[d] \in Start .. head'
    BY Numbers, Sizes DEF IInv, BoundInv
  <2> QED BY <1>4, <2>1, <2>2 DEF IInv, BoundInv
<1>9. SlotsInv'
  <2> SUFFICES ASSUME NEW r \in Slots
               PROVE  /\ seq[r] >= Start
                      /\ Writable(r) => WritableInv(r)'
                      /\ ~Writable(r) => ReadableInv(r)'
    BY DEF SlotsInv, Writable
  <2>1. /\ seq[r] >= Start /\ seq[r] \in Nat
        /\ Writable(r) => WritableInv(r)
        /\ ~Writable(r) => ReadableInv(r)
    BY Numbers DEF IInv, SlotsInv
  <2>2. ASSUME Writable(r) PROVE WritableInv(r)'
    <3>1. seq[r] < head + 1 + Cap
      BY <2>1, <2>2, Numbers, Sizes DEF WritableInv
    <3>2. seq[r] < tail => \E q \in Producers : Pushing(q)' /\ idx[q] = seq[r]
      BY <1>1, <1>5, <2>1, <2>2 DEF WritableInv, Threads
    <3> QED BY <1>4, <2>1, <2>2, <3>1, <3>2 DEF WritableInv
  <2>3. ASSUME ~Writable(r) PROVE ReadableInv(r)'
    <3>1. ASSUME seq[r] <= head
          PROVE  \E d \in Consumers : Popping(d)' /\ idx[d] = seq[r] - 1
      <4>1. PICK d \in Consumers : Popping(d) /\ idx[d] = seq[r] - 1
        BY <2>1, <2>3, <3>1 DEF ReadableInv
      <4> QED BY <1>5, <4>1 DEF Threads, Popping
    <3>2. Popping(c)'
      BY <1>4 DEF Popping
    <3>3. seq[r] <= head + 1 => seq[r] <= head \/ idx[c] = seq[r] - 1
      BY <1>2, <2>1, Numbers
    <3>4. seq[r] > head + 1 => seq[r] > head
      BY <2>1, Numbers
    <3> QED BY <1>4, <2>1, <2>3, <3>1, <3>2, <3>3, <3>4 DEF ReadableInv
  <2> QED BY <2>1, <2>2, <2>3
<1>10. PushersInv'
  <2> SUFFICES ASSUME NEW q \in Producers, Pushing(q)'
               PROVE  /\ head' <= idx[q] /\ idx[q] < tail
                      /\ seq[Mask(idx[q])] = idx[q] /\ acq[q] = idx[q]
                      /\ pc'[q] = "write" => stamp[Mask(idx[q])] = idx[q]
                                             /\ data[Mask(idx[q])] = Nothing
                      /\ pc'[q] = "publish" => stamp[Mask(idx[q])] = idx[q] + 1
                                             /\ data[Mask(idx[q])] \in Values
    BY <1>4 DEF PushersInv
  <2>1. Pushing(q) /\ pc'[q] = pc[q]
    BY <1>1, <1>5 DEF Threads
  <2>2. head <= idx[q] /\ idx[q] \in Nat /\ Writable(Mask(idx[q]))
    BY <2>1, Numbers, HoldersApart DEF IInv, PushersInv, Threads
  <2>3. head # idx[q]
    BY <1>2, <2>2 DEF s
  <2>4. head' <= idx[q]
    BY <2>2, <2>3, Numbers
  <2> QED BY <2>1, <2>4 DEF IInv, PushersInv
<1>11. PoppersInv'
  <2> SUFFICES ASSUME NEW d \in Consumers, Popping(d)'
               PROVE  /\ idx[d] < head' /\ tail <= idx[d] + Cap
                      /\ seq[Mask(idx[d])] = idx[d] + 1 /\ acq[d] = idx[d] + 1
                      /\ pc'[d] = "read" => stamp[Mask(idx[d])] = idx[d] + 1
                                            /\ data[Mask(idx[d])] \in Values
                      /\ pc'[d] = "release" => stamp[Mask(idx[d])] = idx[d] + Cap
                                               /\ data[Mask(idx[d])] = Nothing
    BY <1>4 DEF PoppersInv
  <2>1. CASE d = c
    BY <1>2, <1>4, <2>1, Numbers DEF s
  <2>2. CASE d # c
    <3>1. Popping(d) /\ pc'[d] = pc[d]
      BY <1>5, <2>2 DEF Threads
    <3>2. idx[d] < head => idx[d] < head'
      BY Numbers DEF Threads
    <3> QED BY <3>1, <3>2 DEF IInv, PoppersInv
  <2> QED BY <2>1, <2>2
<1>12. DistinctInv'
  <2>1. ASSUME NEW d \in Consumers, d # c, Popping(d) PROVE idx[d] # idx[c]
    BY <1>2, <2>1, Numbers DEF IInv, PoppersInv, Threads
  <2> QED BY <1>1, <1>4, <1>5, <2>1 DEF IInv, DistinctInv, Threads
<1> QED BY <1>3, <1>6, <1>7, <1>8, <1>9, <1>10, <1>11, <1>12 DEF IInv, Fits

(* A consumer that holds a slot is alone there.                            *)
LEMMA PopReadIInv ==
  ASSUME IInv, NEW c \in Consumers, PopRead(c) PROVE IInv'
<1> USE DEF PopRead, Goto
<1> DEFINE s == Mask(idx[c])
<1>1. c \in Threads /\ c \notin Producers
  BY ThreadsAssumption DEF Threads
<1>2. Popping(c)
  BY DEF Popping
<1>3. /\ s \in Slots /\ ~Writable(s) /\ idx[c] \in Nat /\ idx[c] < head
      /\ seq[s] = idx[c] + 1 /\ acq[c] = idx[c] + 1 /\ tail <= idx[c] + Cap
      /\ data[s] \in Values /\ idx[c] + Cap \in Nat
  BY <1>1, <1>2, HoldersApart, Numbers, Sizes DEF IInv, PoppersInv
<1>4. /\ \A q \in Producers : Pushing(q) => Mask(idx[q]) # s
      /\ \A d \in Consumers : Popping(d) /\ d # c => Mask(idx[d]) # s
  BY <1>2, <1>3, HoldersApart
<1>5. /\ \A r \in Slots \ {s} : data'[r] = data[r] /\ stamp'[r] = stamp[r]
      /\ data'[s] = Nothing /\ stamp'[s] = idx[c] + Cap
  BY <1>3 DEF IInv, TypeOK
<1>6. TypeOK'
  BY <1>1, <1>3 DEF IInv, TypeOK
<1> HIDE DEF s
<1>7. Elsewhere(c) /\ pc'[c] = "release" /\ idx' = idx /\ acq' = acq
  BY <1>1 DEF Elsewhere, IInv, TypeOK
<1>8. ASSUME NEW u \in Threads
      PROVE  (Pushing(u)' <=> Pushing(u)) /\ (Popping(u)' <=> Popping(u))
  BY <1>7 DEF Elsewhere, Pushing, Popping
<1>9. CallsInv'
  BY <1>1, <1>7 DEF IInv, CallsInv, Idle, Elsewhere, Threads
<1>10. ClaimsInv'
  BY <1>1, <1>7 DEF IInv, ClaimsInv, Elsewhere, Threads
<1>11. BoundInv'
  <2>1. Trying' = Trying
    BY <1>1, <1>7 DEF Trying, Elsewhere, Threads
  <2> QED BY <2>1 DEF IInv, BoundInv
<1>12. SlotsInv'
  <2> SUFFICES ASSUME NEW r \in Slots
               PROVE  /\ seq[r] >= Start
                      /\ Writable(r) => WritableInv(r)'
                      /\ ~Writable(r) => ReadableInv(r)'
    BY DEF SlotsInv, Writable
  <2>1. /\ seq[r] >= Start
        /\ Writable(r) => WritableInv(r)
        /\ ~Writable(r) => ReadableInv(r)
    BY DEF IInv, SlotsInv
  <2>2. r = s => ~Writable(r) /\ ~(seq[r] > head)
    BY <1>3, Numbers
  <2>3. Writable(r) => WritableInv(r)'
    BY <1>5, <1>7, <1>8, <2>1, <2>2 DEF WritableInv, Threads
  <2>4. ~Writable(r) => ReadableInv(r)'
    BY <1>5, <1>7, <1>8, <2>1, <2>2 DEF ReadableInv, Threads
  <2> QED BY <2>1, <2>3, <2>4
<1>13. PushersInv'
  <2> SUFFICES ASSUME NEW q \in Producers, Pushing(q)'
               PROVE  /\ head <= idx[q] /\ idx[q] < tail
                      /\ seq[Mask(idx[q])] = idx[q] /\ acq[q] = idx[q]
                      /\ pc'[q] = "write" => stamp'[Mask(idx[q])] = idx[q]
                                             /\ data'[Mask(idx[q])] = Nothing
                      /\ pc'[q] = "publish" => stamp'[Mask(idx[q])] = idx[q] + 1
                                             /\ data'[Mask(idx[q])] \in Values
    BY <1>7 DEF PushersInv
  <2>1. Pushing(q) /\ pc'[q] = pc[q] /\ Mask(idx[q]) # s /\ Mask(idx[q]) \in Slots
    BY <1>1, <1>4, <1>7, <1>8, HoldersApart DEF Elsewhere, Threads
  <2> QED BY <1>5, <2>1 DEF IInv, PushersInv
<1>14. PoppersInv'
  <2> SUFFICES ASSUME NEW d \in Consumers, Popping(d)'
               PROVE  /\ idx[d] < head /\ tail <= idx[d] + Cap
                      /\ seq[Mask(idx[d])] = idx[d] + 1 /\ acq[d] = idx[d] + 1
                      /\ pc'[d] = "read" => stamp'[Mask(idx[d])] = idx[d] + 1
                                            /\ data'[Mask(idx[d])] \in Values
                      /\ pc'[d] = "release" => stamp'[Mask(idx[d])] = idx[d] + Cap
                                               /\ data'[Mask(idx[d])] = Nothing
    BY <1>7 DEF PoppersInv
  <2>1. CASE d = c
    BY <1>3, <1>5, <1>7, <2>1 DEF s
  <2>2. CASE d # c
    <3>1. Popping(d) /\ pc'[d] = pc[d] /\ Mask(idx[d]) # s /\ Mask(idx[d]) \in Slots
      BY <1>4, <1>7, <1>8, <2>2, HoldersApart DEF Elsewhere, Threads
    <3> QED BY <1>5, <3>1 DEF IInv, PoppersInv
  <2> QED BY <2>1, <2>2
<1>15. DistinctInv'
  BY <1>7, <1>8 DEF IInv, DistinctInv, Threads
<1> QED BY <1>6, <1>9, <1>10, <1>11, <1>12, <1>13, <1>14, <1>15 DEF IInv, Fits

LEMMA PopReleaseIInv ==
  ASSUME IInv, NEW c \in Consumers, PopRelease(c) PROVE IInv'
<1> USE DEF PopRelease, Goto
<1> DEFINE s == Mask(idx[c])
<1>1. c \in Threads /\ c \notin Producers
  BY ThreadsAssumption DEF Threads
<1>2. Popping(c)
  BY DEF Popping
<1>3. /\ s \in Slots /\ idx[c] \in Nat /\ idx[c] < head
      /\ seq[s] = idx[c] + 1 /\ tail <= idx[c] + Cap /\ idx[c] >= Start
      /\ stamp[s] = idx[c] + Cap /\ data[s] = Nothing /\ idx[c] + Cap \in Nat
  BY <1>1, <1>2, HoldersApart, Numbers, Sizes DEF IInv, PoppersInv, BoundInv
<1>4. /\ \A q \in Producers : Pushing(q) => Mask(idx[q]) # s
      /\ \A d \in Consumers : Popping(d) /\ d # c => Mask(idx[d]) # s
  BY <1>2, <1>3, HoldersApart
<1>5. /\ \A r \in Slots \ {s} : seq'[r] = seq[r]
      /\ seq'[s] = idx[c] + Cap
  BY <1>3 DEF IInv, TypeOK
<1>6. TypeOK'
  BY <1>1, <1>3 DEF IInv, TypeOK
<1>7. Mask(idx[c] + Cap) = s
  BY <1>3, MaskLap
<1> HIDE DEF s
<1>8. Elsewhere(c) /\ pc'[c] = "got" /\ idx' = idx /\ acq' = acq
  BY <1>1 DEF Elsewhere, IInv, TypeOK
<1>9. /\ ~Pushing(c)' /\ ~Popping(c)'
      /\ \A u \in Threads \ {c} : (Pushing(u)' <=> Pushing(u)) /\ (Popping(u)' <=> Popping(u))
  BY <1>8 DEF Elsewhere, Pushing, Popping
<1>10. CallsInv'
  BY <1>1, <1>8 DEF IInv, CallsInv, Idle, Elsewhere, Threads
<1>11. ClaimsInv'
  <2>1. ASSUME NEW r \in Slots PROVE seq'[r] \in Nat /\ seq[r] <= seq'[r]
    BY <1>3, <1>5, Numbers, Sizes
  <2>2. ASSUME NEW u \in Threads
        PROVE  /\ idx[u] \in Nat /\ Mask(idx[u]) \in Slots
               /\ pc'[u] = "claim" => pc[u] = "claim"
    BY <1>8, Numbers, MaskRange DEF Elsewhere
  <2>3. ASSUME NEW q \in Producers, pc'[q] = "claim"
        PROVE  acq[q] = idx[q] /\ idx[q] <= seq'[Mask(idx[q])]
    <3>1. acq[q] = idx[q] /\ idx[q] <= seq[Mask(idx[q])]
      BY <2>2, <2>3 DEF IInv, ClaimsInv, Threads
    <3> QED BY <2>1, <2>2, <3>1, Numbers DEF Threads
  <2>4. ASSUME NEW d \in Consumers, pc'[d] = "claim"
        PROVE  acq[d] = idx[d] + 1 /\ idx[d] + 1 <= seq'[Mask(idx[d])]
    <3>1. acq[d] = idx[d] + 1 /\ idx[d] + 1 <= seq[Mask(idx[d])]
      BY <2>2, <2>4 DEF IInv, ClaimsInv, Threads
    <3> QED BY <2>1, <2>2, <3>1, Numbers DEF Threads
  <2> QED BY <1>8, <2>3, <2>4 DEF ClaimsInv
<1>12. BoundInv'
  <2>1. Trying' = Trying
    BY <1>1, <1>8 DEF Trying, Elsewhere, Threads
  <2> QED BY <2>1 DEF IInv, BoundInv
<1>13. SlotsInv'
  <2> SUFFICES ASSUME NEW r \in Slots
               PROVE  /\ seq'[r] >= Start
                      /\ Writable(r)' => WritableInv(r)'
                      /\ ~Writable(r)' => ReadableInv(r)'
    BY DEF SlotsInv
  <2>1. CASE r = s
    <3>1. Writable(r)' /\ seq'[r] = idx[c] + Cap
      BY <1>5, <1>7, <2>1 DEF Writable
    <3>2. seq'[r] >= Start /\ seq'[r] < head + Cap /\ ~(seq'[r] < tail)
      BY <1>3, <3>1, Numbers, Sizes
    <3> QED BY <1>3, <1>8, <2>1, <3>1, <3>2 DEF WritableInv
  <2>2. CASE r # s
    <3>1. /\ seq[r] >= Start /\ seq'[r] = seq[r]
          /\ Writable(r) => WritableInv(r)
          /\ ~Writable(r) => ReadableInv(r)
      BY <1>5, <2>2 DEF IInv, SlotsInv
    <3>2. Writable(r)' <=> Writable(r)
      BY <3>1 DEF Writable
    <3>3. ASSUME Writable(r) PROVE WritableInv(r)'
      <4>1. seq[r] < tail => \E q \in Producers : Pushing(q)' /\ idx[q] = seq[r]
        BY <1>1, <1>9, <3>1, <3>3 DEF WritableInv, Threads
      <4> QED BY <1>8, <3>1, <3>3, <4>1 DEF WritableInv
    <3>4. ASSUME ~Writable(r) PROVE ReadableInv(r)'
      <4>1. ASSUME seq[r] <= head
            PROVE  \E d \in Consumers : Popping(d)' /\ idx[d] = seq[r] - 1
        <5>1. PICK d \in Consumers : Popping(d) /\ idx[d] = seq[r] - 1
          BY <3>1, <3>4, <4>1 DEF ReadableInv
        <5>2. d # c
          BY <2>2, <3>1, <3>4, <5>1 DEF ReadableInv, s
        <5> QED BY <1>9, <5>1, <5>2 DEF Threads
      <4> QED BY <1>8, <3>1, <3>4, <4>1 DEF ReadableInv
    <3> QED BY <3>1, <3>2, <3>3, <3>4
  <2> QED BY <2>1, <2>2
<1>14. PushersInv'
  <2> SUFFICES ASSUME NEW q \in Producers, Pushing(q)'
               PROVE  /\ head <= idx[q] /\ idx[q] < tail
                      /\ seq'[Mask(idx[q])] = idx[q] /\ acq[q] = idx[q]
                      /\ pc'[q] = "write" => stamp[Mask(idx[q])] = idx[q]
                                             /\ data[Mask(idx[q])] = Nothing
                      /\ pc'[q] = "publish" => stamp[Mask(idx[q])] = idx[q] + 1
                                             /\ data[Mask(idx[q])] \in Values
    BY <1>8 DEF PushersInv
  <2>1. Pushing(q) /\ pc'[q] = pc[q]
    BY <1>1, <1>8, <1>9 DEF Elsewhere, Threads
  <2>2. seq'[Mask(idx[q])] = seq[Mask(idx[q])]
    BY <1>4, <1>5, <2>1, HoldersApart
  <2> QED BY <2>1, <2>2 DEF IInv, PushersInv
<1>15. PoppersInv'
  <2> SUFFICES ASSUME NEW d \in Consumers, Popping(d)'
               PROVE  /\ idx[d] < head /\ tail <= idx[d] + Cap
                      /\ seq'[Mask(idx[d])] = idx[d] + 1 /\ acq[d] = idx[d] + 1
                      /\ pc'[d] = "read" => stamp[Mask(idx[d])] = idx[d] + 1
                                            /\ data[Mask(idx[d])] \in Values
                      /\ pc'[d] = "release" => stamp[Mask(idx[d])] = idx[d] + Cap
                                               /\ data[Mask(idx[d])] = Nothing
    BY <1>8 DEF PoppersInv
  <2>1. d # c /\ Popping(d) /\ pc'[d] = pc[d]
    BY <1>8, <1>9 DEF Elsewhere, Threads
  <2>2. seq'[Mask(idx[d])] = seq[Mask(idx[d])]
    BY <1>4, <1>5, <2>1, HoldersApart
  <2> QED BY <2>1, <2>2 DEF IInv, PoppersInv
<1>16. DistinctInv'
  BY <1>1, <1>8, <1>9 DEF IInv, DistinctInv, Threads
<1> QED BY <1>6, <1>10, <1>11, <1>12, <1>13, <1>14, <1>15, <1>16 DEF IInv, Fits

------------------------------------------------------------------------------
(* Handles.                                                                *)

LEMMA DropHandleIInv == ASSUME IInv, NEW h \in handles, DropHandle(h) PROVE IInv'
<1> USE DEF DropHandle
<1>1. UNCHANGED <<head, tail, seq, stamp, pc, idx, acq, arg, out, calls>>
  OBVIOUS
<1>2. TypeOK'
  BY DEF IInv, TypeOK, InnerDrop
<1>3. handles' # {} => data' = data
  OBVIOUS
<1>4. ASSUME NEW t \in Threads, Pushing(t) \/ Popping(t)
      PROVE  handles' # {} /\ pc'[t] = pc[t]
  <2>1. t \in handles /\ t # h
    BY <1>4 DEF IInv, CallsInv, Pushing, Popping, Idle
  <2> QED BY <1>1, <2>1
<1>5. CallsInv'
  BY <1>1 DEF IInv, CallsInv, Idle
<1>6. ClaimsInv' /\ DistinctInv'
  BY <1>1 DEF IInv, ClaimsInv, DistinctInv, Pushing, Popping
<1>7. BoundInv'
  <2>1. Trying' = Trying
    BY <1>1 DEF Trying
  <2> QED BY <1>1, <2>1 DEF IInv, BoundInv
<1>8. SlotsInv'
  <2> SUFFICES ASSUME NEW s \in Slots
               PROVE  /\ seq[s] >= Start
                      /\ Writable(s) => WritableInv(s)'
                      /\ ~Writable(s) => ReadableInv(s)'
    BY <1>1 DEF SlotsInv, Writable
  <2>1. /\ seq[s] >= Start
        /\ Writable(s) => WritableInv(s)
        /\ ~Writable(s) => ReadableInv(s)
    BY DEF IInv, SlotsInv
  <2>2. handles' # {} => handles # {} /\ data'[s] = data[s]
    BY <1>3
  <2>3. WritableInv(s) => WritableInv(s)'
    BY <1>1, <2>2 DEF WritableInv, Pushing
  <2>4. ReadableInv(s) => ReadableInv(s)'
    BY <1>1, <2>2 DEF ReadableInv, Popping
  <2> QED BY <2>1, <2>3, <2>4
<1>9. PushersInv'
  <2> SUFFICES ASSUME NEW p \in Producers, Pushing(p)'
               PROVE  /\ head <= idx[p] /\ idx[p] < tail
                      /\ seq[Mask(idx[p])] = idx[p] /\ acq[p] = idx[p]
                      /\ pc'[p] = "write" => stamp[Mask(idx[p])] = idx[p]
                                             /\ data'[Mask(idx[p])] = Nothing
                      /\ pc'[p] = "publish" => stamp[Mask(idx[p])] = idx[p] + 1
                                             /\ data'[Mask(idx[p])] \in Values
    BY <1>1 DEF PushersInv
  <2>1. Pushing(p) /\ pc'[p] = pc[p] /\ data' = data
    BY <1>1, <1>3, <1>4 DEF Pushing, Threads
  <2> QED BY <2>1 DEF IInv, PushersInv
<1>10. PoppersInv'
  <2> SUFFICES ASSUME NEW c \in Consumers, Popping(c)'
               PROVE  /\ idx[c] < head /\ tail <= idx[c] + Cap
                      /\ seq[Mask(idx[c])] = idx[c] + 1 /\ acq[c] = idx[c] + 1
                      /\ pc'[c] = "read" => stamp[Mask(idx[c])] = idx[c] + 1
                                            /\ data'[Mask(idx[c])] \in Values
                      /\ pc'[c] = "release" => stamp[Mask(idx[c])] = idx[c] + Cap
                                               /\ data'[Mask(idx[c])] = Nothing
    BY <1>1 DEF PoppersInv
  <2>1. Popping(c) /\ pc'[c] = pc[c] /\ data' = data
    BY <1>1, <1>3, <1>4 DEF Popping, Threads
  <2> QED BY <2>1 DEF IInv, PoppersInv
<1> QED BY <1>2, <1>5, <1>6, <1>7, <1>8, <1>9, <1>10 DEF IInv, Fits

LEMMA CloneHandleIInv ==
  ASSUME IInv, NEW h \in handles, NEW t \in Threads, CloneHandle(h, t) PROVE IInv'
<1> USE DEF CloneHandle
<1>1. handles # {} /\ handles \subseteq handles'
  OBVIOUS
<1>2. UNCHANGED <<head, tail, seq, data, stamp, pc, idx, acq, arg, out, calls>>
  OBVIOUS
<1>3. TypeOK'
  BY <1>2 DEF IInv, TypeOK, Threads
<1>4. CallsInv'
  BY <1>1, <1>2 DEF IInv, CallsInv, Idle
<1>5. ClaimsInv' /\ DistinctInv' /\ PushersInv' /\ PoppersInv'
  BY <1>2 DEF IInv, ClaimsInv, DistinctInv, PushersInv, PoppersInv, Pushing, Popping
<1>6. BoundInv'
  <2>1. Trying' = Trying
    BY <1>2 DEF Trying
  <2> QED BY <1>2, <2>1 DEF IInv, BoundInv
<1>7. SlotsInv'
  BY <1>1, <1>2 DEF IInv, SlotsInv, Writable, WritableInv, ReadableInv, Pushing, Popping
<1> QED BY <1>3, <1>4, <1>5, <1>6, <1>7 DEF IInv, Fits

LEMMA NextIInv == IInv /\ [Next]_vars => IInv'
<1> SUFFICES ASSUME IInv, [Next]_vars PROVE IInv'
  OBVIOUS
<1>1. ASSUME NEW p \in Producers, PushStep(p) PROVE IInv'
  <2>1. CASE PushLoadSeq(p)  BY <2>1, PushLoadSeqIInv
  <2>2. CASE PushClaim(p)    BY <2>2, PushClaimIInv
  <2>3. CASE PushLose(p)     BY <2>3, PushAgainIInv
  <2>4. CASE PushReload(p)   BY <2>4, PushAgainIInv
  <2>5. CASE PushWrite(p)    BY <2>5, PushWriteIInv
  <2>6. CASE PushPublish(p)  BY <2>6, PushPublishIInv
  <2> QED BY <1>1, <2>1, <2>2, <2>3, <2>4, <2>5, <2>6 DEF PushStep
<1>2. ASSUME NEW c \in Consumers, PopStep(c) PROVE IInv'
  <2>1. CASE PopLoadSeq(c)   BY <2>1, PopLoadSeqIInv
  <2>2. CASE PopClaim(c)     BY <2>2, PopClaimIInv
  <2>3. CASE PopLose(c)      BY <2>3, PopAgainIInv
  <2>4. CASE PopReload(c)    BY <2>4, PopAgainIInv
  <2>5. CASE PopRead(c)      BY <2>5, PopReadIInv
  <2>6. CASE PopRelease(c)   BY <2>6, PopReleaseIInv
  <2> QED BY <1>2, <2>1, <2>2, <2>3, <2>4, <2>5, <2>6 DEF PopStep
<1>3. ASSUME NEW p \in Producers, NEW v \in Values, PushCall(p, v) PROVE IInv'
  BY <1>3, PushCallIInv
<1>4. ASSUME NEW c \in Consumers, PopCall(c) PROVE IInv'
  BY <1>4, PopAgainIInv
<1>5. ASSUME NEW h \in handles, DropHandle(h) PROVE IInv'
  BY <1>5, DropHandleIInv
<1>6. ASSUME NEW h \in handles, NEW t \in Threads, CloneHandle(h, t) PROVE IInv'
  BY <1>6, CloneHandleIInv
<1>7. CASE UNCHANGED vars
  <2>1. Trying' = Trying
    BY <1>7 DEF Trying, vars
  <2> QED BY <1>7, <2>1 DEF vars, IInv, Fits, TypeOK, BoundInv, CallsInv, ClaimsInv,
             SlotsInv, PushersInv, PoppersInv, DistinctInv, Writable, WritableInv,
             ReadableInv, Pushing, Popping, Idle
<1> QED BY <1>1, <1>2, <1>3, <1>4, <1>5, <1>6, <1>7 DEF Next

LEMMA Invariance == Fits /\ Spec => []IInv
  BY InitIInv, NextIInv, PTL DEF Spec

------------------------------------------------------------------------------
(* The theorems.                                                           *)

(* Every variable keeps its type, tail is never more than Cap ahead of     *)
(* head and never behind it, however late a compare-exchange comes.        *)
THEOREM TypeCorrect == Fits /\ Spec => []TypeOK
<1>1. IInv => TypeOK
  BY DEF IInv
<1> QED BY <1>1, Invariance, PTL

(* The access a thread of mpmc.rs makes to a slot it claimed happens after *)
(* the access before it, by the Acquire load of the sequence number alone. *)
THEOREM NoRace == Fits /\ Spec => []NoDataRace
<1>1. IInv => NoDataRace
  <2> SUFFICES ASSUME IInv, NEW t \in Threads, pc[t] \in {"write", "read"}
               PROVE  stamp[Mask(idx[t])] = acq[t]
    BY DEF NoDataRace
  <2>1. CASE t \in Producers
    BY <2>1 DEF IInv, PushersInv, CallsInv, Pushing
  <2>2. CASE t \in Consumers
    BY <2>2 DEF IInv, PoppersInv, CallsInv, Popping
  <2> QED BY <2>1, <2>2 DEF Threads
<1> QED BY <1>1, Invariance, PTL

(* try_push never overwrites a value that was not read, and try_pop never  *)
(* reads a slot that owns none, for any number of threads.                 *)
THEOREM Alternation == Fits /\ Spec => []SlotsAlternate
<1>1. IInv => SlotsAlternate
  <2> SUFFICES ASSUME IInv, NEW t \in Threads
               PROVE  /\ pc[t] = "write" => data[Mask(idx[t])] = Nothing
                      /\ pc[t] = "read" => data[Mask(idx[t])] # Nothing
    BY DEF SlotsAlternate
  <2>1. CASE t \in Producers
    BY <2>1 DEF IInv, PushersInv, CallsInv, Pushing
  <2>2. CASE t \in Consumers
    BY <2>2, ValuesAssumption DEF IInv, PoppersInv, CallsInv, Popping
  <2> QED BY <2>1, <2>2 DEF Threads
<1> QED BY <1>1, Invariance, PTL

(* When no thread is in a call the loop of Inner::drop finds exactly the   *)
(* slots that own a value.                                                 *)
LEMMA DropRangeExact ==
  ASSUME IInv, handles # {}, \A t \in Threads : Idle(t)
  PROVE  DropRange = {s \in Slots : data[s] # Nothing}
<1>1. WrapSub(tail, head) = tail - head
  <2>1. tail - head \in 0 .. Modulus - 1
    BY Numbers, Sizes
  <2> QED BY <2>1, Sizes, ModSmall, Zenon DEF WrapSub, Word
<1>2. ASSUME NEW j \in 0 .. tail - head - 1
      PROVE  /\ head + j \in Nat /\ Mask(head + j) \in Slots
             /\ Word(seq[Mask(head + j)]) = Word(head + j + 1)
                  => seq[Mask(head + j)] = head + j + 1
  <2>1. head + j \in Nat /\ Mask(head + j) \in Slots
    BY Numbers, MaskRange
  <2>2. PICK v : v = seq[Mask(head + j)]
    OBVIOUS
  <2>3. v \in Nat /\ v >= Start /\ v <= Start + MaxCalls + Cap
    BY <2>1, <2>2, Numbers, Sizes
  <2>4. /\ head + j + 1 \in Int /\ head + j + 1 < v + Modulus
        /\ v \in Int /\ v < (head + j + 1) + Modulus
    BY <2>1, <2>3, Numbers, Sizes
  <2>5. Word(v) = Word(head + j + 1) => v = head + j + 1
    <3>1. CASE v <= head + j + 1
      BY <2>4, <3>1, WordExact
    <3>2. CASE head + j + 1 <= v
      BY <2>4, <3>2, WordExact
    <3> QED BY <2>4, <3>1, <3>2
  <2> QED BY <2>1, <2>2, <2>5
<1>3. ASSUME NEW s \in DropRange PROVE s \in Slots /\ data[s] # Nothing
  <2>1. PICK j \in 0 .. tail - head - 1 :
          s = Mask(head + j) /\ Word(seq[Mask(head + j)]) = Word(head + j + 1)
    BY <1>1, <1>3 DEF DropRange
  <2>2. s \in Slots /\ seq[s] = head + j + 1 /\ head + j \in Nat
    BY <1>2, <2>1
  <2>3. ~Writable(s)
    BY <2>1, <2>2, Numbers, MaskNext DEF Writable
  <2>4. seq[s] > head
    BY <2>2, Numbers
  <2>5. data[s] \in Values
    BY <2>2, <2>3, <2>4 DEF IInv, SlotsInv, ReadableInv
  <2> QED BY <2>2, <2>5, ValuesAssumption
<1>4. ASSUME NEW s \in Slots, data[s] # Nothing PROVE s \in DropRange
  <2>1. \A t \in Threads : ~Pushing(t) /\ ~Popping(t)
    BY DEF Idle, Pushing, Popping
  <2>2. seq[s] \in Nat
    BY Numbers
  <2>3. ~Writable(s)
    BY <1>4, <2>1, <2>2, Numbers DEF IInv, SlotsInv, WritableInv, Threads
  <2>4. Mask(seq[s] - 1) = s /\ seq[s] <= tail /\ ~(seq[s] <= head)
    BY <2>1, <2>3 DEF IInv, SlotsInv, ReadableInv, Threads
  <2>5. PICK j : j = seq[s] - 1 - head
    OBVIOUS
  <2>6. j \in 0 .. tail - head - 1 /\ head + j = seq[s] - 1 /\ head + j + 1 = seq[s]
    BY <2>2, <2>4, <2>5, Numbers
  <2>7. Mask(head + j) = s
    BY <2>4, <2>6
  <2>8. Word(seq[Mask(head + j)]) = Word(head + j + 1)
    BY <2>6, <2>7
  <2> QED BY <1>1, <2>6, <2>7, <2>8 DEF DropRange
<1> QED BY <1>3, <1>4

(* The last handle of the queue takes every value still in it along, and   *)
(* touches no other slot.                                                  *)
THEOREM ExactDrop == Fits /\ Spec => DropExact
<1>1. IInv /\ [Next]_vars =>
        [handles # {} /\ handles' = {} =>
           DropRange = {s \in Slots : data[s] # Nothing}]_vars
  <2> SUFFICES ASSUME IInv, [Next]_vars, handles # {}, handles' = {}
               PROVE  DropRange = {s \in Slots : data[s] # Nothing}
    OBVIOUS
  <2>1. PICK h \in handles : DropHandle(h)
    BY DEF Next, vars, PushStep, PopStep, PushCall, PushLoadSeq, PushClaim, PushLose,
           PushReload, PushWrite, PushPublish, PopCall, PopLoadSeq, PopClaim, PopLose,
           PopReload, PopRead, PopRelease, CloneHandle
  <2>2. \A t \in Threads : Idle(t)
    BY <2>1 DEF DropHandle, IInv, CallsInv
  <2> QED BY <2>2, DropRangeExact
<1> QED BY <1>1, Invariance, PTL DEF Spec, DropExact

LEMMA SoleHolder ==
  ASSUME IInv, NEW s \in Slots, NEW t \in HolderOf(s), NEW u \in HolderOf(s)
  PROVE  t = u
<1>1. t \in Threads /\ u \in Threads /\ Mask(idx[t]) = Mask(idx[u])
  BY DEF HolderOf
<1>2. /\ t \in Producers => Pushing(t)
      /\ u \in Producers => Pushing(u)
      /\ t \in Consumers => Popping(t)
      /\ u \in Consumers => Popping(u)
  BY DEF IInv, CallsInv, HolderOf, Pushing, Popping
<1>3. CASE t \in Producers /\ u \in Producers
  BY <1>1, <1>2, <1>3, HoldersApart
<1>4. CASE t \in Consumers /\ u \in Consumers
  BY <1>1, <1>2, <1>4, HoldersApart
<1>5. CASE t \in Producers /\ u \in Consumers
  BY <1>1, <1>2, <1>5, HoldersApart
<1>6. CASE t \in Consumers /\ u \in Producers
  BY <1>1, <1>2, <1>6, HoldersApart
<1> QED BY <1>1, <1>3, <1>4, <1>5, <1>6 DEF Threads

(* No two threads hold a slot at once (HolderOf): the compare-exchanges    *)
(* hand out each position once, and no position comes round before its     *)
(* slot was handed on.                                                     *)
THEOREM OneHolder ==
  Fits /\ Spec => [](\A s \in Slots : \A t, u \in HolderOf(s) : t = u)
<1>1. IInv => \A s \in Slots : \A t, u \in HolderOf(s) : t = u
  BY SoleHolder
<1> QED BY <1>1, Invariance, PTL

------------------------------------------------------------------------------
(* The queue as a ring of slots that the threads hand to each other.       *)

LEMMA MaskMinus ==
  ASSUME NEW x \in Int, NEW y \in Int PROVE Mask(Mask(x) + y) = Mask(x + y)
<1> DEFINE q == x \div Cap
           r == x % Cap
<1>1. q \in Int /\ x = (Cap * q) + r /\ r \in Int
  BY Sizes, DivMod, ModRange
<1> HIDE DEF q, r
<1>2. r + y \in Int /\ x + y = (r + y) + Cap * q
  BY <1>1, Sizes
<1>3. ((r + y) + Cap * q) % Cap = (r + y) % Cap
  BY <1>1, <1>2, Sizes, ModPeriodic, Zenon
<1>4. QED
  BY <1>2, <1>3, Zenon DEF Mask, r

LEMMA SlotCounts ==
  ASSUME NEW x \in Int
  PROVE  /\ Mask(x - Start) \in Slots
         /\ Mask(Start + Mask(x - Start)) = Mask(x)
         /\ Mask(Mask(x - Start) + 1) = Mask((x + 1) - Start)
<1>1. /\ Start \in Int /\ x - Start \in Int /\ (x - Start) + Start = x
      /\ (x - Start) + 1 = (x + 1) - Start /\ 1 \in Int
  BY Sizes
<1>2. Mask(x - Start) \in Slots
  BY <1>1, MaskRange
<1>3. Mask(Mask(x - Start) + Start) = Mask((x - Start) + Start)
  BY <1>1, MaskMinus, Zenon
<1>4. Mask(x - Start) + Start = Start + Mask(x - Start)
  BY <1>1, <1>2, Sizes DEF Slots
<1>5. Mask(Mask(x - Start) + 1) = Mask((x - Start) + 1)
  BY <1>1, MaskMinus, Zenon
<1>6. QED
  BY <1>1, <1>2, <1>3, <1>4, <1>5, Zenon

LEMMA CountsApart ==
  ASSUME NEW j \in Slots, NEW k \in Slots, Mask(Start + j) = Mask(Start + k)
  PROVE  j = k
<1>1. ASSUME NEW m \in Slots, NEW n \in Slots, m < n
      PROVE  Mask(Start + m) # Mask(Start + n)
  <2>1. /\ Start + m \in Int /\ Start + n \in Int
        /\ Start + m < Start + n /\ Start + n < (Start + m) + Cap
    BY <1>1, Sizes DEF Slots
  <2>2. QED
    BY <2>1, MaskInjective
<1>2. ~(j < k) /\ ~(k < j)
  BY <1>1
<1>3. QED
  BY <1>2, Sizes DEF Slots

LEMMA RingSlotIs ==
  /\ RingSlot = [k \in Slots |-> SlotMark[Mask(Start + k)]]
  /\ RingSlot' = [k \in Slots |-> SlotMark'[Mask(Start + k)]]
  /\ \A k \in Slots : Mask(Start + k) \in Slots
<1>1. ASSUME NEW k \in Slots PROVE Mask(Start + k) \in Slots
  <2>1. Start + k \in Int
    BY Sizes DEF Slots
  <2>2. QED
    BY <2>1, MaskRange
<1>2. QED
  BY <1>1 DEF RingSlot

(* A step that changes the mark of one slot.                               *)
LEMMA MarkOne ==
  ASSUME NEW x \in Int, NEW m, SlotMark'[Mask(x)] = m,
         \A u \in Slots : u # Mask(x) => SlotMark'[u] = SlotMark[u]
  PROVE  /\ RingSlot' = [RingSlot EXCEPT ![Mask(x - Start)] = m]
         /\ RingSlot[Mask(x - Start)] = SlotMark[Mask(x)]
         /\ Mask(x - Start) \in Slots
<1> DEFINE i == Mask(x - Start)
<1>1. i \in Slots /\ Mask(Start + i) = Mask(x)
  BY SlotCounts
<1> HIDE DEF i
<1>2. RingSlot[i] = SlotMark[Mask(x)]
  BY <1>1, RingSlotIs
<1>3. ASSUME NEW k \in Slots
      PROVE  SlotMark'[Mask(Start + k)] = IF k = i THEN m ELSE RingSlot[k]
  <2>1. CASE k = i
    BY <1>1, <2>1
  <2>2. CASE k # i
    <3>1. Mask(Start + k) # Mask(x) /\ Mask(Start + k) \in Slots
      BY <1>1, <2>2, CountsApart, RingSlotIs
    <3>2. QED
      BY <2>2, <3>1, RingSlotIs
  <2>3. QED
    BY <2>1, <2>2
<1>4. RingSlot' = [RingSlot EXCEPT ![i] = m]
  BY <1>3, RingSlotIs
<1>5. QED
  BY <1>1, <1>2, <1>4 DEF i

LEMMA Chosen == ASSUME NEW p PROVE (CHOOSE t \in {p} : TRUE) = p
  OBVIOUS

LEMMA Holding ==
  ASSUME IInv, NEW s \in Slots
  PROVE  /\ \A p \in Producers : p \in HolderOf(s) => Pushing(p) /\ Mask(idx[p]) = s
         /\ \A c \in Consumers : c \in HolderOf(s) => Popping(c) /\ Mask(idx[c]) = s
         /\ \A t \in HolderOf(s) : SlotMark[s] = t /\ t \in Threads
         /\ HolderOf(s) = {} => SlotMark[s] = IF Writable(s) THEN "free" ELSE "full"
<1>1. ASSUME NEW t \in HolderOf(s) PROVE SlotMark[s] = t /\ t \in Threads
  <2>1. HolderOf(s) = {t}
    BY SoleHolder
  <2>2. QED
    BY <2>1, Chosen DEF SlotMark, HolderOf, Writable
<1>2. QED
  BY <1>1 DEF IInv, CallsInv, HolderOf, Pushing, Popping, SlotMark, Writable

LEMMA MarkAfter ==
  ASSUME NEW s \in Slots
  PROVE  /\ HolderOf(s)' = HolderOf(s) /\ seq'[s] = seq[s] => SlotMark'[s] = SlotMark[s]
         /\ HolderOf(s)' = {} => SlotMark'[s] = IF Mask(seq'[s]) = s THEN "free" ELSE "full"
         /\ \A t : HolderOf(s)' = {t} => SlotMark'[s] = t
<1>1. SlotMark'[s] = IF HolderOf(s)' # {} THEN CHOOSE t \in HolderOf(s)' : TRUE
                     ELSE IF Mask(seq'[s]) = s THEN "free" ELSE "full"
  BY DEF SlotMark, HolderOf, Slots, Mask, Threads
<1>2. SlotMark[s] = IF HolderOf(s) # {} THEN CHOOSE t \in HolderOf(s) : TRUE
                    ELSE IF Mask(seq[s]) = s THEN "free" ELSE "full"
  BY DEF SlotMark
<1>3. ASSUME NEW t, HolderOf(s)' = {t} PROVE SlotMark'[s] = t
  BY <1>1, <1>3, Chosen
<1>4. QED
  BY <1>1, <1>2, <1>3

(* Only the thread t of a step takes or leaves a slot.                     *)
LEMMA HoldersAfter ==
  ASSUME IInv, NEW t \in Threads, Elsewhere(t), NEW s \in Slots
  PROVE  /\ t \in HolderOf(s) <=> (Pushing(t) \/ Popping(t)) /\ Mask(idx[t]) = s
         /\ t \in HolderOf(s)' <=> (Pushing(t)' \/ Popping(t)') /\ Mask(idx'[t]) = s
         /\ \A u \in Threads \ {t} : u \in HolderOf(s)' <=> u \in HolderOf(s)
         /\ HolderOf(s) \subseteq Threads /\ HolderOf(s)' \subseteq Threads
BY DEF Elsewhere, HolderOf, Pushing, Popping, Threads, Mask

LEMMA RingClaim ==
  ASSUME IInv, NEW p \in Producers, PushClaim(p)
  PROVE  Ring!Claim(p)
<1>0. PICK x \in Int : x = tail
  BY Numbers
<1>1. /\ idx[p] = tail /\ Mask(x) \in Slots /\ seq[Mask(x)] = tail
      /\ Writable(Mask(x)) /\ tail \in Int /\ tail' = tail + 1
  BY <1>0, ClaimedFree, Numbers DEF PushClaim
<1>2. p \in Threads /\ Elsewhere(p) /\ idx' = idx /\ seq' = seq /\ head' = head
      /\ pc[p] = "claim" /\ pc'[p] = "write"
  BY DEF PushClaim, Goto, Elsewhere, IInv, TypeOK, Threads
<1>3. ~Pushing(p) /\ ~Popping(p) /\ Pushing(p)' /\ idx'[p] = idx[p]
  BY <1>2 DEF Pushing, Popping
<1>4. HolderOf(Mask(x)) = {}
  <2> SUFFICES ASSUME NEW t \in HolderOf(Mask(x)) PROVE FALSE
    OBVIOUS
  <2>1. t \in Threads
    BY <1>0, <1>1, Holding
  <2>2. CASE t \in Producers
    <3>1. Pushing(t) /\ Mask(idx[t]) = Mask(x)
      BY <1>0, <1>1, <2>2, Holding
    <3>2. idx[t] < tail /\ seq[Mask(x)] = idx[t]
      BY <1>0, <2>2, <3>1 DEF IInv, PushersInv
    <3>3. QED
      BY <1>0, <1>1, <3>2
  <2>3. CASE t \in Consumers
    BY <1>0, <1>1, <2>3, Holding, HoldersApart
  <2>4. QED
    BY <2>1, <2>2, <2>3 DEF Threads
<1>5. SlotMark[Mask(x)] = "free"
  BY <1>0, <1>1, <1>4, Holding
<1>6. HolderOf(Mask(x))' = {p}
  BY <1>0, <1>1, <1>2, <1>3, <1>4, HoldersAfter
<1>7. SlotMark'[Mask(x)] = p
  BY <1>0, <1>1, <1>6, MarkAfter
<1>8. ASSUME NEW u \in Slots, u # Mask(x) PROVE SlotMark'[u] = SlotMark[u]
  <2>1. p \notin HolderOf(u) /\ p \notin HolderOf(u)'
    BY <1>0, <1>1, <1>2, <1>3, <1>8, HoldersAfter
  <2>2. HolderOf(u)' = HolderOf(u)
    BY <1>2, <2>1, HoldersAfter
  <2>3. QED
    BY <1>2, <2>2, MarkAfter
<1>9. /\ RingSlot' = [RingSlot EXCEPT ![Mask(x - Start)] = p]
      /\ RingSlot[Mask(x - Start)] = "free"
  BY <1>0, <1>1, <1>5, <1>7, <1>8, MarkOne
<1>10. ASSUME NEW k \in Slots PROVE RingSlot[k] # p
  <2>1. PICK s \in Slots : s = Mask(Start + k)
    BY RingSlotIs
  <2>2. RingSlot[k] = SlotMark[s] /\ p \notin HolderOf(s)
    BY <1>2, <1>3, <2>1, RingSlotIs, HoldersAfter
  <2>3. SlotMark[s] \in {"free", "full"} \/ SlotMark[s] \in HolderOf(s)
    BY Holding
  <2>4. QED
    BY <2>2, <2>3, ThreadsAssumption
<1>11. RingTail' = (RingTail + 1) % Cap /\ RingHead' = RingHead
  BY <1>0, <1>1, <1>2, SlotCounts DEF RingTail, RingHead, Mask
<1>12. QED
  BY <1>0, <1>9, <1>10, <1>11 DEF Ring!Claim, Ring!Holds, Ring!After, Ring!Slots, Slots, RingTail

LEMMA RingTake ==
  ASSUME IInv, NEW c \in Consumers, PopClaim(c)
  PROVE  Ring!Take(c)
<1>0. PICK x \in Int : x = head
  BY Numbers
<1>1. /\ idx[c] = head /\ Mask(x) \in Slots /\ seq[Mask(x)] = head + 1
      /\ ~Writable(Mask(x)) /\ head \in Int /\ head' = head + 1
  BY <1>0, ClaimedFull, Numbers DEF PopClaim
<1>2. c \in Threads /\ Elsewhere(c) /\ idx' = idx /\ seq' = seq /\ tail' = tail
      /\ pc[c] = "claim" /\ pc'[c] = "read"
  BY DEF PopClaim, Goto, Elsewhere, IInv, TypeOK, Threads
<1>3. ~Pushing(c) /\ ~Popping(c) /\ Popping(c)' /\ idx'[c] = idx[c]
  BY <1>2 DEF Pushing, Popping
<1>4. HolderOf(Mask(x)) = {}
  <2> SUFFICES ASSUME NEW t \in HolderOf(Mask(x)) PROVE FALSE
    OBVIOUS
  <2>1. t \in Threads
    BY <1>0, <1>1, Holding
  <2>2. CASE t \in Consumers
    <3>1. Popping(t) /\ Mask(idx[t]) = Mask(x)
      BY <1>0, <1>1, <2>2, Holding
    <3>2. idx[t] < head /\ seq[Mask(x)] = idx[t] + 1 /\ idx[t] \in Int
      BY <1>0, <2>1, <2>2, <3>1, Numbers DEF IInv, PoppersInv
    <3>3. QED
      BY <1>0, <1>1, <3>2
  <2>3. CASE t \in Producers
    BY <1>0, <1>1, <2>3, Holding, HoldersApart
  <2>4. QED
    BY <2>1, <2>2, <2>3 DEF Threads
<1>5. SlotMark[Mask(x)] = "full"
  BY <1>0, <1>1, <1>4, Holding
<1>6. HolderOf(Mask(x))' = {c}
  BY <1>0, <1>1, <1>2, <1>3, <1>4, HoldersAfter
<1>7. SlotMark'[Mask(x)] = c
  BY <1>0, <1>1, <1>6, MarkAfter
<1>8. ASSUME NEW u \in Slots, u # Mask(x) PROVE SlotMark'[u] = SlotMark[u]
  <2>1. c \notin HolderOf(u) /\ c \notin HolderOf(u)'
    BY <1>0, <1>1, <1>2, <1>3, <1>8, HoldersAfter
  <2>2. HolderOf(u)' = HolderOf(u)
    BY <1>2, <2>1, HoldersAfter
  <2>3. QED
    BY <1>2, <2>2, MarkAfter
<1>9. /\ RingSlot' = [RingSlot EXCEPT ![Mask(x - Start)] = c]
      /\ RingSlot[Mask(x - Start)] = "full"
  BY <1>0, <1>1, <1>5, <1>7, <1>8, MarkOne
<1>10. ASSUME NEW k \in Slots PROVE RingSlot[k] # c
  <2>1. PICK s \in Slots : s = Mask(Start + k)
    BY RingSlotIs
  <2>2. RingSlot[k] = SlotMark[s] /\ c \notin HolderOf(s)
    BY <1>2, <1>3, <2>1, RingSlotIs, HoldersAfter
  <2>3. SlotMark[s] \in {"free", "full"} \/ SlotMark[s] \in HolderOf(s)
    BY Holding
  <2>4. QED
    BY <2>2, <2>3, ThreadsAssumption
<1>11. RingHead' = (RingHead + 1) % Cap /\ RingTail' = RingTail
  BY <1>0, <1>1, <1>2, SlotCounts DEF RingTail, RingHead, Mask
<1>12. QED
  BY <1>0, <1>9, <1>10, <1>11 DEF Ring!Take, Ring!Holds, Ring!After, Ring!Slots, Slots, RingHead

(* A thread t leaves its slot, with the sequence number v in it.           *)
LEMMA RingLeave ==
  ASSUME IInv, NEW t \in Threads, Pushing(t) \/ Popping(t), ~Pushing(t)', ~Popping(t)',
         Elsewhere(t), UNCHANGED <<head, tail>>,
         NEW v \in Nat, seq' = [seq EXCEPT ![Mask(idx[t])] = v],
         NEW m, m = IF Mask(v) = Mask(idx[t]) THEN "free" ELSE "full"
  PROVE  /\ \E k \in Slots : RingSlot[k] = t /\ RingSlot' = [RingSlot EXCEPT ![k] = m]
         /\ RingHead' = RingHead /\ RingTail' = RingTail
<1>1. PICK x \in Int : x = idx[t]
  BY Numbers
<1>2. Mask(x) \in Slots /\ seq \in [Slots -> Nat]
  BY MaskRange DEF IInv, TypeOK
<1>3. t \in HolderOf(Mask(x)) /\ SlotMark[Mask(x)] = t
  BY <1>1, <1>2, HoldersAfter, Holding
<1>4. HolderOf(Mask(x))' = {}
  <2>1. HolderOf(Mask(x)) = {t}
    BY <1>2, <1>3, SoleHolder
  <2>2. QED
    BY <1>2, <2>1, HoldersAfter
<1>5. SlotMark'[Mask(x)] = m
  BY <1>1, <1>2, <1>4, MarkAfter
<1>6. ASSUME NEW u \in Slots, u # Mask(x) PROVE SlotMark'[u] = SlotMark[u]
  <2>1. t \notin HolderOf(u) /\ t \notin HolderOf(u)'
    BY <1>1, <1>6, HoldersAfter
  <2>2. HolderOf(u)' = HolderOf(u)
    BY <2>1, HoldersAfter
  <2>3. seq'[u] = seq[u]
    BY <1>1, <1>2, <1>6
  <2>4. QED
    BY <2>2, <2>3, MarkAfter
<1>7. /\ RingSlot' = [RingSlot EXCEPT ![Mask(x - Start)] = m]
      /\ RingSlot[Mask(x - Start)] = t /\ Mask(x - Start) \in Slots
  BY <1>3, <1>5, <1>6, MarkOne
<1>8. QED
  BY <1>7 DEF RingHead, RingTail

LEMMA RingPublish ==
  ASSUME IInv, NEW p \in Producers, PushPublish(p)
  PROVE  Ring!Publish(p)
<1>1. p \in Threads /\ Elsewhere(p) /\ UNCHANGED <<head, tail>>
      /\ pc[p] = "publish" /\ pc'[p] = "ok"
  BY DEF PushPublish, Goto, Elsewhere, IInv, TypeOK, Threads
<1>2. Pushing(p) /\ ~Pushing(p)' /\ ~Popping(p)'
  BY <1>1 DEF Pushing, Popping
<1>3. PICK v \in Nat : v = idx[p] + 1 /\ seq' = [seq EXCEPT ![Mask(idx[p])] = v]
  <2>1. idx[p] + 1 \in Nat
    BY <1>1, Numbers
  <2>2. QED
    BY <2>1 DEF PushPublish
<1>4. Mask(v) # Mask(idx[p])
  BY <1>1, <1>3, Numbers, MaskNext
<1>5. /\ \E k \in Slots : RingSlot[k] = p /\ RingSlot' = [RingSlot EXCEPT ![k] = "full"]
      /\ RingHead' = RingHead /\ RingTail' = RingTail
  BY <1>1, <1>2, <1>3, <1>4, RingLeave
<1>6. QED
  BY <1>5 DEF Ring!Publish, Ring!Slots, Slots

LEMMA RingRelease ==
  ASSUME IInv, NEW c \in Consumers, PopRelease(c)
  PROVE  Ring!Release(c)
<1>1. c \in Threads /\ Elsewhere(c) /\ UNCHANGED <<head, tail>>
      /\ pc[c] = "release" /\ pc'[c] = "got"
  BY DEF PopRelease, Goto, Elsewhere, IInv, TypeOK, Threads
<1>2. Popping(c) /\ ~Pushing(c)' /\ ~Popping(c)'
  BY <1>1 DEF Pushing, Popping
<1>3. PICK v \in Nat : v = idx[c] + Cap /\ seq' = [seq EXCEPT ![Mask(idx[c])] = v]
  <2>1. idx[c] + Cap \in Nat
    BY <1>1, Numbers, Sizes
  <2>2. QED
    BY <2>1 DEF PopRelease
<1>4. Mask(v) = Mask(idx[c])
  BY <1>1, <1>3, Numbers, MaskLap
<1>5. /\ \E k \in Slots : RingSlot[k] = c /\ RingSlot' = [RingSlot EXCEPT ![k] = "free"]
      /\ RingHead' = RingHead /\ RingTail' = RingTail
  BY <1>1, <1>2, <1>3, <1>4, RingLeave
<1>6. QED
  BY <1>5 DEF Ring!Release, Ring!Slots, Slots

(* A step of a thread that keeps its slot, or has none.                    *)
LEMMA RingStutter ==
  ASSUME IInv, NEW t \in Threads, Elsewhere(t), UNCHANGED <<head, tail, seq>>,
         \/ ~Pushing(t) /\ ~Popping(t) /\ ~Pushing(t)' /\ ~Popping(t)'
         \/ (Pushing(t) \/ Popping(t)) /\ (Pushing(t)' \/ Popping(t)') /\ idx'[t] = idx[t]
  PROVE  UNCHANGED Ring!ringVars
<1>1. ASSUME NEW s \in Slots PROVE SlotMark'[s] = SlotMark[s]
  <2>1. HolderOf(s)' = HolderOf(s)
    BY HoldersAfter
  <2>2. QED
    BY <2>1, MarkAfter
<1>2. RingSlot' = RingSlot
  BY <1>1, RingSlotIs
<1>3. QED
  BY <1>2 DEF Ring!ringVars, RingHead, RingTail

LEMMA HandleStutter ==
  ASSUME UNCHANGED <<head, tail, seq, pc, idx>>
  PROVE  UNCHANGED Ring!ringVars
BY DEF Ring!ringVars, RingHead, RingTail, RingSlot, SlotMark, HolderOf, Threads, Slots, Mask

(* Each step of a call of mpmc.rs either leaves the ring alone or hands    *)
(* one slot on: a compare-exchange claims the slot at tail only when it    *)
(* was released, or takes the one at head only when it was published, and  *)
(* the store of the sequence number publishes or releases that slot.       *)
THEOREM HandsOver == Fits /\ Spec => RingSpec
<1>1. Fits /\ Init => Ring!RingInit
  <2> SUFFICES ASSUME Fits, Init PROVE Ring!RingInit
    OBVIOUS
  <2>1. IInv
    BY InitIInv
  <2>2. ASSUME NEW s \in Slots PROVE SlotMark[s] = "free"
    <3>1. HolderOf(s) = {}
      BY DEF Init, HolderOf
    <3>2. Mask(seq[s]) = s
      <4>1. seq[s] = Start + ((s - Start) % Cap)
        BY DEF Init
      <4>2. QED
        BY <4>1, Sizes, MaskOnto
    <3>3. QED
      BY <2>1, <3>1, <3>2, Holding DEF Writable
  <2>3. RingSlot = [s \in Slots |-> "free"]
    BY <2>2, RingSlotIs
  <2>4. RingHead = 0 /\ RingTail = 0
    <3>1. head - Start = 0 /\ tail - Start = 0 /\ 0 \in 0 .. Cap - 1
      BY Sizes DEF Init
    <3>2. 0 % Cap = 0
      BY <3>1, Sizes, ModSmall, Zenon
    <3>3. QED
      BY <3>1, <3>2 DEF RingHead, RingTail, Mask
  <2>5. QED
    BY <2>3, <2>4 DEF Ring!RingInit, Ring!Slots, Slots
<1>2. IInv /\ [Next]_vars => [Ring!RingNext]_Ring!ringVars
  <2> SUFFICES ASSUME IInv, [Next]_vars
               PROVE  Ring!RingNext \/ UNCHANGED Ring!ringVars
    OBVIOUS
  <2>1. ASSUME NEW p \in Producers, NEW v \in Values,
               \/ PushLoadSeq(p) \/ PushLose(p) \/ PushReload(p) \/ PushWrite(p)
               \/ PushCall(p, v)
        PROVE  UNCHANGED Ring!ringVars
    <3>1. /\ p \in Threads /\ Elsewhere(p) /\ UNCHANGED <<head, tail, seq>>
          /\ pc[p] \notin {"publish", "read", "release"}
          /\ pc[p] = "write" => pc'[p] = "publish" /\ idx'[p] = idx[p]
          /\ pc[p] # "write" => pc'[p] \in {"seq", "claim", "full", "reload"}
      BY <2>1 DEF PushLoadSeq, PushLose, PushReload, PushWrite, PushCall, Goto, Idle,
         Elsewhere, IInv, TypeOK, Threads
    <3>2. \/ ~Pushing(p) /\ ~Popping(p) /\ ~Pushing(p)' /\ ~Popping(p)'
          \/ (Pushing(p) \/ Popping(p)) /\ (Pushing(p)' \/ Popping(p)') /\ idx'[p] = idx[p]
      BY <3>1 DEF Pushing, Popping
    <3>3. QED
      BY <3>1, <3>2, RingStutter
  <2>2. ASSUME NEW c \in Consumers,
               \/ PopLoadSeq(c) \/ PopLose(c) \/ PopReload(c) \/ PopRead(c) \/ PopCall(c)
        PROVE  UNCHANGED Ring!ringVars
    <3>1. /\ c \in Threads /\ Elsewhere(c) /\ UNCHANGED <<head, tail, seq>>
          /\ pc[c] \notin {"publish", "write", "release"}
          /\ pc[c] = "read" => pc'[c] = "release" /\ idx'[c] = idx[c]
          /\ pc[c] # "read" => pc'[c] \in {"seq", "claim", "empty", "reload"}
      BY <2>2 DEF PopLoadSeq, PopLose, PopReload, PopRead, PopCall, Goto, Idle,
         Elsewhere, IInv, TypeOK, Threads
    <3>2. \/ ~Pushing(c) /\ ~Popping(c) /\ ~Pushing(c)' /\ ~Popping(c)'
          \/ (Pushing(c) \/ Popping(c)) /\ (Pushing(c)' \/ Popping(c)') /\ idx'[c] = idx[c]
      BY <3>1 DEF Pushing, Popping
    <3>3. QED
      BY <3>1, <3>2, RingStutter
  <2>3. CASE \E p \in Producers : PushStep(p) \/ \E v \in Values : PushCall(p, v)
    <3>1. PICK p \in Producers : PushStep(p) \/ \E v \in Values : PushCall(p, v)
      BY <2>3
    <3>2. CASE PushClaim(p)
      BY <3>2, RingClaim DEF Ring!RingNext
    <3>3. CASE PushPublish(p)
      BY <3>3, RingPublish DEF Ring!RingNext
    <3>4. CASE PushLoadSeq(p) \/ PushLose(p) \/ PushReload(p) \/ PushWrite(p)
      <4>1. ~Idle(p)
        BY <3>4 DEF PushLoadSeq, PushLose, PushReload, PushWrite, Idle
      <4>2. arg[p] \in Values
        BY <4>1 DEF IInv, CallsInv
      <4>3. QED
        BY <2>1, <3>4, <4>2
    <3>5. CASE \E v \in Values : PushCall(p, v)
      BY <2>1, <3>5
    <3>6. QED
      BY <3>1, <3>2, <3>3, <3>4, <3>5 DEF PushStep
  <2>4. CASE \E c \in Consumers : PopStep(c) \/ PopCall(c)
    <3>1. PICK c \in Consumers : PopStep(c) \/ PopCall(c)
      BY <2>4
    <3>2. CASE PopClaim(c)
      BY <3>2, RingTake DEF Ring!RingNext
    <3>3. CASE PopRelease(c)
      BY <3>3, RingRelease DEF Ring!RingNext
    <3>4. CASE PopLoadSeq(c) \/ PopLose(c) \/ PopReload(c) \/ PopRead(c) \/ PopCall(c)
      BY <2>2, <3>4
    <3>5. QED
      BY <3>1, <3>2, <3>3, <3>4 DEF PopStep
  <2>5. CASE \E h \in handles : DropHandle(h) \/ \E t \in Threads : CloneHandle(h, t)
    BY <2>5, HandleStutter DEF DropHandle, CloneHandle
  <2>6. CASE UNCHANGED vars
    BY <2>6, HandleStutter DEF vars
  <2>7. QED
    BY <2>3, <2>4, <2>5, <2>6 DEF Next
<1>3. QED
  BY <1>1, <1>2, Invariance, PTL DEF Spec, RingSpec, Ring!RingSpec

------------------------------------------------------------------------------
(* Refusals.                                                               *)

LEMMA LapBelow ==
  ASSUME NEW x \in Int, NEW y \in Int, x < y, Mask(x) = Mask(y)
  PROVE  x + Cap <= y
<1>1. ~(y < x + Cap)
  BY MaskInjective
<1>2. QED
  BY <1>1, Sizes

(* A comparison with the present sequence number is exact.                 *)
LEMMA ComparedNow ==
  ASSUME IInv, NEW t \in Threads
  PROVE  LET s == Mask(idx[t])
         IN /\ s \in Slots /\ idx[t] \in Nat
            /\ Diff(seq[s], idx[t]) = seq[s] - idx[t]
            /\ Diff(seq[s], idx[t] + 1) = seq[s] - (idx[t] + 1)
<1> DEFINE s == Mask(idx[t])
           i == idx[t]
           v == seq[s]
<1>1. i \in Nat /\ s \in Slots
  BY Numbers, MaskRange
<1>2. v \in Nat /\ v >= Start /\ v <= Start + MaxCalls + Cap
  BY <1>1, Numbers, Sizes
<1>3. i >= Start /\ i <= Start + MaxCalls
  BY Numbers, Sizes DEF IInv, BoundInv, Threads
<1> HIDE DEF i, v
<1>4. /\ 2 * (v - i) < Modulus /\ 2 * (i - v) < Modulus
      /\ 2 * (v - (i + 1)) < Modulus /\ 2 * ((i + 1) - v) < Modulus
  BY <1>1, <1>2, <1>3, Numbers, Sizes
<1>5. Diff(v, i) = v - i /\ Diff(v, i + 1) = v - (i + 1)
  BY <1>1, <1>2, <1>4, DiffExact
<1>6. QED
  BY <1>1, <1>5 DEF i, v

(* A push of mpmc.rs is refused only on a full queue or while the consumer *)
(* of the position one lap before tail has not released it, and a pop only *)
(* on an empty queue or while the producer of head has not published it.   *)
THEOREM HonestRefusals == Fits /\ Spec => []RefusalIsHonest
<1>1. ASSUME IInv, NEW p \in Producers, pc[p] = "seq",
             Diff(seq[Mask(idx[p])], idx[p]) < 0
      PROVE  \/ tail - head = Cap
             \/ \E c \in Consumers : pc[c] \in {"read", "release"} /\ idx[c] = tail - Cap
  <2> DEFINE s == Mask(idx[p])
             i == idx[p]
             v == seq[s]
  <2>1. s \in Slots /\ i \in Nat /\ Diff(v, i) = v - i /\ Diff(v, i) < 0
    BY <1>1, ComparedNow DEF Threads
  <2>2. v \in Nat /\ i <= tail
    BY <1>1, <2>1, Numbers DEF IInv, BoundInv
  <2>3. Mask(i) = s
    OBVIOUS
  <2>4. CASE Writable(s)
    <3>1. WritableInv(s) /\ Mask(v) = s
      BY <1>1, <2>1, <2>4 DEF IInv, SlotsInv, Writable
    <3> HIDE DEF s, i, v
    <3>2. v < i
      BY <2>1, <2>2
    <3>3. v + Cap <= i
      BY <2>1, <2>2, <2>3, <3>1, <3>2, LapBelow
    <3>4. v < tail
      BY <2>1, <2>2, <3>2, <1>1, Numbers
    <3>5. PICK q \in Producers : Pushing(q) /\ idx[q] = v
      BY <3>1, <3>4 DEF WritableInv, v
    <3>6. head <= v
      BY <1>1, <3>5 DEF IInv, PushersInv
    <3>7. tail - head = Cap
      BY <1>1, <2>1, <2>2, <3>3, <3>6, Numbers, Sizes
    <3>8. QED
      BY <3>7
  <2>5. CASE ~Writable(s)
    <3>1. ReadableInv(s) /\ Mask(v - 1) = s
      BY <1>1, <2>1, <2>5 DEF IInv, SlotsInv, ReadableInv
    <3> HIDE DEF s, i, v
    <3>2. v - 1 < i /\ v - 1 \in Int /\ i \in Int
      BY <2>1, <2>2
    <3>3. (v - 1) + Cap <= i
      BY <2>3, <3>1, <3>2, LapBelow
    <3>4. CASE v > head
      <4>1. tail - head = Cap
        BY <1>1, <2>1, <2>2, <3>3, <3>4, Numbers, Sizes
      <4>2. QED
        BY <4>1
    <3>5. CASE v <= head
      <4>1. PICK c \in Consumers : Popping(c) /\ idx[c] = v - 1
        BY <3>1, <3>5 DEF ReadableInv, v
      <4>2. tail <= idx[c] + Cap
        BY <1>1, <4>1 DEF IInv, PoppersInv
      <4>3. idx[c] = tail - Cap
        BY <1>1, <2>1, <2>2, <3>3, <4>1, <4>2, Numbers, Sizes
      <4>4. QED
        BY <4>1, <4>3 DEF Popping
    <3>6. QED
      BY <1>1, <2>2, <3>4, <3>5, Numbers
  <2>6. QED
    BY <2>4, <2>5
<1>2. ASSUME IInv, NEW c \in Consumers, pc[c] = "seq",
             Diff(seq[Mask(idx[c])], idx[c] + 1) < 0
      PROVE  \/ tail = head
             \/ \E p \in Producers : pc[p] \in {"write", "publish"} /\ idx[p] = head
  <2> DEFINE s == Mask(idx[c])
             i == idx[c]
             v == seq[s]
  <2>1. s \in Slots /\ i \in Nat /\ Diff(v, i + 1) = v - (i + 1) /\ Diff(v, i + 1) < 0
    BY <1>2, ComparedNow DEF Threads
  <2>2. v \in Nat /\ i <= head
    BY <1>2, <2>1, Numbers DEF IInv, BoundInv
  <2>3. Mask(i) = s
    OBVIOUS
  <2>4. CASE Writable(s)
    <3>1. WritableInv(s)
      BY <1>2, <2>1, <2>4 DEF IInv, SlotsInv
    <3> HIDE DEF s, i, v
    <3>2. v <= i
      BY <2>1, <2>2
    <3>3. CASE v >= tail
      <4>1. tail = head
        BY <1>2, <2>1, <2>2, <3>2, <3>3, Numbers
      <4>2. QED
        BY <4>1
    <3>4. CASE v < tail
      <4>1. PICK p \in Producers : Pushing(p) /\ idx[p] = v
        BY <3>1, <3>4 DEF WritableInv, v
      <4>2. head <= v
        BY <1>2, <4>1 DEF IInv, PushersInv
      <4>3. idx[p] = head
        BY <1>2, <2>1, <2>2, <3>2, <4>1, <4>2, Numbers
      <4>4. QED
        BY <4>1, <4>3 DEF Pushing
    <3>5. QED
      BY <1>2, <2>2, <3>3, <3>4, Numbers
  <2>5. CASE ~Writable(s)
    <3>1. ReadableInv(s) /\ Mask(v - 1) = s
      BY <1>2, <2>1, <2>5 DEF IInv, SlotsInv, ReadableInv
    <3> HIDE DEF s, i, v
    <3>2. v - 1 < i /\ v - 1 \in Int /\ i \in Int /\ v <= head
      BY <1>2, <2>1, <2>2, Numbers
    <3>3. (v - 1) + Cap <= i
      BY <2>3, <3>1, <3>2, LapBelow
    <3>4. PICK d \in Consumers : Popping(d) /\ idx[d] = v - 1
      BY <3>1, <3>2 DEF ReadableInv, v
    <3>5. tail <= idx[d] + Cap
      BY <1>2, <3>4 DEF IInv, PoppersInv
    <3>6. tail = head
      BY <1>2, <2>1, <2>2, <3>3, <3>4, <3>5, Numbers, Sizes
    <3>7. QED
      BY <3>6
  <2>6. QED
    BY <2>4, <2>5
<1>3. IInv => RefusalIsHonest
  BY <1>1, <1>2 DEF RefusalIsHonest
<1>4. QED
  BY <1>3, Invariance, PTL

(* With two slots or more the comment in try_push is right: the slot of    *)
(* the tail of a full queue compares as full.  It is wrong for pow = 0.    *)
THEOREM FullIsRefused == Fits /\ Spec => []UnreadIsRefused
<1>1. ASSUME IInv, NEW p \in Producers, pc[p] = "seq", idx[p] = tail, tail - head = Cap
      PROVE  Diff(seq[Mask(idx[p])], idx[p]) < 0
  <2> DEFINE s == Mask(idx[p])
             v == seq[s]
  <2>1. s \in Slots /\ Diff(v, idx[p]) = v - tail /\ v \in Nat /\ tail \in Nat
    BY <1>1, ComparedNow, Numbers DEF Threads
  <2>2. v < tail
    <3>1. CASE Writable(s)
      <4>1. v < head + Cap
        BY <1>1, <2>1, <3>1 DEF IInv, SlotsInv, WritableInv
      <4>2. QED
        BY <1>1, <4>1, Numbers, Sizes
    <3>2. CASE ~Writable(s)
      <4>1. v <= tail
        BY <1>1, <2>1, <3>2 DEF IInv, SlotsInv, ReadableInv
      <4>2. v # tail
        BY <1>1, <3>2 DEF Writable
      <4>3. QED
        BY <2>1, <4>1, <4>2
    <3>3. QED
      BY <3>1, <3>2
  <2> HIDE DEF v
  <2>3. v - tail < 0
    BY <2>1, <2>2
  <2>4. QED
    BY <2>1, <2>3 DEF v
<1>2. IInv => UnreadIsRefused
  BY <1>1 DEF UnreadIsRefused
<1>3. QED
  BY <1>2, Invariance, PTL

------------------------------------------------------------------------------
(* The queue as its callers see it.                                        *)

LEMMA SeqAppend ==
  ASSUME NEW V, NEW n \in Nat, NEW f \in [1 .. n -> V], NEW v \in V,
         NEW g \in [1 .. n + 1 -> V], g[n + 1] = v, \A j \in 1 .. n : g[j] = f[j]
  PROVE  Len(f) = n /\ g = Append(f, v)
<1>1. f \in Seq(V) /\ g \in Seq(V) /\ Len(f) = n /\ Len(g) = n + 1
  OBVIOUS
<1>2. /\ Append(f, v) \in Seq(V) /\ Len(Append(f, v)) = n + 1
      /\ \A j \in 1 .. n + 1 : Append(f, v)[j] = g[j]
  BY <1>1
<1>3. QED
  BY <1>1, <1>2, SeqEqual

LEMMA SeqTail ==
  ASSUME NEW V, NEW n \in Nat, n > 0, NEW f \in [1 .. n -> V],
         NEW g \in [1 .. n - 1 -> V], \A j \in 1 .. n - 1 : g[j] = f[j + 1]
  PROVE  f # <<>> /\ Head(f) = f[1] /\ g = Tail(f)
<1>1. f \in Seq(V) /\ Len(f) = n /\ f # <<>>
  OBVIOUS
<1>2. g \in Seq(V) /\ Len(g) = n - 1
  <2>1. n - 1 \in Nat
    OBVIOUS
  <2>2. QED
    BY <2>1
<1>3. /\ Tail(f) \in Seq(V) /\ Len(Tail(f)) = n - 1
      /\ \A j \in 1 .. n - 1 : Tail(f)[j] = f[j + 1]
  BY <1>1, HeadTailProperties
<1>4. g = Tail(f)
  BY <1>2, <1>3, SeqEqual
<1>5. QED
  BY <1>1, <1>4

(* The n values from position h on, where w, i and a are the producers'    *)
(* pc, idx and arg, and d is what the slots hold.                          *)
ClaimantsIn(w, i, pos) == {p \in Producers : w[p] \in {"write", "publish"} /\ i[p] = pos}

ClaimedOnce(w, i) ==
  \A p, q \in Producers :
    p # q /\ {w[p], w[q]} \subseteq {"write", "publish"} => i[p] # i[q]

QueueOf(h, n, w, i, a, d) ==
  [j \in 1 .. n |->
     IF ClaimantsIn(w, i, h + j - 1) = {} THEN d[Mask(h + j - 1)]
     ELSE a[CHOOSE p \in ClaimantsIn(w, i, h + j - 1) : TRUE]]

Queued(f, h, n, w, i, a, d) ==
  /\ f \in [1 .. n -> Values \cup {Nothing}]
  /\ \A j \in 1 .. n :
       /\ ClaimantsIn(w, i, h + j - 1) = {} => f[j] = d[Mask(h + j - 1)]
       /\ \A p \in ClaimantsIn(w, i, h + j - 1) : f[j] = a[p]

LEMMA QueueValues ==
  ASSUME NEW h \in Nat, NEW n \in Nat, NEW w, NEW i,
         NEW a \in [Producers -> Values \cup {Nothing}],
         NEW d \in [Slots -> Values \cup {Nothing}],
         ClaimedOnce(w, i)
  PROVE  Queued(QueueOf(h, n, w, i, a, d), h, n, w, i, a, d)
<1>1. ASSUME NEW j \in 1 .. n PROVE Mask(h + j - 1) \in Slots
  <2>1. h + j - 1 \in Int
    OBVIOUS
  <2>2. QED
    BY <2>1, MaskRange
<1>2. ASSUME NEW pos, NEW p \in ClaimantsIn(w, i, pos)
      PROVE  (CHOOSE q \in ClaimantsIn(w, i, pos) : TRUE) = p
  <2>1. ClaimantsIn(w, i, pos) = {p}
    BY DEF ClaimantsIn, ClaimedOnce
  <2>2. QED
    BY <2>1, Chosen
<1>3. \A pos : \A p \in ClaimantsIn(w, i, pos) : p \in Producers
  BY DEF ClaimantsIn
<1>4. QED
  BY <1>1, <1>2, <1>3 DEF QueueOf, Queued

LEMMA QueueNow ==
  ASSUME IInv, handles # {}
  PROVE  /\ AbstractQueue \in [1 .. tail - head -> Values \cup {Nothing}]
         /\ \A j \in 1 .. tail - head :
              /\ (\A p \in Producers : Pushing(p) => idx[p] # head + j - 1)
                   => AbstractQueue[j] = data[Mask(head + j - 1)]
              /\ \A p \in Producers :
                   Pushing(p) /\ idx[p] = head + j - 1 => AbstractQueue[j] = arg[p]
<1>1. AbstractQueue = QueueOf(head, tail - head, pc, idx, arg, data)
  BY DEF AbstractQueue, QueueOf, Claimants, ClaimantsIn
<1>2. /\ head \in Nat /\ tail - head \in Nat
      /\ arg \in [Producers -> Values \cup {Nothing}]
      /\ data \in [Slots -> Values \cup {Nothing}]
  BY Numbers DEF IInv, TypeOK
<1>3. ClaimedOnce(pc, idx)
  BY DEF IInv, DistinctInv, Pushing, ClaimedOnce
<1>4. PICK h, n, w, i, a, d :
        h = head /\ n = tail - head /\ w = pc /\ i = idx /\ a = arg /\ d = data
  OBVIOUS
<1>5. Queued(QueueOf(h, n, w, i, a, d), h, n, w, i, a, d)
  <2>1. /\ h \in Nat /\ n \in Nat
        /\ a \in [Producers -> Values \cup {Nothing}]
        /\ d \in [Slots -> Values \cup {Nothing}]
        /\ ClaimedOnce(w, i)
    BY <1>2, <1>3, <1>4
  <2>2. QED
    BY <2>1, QueueValues
<1>6. ASSUME NEW j \in 1 .. n
      PROVE  ClaimantsIn(w, i, h + j - 1) = {p \in Producers : Pushing(p) /\ idx[p] = h + j - 1}
  BY <1>4 DEF ClaimantsIn, Pushing
<1>7. ASSUME NEW j \in 1 .. n
      PROVE  /\ (\A p \in Producers : Pushing(p) => idx[p] # h + j - 1)
                  => QueueOf(h, n, w, i, a, d)[j] = d[Mask(h + j - 1)]
             /\ \A p \in Producers :
                  Pushing(p) /\ idx[p] = h + j - 1 => QueueOf(h, n, w, i, a, d)[j] = a[p]
  <2> DEFINE f == QueueOf(h, n, w, i, a, d)
             S == ClaimantsIn(w, i, h + j - 1)
  <2>1. (S = {} => f[j] = d[Mask(h + j - 1)]) /\ \A p \in S : f[j] = a[p]
    BY <1>5 DEF Queued
  <2>2. S = {p \in Producers : Pushing(p) /\ idx[p] = h + j - 1}
    BY <1>6
  <2> HIDE DEF f, S
  <2>3. QED
    BY <2>1, <2>2 DEF f
<1>8. AbstractQueue = QueueOf(h, n, w, i, a, d)
  BY <1>1, <1>4
<1>9. QED
  BY <1>4, <1>5, <1>7, <1>8 DEF Queued

LEMMA QueueThen ==
  ASSUME IInv', handles' # {}
  PROVE  /\ AbstractQueue' \in [1 .. tail' - head' -> Values \cup {Nothing}]
         /\ \A j \in 1 .. tail' - head' :
              /\ (\A p \in Producers : Pushing(p)' => idx'[p] # head' + j - 1)
                   => AbstractQueue'[j] = data'[Mask(head' + j - 1)]
              /\ \A p \in Producers :
                   Pushing(p)' /\ idx'[p] = head' + j - 1 => AbstractQueue'[j] = arg'[p]
<1>1. AbstractQueue' = QueueOf(head', tail' - head', pc', idx', arg', data')
  BY DEF AbstractQueue, QueueOf, Claimants, ClaimantsIn
<1>2. /\ head' \in Nat /\ tail' - head' \in Nat
      /\ arg' \in [Producers -> Values \cup {Nothing}]
      /\ data' \in [Slots -> Values \cup {Nothing}]
  <2>1. head' \in Nat /\ tail' \in head' .. head' + Cap
    BY DEF IInv, TypeOK
  <2>2. tail' - head' \in Nat
    <3>1. \A h \in Nat : \A t \in h .. h + Cap : t - h \in Nat
      BY Sizes
    <3>2. QED
      BY <2>1, <3>1, Zenon
  <2>3. QED
    BY <2>1, <2>2 DEF IInv, TypeOK
<1>3. ClaimedOnce(pc', idx')
  BY DEF IInv, DistinctInv, Pushing, ClaimedOnce
<1>4. PICK h, n, w, i, a, d :
        h = head' /\ n = tail' - head' /\ w = pc' /\ i = idx' /\ a = arg' /\ d = data'
  OBVIOUS
<1>5. Queued(QueueOf(h, n, w, i, a, d), h, n, w, i, a, d)
  <2>1. /\ h \in Nat /\ n \in Nat
        /\ a \in [Producers -> Values \cup {Nothing}]
        /\ d \in [Slots -> Values \cup {Nothing}]
        /\ ClaimedOnce(w, i)
    BY <1>2, <1>3, <1>4
  <2>2. QED
    BY <2>1, QueueValues
<1>6. ASSUME NEW j \in 1 .. n
      PROVE  ClaimantsIn(w, i, h + j - 1) = {p \in Producers : Pushing(p)' /\ idx'[p] = h + j - 1}
  BY <1>4 DEF ClaimantsIn, Pushing
<1>7. ASSUME NEW j \in 1 .. n
      PROVE  /\ (\A p \in Producers : Pushing(p)' => idx'[p] # h + j - 1)
                  => QueueOf(h, n, w, i, a, d)[j] = d[Mask(h + j - 1)]
             /\ \A p \in Producers :
                  Pushing(p)' /\ idx'[p] = h + j - 1 => QueueOf(h, n, w, i, a, d)[j] = a[p]
  <2> DEFINE f == QueueOf(h, n, w, i, a, d)
             S == ClaimantsIn(w, i, h + j - 1)
  <2>1. (S = {} => f[j] = d[Mask(h + j - 1)]) /\ \A p \in S : f[j] = a[p]
    BY <1>5 DEF Queued
  <2>2. S = {p \in Producers : Pushing(p)' /\ idx'[p] = h + j - 1}
    BY <1>6
  <2> HIDE DEF f, S
  <2>3. QED
    BY <2>1, <2>2 DEF f
<1>8. AbstractQueue' = QueueOf(h, n, w, i, a, d)
  BY <1>1, <1>4
<1>9. QED
  BY <1>4, <1>5, <1>7, <1>8 DEF Queued

(* Positions in the queue have slots of their own, none of them held by a  *)
(* consumer.                                                               *)
LEMMA QueueSlots ==
  ASSUME IInv, NEW j \in 1 .. tail - head
  PROVE  /\ head + j - 1 \in Int /\ Mask(head + j - 1) \in Slots
         /\ \A p \in Producers :
              Pushing(p) /\ idx[p] # head + j - 1 => Mask(idx[p]) # Mask(head + j - 1)
         /\ \A c \in Consumers : Popping(c) => Mask(idx[c]) # Mask(head + j - 1)
<1> DEFINE x == head + j - 1
<1>1. x \in Int /\ head <= x /\ x < tail /\ tail <= head + Cap
  BY Numbers
<1>2. Mask(x) \in Slots
  BY <1>1, MaskRange
<1> HIDE DEF x
<1>3. ASSUME NEW p \in Producers, Pushing(p), idx[p] # x PROVE Mask(idx[p]) # Mask(x)
  <2>1. idx[p] \in Int /\ head <= idx[p] /\ idx[p] < tail
    BY <1>3, Numbers DEF IInv, PushersInv, Threads
  <2>2. CASE idx[p] < x
    <3>1. x < idx[p] + Cap
      BY <1>1, <2>1, Numbers, Sizes
    <3>2. QED
      BY <1>1, <2>1, <2>2, <3>1, MaskInjective
  <2>3. CASE x < idx[p]
    <3>1. idx[p] < x + Cap
      BY <1>1, <2>1, Numbers, Sizes
    <3>2. QED
      BY <1>1, <2>1, <2>3, <3>1, MaskInjective
  <2>4. QED
    BY <1>1, <1>3, <2>1, <2>2, <2>3
<1>4. ASSUME NEW c \in Consumers, Popping(c) PROVE Mask(idx[c]) # Mask(x)
  <2>1. idx[c] \in Int /\ idx[c] < head /\ tail <= idx[c] + Cap
    BY <1>4, Numbers DEF IInv, PoppersInv, Threads
  <2>2. idx[c] < x /\ x < idx[c] + Cap
    BY <1>1, <2>1, Numbers, Sizes
  <2>3. QED
    BY <1>1, <2>1, <2>2, MaskInjective
<1>5. QED
  BY <1>1, <1>2, <1>3, <1>4 DEF x

(* A step that moves neither head nor tail leaves the queue as it is, when *)
(* each position keeps its claimant and his argument, or its value, or has *)
(* the one in place of the other.                                          *)
LEMMA QueueStays ==
  ASSUME IInv, IInv', handles # {}, handles' # {}, UNCHANGED <<head, tail>>,
         \A j \in 1 .. tail - head :
           \/ \E p \in Producers : /\ Pushing(p) /\ idx[p] = head + j - 1
                                   /\ \/ Pushing(p)' /\ UNCHANGED <<idx[p], arg[p]>>
                                      \/ /\ \A q \in Producers :
                                              Pushing(q)' => idx'[q] # head + j - 1
                                         /\ data'[Mask(head + j - 1)] = arg[p]
           \/ /\ \A q \in Producers : Pushing(q) => idx[q] # head + j - 1
              /\ \A q \in Producers : Pushing(q)' => idx'[q] # head + j - 1
              /\ data'[Mask(head + j - 1)] = data[Mask(head + j - 1)]
  PROVE  AbstractQueue' = AbstractQueue
<1>1. PICK n, f, g : n = tail - head /\ f = AbstractQueue /\ g = AbstractQueue'
  OBVIOUS
<1>2. /\ f \in [1 .. n -> Values \cup {Nothing}] /\ g \in [1 .. n -> Values \cup {Nothing}]
      /\ n \in Nat
  BY <1>1, QueueNow, QueueThen, Numbers
<1>3. ASSUME NEW j \in 1 .. n PROVE g[j] = f[j]
  BY <1>1, QueueNow, QueueThen
<1>4. f = g
  BY <1>2, <1>3
<1>5. QED
  BY <1>1, <1>4

(* A value that was written stays in its slot until it is published.       *)
Written == \A p \in Producers : pc[p] = "publish" => data[Mask(idx[p])] = arg[p]

LEMMA WrittenStep == IInv /\ Written /\ [Next]_vars => Written'
<1> SUFFICES ASSUME IInv, Written, [Next]_vars, NEW p \in Producers, pc'[p] = "publish"
             PROVE  data'[Mask(idx'[p])] = arg'[p]
  BY DEF Written
<1>1. p \in Threads /\ p \notin Consumers
  BY ThreadsAssumption DEF Threads
<1>2. CASE pc[p] = "publish" /\ idx'[p] = idx[p] /\ arg'[p] = arg[p]
  <2>1. data[Mask(idx[p])] = arg[p] /\ Mask(idx[p]) \in Slots /\ p \in handles
    BY <1>1, <1>2, HoldersApart DEF Written, Pushing, IInv, CallsInv, Idle
  <2>2. ASSUME NEW q \in Producers, PushWrite(q) PROVE data'[Mask(idx[p])] = data[Mask(idx[p])]
    <3>1. Pushing(p) /\ Pushing(q) /\ p # q
      BY <1>2, <2>2 DEF PushWrite, Pushing
    <3>2. Mask(idx[p]) # Mask(idx[q])
      BY <3>1, HoldersApart
    <3>3. QED
      BY <2>1, <2>2, <3>2 DEF PushWrite, IInv, TypeOK
  <2>3. ASSUME NEW c \in Consumers, PopRead(c) PROVE data'[Mask(idx[p])] = data[Mask(idx[p])]
    <3>1. Pushing(p) /\ Popping(c)
      BY <1>2, <2>3 DEF PopRead, Pushing, Popping
    <3>2. Mask(idx[p]) # Mask(idx[c])
      BY <3>1, HoldersApart
    <3>3. QED
      BY <2>1, <2>3, <3>2 DEF PopRead, IInv, TypeOK
  <2>4. ASSUME NEW h \in handles, DropHandle(h) PROVE data' = data
    BY <1>2, <2>1, <2>4 DEF DropHandle, Idle
  <2>5. CASE /\ \A q \in Producers : ~PushWrite(q)
             /\ \A c \in Consumers : ~PopRead(c)
    <3>1. ASSUME NEW q \in Producers, PushStep(q) PROVE data' = data
      BY <2>5, <3>1 DEF PushStep, PushLoadSeq, PushClaim, PushLose, PushReload, PushPublish
    <3>2. ASSUME NEW c \in Consumers, PopStep(c) \/ PopCall(c) PROVE data' = data
      BY <2>5, <3>2 DEF PopStep, PopCall, PopLoadSeq, PopClaim, PopLose, PopReload, PopRelease
    <3>3. ASSUME NEW q \in Producers, NEW v \in Values, PushCall(q, v) PROVE data' = data
      BY <3>3 DEF PushCall
    <3>4. ASSUME NEW h \in handles, NEW t \in Threads, CloneHandle(h, t) PROVE data' = data
      BY <3>4 DEF CloneHandle
    <3>5. data' = data
      BY <2>4, <3>1, <3>2, <3>3, <3>4 DEF Next, vars
    <3>6. QED
      BY <1>2, <2>1, <3>5
  <2>6. QED
    BY <1>2, <2>1, <2>2, <2>3, <2>5
<1>3. CASE PushWrite(p)
  BY <1>1, <1>3, HoldersApart DEF PushWrite, Pushing, IInv, TypeOK
<1>4. QED
  <2>1. TypeOK
    BY DEF IInv
  <2>2. CASE \E q \in Producers : PushStep(q) \/ \E v \in Values : PushCall(q, v)
    <3>1. PICK q \in Producers : PushStep(q) \/ \E v \in Values : PushCall(q, v)
      BY <2>2
    <3>2. CASE q = p
      BY <1>1, <1>3, <2>1, <3>1, <3>2 DEF TypeOK, PushStep, PushCall, PushLoadSeq, PushClaim,
         PushLose, PushReload, PushPublish, Goto, Idle
    <3>3. CASE q # p
      <4>1. q \in Threads
        BY DEF Threads
      <4>2. pc'[p] = pc[p] /\ idx'[p] = idx[p] /\ arg'[p] = arg[p]
        BY <1>1, <2>1, <3>1, <3>3, <4>1 DEF TypeOK, PushStep, PushCall, PushLoadSeq, PushClaim,
           PushLose, PushReload, PushWrite, PushPublish, Goto
      <4>3. QED
        BY <1>2, <4>2
    <3>4. QED
      BY <3>2, <3>3
  <2>3. CASE \E c \in Consumers : PopStep(c) \/ PopCall(c)
    <3>1. PICK c \in Consumers : PopStep(c) \/ PopCall(c)
      BY <2>3
    <3>2. c \in Threads /\ c # p
      BY <1>1 DEF Threads
    <3>3. pc'[p] = pc[p] /\ idx'[p] = idx[p] /\ arg'[p] = arg[p]
      BY <1>1, <2>1, <3>1, <3>2 DEF TypeOK, PopStep, PopCall, PopLoadSeq, PopClaim, PopLose,
         PopReload, PopRead, PopRelease, Goto
    <3>4. QED
      BY <1>2, <3>3
  <2>4. CASE \/ \E h \in handles : DropHandle(h) \/ \E t \in Threads : CloneHandle(h, t)
             \/ UNCHANGED vars
    BY <1>2, <2>4 DEF DropHandle, CloneHandle, vars
  <2>5. QED
    BY <2>2, <2>3, <2>4 DEF Next

LEMMA WrittenAlways == Fits /\ Spec => []Written
<1>1. Init => Written
  BY DEF Init, Written, Threads
<1>2. QED
  BY <1>1, WrittenStep, Invariance, PTL DEF Spec

(* A step of one thread, as the callers see it.                            *)
LEMMA PushersSeen ==
  ASSUME IInv, NEW p \in Producers, Elsewhere(p),
         (data' = data /\ out' = out) \/ (pc[p] = "write" /\ PushWrite(p))
  PROVE  /\ \A q \in Producers : q # p => PushState'[q] = PushState[q]
         /\ PopState' = PopState /\ Delivered' = Delivered
<1>1. p \in Threads /\ p \notin Consumers
  BY ThreadsAssumption DEF Threads
<1>2. ASSUME NEW u \in Threads, u # p PROVE pc'[u] = pc[u] /\ idx'[u] = idx[u]
  BY <1>2 DEF Elsewhere
<1>3. \A q \in Producers : q # p => PushState'[q] = PushState[q]
  BY <1>2 DEF PushState, Idle, Threads
<1>4. ASSUME NEW c \in Consumers PROVE pc'[c] = pc[c] /\ idx'[c] = idx[c]
  BY <1>1, <1>2 DEF Threads
<1>5. PopState' = PopState
  BY <1>4 DEF PopState, Idle
<1>6. ASSUME NEW c \in Consumers
      PROVE  /\ out'[c] = out[c]
             /\ pc[c] = "read" => data'[Mask(idx[c])] = data[Mask(idx[c])]
  <2>1. CASE data' = data /\ out' = out
    BY <2>1
  <2>2. CASE pc[p] = "write" /\ PushWrite(p)
    <3>1. pc[c] = "read" => Mask(idx[c]) # Mask(idx[p]) /\ Mask(idx[c]) \in Slots
      BY <2>2, HoldersApart DEF Pushing, Popping
    <3>2. QED
      BY <2>2, <3>1 DEF PushWrite, IInv, TypeOK
  <2>3. QED
    BY <2>1, <2>2
<1>7. Delivered' = Delivered
  BY <1>4, <1>6 DEF Delivered
<1>8. QED
  BY <1>3, <1>5, <1>7

LEMMA PoppersSeen ==
  ASSUME IInv, NEW c \in Consumers, Elsewhere(c),
         (data' = data /\ out' = out) \/ (pc[c] = "read" /\ PopRead(c))
  PROVE  /\ PushState' = PushState
         /\ \A d \in Consumers :
              d # c => PopState'[d] = PopState[d] /\ Delivered'[d] = Delivered[d]
<1>1. c \in Threads /\ c \notin Producers
  BY ThreadsAssumption DEF Threads
<1>2. ASSUME NEW u \in Threads, u # c PROVE pc'[u] = pc[u] /\ idx'[u] = idx[u]
  BY <1>2 DEF Elsewhere
<1>3. ASSUME NEW p \in Producers PROVE pc'[p] = pc[p]
  BY <1>1, <1>2 DEF Threads
<1>4. PushState' = PushState
  BY <1>3 DEF PushState, Idle
<1>5. ASSUME NEW d \in Consumers, d # c
      PROVE  PopState'[d] = PopState[d] /\ Delivered'[d] = Delivered[d]
  <2>1. pc'[d] = pc[d] /\ idx'[d] = idx[d]
    BY <1>2, <1>5 DEF Threads
  <2>2. CASE data' = data /\ out' = out
    BY <2>1, <2>2 DEF PopState, Delivered, Idle
  <2>3. CASE pc[c] = "read" /\ PopRead(c)
    <3>1. pc[d] = "read" => Mask(idx[d]) # Mask(idx[c]) /\ Mask(idx[d]) \in Slots
      BY <1>5, <2>3, HoldersApart DEF Popping
    <3>2. out'[d] = out[d]
      BY <1>5, <2>3 DEF PopRead, IInv, TypeOK
    <3>3. pc[d] = "read" => data'[Mask(idx[d])] = data[Mask(idx[d])]
      BY <2>3, <3>1 DEF PopRead, IInv, TypeOK
    <3>4. QED
      BY <2>1, <3>2, <3>3 DEF PopState, Delivered, Idle
  <2>4. QED
    BY <1>5, <2>2, <2>3
<1>6. QED
  BY <1>4, <1>5

(* A compare-exchange of tail accepts the value, ...                       *)
LEMMA AcceptStep ==
  ASSUME IInv, IInv', NEW p \in Producers, PushClaim(p)
  PROVE  Fifo!Accept(p)
<1>1. /\ pc[p] = "claim" /\ pc'[p] = "write" /\ tail' = tail + 1 /\ Elsewhere(p)
      /\ UNCHANGED <<head, data, handles, arg, out, idx>> /\ p \in Threads
  BY DEF PushClaim, Goto, Elsewhere, IInv, TypeOK, Threads
<1>2. idx[p] = tail /\ tail < head + Cap
  BY ClaimedFree
<1>3. p \in handles /\ arg[p] \in Values
  BY <1>1 DEF IInv, CallsInv, Idle
<1>4. head \in Nat /\ tail \in Nat /\ head <= tail
  BY Numbers
<1>5. PICK n, f, g : n = tail - head /\ f = AbstractQueue /\ g = AbstractQueue'
  OBVIOUS
<1>6. n \in Nat /\ n < Cap /\ tail' - head' = n + 1 /\ head + (n + 1) - 1 = tail
  BY <1>1, <1>2, <1>4, <1>5, Sizes
<1>7. /\ f \in [1 .. n -> Values \cup {Nothing}]
      /\ g \in [1 .. n + 1 -> Values \cup {Nothing}]
  BY <1>1, <1>3, <1>5, <1>6, QueueNow, QueueThen
<1>8. g[n + 1] = arg[p]
  <2>1. n + 1 \in 1 .. n + 1
    BY <1>6
  <2>2. Pushing(p)' /\ idx'[p] = head' + (n + 1) - 1
    BY <1>1, <1>2, <1>6 DEF Pushing
  <2>3. QED
    BY <1>1, <1>3, <1>5, <1>6, <2>1, <2>2, QueueThen
<1>9. ASSUME NEW j \in 1 .. n PROVE g[j] = f[j]
  <2>1. j \in 1 .. tail - head /\ j \in 1 .. tail' - head'
    BY <1>5, <1>6
  <2>2. idx[p] # head + j - 1
    BY <1>2, <1>4, <2>1
  <2>3. ~Pushing(p)
    BY <1>1 DEF Pushing
  <2>4. \A q \in Producers : /\ idx'[q] = idx[q]
                             /\ q # p => (Pushing(q)' <=> Pushing(q))
    BY <1>1 DEF Elsewhere, Pushing, Threads
  <2>5. CASE \E q \in Producers : Pushing(q) /\ idx[q] = head + j - 1
    <3>1. PICK q \in Producers : Pushing(q) /\ idx[q] = head + j - 1
      BY <2>5
    <3>2. Pushing(q)' /\ idx'[q] = head' + j - 1
      BY <1>1, <2>3, <2>4, <3>1
    <3>3. f[j] = arg[q]
      BY <1>3, <1>5, <2>1, <3>1, QueueNow
    <3>4. g[j] = arg'[q]
      BY <1>1, <1>3, <1>5, <2>1, <3>2, QueueThen
    <3>5. QED
      BY <1>1, <3>3, <3>4
  <2>6. CASE \A q \in Producers : Pushing(q) => idx[q] # head + j - 1
    <3>1. \A q \in Producers : Pushing(q)' => idx'[q] # head' + j - 1
      BY <1>1, <2>2, <2>4, <2>6
    <3>2. f[j] = data[Mask(head + j - 1)]
      BY <1>3, <1>5, <2>1, <2>6, QueueNow
    <3>3. g[j] = data'[Mask(head' + j - 1)]
      BY <1>1, <1>3, <1>5, <2>1, <3>1, QueueThen
    <3>4. QED
      BY <1>1, <3>2, <3>3
  <2>7. QED
    BY <2>5, <2>6
<1>10. Len(f) = n /\ g = Append(f, arg[p])
  <2>1. arg[p] \in Values \cup {Nothing}
    BY <1>3
  <2>2. QED
    BY <1>6, <1>7, <1>8, <1>9, <2>1, SeqAppend
<1>11. /\ PushState[p] = "called" /\ PushState'[p] = "ok"
       /\ PushState' = [PushState EXCEPT ![p] = "ok"]
       /\ PopState' = PopState /\ Delivered' = Delivered
  <2>1. PushState[p] = "called" /\ PushState'[p] = "ok"
    BY <1>1 DEF PushState, Idle
  <2>2. /\ \A q \in Producers : q # p => PushState'[q] = PushState[q]
        /\ PopState' = PopState /\ Delivered' = Delivered
    <3>1. (data' = data /\ out' = out) \/ (pc[p] = "write" /\ PushWrite(p))
      BY <1>1
    <3>2. QED
      BY <1>1, <3>1, PushersSeen, Zenon
  <2>3. DOMAIN PushState = Producers /\ DOMAIN PushState' = Producers
        /\ PushState = [q \in Producers |-> PushState[q]]
        /\ PushState' = [q \in Producers |-> PushState'[q]]
    BY DEF PushState
  <2>4. QED
    BY <2>1, <2>2, <2>3
<1>12. QED
  BY <1>1, <1>5, <1>6, <1>10, <1>11 DEF Fifo!Accept

(* ... and one of head delivers it: a consumer only gets there when its    *)
(* producer has published it.                                              *)
LEMMA DeliverStep ==
  ASSUME IInv, IInv', NEW c \in Consumers, PopClaim(c)
  PROVE  Fifo!Deliver(c)
<1>1. /\ pc[c] = "claim" /\ pc'[c] = "read" /\ head' = head + 1 /\ Elsewhere(c)
      /\ UNCHANGED <<tail, data, handles, arg, out, idx>> /\ c \in Threads
  BY DEF PopClaim, Goto, Elsewhere, IInv, TypeOK, Threads
<1>2. idx[c] = head /\ head < tail /\ seq[Mask(head)] = head + 1
  BY ClaimedFull
<1>3. c \in handles
  BY <1>1 DEF IInv, CallsInv, Idle
<1>4. head \in Nat /\ tail \in Nat /\ tail <= head + Cap
  BY Numbers
<1>5. PICK n, f, g : n = tail - head /\ f = AbstractQueue /\ g = AbstractQueue'
  OBVIOUS
<1>6. n \in Nat /\ n > 0 /\ tail' - head' = n - 1 /\ head + 1 - 1 = head
  BY <1>1, <1>2, <1>4, <1>5
<1>7. /\ f \in [1 .. n -> Values \cup {Nothing}]
      /\ g \in [1 .. n - 1 -> Values \cup {Nothing}]
  BY <1>1, <1>3, <1>5, <1>6, QueueNow, QueueThen
<1>8. f[1] = data[Mask(head)]
  <2>1. \A p \in Producers : Pushing(p) => idx[p] # head + 1 - 1
    BY <1>2, <1>4, <1>6 DEF IInv, PushersInv
  <2>2. 1 \in 1 .. tail - head
    BY <1>2, <1>4
  <2>3. QED
    BY <1>3, <1>5, <1>6, <2>1, <2>2, QueueNow
<1>9. \A q \in Producers : idx'[q] = idx[q] /\ (Pushing(q)' <=> Pushing(q))
  BY <1>1, ThreadsAssumption DEF Elsewhere, Pushing, Threads
<1>10. ASSUME NEW j \in 1 .. n - 1 PROVE g[j] = f[j + 1]
  <2>1. j + 1 \in 1 .. tail - head /\ j \in 1 .. tail' - head'
    BY <1>5, <1>6
  <2>2. head' + j - 1 = head + (j + 1) - 1
    BY <1>1, <1>4, <1>6
  <2>3. CASE \E q \in Producers : Pushing(q) /\ idx[q] = head + (j + 1) - 1
    <3>1. PICK q \in Producers : Pushing(q) /\ idx[q] = head + (j + 1) - 1
      BY <2>3
    <3>2. f[j + 1] = arg[q]
      BY <1>3, <1>5, <2>1, <3>1, QueueNow
    <3>3. g[j] = arg'[q]
      BY <1>1, <1>3, <1>5, <1>9, <2>1, <2>2, <3>1, QueueThen
    <3>4. QED
      BY <1>1, <3>2, <3>3
  <2>4. CASE \A q \in Producers : Pushing(q) => idx[q] # head + (j + 1) - 1
    <3>1. f[j + 1] = data[Mask(head + (j + 1) - 1)]
      BY <1>3, <1>5, <2>1, <2>4, QueueNow
    <3>2. g[j] = data'[Mask(head' + j - 1)]
      BY <1>1, <1>3, <1>5, <1>9, <2>1, <2>2, <2>4, QueueThen
    <3>3. QED
      BY <1>1, <2>2, <3>1, <3>2
  <2>5. QED
    BY <2>3, <2>4
<1>11. f # <<>> /\ Head(f) = data[Mask(head)] /\ g = Tail(f)
  BY <1>6, <1>7, <1>8, <1>10, SeqTail
<1>12. /\ PopState[c] = "called"
       /\ PopState' = [PopState EXCEPT ![c] = "got"]
       /\ Delivered' = [Delivered EXCEPT ![c] = data[Mask(head)]]
       /\ PushState' = PushState
  <2>1. /\ PopState[c] = "called" /\ PopState'[c] = "got"
        /\ Delivered'[c] = data[Mask(head)]
    BY <1>1, <1>2 DEF PopState, Delivered, Idle
  <2>2. /\ PushState' = PushState
        /\ \A d \in Consumers :
             d # c => PopState'[d] = PopState[d] /\ Delivered'[d] = Delivered[d]
    <3>1. (data' = data /\ out' = out) \/ (pc[c] = "read" /\ PopRead(c))
      BY <1>1
    <3>2. QED
      BY <1>1, <3>1, PoppersSeen, Zenon
  <2>3. /\ PopState = [d \in Consumers |-> PopState[d]]
        /\ PopState' = [d \in Consumers |-> PopState'[d]]
        /\ Delivered = [d \in Consumers |-> Delivered[d]]
        /\ Delivered' = [d \in Consumers |-> Delivered'[d]]
    BY DEF PopState, Delivered
  <2>4. QED
    BY <2>1, <2>2, <2>3
<1>13. QED
  BY <1>1, <1>5, <1>11, <1>12 DEF Fifo!Deliver

(* The other steps of a call leave the queue alone: ...                    *)
LEMMA PushQuiet ==
  ASSUME IInv, IInv', NEW p \in Producers, p \in handles, Elsewhere(p),
         UNCHANGED <<head, tail, handles, data>>, ~Pushing(p), ~Pushing(p)',
         \A q \in Producers : q # p => arg'[q] = arg[q]
  PROVE  AbstractQueue' = AbstractQueue
<1>1. ASSUME NEW q \in Producers, q # p
      PROVE  /\ idx'[q] = idx[q] /\ arg'[q] = arg[q]
             /\ Pushing(q)' <=> Pushing(q)
  BY <1>1 DEF Elsewhere, Pushing, Threads
<1>2. ASSUME NEW j \in 1 .. tail - head
      PROVE  \/ \E q \in Producers : /\ Pushing(q) /\ idx[q] = head + j - 1
                                     /\ Pushing(q)' /\ UNCHANGED <<idx[q], arg[q]>>
             \/ /\ \A q \in Producers : Pushing(q) => idx[q] # head + j - 1
                /\ \A q \in Producers : Pushing(q)' => idx'[q] # head + j - 1
                /\ data'[Mask(head + j - 1)] = data[Mask(head + j - 1)]
  BY <1>1
<1>3. QED
  BY <1>2, QueueStays

(* ... those that hold a slot put the value of a claimed position there,   *)
(* ...                                                                     *)
LEMMA PushFills ==
  ASSUME IInv, IInv', Written, NEW p \in Producers, PushWrite(p) \/ PushPublish(p)
  PROVE  AbstractQueue' = AbstractQueue
<1>1. /\ Elsewhere(p) /\ Pushing(p) /\ p \in handles
      /\ UNCHANGED <<head, tail, handles, idx, arg>> /\ p \in Threads
  BY DEF PushWrite, PushPublish, Goto, Elsewhere, Pushing, Threads, IInv, CallsInv,
     TypeOK, Idle
<1>2. ASSUME NEW q \in Producers, q # p PROVE Pushing(q)' <=> Pushing(q)
  BY <1>1, <1>2 DEF Elsewhere, Pushing, Threads
<1>3. ASSUME NEW j \in 1 .. tail - head
      PROVE  \/ \E q \in Producers : /\ Pushing(q) /\ idx[q] = head + j - 1
                                     /\ \/ Pushing(q)' /\ UNCHANGED <<idx[q], arg[q]>>
                                        \/ /\ \A r \in Producers :
                                                Pushing(r)' => idx'[r] # head + j - 1
                                           /\ data'[Mask(head + j - 1)] = arg[q]
             \/ /\ \A q \in Producers : Pushing(q) => idx[q] # head + j - 1
                /\ \A q \in Producers : Pushing(q)' => idx'[q] # head + j - 1
                /\ data'[Mask(head + j - 1)] = data[Mask(head + j - 1)]
  <2> DEFINE x == head + j - 1
  <2>1. CASE idx[p] = x
    <3>1. CASE PushWrite(p)
      <4>1. Pushing(p)'
        BY <1>1, <3>1 DEF PushWrite, Goto, Pushing, IInv, TypeOK
      <4>2. QED
        BY <1>1, <2>1, <4>1
    <3>2. CASE PushPublish(p)
      <4>1. data'[Mask(x)] = arg[p]
        BY <2>1, <3>2 DEF PushPublish, Written
      <4>2. ~Pushing(p)'
        BY <1>1, <3>2 DEF PushPublish, Goto, Pushing, IInv, TypeOK
      <4>3. \A r \in Producers : Pushing(r)' => idx'[r] # x
        BY <1>1, <1>2, <2>1, <4>2 DEF IInv, DistinctInv
      <4>4. QED
        BY <1>1, <2>1, <4>1, <4>3
    <3>3. QED
      BY <3>1, <3>2
  <2>2. CASE idx[p] # x
    <3>1. data'[Mask(x)] = data[Mask(x)]
      <4>1. Mask(idx[p]) # Mask(x) /\ Mask(x) \in Slots
        BY <1>1, <2>2, QueueSlots
      <4>2. QED
        BY <4>1 DEF PushWrite, PushPublish, IInv, TypeOK
    <3>2. CASE \E q \in Producers : Pushing(q) /\ idx[q] = x
      BY <1>1, <1>2, <2>2, <3>2
    <3>3. CASE \A q \in Producers : Pushing(q) => idx[q] # x
      BY <1>1, <1>2, <2>2, <3>1, <3>3
    <3>4. QED
      BY <3>2, <3>3
  <2>3. QED
    BY <2>1, <2>2
<1>4. QED
  BY <1>1, <1>3, QueueStays

(* ... and a consumer only empties a slot whose position has left.         *)
LEMMA PopQuiet ==
  ASSUME IInv, IInv', NEW c \in Consumers, c \in handles, Elsewhere(c),
         UNCHANGED <<head, tail, handles, arg>>, data' = data \/ PopRead(c)
  PROVE  AbstractQueue' = AbstractQueue
<1>1. ASSUME NEW q \in Producers
      PROVE  idx'[q] = idx[q] /\ arg'[q] = arg[q] /\ (Pushing(q)' <=> Pushing(q))
  BY ThreadsAssumption DEF Elsewhere, Pushing, Threads
<1>2. ASSUME NEW j \in 1 .. tail - head
      PROVE  data'[Mask(head + j - 1)] = data[Mask(head + j - 1)]
  <2>1. CASE PopRead(c)
    <3>1. Mask(idx[c]) # Mask(head + j - 1) /\ Mask(head + j - 1) \in Slots
      BY <2>1, QueueSlots DEF PopRead, Popping
    <3>2. QED
      BY <2>1, <3>1 DEF PopRead, IInv, TypeOK
  <2>2. QED
    BY <2>1
<1>3. ASSUME NEW j \in 1 .. tail - head
      PROVE  \/ \E q \in Producers : /\ Pushing(q) /\ idx[q] = head + j - 1
                                     /\ Pushing(q)' /\ UNCHANGED <<idx[q], arg[q]>>
             \/ /\ \A q \in Producers : Pushing(q) => idx[q] # head + j - 1
                /\ \A q \in Producers : Pushing(q)' => idx'[q] # head + j - 1
                /\ data'[Mask(head + j - 1)] = data[Mask(head + j - 1)]
  BY <1>1, <1>2
<1>4. QED
  BY <1>3, QueueStays

LEMMA FunctionsSeen ==
  /\ PushState = [p \in Producers |-> PushState[p]]
  /\ PushState' = [p \in Producers |-> PushState'[p]]
  /\ PopState = [c \in Consumers |-> PopState[c]]
  /\ PopState' = [c \in Consumers |-> PopState'[c]]
  /\ Delivered = [c \in Consumers |-> Delivered[c]]
  /\ Delivered' = [c \in Consumers |-> Delivered'[c]]
BY DEF PushState, PopState, Delivered

LEMMA PushFifo ==
  ASSUME IInv, IInv', Written, NEW p \in Producers,
         PushStep(p) \/ \E v \in Values : PushCall(p, v)
  PROVE  Fifo!Next \/ UNCHANGED Fifo!vars
<1>1. p \in Threads /\ TypeOK
  BY DEF Threads, IInv
<1>2. CASE PushClaim(p)
  BY <1>2, AcceptStep DEF Fifo!Next
<1>3. CASE PushWrite(p) \/ PushPublish(p)
  <2>1. /\ Elsewhere(p) /\ Pushing(p) /\ pc'[p] \in {"publish", "ok"}
        /\ UNCHANGED <<handles, arg, out>>
        /\ (data' = data /\ out' = out) \/ (pc[p] = "write" /\ PushWrite(p))
    BY <1>1, <1>3 DEF PushWrite, PushPublish, Goto, Elsewhere, Pushing, TypeOK
  <2>2. AbstractQueue' = AbstractQueue
    BY <1>3, PushFills
  <2>3. /\ \A q \in Producers : q # p => PushState'[q] = PushState[q]
        /\ PopState' = PopState /\ Delivered' = Delivered
    BY <2>1, PushersSeen, Zenon
  <2>4. PushState'[p] = PushState[p]
    BY <2>1 DEF PushState, Idle, Pushing
  <2>5. PushState' = PushState
    BY <2>3, <2>4, FunctionsSeen
  <2>6. QED
    BY <2>1, <2>2, <2>3, <2>5 DEF Fifo!vars
<1>4. CASE PushLoadSeq(p) \/ PushLose(p) \/ PushReload(p)
  <2>1. /\ Elsewhere(p) /\ ~Idle(p) /\ ~Pushing(p) /\ ~Pushing(p)'
        /\ pc'[p] \in {"claim", "full", "reload", "seq"}
        /\ UNCHANGED <<head, tail, handles, data>>
        /\ UNCHANGED <<arg, out>>
    BY <1>1, <1>4 DEF PushLoadSeq, PushLose, PushReload, Goto, Elsewhere, Pushing, TypeOK, Idle
  <2>2. p \in handles
    BY <1>1, <2>1 DEF IInv, CallsInv
  <2>3. AbstractQueue' = AbstractQueue
    BY <2>1, <2>2, PushQuiet
  <2>4. (data' = data /\ out' = out) \/ (pc[p] = "write" /\ PushWrite(p))
    BY <2>1
  <2>5. /\ \A q \in Producers : q # p => PushState'[q] = PushState[q]
        /\ PopState' = PopState /\ Delivered' = Delivered
    BY <2>1, <2>4, PushersSeen, Zenon
  <2>6. PushState[p] = "called" /\ PushState'[p] = IF pc'[p] = "full" THEN "full" ELSE "called"
    BY <2>1 DEF PushState, Idle, Pushing
  <2>7. CASE pc'[p] = "full"
    <3>1. PushState' = [PushState EXCEPT ![p] = "full"]
      BY <2>5, <2>6, <2>7, FunctionsSeen
    <3>2. Fifo!Refuse(p)
      BY <2>1, <2>3, <2>5, <2>6, <3>1 DEF Fifo!Refuse
    <3>3. QED
      BY <3>2 DEF Fifo!Next
  <2>8. CASE pc'[p] # "full"
    <3>1. PushState' = PushState
      BY <2>5, <2>6, <2>8, FunctionsSeen
    <3>2. QED
      BY <2>1, <2>3, <2>5, <3>1 DEF Fifo!vars
  <2>9. QED
    BY <2>7, <2>8
<1>5. ASSUME NEW v \in Values, PushCall(p, v) PROVE Fifo!Next
  <2>1. /\ Elsewhere(p) /\ Idle(p) /\ ~Pushing(p) /\ ~Pushing(p)'
        /\ pc'[p] = "seq" /\ p \in handles /\ arg' = [arg EXCEPT ![p] = v]
        /\ UNCHANGED <<head, tail, handles, data>>
        /\ UNCHANGED out
    BY <1>1, <1>5 DEF PushCall, Goto, Elsewhere, Pushing, TypeOK, Idle
  <2>2. \A q \in Producers : q # p => arg'[q] = arg[q]
    BY <1>1, <2>1 DEF TypeOK
  <2>3. AbstractQueue' = AbstractQueue
    BY <2>1, <2>2, PushQuiet
  <2>4. (data' = data /\ out' = out) \/ (pc[p] = "write" /\ PushWrite(p))
    BY <2>1
  <2>5. /\ \A q \in Producers : q # p => PushState'[q] = PushState[q]
        /\ PopState' = PopState /\ Delivered' = Delivered
    BY <2>1, <2>4, PushersSeen, Zenon
  <2>6. PushState[p] # "called" /\ PushState'[p] = "called"
    BY <2>1 DEF PushState, Idle
  <2>7. PushState' = [PushState EXCEPT ![p] = "called"]
    BY <2>5, <2>6, FunctionsSeen
  <2>8. Fifo!CallPush(p, v)
    BY <2>1, <2>3, <2>5, <2>6, <2>7 DEF Fifo!CallPush
  <2>9. QED
    BY <2>8 DEF Fifo!Next
<1>6. QED
  BY <1>2, <1>3, <1>4, <1>5 DEF PushStep

LEMMA PopFifo ==
  ASSUME IInv, IInv', NEW c \in Consumers, PopStep(c) \/ PopCall(c)
  PROVE  Fifo!Next \/ UNCHANGED Fifo!vars
<1>1. c \in Threads /\ TypeOK
  BY DEF Threads, IInv
<1>2. CASE PopClaim(c)
  BY <1>2, DeliverStep DEF Fifo!Next
<1>3. CASE ~PopClaim(c)
  <2>1. /\ Elsewhere(c) /\ c \in handles /\ UNCHANGED <<head, tail, handles, arg>>
        /\ data' = data \/ PopRead(c)
        /\ (data' = data /\ out' = out) \/ (pc[c] = "read" /\ PopRead(c))
    BY <1>1, <1>3 DEF PopStep, PopCall, PopLoadSeq, PopLose, PopReload, PopRead, PopRelease,
       Goto, Elsewhere, TypeOK, IInv, CallsInv, Idle
  <2>2. AbstractQueue' = AbstractQueue
    BY <2>1, PopQuiet
  <2>3. /\ PushState' = PushState
        /\ \A d \in Consumers :
             d # c => PopState'[d] = PopState[d] /\ Delivered'[d] = Delivered[d]
    BY <2>1, PoppersSeen, Zenon
  <2>4. CASE PopCall(c)
    <3>1. PopState[c] # "called" /\ PopState'[c] = "called" /\ Delivered'[c] = Delivered[c]
      BY <1>1, <2>4 DEF PopCall, Goto, PopState, Delivered, Idle, TypeOK
    <3>2. PopState' = [PopState EXCEPT ![c] = "called"] /\ Delivered' = Delivered
      BY <2>3, <3>1, FunctionsSeen
    <3>3. Fifo!CallPop(c)
      BY <2>1, <2>2, <2>3, <3>1, <3>2 DEF Fifo!CallPop
    <3>4. QED
      BY <3>3 DEF Fifo!Next
  <2>5. CASE PopLoadSeq(c) /\ pc'[c] = "empty"
    <3>1. PopState[c] = "called" /\ PopState'[c] = "empty" /\ Delivered'[c] = Delivered[c]
      BY <1>1, <2>5 DEF PopLoadSeq, Goto, PopState, Delivered, Idle, TypeOK
    <3>2. PopState' = [PopState EXCEPT ![c] = "empty"] /\ Delivered' = Delivered
      BY <2>3, <3>1, FunctionsSeen
    <3>3. Fifo!FindNothing(c)
      BY <2>1, <2>2, <2>3, <3>1, <3>2 DEF Fifo!FindNothing
    <3>4. QED
      BY <3>3 DEF Fifo!Next
  <2>6. CASE (PopLoadSeq(c) /\ pc'[c] # "empty") \/ PopLose(c) \/ PopReload(c) \/ PopRelease(c)
    <3>1. PopState'[c] = PopState[c] /\ Delivered'[c] = Delivered[c]
      BY <1>1, <2>6 DEF PopLoadSeq, PopLose, PopReload, PopRelease, Goto, PopState,
         Delivered, Idle, TypeOK
    <3>2. PopState' = PopState /\ Delivered' = Delivered
      BY <2>3, <3>1, FunctionsSeen
    <3>3. QED
      BY <2>1, <2>2, <2>3, <3>2 DEF Fifo!vars
  <2>7. CASE PopRead(c)
    <3>1. PopState'[c] = PopState[c]
      BY <1>1, <2>7 DEF PopRead, Goto, PopState, Idle, TypeOK
    <3>2. Delivered'[c] = Delivered[c]
      BY <1>1, <2>7 DEF PopRead, Goto, Delivered, TypeOK
    <3>3. PopState' = PopState /\ Delivered' = Delivered
      BY <2>3, <3>1, <3>2, FunctionsSeen
    <3>4. QED
      BY <2>1, <2>2, <2>3, <3>3 DEF Fifo!vars
  <2>8. QED
    BY <1>3, <2>4, <2>5, <2>6, <2>7 DEF PopStep
<1>4. QED
  BY <1>2, <1>3

LEMMA DropFifo ==
  ASSUME IInv, IInv', NEW h \in handles,
         DropHandle(h) \/ \E t \in Threads : CloneHandle(h, t)
  PROVE  Fifo!Next
<1>1. UNCHANGED <<head, tail, pc, idx, arg, out>>
  BY DEF DropHandle, CloneHandle
<1>2. PushState' = PushState /\ PopState' = PopState
  BY <1>1 DEF PushState, PopState, Idle
<1>3. CASE DropHandle(h)
  <2>1. /\ Idle(h) /\ handles' = handles \ {h} /\ (handles' # {} => data' = data)
        /\ TypeOK /\ h \in Threads
    BY <1>3 DEF DropHandle, IInv, TypeOK
  <2>2. AbstractQueue' = IF handles' = {} THEN <<>> ELSE AbstractQueue
    <3>1. CASE handles' = {}
      BY <3>1 DEF AbstractQueue
    <3>2. CASE handles' # {}
      <4>1. data' = data /\ handles # {}
        BY <2>1, <3>2
      <4>2. AbstractQueue' = AbstractQueue
        BY <1>1, <3>2, <4>1 DEF AbstractQueue, Claimants
      <4>3. QED
        BY <3>2, <4>2
    <3>3. QED
      BY <3>1, <3>2
  <2>3. Delivered' = Delivered
    <3>1. CASE handles' = {}
      <4>1. ASSUME NEW c \in Consumers PROVE pc[c] # "read"
        <5>1. c \in Threads /\ (c \in handles => c = h)
          BY <2>1, <3>1 DEF Threads
        <5>2. QED
          BY <2>1, <5>1 DEF IInv, CallsInv, Idle
      <4>2. QED
        BY <1>1, <4>1 DEF Delivered
    <3>2. CASE handles' # {}
      BY <1>1, <2>1, <3>2 DEF Delivered
    <3>3. QED
      BY <3>1, <3>2
  <2>4. /\ h \in Producers => PushState[h] # "called"
        /\ h \in Consumers => PopState[h] # "called"
    BY <2>1 DEF PushState, PopState, Idle
  <2>5. Fifo!DropHandle(h)
    BY <1>1, <1>2, <2>1, <2>2, <2>3, <2>4 DEF Fifo!DropHandle
  <2>6. QED
    BY <2>5 DEF Fifo!Next
<1>4. ASSUME NEW t \in Threads, CloneHandle(h, t) PROVE Fifo!Next
  <2>1. data' = data /\ handles # {} /\ handles' # {}
    BY <1>4 DEF CloneHandle
  <2>2. AbstractQueue' = AbstractQueue /\ Delivered' = Delivered
    BY <1>1, <2>1 DEF AbstractQueue, Claimants, Delivered
  <2>3. Fifo!CloneHandle(h, t)
    BY <1>1, <1>2, <1>4, <2>2 DEF Fifo!CloneHandle, CloneHandle
  <2>4. QED
    BY <2>3 DEF Fifo!Next, Threads
<1>5. QED
  BY <1>3, <1>4

LEMMA FifoNext == IInv /\ IInv' /\ Written /\ [Next]_vars => [Fifo!Next]_(Fifo!vars)
<1> SUFFICES ASSUME IInv, IInv', Written, [Next]_vars
             PROVE  Fifo!Next \/ UNCHANGED Fifo!vars
  OBVIOUS
<1>1. ASSUME NEW p \in Producers, PushStep(p) \/ \E v \in Values : PushCall(p, v)
      PROVE  Fifo!Next \/ UNCHANGED Fifo!vars
  BY <1>1, PushFifo
<1>2. ASSUME NEW c \in Consumers, PopStep(c) \/ PopCall(c)
      PROVE  Fifo!Next \/ UNCHANGED Fifo!vars
  BY <1>2, PopFifo
<1>3. ASSUME NEW h \in handles, DropHandle(h) \/ \E t \in Threads : CloneHandle(h, t)
      PROVE  Fifo!Next
  BY <1>3, DropFifo
<1>4. CASE UNCHANGED vars
  BY <1>4 DEF vars, Fifo!vars, AbstractQueue, Claimants, PushState, PopState, Delivered, Idle
<1>5. QED
  BY <1>1, <1>2, <1>3, <1>4 DEF Next

LEMMA FifoInit == Init => Fifo!Init
<1> SUFFICES ASSUME Init PROVE Fifo!Init
  OBVIOUS
<1>1. tail - head = 0
  BY Sizes DEF Init
<1>2. AbstractQueue = <<>>
  BY <1>1 DEF AbstractQueue
<1>3. PushState = [p \in Producers |-> "idle"] /\ PopState = [c \in Consumers |-> "idle"]
  BY DEF Init, PushState, PopState, Idle, Threads
<1>4. Delivered = [c \in Consumers |-> Nothing]
  BY DEF Init, Delivered, Threads
<1>5. QED
  BY <1>2, <1>3, <1>4 DEF Init, Fifo!Init, Threads

(* mpmc.rs is a bounded FIFO queue: each value accepted is delivered once, *)
(* in the order in which the compare-exchanges of tail succeeded, whatever *)
(* the order in which the threads write, publish, read and release, and    *)
(* whatever stale head, tail and sequence numbers they have loaded.        *)
THEOREM FirstInFirstOut == Fits /\ Spec => FifoSpec
<1>1. Fits /\ Spec => []IInv /\ []Written
  BY Invariance, WrittenAlways, Zenon
<1>2. QED
  BY <1>1, FifoInit, FifoNext, PTL DEF Spec, FifoSpec, Fifo!Spec
==============================================================================
