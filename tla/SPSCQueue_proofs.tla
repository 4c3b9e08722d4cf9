--------------------------- MODULE SPSCQueue_proofs ---------------------------
(***************************************************************************)
(* Theorems about SPSCQueue, for every capacity, word size, set of values  *)
(* and, through StaleLoads, both readings of the memory.                   *)
(***************************************************************************)
EXTENDS SPSCQueue, ModularArithmetic, SequenceTheorems, TLAPS

(* The cached indices are behind the real ones, by less than the writer of *)
(* the other side needs to touch a slot still in use.                      *)
IndicesInv ==
  /\ Occupied <= Cap
  /\ WrapSub(tail, headCache) \in Occupied .. Cap
  /\ WrapSub(tailCache, head) <= Occupied
  /\ pushSt \in {"write", "publish"} => WrapSub(tail, headCache) < Cap
  /\ popSt \in {"read", "release"} => WrapSub(tailCache, head) > 0

(* What a thread has seen of the slots is what its cached index says.      *)
SeenInv == seenReads = headCache /\ seenWrites = tailCache

(* What a call's thread had been told of the other index is between its    *)
(* cached index and the real one, for as long as that decides anything.    *)
ToldInv ==
  /\ pushSt = "refresh" => WrapSub(tail, toldHead) \in Occupied .. Cap
  /\ popSt = "refresh" => WrapSub(toldTail, head) <= Occupied
  /\ RefusalIsHonest

(* A call under way has its argument, and its handle.                      *)
CallsInv ==
  /\ ~PushIdle => val \in Values /\ "producer" \in handles
  /\ ~PopIdle => "consumer" \in handles

(* Whether the slot k places after head owns a value.                      *)
Owned(k) ==
  \/ k < Occupied /\ ~(k = 0 /\ popSt = "release")
  \/ k = Occupied /\ pushSt = "publish"

OwnershipInv ==
  handles # {} => \A k \in Slots : buf[Mask(head + k)] # Nothing <=> Owned(k)

IInv == TypeOK /\ IndicesInv /\ SeenInv /\ ToldInv /\ CallsInv /\ OwnershipInv

------------------------------------------------------------------------------
(* Words and slots.                                                        *)

LEMMA Sizes ==
  /\ Modulus \in Nat \ {0} /\ Cap \in Nat \ {0}
  /\ Cap < Modulus
  /\ \E k \in Nat \ {0} : Modulus = Cap * k
<1>1. PICK k \in 2 .. Modulus : Modulus = Cap * k
  BY CapAssumption
<1>2. Cap * k = Cap + Cap * (k - 1) /\ Cap * (k - 1) > 0
  BY <1>1, CapAssumption
<1> QED BY <1>1, <1>2, CapAssumption, ModulusAssumption

LEMMA WordRange == ASSUME NEW x \in Int PROVE Word(x) \in Words
  BY Sizes, ModRange, Zenon DEF Word, Words

LEMMA WordShift == ASSUME NEW x \in Int PROVE Word(x + Modulus) = Word(x)
  BY Sizes, ModShift, Zenon DEF Word

LEMMA WordSmall == ASSUME NEW x \in Words PROVE Word(x) = x
  BY Sizes, ModSmall, Zenon DEF Word, Words

(* The difference of two words, without the remainder.                     *)
LEMMA WordSub ==
  ASSUME NEW a \in Words, NEW b \in Words
  PROVE  WrapSub(a, b) = IF a >= b THEN a - b ELSE (a - b) + Modulus
<1>1. CASE a >= b
  <2>1. a - b \in Words
    BY <1>1, Sizes DEF Words
  <2> QED BY <1>1, <2>1, WordSmall DEF WrapSub
<1>2. CASE ~(a >= b)
  <2>1. a - b \in Int /\ (a - b) + Modulus \in Words
    BY <1>2, Sizes DEF Words
  <2>2. Word((a - b) + Modulus) = Word(a - b)
    BY <2>1, WordShift, Zenon
  <2>3. Word((a - b) + Modulus) = (a - b) + Modulus
    BY <2>1, WordSmall, Zenon
  <2> QED BY <1>2, <2>2, <2>3 DEF WrapSub
<1> QED BY <1>1, <1>2

(* The sum of a word and a number below Modulus, without the remainder.    *)
LEMMA WordAdd ==
  ASSUME NEW a \in Words, NEW b \in Words
  PROVE  WrapAdd(a, b) = IF a + b < Modulus THEN a + b ELSE (a + b) - Modulus
<1>1. CASE a + b < Modulus
  <2>1. a + b \in Words
    BY <1>1, Sizes DEF Words
  <2> QED BY <1>1, <2>1, WordSmall DEF WrapAdd
<1>2. CASE ~(a + b < Modulus)
  <2> DEFINE d == (a + b) - Modulus
  <2>1. d \in Int /\ d \in Words /\ d + Modulus = a + b
    BY <1>2, Sizes DEF Words
  <2>2. Word(d + Modulus) = Word(d)
    BY <2>1, WordShift, Zenon
  <2>3. Word(d) = d
    BY <2>1, WordSmall, Zenon
  <2> QED BY <1>2, <2>1, <2>2, <2>3 DEF WrapAdd
<1> QED BY <1>1, <1>2

LEMMA WordClosed ==
  ASSUME NEW a \in Int, NEW b \in Int
  PROVE  WrapAdd(a, b) \in Words /\ WrapSub(a, b) \in Words
<1>1. a + b \in Int /\ a - b \in Int
  OBVIOUS
<1> QED BY <1>1, WordRange, Zenon DEF WrapAdd, WrapSub

(* One step further on the left, and on the right, of a difference.        *)
LEMMA SubOfNext ==
  ASSUME NEW a \in Words, NEW b \in Words, WrapSub(a, b) < Cap
  PROVE  WrapSub(WrapAdd(a, 1), b) = WrapSub(a, b) + 1
<1>1. 1 \in Words /\ WrapAdd(a, 1) \in Words
  <2>1. 1 \in Words /\ 1 \in Int /\ a \in Int
    BY ModulusAssumption DEF Words
  <2> QED BY <2>1, WordClosed
<1>2. WrapAdd(a, 1) = IF a + 1 < Modulus THEN a + 1 ELSE (a + 1) - Modulus
  BY <1>1, WordAdd
<1>3. WrapSub(a, b) = IF a >= b THEN a - b ELSE (a - b) + Modulus
  BY WordSub
<1>4. WrapSub(WrapAdd(a, 1), b) = IF WrapAdd(a, 1) >= b THEN WrapAdd(a, 1) - b
                                  ELSE (WrapAdd(a, 1) - b) + Modulus
  BY <1>1, WordSub
<1> QED BY <1>2, <1>3, <1>4, Sizes DEF Words

LEMMA SubNext ==
  ASSUME NEW a \in Words, NEW b \in Words, WrapSub(a, b) > 0
  PROVE  WrapSub(a, WrapAdd(b, 1)) = WrapSub(a, b) - 1
<1>1. 1 \in Words /\ WrapAdd(b, 1) \in Words
  <2>1. 1 \in Words /\ 1 \in Int /\ b \in Int
    BY ModulusAssumption DEF Words
  <2> QED BY <2>1, WordClosed
<1>2. WrapAdd(b, 1) = IF b + 1 < Modulus THEN b + 1 ELSE (b + 1) - Modulus
  BY <1>1, WordAdd
<1>3. WrapSub(a, b) = IF a >= b THEN a - b ELSE (a - b) + Modulus
  BY WordSub
<1>4. WrapSub(a, WrapAdd(b, 1)) = IF a >= WrapAdd(b, 1) THEN a - WrapAdd(b, 1)
                                  ELSE (a - WrapAdd(b, 1)) + Modulus
  BY <1>1, WordSub
<1> QED BY <1>2, <1>3, <1>4, Sizes DEF Words

(* What lies on the way from word b to word c, seen from a word a before   *)
(* them and from a word d behind them.                                     *)
LEMMA OnTheWay ==
  ASSUME NEW b \in Words, NEW c \in Words, NEW k \in 0 .. WrapSub(c, b)
  PROVE  /\ WrapAdd(b, k) \in Words
         /\ \A a \in Words : WrapSub(b, a) <= WrapSub(c, a) =>
              WrapSub(WrapAdd(b, k), a) \in WrapSub(b, a) .. WrapSub(c, a)
         /\ \A d \in Words : WrapSub(d, c) <= WrapSub(d, b) =>
              WrapSub(d, WrapAdd(b, k)) \in WrapSub(d, c) .. WrapSub(d, b)
<1>1. WrapSub(c, b) \in Words /\ k \in Words
  BY WordClosed, Sizes DEF Words
<1>2. WrapAdd(b, k) \in Words
  BY <1>1, WordClosed DEF Words
<1>3. WrapAdd(b, k) = IF b + k < Modulus THEN b + k ELSE (b + k) - Modulus
  BY <1>1, WordAdd
<1>4. WrapSub(c, b) = IF c >= b THEN c - b ELSE (c - b) + Modulus
  BY WordSub
<1>5. ASSUME NEW a \in Words, WrapSub(b, a) <= WrapSub(c, a)
      PROVE  WrapSub(WrapAdd(b, k), a) \in WrapSub(b, a) .. WrapSub(c, a)
  <2>1. /\ WrapSub(b, a) = IF b >= a THEN b - a ELSE (b - a) + Modulus
        /\ WrapSub(c, a) = IF c >= a THEN c - a ELSE (c - a) + Modulus
        /\ WrapSub(WrapAdd(b, k), a) = IF WrapAdd(b, k) >= a THEN WrapAdd(b, k) - a
                                       ELSE (WrapAdd(b, k) - a) + Modulus
    BY <1>2, WordSub
  <2> QED BY <1>1, <1>2, <1>3, <1>4, <1>5, <2>1, Sizes DEF Words
<1>6. ASSUME NEW d \in Words, WrapSub(d, c) <= WrapSub(d, b)
      PROVE  WrapSub(d, WrapAdd(b, k)) \in WrapSub(d, c) .. WrapSub(d, b)
  <2>1. /\ WrapSub(d, b) = IF d >= b THEN d - b ELSE (d - b) + Modulus
        /\ WrapSub(d, c) = IF d >= c THEN d - c ELSE (d - c) + Modulus
        /\ WrapSub(d, WrapAdd(b, k)) = IF d >= WrapAdd(b, k) THEN d - WrapAdd(b, k)
                                       ELSE (d - WrapAdd(b, k)) + Modulus
    BY <1>2, WordSub
  <2> QED BY <1>1, <1>2, <1>3, <1>4, <1>6, <2>1, Sizes DEF Words
<1> QED BY <1>2, <1>5, <1>6

LEMMA MaskRange == ASSUME NEW x \in Int PROVE Mask(x) \in Slots
  BY Sizes, ModRange, Zenon DEF Mask, Slots

(* The slot of a position does not change when its word wraps.             *)
LEMMA MaskWord == ASSUME NEW x \in Int PROVE Mask(Word(x)) = Mask(x)
<1>1. PICK k \in Nat \ {0} : Modulus = Cap * k
  BY Sizes
<1> QED BY <1>1, Sizes, ModOfMod, Zenon DEF Mask, Word

(* The slots of a lap repeat in the next.                                  *)
LEMMA MaskLap == ASSUME NEW x \in Int PROVE Mask(x + Cap) = Mask(x)
  BY Sizes, ModShift, Zenon DEF Mask

(* They repeat after all the words, too.                                   *)
LEMMA MaskShift == ASSUME NEW x \in Int PROVE Mask(x + Modulus) = Mask(x)
<1>1. x + Modulus \in Int
  BY Sizes
<1> QED BY <1>1, MaskWord, WordShift, Zenon

(* The slot of a position that was reduced to a word, and k places on.     *)
LEMMA MaskWordPlus ==
  ASSUME NEW x \in Int, NEW k \in Int
  PROVE  Mask(Word(x) + k) = Mask(x + k)
<1>1. PICK c \in Nat \ {0} : Modulus = Cap * c
  BY Sizes
<1> DEFINE q == x \div Modulus
           r == Word(x)
<1>2. q \in Int /\ r \in Int /\ x = (Modulus * q) + r
  <2>1. q \in Int /\ x = (Modulus * q) + r
    BY Sizes, DivMod, Zenon DEF Word
  <2>2. r \in Int
    BY WordRange DEF Words
  <2> QED BY <2>1, <2>2
<1> HIDE DEF q, r
<1>3. c * q \in Int /\ Cap * (c * q) = Modulus * q
  BY <1>1, <1>2, Sizes
<1>4. r + k \in Int /\ x + k = (r + k) + Cap * (c * q)
  BY <1>2, <1>3, Sizes
<1>5. ((r + k) + Cap * (c * q)) % Cap = (r + k) % Cap
  BY <1>3, <1>4, Sizes, ModPeriodic, Zenon
<1> QED BY <1>4, <1>5, Zenon DEF r, Mask

(* The positions of a window of Cap have different slots.                  *)
LEMMA MaskInjective ==
  ASSUME NEW x \in Int, NEW j \in Slots, NEW k \in Slots,
         Mask(x + j) = Mask(x + k)
  PROVE  j = k
<1>1. ASSUME NEW m \in Slots, NEW n \in Slots, m < n
      PROVE  Mask(x + m) # Mask(x + n)
  <2>1. x + m \in Int /\ x + n \in Int /\ x + m < x + n /\ x + n < (x + m) + Cap
    BY <1>1, Sizes DEF Slots
  <2> QED BY <2>1, Sizes, ModInjective, Zenon DEF Mask
<1>2. CASE j < k
  BY <1>1, <1>2
<1>3. CASE k < j
  BY <1>1, <1>3
<1> QED BY <1>2, <1>3, Sizes DEF Slots

(* tail is Occupied places after head.                                     *)
LEMMA MaskTail ==
  ASSUME head \in Words, tail \in Words
  PROVE  Mask(tail) = Mask(head + Occupied)
<1>1. CASE tail >= head
  BY <1>1, WordSub DEF Occupied, Words
<1>2. CASE ~(tail >= head)
  <2>1. head + Occupied = tail + Modulus
    BY <1>2, WordSub, Sizes DEF Occupied, Words
  <2> QED BY <2>1, MaskShift DEF Words
<1> QED BY <1>1, <1>2

(* Every slot is in the window that starts at head.                        *)
LEMMA MaskOnto ==
  ASSUME NEW x \in Int, NEW s \in Slots
  PROVE  \E k \in Slots : Mask(x + k) = s
<1> DEFINE q == (s - x) \div Cap
           k == (s - x) % Cap
<1>1. s \in Int /\ s - x \in Int /\ s \in 0 .. Cap - 1
  BY Sizes DEF Slots
<1>2. q \in Int /\ s - x = (Cap * q) + k
  BY <1>1, Sizes, DivMod, Zenon
<1>3. k \in Slots
  BY <1>1, Sizes, ModRange, Zenon DEF Slots
<1> HIDE DEF q, k
<1>4. x + k \in Int /\ s = (x + k) + Cap * q
  BY <1>1, <1>2, <1>3, Sizes DEF Slots
<1>5. ((x + k) + Cap * q) % Cap = (x + k) % Cap
  BY <1>2, <1>4, Sizes, ModPeriodic, Zenon
<1>6. s % Cap = s
  BY <1>1, Sizes, ModSmall, Zenon
<1>7. Mask(x + k) = s
  BY <1>4, <1>5, <1>6, Zenon DEF Mask
<1> QED BY <1>3, <1>7

------------------------------------------------------------------------------
(* The invariant holds initially.                                          *)
LEMMA InitIInv == Init => IInv
<1> SUFFICES ASSUME Init PROVE IInv
  OBVIOUS
<1>1. 0 \in Words /\ WrapSub(0, 0) = 0
  BY WordSub, ModulusAssumption DEF Words
<1>2. TypeOK
  BY <1>1 DEF Init, TypeOK
<1>3. IndicesInv /\ SeenInv /\ ToldInv /\ CallsInv
  BY <1>1, CapAssumption DEF Init, IndicesInv, SeenInv, ToldInv, RefusalIsHonest,
     CallsInv, Occupied, PushIdle, PopIdle
<1>4. OwnershipInv
  BY <1>1, MaskRange DEF Init, OwnershipInv, Owned, Occupied, Slots
<1> QED BY <1>2, <1>3, <1>4 DEF IInv

LEMMA Differences ==
  ASSUME TypeOK
  PROVE  /\ Occupied \in Nat
         /\ WrapSub(tail, headCache) \in Nat
         /\ WrapSub(tailCache, head) \in Nat
         /\ WrapSub(tail, toldHead) \in Nat
         /\ WrapSub(toldTail, head) \in Nat
<1>1. \A a, b \in Words : WrapSub(a, b) \in Nat
  BY WordClosed, Sizes DEF Words
<1> QED BY <1>1 DEF TypeOK, Occupied

(* What may be loaded of head lies between what is known of it and head    *)
(* itself, and the same for tail.                                          *)
LEMMA LoadHead ==
  ASSUME TypeOK, NEW known \in Words, WrapSub(tail, known) \in Occupied .. Cap,
         NEW h \in Loadable(known, head)
  PROVE  h \in Words /\ WrapSub(tail, h) \in Occupied .. WrapSub(tail, known)
<1>1. CASE StaleLoads
  <2>1. PICK k \in 0 .. WrapSub(head, known) : h = WrapAdd(known, k)
    BY <1>1 DEF Loadable
  <2> QED BY <2>1, OnTheWay DEF TypeOK, Occupied
<1>2. CASE ~StaleLoads
  BY <1>2, Differences, Sizes DEF Loadable, TypeOK, Occupied
<1> QED BY <1>1, <1>2

LEMMA LoadTail ==
  ASSUME TypeOK, NEW known \in Words, WrapSub(known, head) <= Occupied,
         NEW t \in Loadable(known, tail)
  PROVE  t \in Words /\ WrapSub(t, head) \in WrapSub(known, head) .. Occupied
<1>1. WrapSub(known, head) \in Nat
  BY WordClosed, Sizes DEF TypeOK, Words
<1>2. CASE StaleLoads
  <2>1. PICK k \in 0 .. WrapSub(tail, known) : t = WrapAdd(known, k)
    BY <1>2 DEF Loadable
  <2> QED BY <1>1, <2>1, OnTheWay DEF TypeOK, Occupied
<1>3. CASE ~StaleLoads
  BY <1>1, <1>3, Differences DEF Loadable, TypeOK, Occupied
<1> QED BY <1>2, <1>3

LEMMA PushCallInv ==
  ASSUME IInv, NEW v \in Values, PushCall(v) PROVE IInv'
<1> USE DEF IInv, PushCall, cvars
<1>0. toldHead' \in Words /\ WrapSub(tail, toldHead') \in Occupied .. Cap
  <2>1. PICK h \in Loadable(headCache, head) : toldHead' = h
    OBVIOUS
  <2>2. h \in Words /\ WrapSub(tail, h) \in Occupied .. WrapSub(tail, headCache)
    BY LoadHead DEF TypeOK, IndicesInv
  <2> QED BY <2>1, <2>2, Differences, Sizes DEF IndicesInv
<1>1. TypeOK'
  BY <1>0 DEF TypeOK
<1>2. IndicesInv'
  BY Differences, Sizes DEF IndicesInv, Occupied, Full, PushIdle
<1>3. SeenInv' /\ ToldInv' /\ CallsInv'
  BY <1>0 DEF SeenInv, ToldInv, RefusalIsHonest, CallsInv, PushIdle, PopIdle, Occupied,
     Drained
<1>4. OwnershipInv'
  BY DEF OwnershipInv, Owned, Occupied, PushIdle
<1> QED BY <1>1, <1>2, <1>3, <1>4

LEMMA PushRefreshInv == ASSUME IInv, PushRefresh PROVE IInv'
<1> USE DEF IInv, PushRefresh, cvars
<1>1. PICK h \in Loadable(toldHead, head) :
         /\ headCache' = h
         /\ seenReads' = Acquired(seenReads, h)
         /\ pushSt' = IF Full(tail, h) THEN "full" ELSE "write"
  OBVIOUS
<1>2. /\ h \in Words /\ WrapSub(tail, h) \in Occupied .. Cap
      /\ WrapSub(tail, h) <= WrapSub(tail, toldHead) /\ WrapSub(tail, toldHead) \in 0 .. Cap
  <2>1. WrapSub(tail, toldHead) \in Occupied .. Cap
    BY DEF ToldInv
  <2>2. h \in Words /\ WrapSub(tail, h) \in Occupied .. WrapSub(tail, toldHead)
    BY <2>1, LoadHead DEF TypeOK
  <2> QED BY <2>1, <2>2, Differences, Sizes
<1>3. TypeOK'
  BY <1>1, <1>2 DEF TypeOK, Acquired
<1>4. IndicesInv'
  BY <1>1, <1>2, Differences, Sizes DEF IndicesInv, Occupied, Full
<1>5. SeenInv' /\ CallsInv'
  BY <1>1 DEF SeenInv, CallsInv, PushIdle, PopIdle, Acquired
<1>6. ToldInv'
  BY <1>1, <1>2, Sizes DEF ToldInv, RefusalIsHonest, Occupied, Full, Drained
<1>7. OwnershipInv'
  BY <1>1 DEF OwnershipInv, Owned, Occupied
<1> QED BY <1>3, <1>4, <1>5, <1>6, <1>7

LEMMA PushWriteInv == ASSUME IInv, PushWrite PROVE IInv'
<1> USE DEF IInv, PushWrite, cvars
<1>1. val \in Values /\ "producer" \in handles
  BY DEF CallsInv, PushIdle
<1>2. Mask(tail) = Mask(head + Occupied) /\ Mask(tail) \in Slots
  BY MaskTail, MaskRange DEF TypeOK, Words
<1>3. Occupied \in Slots
  BY Differences, Sizes DEF IndicesInv, Slots
<1>4. TypeOK'
  BY <1>1, <1>2 DEF TypeOK
<1>5. IndicesInv'
  BY DEF IndicesInv, Occupied
<1>6. SeenInv' /\ ToldInv' /\ CallsInv'
  BY DEF SeenInv, ToldInv, RefusalIsHonest, Full, Drained, Occupied, CallsInv,
     PushIdle, PopIdle
<1>7. OwnershipInv'
  <2> SUFFICES ASSUME NEW k \in Slots
               PROVE  buf'[Mask(head + k)] # Nothing <=> Owned(k)'
    BY DEF OwnershipInv
  <2>1. Mask(head + k) \in Slots
    BY MaskRange, Sizes DEF TypeOK, Words, Slots
  <2>2. CASE k = Occupied
    BY <1>1, <1>2, <2>2, ValuesAssumption DEF TypeOK, Owned, Occupied
  <2>3. CASE k # Occupied
    <3>1. Mask(head + k) # Mask(tail)
      BY <1>2, <1>3, <2>3, MaskInjective DEF TypeOK, Words
    <3>2. buf'[Mask(head + k)] = buf[Mask(head + k)]
      BY <2>1, <3>1 DEF TypeOK
    <3> QED BY <1>1, <2>3, <3>2 DEF OwnershipInv, Owned, Occupied
  <2> QED BY <2>2, <2>3
<1> QED BY <1>4, <1>5, <1>6, <1>7

LEMMA PushPublishInv == ASSUME IInv, PushPublish PROVE IInv'
<1> USE DEF IInv, PushPublish, cvars
<1>1. /\ tail' \in Words
      /\ WrapSub(tail', headCache) = WrapSub(tail, headCache) + 1
      /\ WrapSub(tail', head) = Occupied + 1
  <2>1. WrapSub(tail, headCache) < Cap /\ WrapSub(tail, head) < Cap
    BY Differences, Sizes DEF IndicesInv, Occupied
  <2> QED BY <2>1, SubOfNext, WordClosed DEF TypeOK, Words, Occupied
<1>2. TypeOK'
  BY <1>1 DEF TypeOK
<1>3. IndicesInv'
  BY <1>1, Differences, Sizes DEF IndicesInv, Occupied
<1>4. SeenInv' /\ ToldInv' /\ CallsInv'
  BY <1>1, Differences DEF SeenInv, ToldInv, RefusalIsHonest, Full, Drained, Occupied,
     CallsInv, PushIdle, PopIdle
<1>5. OwnershipInv'
  <2> SUFFICES ASSUME handles # {}, NEW k \in Slots
               PROVE  buf[Mask(head + k)] # Nothing <=> Owned(k)'
    BY DEF OwnershipInv
  <2>1. buf[Mask(head + k)] # Nothing <=> Owned(k)
    BY DEF OwnershipInv
  <2>2. Occupied' = Occupied + 1
    BY <1>1 DEF Occupied
  <2>3. k \in Nat
    BY Sizes DEF Slots
  <2> QED BY <2>1, <2>2, <2>3, Differences DEF Owned, IndicesInv
<1> QED BY <1>2, <1>3, <1>4, <1>5

------------------------------------------------------------------------------
(* The steps of the consumer.                                              *)

LEMMA PopCallInv == ASSUME IInv, PopCall PROVE IInv'
<1> USE DEF IInv, PopCall, pvars
<1>0. toldTail' \in Words /\ WrapSub(toldTail', head) <= Occupied
  <2>1. PICK t \in Loadable(tailCache, tail) : toldTail' = t
    OBVIOUS
  <2>2. t \in Words /\ WrapSub(t, head) \in WrapSub(tailCache, head) .. Occupied
    BY LoadTail DEF TypeOK, IndicesInv
  <2> QED BY <2>1, <2>2, Differences
<1>1. TypeOK'
  BY <1>0 DEF TypeOK
<1>2. IndicesInv'
  BY Differences, Sizes DEF IndicesInv, Occupied, Drained, PopIdle
<1>3. SeenInv' /\ ToldInv' /\ CallsInv'
  BY <1>0 DEF SeenInv, ToldInv, RefusalIsHonest, CallsInv, PushIdle, PopIdle, Occupied,
     Full
<1>4. OwnershipInv'
  BY DEF OwnershipInv, Owned, Occupied, PopIdle
<1> QED BY <1>1, <1>2, <1>3, <1>4

LEMMA PopRefreshInv == ASSUME IInv, PopRefresh PROVE IInv'
<1> USE DEF IInv, PopRefresh, pvars
<1>1. PICK t \in Loadable(toldTail, tail) :
         /\ tailCache' = t
         /\ seenWrites' = Acquired(seenWrites, t)
         /\ popSt' = IF Drained(t, head) THEN "empty" ELSE "read"
  OBVIOUS
<1>2. /\ t \in Words /\ WrapSub(t, head) \in 0 .. Occupied
      /\ WrapSub(toldTail, head) \in 0 .. WrapSub(t, head)
  <2>1. WrapSub(toldTail, head) <= Occupied
    BY DEF ToldInv
  <2>2. t \in Words /\ WrapSub(t, head) \in WrapSub(toldTail, head) .. Occupied
    BY <2>1, LoadTail DEF TypeOK
  <2> QED BY <2>2, Differences
<1>3. TypeOK'
  BY <1>1, <1>2 DEF TypeOK, Acquired
<1>4. IndicesInv'
  BY <1>1, <1>2, Differences, Sizes DEF IndicesInv, Occupied, Drained
<1>5. SeenInv' /\ CallsInv'
  BY <1>1 DEF SeenInv, CallsInv, PushIdle, PopIdle, Acquired
<1>6. ToldInv'
  BY <1>1, <1>2, Sizes DEF ToldInv, RefusalIsHonest, Occupied, Full, Drained
<1>7. OwnershipInv'
  BY <1>1 DEF OwnershipInv, Owned, Occupied
<1> QED BY <1>3, <1>4, <1>5, <1>6, <1>7

LEMMA PopReadInv == ASSUME IInv, PopRead PROVE IInv'
<1> USE DEF IInv, PopRead, pvars
<1>1. /\ "consumer" \in handles /\ 0 \in Slots
      /\ Mask(head) = Mask(head + 0) /\ Mask(head) \in Slots
  BY MaskRange, Sizes DEF CallsInv, PopIdle, TypeOK, Words, Slots
<1>2. TypeOK'
  BY <1>1 DEF TypeOK
<1>3. IndicesInv'
  BY DEF IndicesInv, Occupied
<1>4. SeenInv' /\ ToldInv' /\ CallsInv'
  BY DEF SeenInv, ToldInv, RefusalIsHonest, Full, Drained, Occupied, CallsInv,
     PushIdle, PopIdle
<1>5. OwnershipInv'
  <2> SUFFICES ASSUME NEW k \in Slots
               PROVE  buf'[Mask(head + k)] # Nothing <=> Owned(k)'
    BY DEF OwnershipInv
  <2>1. Mask(head + k) \in Slots
    BY MaskRange, Sizes DEF TypeOK, Words, Slots
  <2>2. Occupied > 0
    BY Differences DEF IndicesInv
  <2>3. CASE k = 0
    BY <1>1, <2>2, <2>3, Differences DEF TypeOK, Owned, Occupied
  <2>4. CASE k # 0
    <3>1. Mask(head + k) # Mask(head)
      BY <1>1, <2>4, MaskInjective DEF TypeOK, Words
    <3>2. buf'[Mask(head + k)] = buf[Mask(head + k)]
      BY <2>1, <3>1 DEF TypeOK
    <3> QED BY <1>1, <2>4, <3>2 DEF OwnershipInv, Owned, Occupied
  <2> QED BY <2>3, <2>4
<1> QED BY <1>2, <1>3, <1>4, <1>5

LEMMA PopReleaseInv == ASSUME IInv, PopRelease PROVE IInv'
<1> USE DEF IInv, PopRelease, pvars
<1>1. /\ head' \in Words
      /\ WrapSub(tailCache, head') = WrapSub(tailCache, head) - 1
      /\ WrapSub(tail, head') = Occupied - 1
  <2>1. WrapSub(tailCache, head) > 0 /\ WrapSub(tail, head) > 0
    BY Differences DEF IndicesInv, Occupied
  <2> QED BY <2>1, SubNext, WordClosed DEF TypeOK, Words, Occupied
<1>2. TypeOK'
  BY <1>1 DEF TypeOK
<1>3. IndicesInv'
  BY <1>1, Differences, Sizes DEF IndicesInv, Occupied
<1>4. SeenInv' /\ ToldInv' /\ CallsInv'
  BY <1>1, Differences DEF SeenInv, ToldInv, RefusalIsHonest, Full, Drained, Occupied,
     CallsInv, PushIdle, PopIdle
<1>5. OwnershipInv'
  <2> SUFFICES ASSUME handles # {}, NEW k \in Slots
               PROVE  buf[Mask(head' + k)] # Nothing <=> Owned(k)'
    BY DEF OwnershipInv
  <2>1. Occupied' = Occupied - 1 /\ Occupied > 0 /\ Occupied \in Nat /\ k \in Nat
    BY <1>1, Differences, Sizes DEF Occupied, IndicesInv, Slots
  <2>2. Mask(head' + k) = Mask((head + 1) + k)
    BY MaskWordPlus DEF WrapAdd, TypeOK, Words, Slots
  <2>3. CASE k + 1 < Cap
    <3>1. k + 1 \in Slots /\ (head + 1) + k = head + (k + 1)
      BY <2>3, Sizes DEF TypeOK, Words, Slots
    <3>2. buf[Mask(head' + k)] # Nothing <=> Owned(k + 1)
      BY <2>2, <3>1 DEF OwnershipInv
    <3> QED BY <2>1, <3>2 DEF Owned
  <2>4. CASE ~(k + 1 < Cap)
    <3>1. k = Cap - 1 /\ (head + 1) + k = head + Cap /\ head \in Int /\ head = head + 0
          /\ 0 \in Slots
      BY <2>4, Sizes DEF TypeOK, Words, Slots
    <3>2. Mask(head' + k) = Mask(head + 0)
      BY <2>2, <3>1, MaskLap
    <3>3. buf[Mask(head' + k)] = Nothing
      BY <2>1, <3>1, <3>2 DEF OwnershipInv, Owned
    <3>4. ~Owned(k)'
      BY <2>1, <3>1, Differences, Sizes DEF Owned, IndicesInv
    <3> QED BY <3>3, <3>4
  <2> QED BY <2>3, <2>4
<1> QED BY <1>2, <1>3, <1>4, <1>5

------------------------------------------------------------------------------
LEMMA DropHandleInv ==
  ASSUME IInv, NEW h \in handles, DropHandle(h) PROVE IInv'
<1> USE DEF IInv, DropHandle, pvars, cvars
<1>1. TypeOK'
  BY DEF TypeOK, InnerDrop
<1>2. IndicesInv' /\ SeenInv' /\ ToldInv'
  BY DEF IndicesInv, Occupied, SeenInv, ToldInv, RefusalIsHonest, Full, Drained
<1>3. CallsInv'
  BY DEF CallsInv, PushIdle, PopIdle, TypeOK
<1>4. OwnershipInv'
  BY DEF OwnershipInv, Owned, Occupied
<1> QED BY <1>1, <1>2, <1>3, <1>4

LEMMA NextIInv == IInv /\ [Next]_vars => IInv'
<1> SUFFICES ASSUME IInv, [Next]_vars PROVE IInv'
  OBVIOUS
<1>1. CASE Push
  BY <1>1, PushCallInv, PushRefreshInv, PushWriteInv, PushPublishInv DEF Push
<1>2. CASE Pop
  BY <1>2, PopCallInv, PopRefreshInv, PopReadInv, PopReleaseInv DEF Pop
<1>3. CASE \E h \in handles : DropHandle(h)
  BY <1>3, DropHandleInv
<1>4. CASE UNCHANGED vars
  BY <1>4 DEF vars, pvars, cvars, IInv, TypeOK, IndicesInv, SeenInv, ToldInv,
     RefusalIsHonest, Full, Drained, CallsInv, OwnershipInv, Owned, Occupied, PushIdle,
     PopIdle
<1> QED BY <1>1, <1>2, <1>3, <1>4 DEF Next

LEMMA Invariant == Spec => []IInv
  BY InitIInv, NextIInv, PTL DEF Spec

(* Every variable keeps to its type; head and tail remain machine words    *)
(* however often they wrap.                                                *)
THEOREM TypeCorrect == Spec => []TypeOK
<1>1. IInv => TypeOK
  BY DEF IInv
<1> QED BY <1>1, Invariant, PTL

(* The slot accesses of spsc.rs are free of data races, for every capacity *)
(* including 1, every word size, and loads as stale as they may be.        *)
THEOREM NoRace == Spec => []NoDataRace
<1>1. IInv => NoDataRace
  BY Differences, Sizes DEF IInv, NoDataRace, IndicesInv, SeenInv
<1> QED BY <1>1, Invariant, PTL

(* try_push refuses only a queue that was full, and try_pop only one that  *)
(* was empty, after every store of the other side that the thread had been *)
(* told of when it called; a cached index alone never refuses.             *)
THEOREM HonestRefusals == Spec => []RefusalIsHonest
<1>1. IInv => RefusalIsHonest
  BY DEF IInv, ToldInv
<1> QED BY <1>1, Invariant, PTL

(* A write never lands on an unread value, and a read never finds a slot   *)
(* without one.                                                            *)
THEOREM Alternation == Spec => []SlotsAlternate
<1>1. IInv => SlotsAlternate
  <2> SUFFICES ASSUME IInv PROVE SlotsAlternate
    OBVIOUS
  <2>1. ASSUME pushSt = "write" PROVE buf[Mask(tail)] = Nothing
    <3>1. Occupied \in Slots /\ handles # {} /\ Mask(tail) = Mask(head + Occupied)
      BY <2>1, Differences, Sizes, MaskTail
      DEF IInv, TypeOK, IndicesInv, CallsInv, PushIdle, Slots
    <3> QED BY <2>1, <3>1, Differences DEF IInv, OwnershipInv, Owned
  <2>2. ASSUME popSt = "read" PROVE buf[Mask(head)] # Nothing
    <3>1. Occupied > 0 /\ handles # {} /\ head = head + 0 /\ 0 \in Slots
      BY <2>2, Differences, Sizes
      DEF IInv, TypeOK, Words, IndicesInv, CallsInv, PopIdle, Slots
    <3> QED BY <2>2, <3>1, Differences DEF IInv, OwnershipInv, Owned
  <2> QED BY <2>1, <2>2 DEF SlotsAlternate
<1> QED BY <1>1, Invariant, PTL

(* Inner::drop destroys every value that a slot still owns, and nothing    *)
(* else, however far head and tail have come.                              *)
THEOREM ExactDrop == Spec => DropExact
<1>1. IInv /\ [Next]_vars =>
        [handles # {} /\ handles' = {} =>
           DropRange = {s \in Slots : buf[s] # Nothing}]_vars
  <2> SUFFICES ASSUME IInv, [Next]_vars, handles # {}, handles' = {}
               PROVE  DropRange = {s \in Slots : buf[s] # Nothing}
    OBVIOUS
  <2>1. PICK h \in handles : DropHandle(h)
    BY DEF Next, vars, Push, Pop, PushCall, PushRefresh, PushWrite, PushPublish,
       PopCall, PopRefresh, PopRead, PopRelease
  <2>2. PushIdle /\ PopIdle
    BY <2>1 DEF DropHandle, IInv, TypeOK, CallsInv
  <2>3. /\ head \in Int /\ Occupied \in Nat /\ Occupied <= Cap
        /\ 0 .. Occupied - 1 \subseteq Slots
    BY Differences, Sizes DEF IInv, TypeOK, IndicesInv, Words, Slots
  <2>4. \A k \in Slots : buf[Mask(head + k)] # Nothing <=> k < Occupied
    BY <2>2 DEF IInv, OwnershipInv, Owned, PushIdle, PopIdle
  <2>5. \A k \in Slots : Mask(WrapAdd(head, k)) = Mask(head + k) /\ Mask(head + k) \in Slots
    <3> SUFFICES ASSUME NEW k \in Slots
                 PROVE  Mask(WrapAdd(head, k)) = Mask(head + k) /\ Mask(head + k) \in Slots
      OBVIOUS
    <3>1. head + k \in Int
      BY <2>3, Sizes DEF Slots
    <3> QED BY <3>1, MaskWord, MaskRange, Zenon DEF WrapAdd
  <2>6. DropRange = {Mask(WrapAdd(head, k)) : k \in 0 .. Occupied - 1}
    BY DEF DropRange, Occupied
  <2>7. ASSUME NEW s \in DropRange PROVE s \in Slots /\ buf[s] # Nothing
    BY <2>3, <2>4, <2>5, <2>6
  <2>8. ASSUME NEW s \in Slots, buf[s] # Nothing PROVE s \in DropRange
    <3>1. PICK k \in Slots : Mask(head + k) = s
      BY <2>3, MaskOnto
    <3>2. k \in 0 .. Occupied - 1
      BY <2>3, <2>4, <2>8, <3>1 DEF Slots
    <3> QED BY <2>5, <2>6, <3>1, <3>2
  <2> QED BY <2>7, <2>8
<1> QED BY <1>1, Invariant, PTL DEF Spec, DropExact

------------------------------------------------------------------------------
(* The queue as a ring of slots that the two threads hand to each other.   *)

LEMMA MaskMinus ==
  ASSUME NEW x \in Int, NEW y \in Int PROVE Mask(Mask(x) - y) = Mask(x - y)
<1> DEFINE q == x \div Cap
           r == x % Cap
<1>1. q \in Int /\ x = (Cap * q) + r /\ r \in Int
  BY Sizes, DivMod, ModRange
<1> HIDE DEF q, r
<1>2. r - y \in Int /\ x - y = (r - y) + Cap * q
  BY <1>1, Sizes
<1>3. ((r - y) + Cap * q) % Cap = (r - y) % Cap
  BY <1>1, <1>2, Sizes, ModPeriodic, Zenon
<1>4. QED
  BY <1>2, <1>3, Zenon DEF Mask, r

LEMMA MaskPlusOne == ASSUME NEW x \in Int PROVE Mask(Mask(x) + 1) = Mask(x + 1)
<1>1. Mask(Mask(x) - (-1)) = Mask(x - (-1))
  BY MaskMinus, -1 \in Int, Zenon
<1>2. Mask(x) \in Int /\ \A z \in Int : z - (-1) = z + 1
  BY MaskRange, Sizes DEF Slots
<1>3. QED
  BY <1>1, <1>2

(* A slot by its distance from a head h, when t is the tail.               *)
LEMMA Window ==
  ASSUME NEW h \in Words, NEW t \in Words, WrapSub(t, h) <= Cap, NEW s \in Slots
  PROVE  \E k \in Slots :
           /\ Mask(h + k) = s /\ Mask(s - h) = k
           /\ s = Mask(h) <=> k = 0
           /\ WrapSub(t, h) < Cap => (s = Mask(t) <=> k = WrapSub(t, h))
<1>1. h \in Int /\ t \in Int /\ WrapSub(t, h) \in Nat
  BY WordClosed, Sizes DEF Words
<1>2. PICK k \in Slots : Mask(h + k) = s
  BY <1>1, MaskOnto
<1>3. k \in Int /\ h + k \in Int /\ (h + k) - h = k /\ 0 \in Slots /\ h + 0 = h
  BY <1>1, Sizes DEF Slots
<1>4. Mask(s - h) = k
  <2>1. Mask(Mask(h + k) - h) = Mask((h + k) - h)
    BY <1>1, <1>3, MaskMinus
  <2>2. Mask(k) = k
    BY Sizes, ModSmall, Zenon DEF Mask, Slots
  <2>3. QED
    BY <1>2, <1>3, <2>1, <2>2
<1>5. s = Mask(h) <=> k = 0
  BY <1>1, <1>2, <1>3, MaskInjective
<1>6. ASSUME WrapSub(t, h) < Cap PROVE s = Mask(t) <=> k = WrapSub(t, h)
  <2>1. Mask(t) = Mask(h + WrapSub(t, h))
    <3>1. CASE t >= h
      <4>1. h + WrapSub(t, h) = t
        BY <1>1, <3>1, WordSub
      <4>2. QED
        BY <4>1
    <3>2. CASE ~(t >= h)
      <4>1. h + WrapSub(t, h) = t + Modulus
        BY <1>1, <3>2, WordSub, Sizes
      <4>2. QED
        BY <1>1, <4>1, MaskShift
    <3>3. QED
      BY <3>1, <3>2
  <2>2. WrapSub(t, h) \in Slots
    BY <1>1, <1>6, Sizes DEF Slots
  <2>3. QED
    BY <1>1, <1>2, <2>1, <2>2, MaskInjective
<1>7. QED
  BY <1>2, <1>4, <1>5, <1>6

(* The value of RingSlot, by the distance from head.                       *)
LEMMA SlotAt ==
  ASSUME IInv, NEW s \in Slots
  PROVE  \E k \in Slots :
           /\ Mask(head + k) = s /\ Mask(s - head) = k
           /\ s = Mask(head) <=> k = 0
           /\ Occupied < Cap => (s = Mask(tail) <=> k = Occupied)
  BY Window DEF IInv, TypeOK, IndicesInv, Occupied

LEMMA Room ==
  ASSUME IInv
  PROVE  /\ Occupied \in Nat /\ Occupied <= Cap
         /\ Pushing => Occupied < Cap
         /\ Popping => Occupied > 0
         /\ head \in Int /\ tail \in Int /\ Mask(head) \in Slots /\ Mask(tail) \in Slots
<1>1. head \in Int /\ tail \in Int
  BY DEF IInv, TypeOK, Words
<1>2. QED
  BY <1>1, Differences, Sizes, MaskRange DEF IInv, IndicesInv, Pushing, Popping

LEMMA ClaimStep ==
  ASSUME IInv, Occupied < Cap, ~Pushing, Pushing', Popping' = Popping, UNCHANGED <<head, tail>>
  PROVE  Ring!Claim("producer")
<1>1. PICK k \in Slots :
        /\ Mask(Mask(tail) - head) = k
        /\ Mask(tail) = Mask(head) <=> k = 0
        /\ k = Occupied
  BY Room, SlotAt
<1>2. RingSlot[RingTail] = "free"
  BY <1>1, Room DEF RingSlot, RingTail
<1>3. \A s \in Slots : RingSlot[s] # "producer"
  BY DEF RingSlot
<1>4. RingSlot' = [RingSlot EXCEPT ![RingTail] = "producer"]
  BY DEF RingSlot, RingTail, Occupied
<1>5. RingTail' = (RingTail + 1) % Cap
  BY Room, MaskPlusOne DEF RingTail, Mask
<1>6. RingHead' = RingHead
  BY DEF RingHead
<1>7. QED
  BY <1>2, <1>3, <1>4, <1>5, <1>6 DEF Ring!Claim, Ring!Holds, Ring!After, Ring!Slots, Slots

LEMMA PublishStep ==
  ASSUME IInv, PushPublish PROVE Ring!Publish("producer")
<1>1. /\ Pushing /\ ~Pushing' /\ Popping' = Popping /\ head' = head
      /\ tail' = WrapAdd(tail, 1) /\ Occupied < Cap /\ Occupied \in Nat
  BY Room DEF PushPublish, cvars, Pushing, Popping
<1>2. Occupied' = Occupied + 1
  BY <1>1, SubOfNext DEF IInv, TypeOK, Occupied
<1>3. RingTail' = RingTail
  <2>1. tail + 1 \in Int
    BY Room
  <2>2. Mask(Word(tail + 1)) = Mask(tail + 1)
    BY <2>1, MaskWord
  <2>3. QED
    BY <1>1, <2>2 DEF RingTail, WrapAdd
<1>4. RingHead' = RingHead
  BY <1>1 DEF RingHead
<1>5. RingSlot[Mask(tail)] = "producer" /\ Mask(tail) \in Slots
  BY <1>1, Room DEF RingSlot
<1>6. ASSUME NEW s \in Slots
      PROVE  RingSlot'[s] = IF s = Mask(tail) THEN "full" ELSE RingSlot[s]
  <2>1. PICK k \in Slots :
          /\ Mask(s - head) = k
          /\ s = Mask(head) <=> k = 0
          /\ s = Mask(tail) <=> k = Occupied
    BY <1>1, SlotAt
  <2>2. RingSlot'[s] = IF Popping /\ s = Mask(head) THEN "consumer"
                       ELSE IF k < Occupied + 1 THEN "full" ELSE "free"
    BY <1>1, <1>2, <2>1 DEF RingSlot
  <2>3. RingSlot[s] = IF s = Mask(tail) THEN "producer"
                      ELSE IF Popping /\ s = Mask(head) THEN "consumer"
                      ELSE IF k < Occupied THEN "full" ELSE "free"
    BY <1>1, <2>1 DEF RingSlot
  <2>4. k \in Nat /\ (Popping => Occupied > 0)
    BY Room, Sizes DEF Slots
  <2>5. QED
    BY <1>1, <2>1, <2>2, <2>3, <2>4
<1>7. RingSlot' = [RingSlot EXCEPT ![Mask(tail)] = "full"]
  BY <1>5, <1>6 DEF RingSlot
<1>8. QED
  BY <1>3, <1>4, <1>5, <1>7 DEF Ring!Publish, Ring!Slots, Slots

LEMMA TakeStep ==
  ASSUME IInv, Occupied > 0, ~Popping, Popping', Pushing' = Pushing, UNCHANGED <<head, tail>>
  PROVE  Ring!Take("consumer")
<1>1. PICK k \in Slots :
        /\ Mask(Mask(head) - head) = k /\ k = 0
        /\ Occupied < Cap => (Mask(head) = Mask(tail) <=> k = Occupied)
  BY Room, SlotAt
<1>2. ~(Pushing /\ Mask(head) = Mask(tail))
  BY <1>1, Room
<1>3. RingSlot[RingHead] = "full"
  BY <1>1, <1>2, Room DEF RingSlot, RingHead
<1>4. \A s \in Slots : RingSlot[s] # "consumer"
  BY DEF RingSlot
<1>5. RingSlot' = [RingSlot EXCEPT ![RingHead] = "consumer"]
  BY <1>2 DEF RingSlot, RingHead, Occupied
<1>6. RingHead' = (RingHead + 1) % Cap
  BY Room, MaskPlusOne DEF RingHead, Mask
<1>7. RingTail' = RingTail
  BY DEF RingTail
<1>8. QED
  BY <1>3, <1>4, <1>5, <1>6, <1>7 DEF Ring!Take, Ring!Holds, Ring!After, Ring!Slots, Slots

LEMMA ReleaseStep ==
  ASSUME IInv, PopRelease PROVE Ring!Release("consumer")
<1>1. /\ Popping /\ ~Popping' /\ Pushing' = Pushing /\ tail' = tail
      /\ head' = WrapAdd(head, 1) /\ Occupied > 0 /\ Occupied \in Nat /\ Occupied <= Cap
      /\ Pushing => Occupied < Cap
  BY Room DEF PopRelease, pvars, Pushing, Popping
<1>2. Occupied' = Occupied - 1 /\ head' \in Words /\ tail' \in Words
  BY <1>1, SubNext, WordClosed, Room DEF IInv, TypeOK, Occupied
<1>3. RingHead' = RingHead
  <2>1. head + 1 \in Int
    BY Room
  <2>2. Mask(Word(head + 1)) = Mask(head + 1)
    BY <2>1, MaskWord
  <2>3. QED
    BY <1>1, <2>2 DEF RingHead, WrapAdd
<1>4. RingTail' = RingTail
  BY <1>1 DEF RingTail
<1>5. /\ Pushing => Mask(head) # Mask(tail)
      /\ RingSlot[Mask(head)] = "consumer" /\ Mask(head) \in Slots
  <2>1. PICK k \in Slots : k = 0 /\ (Occupied < Cap => (Mask(head) = Mask(tail) <=> k = Occupied))
    BY Room, SlotAt
  <2>2. Pushing => Mask(head) # Mask(tail)
    BY <1>1, <2>1
  <2>3. QED
    BY <1>1, <2>2, Room DEF RingSlot
<1>6. ASSUME NEW s \in Slots
      PROVE  RingSlot'[s] = IF s = Mask(head) THEN "free" ELSE RingSlot[s]
  <2>1. PICK k \in Slots : Mask(head + k) = s /\ Mask(s - head) = k /\ (s = Mask(head) <=> k = 0)
    BY SlotAt
  <2>2. WrapSub(tail', head') <= Cap
    BY <1>1, <1>2, Sizes DEF Occupied
  <2>3. PICK j \in Slots : Mask(head' + j) = s /\ Mask(s - head') = j
    BY <1>2, <2>2, Window
  <2>4. j \in Int /\ k \in Nat /\ head + 1 \in Int /\ head \in Int /\ Cap \in Nat
    BY Room, Sizes DEF Slots
  <2>5. Mask((head + 1) + j) = s
    BY <1>1, <2>3, <2>4, MaskWordPlus DEF WrapAdd
  <2>6. k > 0 => j = k - 1
    <3>1. k > 0 => k - 1 \in Slots /\ (head + 1) + (k - 1) = head + k
      BY <2>4 DEF Slots
    <3>2. QED
      BY <2>1, <2>4, <2>5, <3>1, MaskInjective
  <2>7. k = 0 => j = Cap - 1
    <3>1. Cap - 1 \in Slots /\ (head + 1) + (Cap - 1) = head + Cap
      BY <2>4, Sizes DEF Slots
    <3>2. Mask(head + Cap) = Mask(head)
      BY <2>4, MaskLap
    <3>3. ASSUME k = 0 PROVE Mask((head + 1) + j) = Mask((head + 1) + (Cap - 1))
      BY <2>1, <2>5, <3>1, <3>2, <3>3, Zenon
    <3>4. QED
      BY <2>4, <3>1, <3>3, MaskInjective, Zenon
  <2>8. RingSlot'[s] = IF Pushing /\ s = Mask(tail) THEN "producer"
                       ELSE IF j < Occupied - 1 THEN "full" ELSE "free"
    BY <1>1, <1>2, <2>3 DEF RingSlot
  <2>9. RingSlot[s] = IF Pushing /\ s = Mask(tail) THEN "producer"
                      ELSE IF s = Mask(head) THEN "consumer"
                      ELSE IF k < Occupied THEN "full" ELSE "free"
    BY <1>1, <2>1 DEF RingSlot
  <2>10. CASE k = 0
    <3>1. ~(j < Occupied - 1)
      BY <1>1, <2>4, <2>7, <2>10
    <3>2. QED
      BY <1>5, <2>1, <2>8, <2>10, <3>1
  <2>11. CASE k > 0
    <3>1. j < Occupied - 1 <=> k < Occupied
      BY <1>1, <2>4, <2>6, <2>11
    <3>2. QED
      BY <2>1, <2>4, <2>8, <2>9, <2>11, <3>1
  <2>12. QED
    BY <2>4, <2>10, <2>11
<1>7. RingSlot' = [RingSlot EXCEPT ![Mask(head)] = "free"]
  BY <1>5, <1>6 DEF RingSlot
<1>8. QED
  BY <1>3, <1>4, <1>5, <1>7 DEF Ring!Release, Ring!Slots, Slots

LEMMA RingStutter ==
  ASSUME Pushing' = Pushing, Popping' = Popping, UNCHANGED <<head, tail>>
  PROVE  UNCHANGED Ring!ringVars
  BY DEF RingSlot, RingHead, RingTail, Occupied, Ring!ringVars

(* Each step of a call of spsc.rs either leaves the ring alone or hands    *)
(* one slot on: try_push holds the slot at tail from its test of the       *)
(* indices to its store of tail, and only when the consumer released it;   *)
(* try_pop does the same at head.                                          *)
THEOREM HandsOver == Spec => RingSpec
<1>1. Init => Ring!RingInit
  <2> SUFFICES ASSUME Init PROVE Ring!RingInit
    OBVIOUS
  <2>1. head = 0 /\ tail = 0 /\ ~Pushing /\ ~Popping
    BY DEF Init, Pushing, Popping
  <2>2. Occupied = 0 /\ Mask(0) = 0
    <3>1. 0 \in Words /\ 0 \in 0 .. Cap - 1
      BY Sizes DEF Words
    <3>2. QED
      BY <2>1, <3>1, WordSub, ModSmall, Sizes DEF Occupied, Mask
  <2>3. \A s \in Slots : Mask(s - head) \in Nat
    BY <2>1, MaskRange, Sizes DEF Slots
  <2>4. RingSlot = [s \in Slots |-> "free"]
    BY <2>1, <2>2, <2>3 DEF RingSlot
  <2>5. QED
    BY <2>1, <2>2, <2>4 DEF Ring!RingInit, Ring!Slots, Slots, RingHead, RingTail
<1>2. IInv /\ IInv' /\ [Next]_vars => [Ring!RingNext]_Ring!ringVars
  <2> SUFFICES ASSUME IInv, IInv', [Next]_vars
               PROVE  Ring!RingNext \/ UNCHANGED Ring!ringVars
    OBVIOUS
  <2>1. CASE Push
    <3>1. Popping' = Popping /\ head' = head
      BY <2>1 DEF Push, PushCall, PushRefresh, PushWrite, PushPublish, cvars, Popping
    <3>2. CASE PushPublish
      BY <3>2, PublishStep DEF Ring!RingNext
    <3>3. CASE ~PushPublish
      <4>1. tail' = tail /\ (Pushing => Pushing')
        BY <2>1, <3>3 DEF Push, PushCall, PushRefresh, PushWrite, PushIdle, Pushing
      <4>2. CASE Pushing' = Pushing
        BY <3>1, <4>1, <4>2, RingStutter
      <4>3. CASE ~Pushing /\ Pushing'
        <5>1. pushSt' \in {"write", "publish"}
          BY <4>3 DEF Pushing
        <5>2. WrapSub(tail', headCache') < Cap /\ WrapSub(tail', headCache') \in Occupied' .. Cap
          BY <5>1 DEF IInv, IndicesInv
        <5>3. Occupied' = Occupied
          BY <3>1, <4>1 DEF Occupied
        <5>4. Occupied < Cap
          BY <5>2, <5>3, Room, Sizes
        <5>5. QED
          BY <3>1, <4>1, <4>3, <5>4, ClaimStep DEF Ring!RingNext
      <4>4. QED
        BY <4>1, <4>2, <4>3 DEF Pushing
    <3>4. QED
      BY <3>2, <3>3
  <2>2. CASE Pop
    <3>1. Pushing' = Pushing /\ tail' = tail
      BY <2>2 DEF Pop, PopCall, PopRefresh, PopRead, PopRelease, pvars, Pushing
    <3>2. CASE PopRelease
      BY <3>2, ReleaseStep DEF Ring!RingNext
    <3>3. CASE ~PopRelease
      <4>1. head' = head /\ (Popping => Popping')
        BY <2>2, <3>3 DEF Pop, PopCall, PopRefresh, PopRead, PopIdle, Popping
      <4>2. CASE Popping' = Popping
        BY <3>1, <4>1, <4>2, RingStutter
      <4>3. CASE ~Popping /\ Popping'
        <5>1. popSt' \in {"read", "release"}
          BY <4>3 DEF Popping
        <5>2. WrapSub(tailCache', head') > 0 /\ WrapSub(tailCache', head') <= Occupied'
          BY <5>1 DEF IInv, IndicesInv
        <5>3. Occupied' = Occupied /\ WrapSub(tailCache', head') \in Nat
          <6>1. tailCache' \in Int /\ head' \in Int
            BY DEF IInv, TypeOK, Words
          <6>2. WrapSub(tailCache', head') \in Words
            BY <6>1, WordClosed, Zenon
          <6>3. QED
            BY <3>1, <4>1, <6>2 DEF Occupied, Words
        <5>4. Occupied > 0
          BY <5>2, <5>3, Room
        <5>5. QED
          BY <3>1, <4>1, <4>3, <5>4, TakeStep DEF Ring!RingNext
      <4>4. QED
        BY <4>1, <4>2, <4>3 DEF Popping
    <3>4. QED
      BY <3>2, <3>3
  <2>3. CASE \E h \in handles : DropHandle(h)
    BY <2>3, RingStutter DEF DropHandle, pvars, cvars, Pushing, Popping
  <2>4. CASE UNCHANGED vars
    BY <2>4, RingStutter DEF vars, pvars, cvars, Pushing, Popping
  <2>5. QED
    BY <2>1, <2>2, <2>3, <2>4 DEF Next
<1>3. QED
  BY <1>1, <1>2, Invariant, PTL DEF Spec, RingSpec, Ring!RingSpec

------------------------------------------------------------------------------
(* The queue as its callers see it.                                        *)

LEMMA SeqAppend ==
  ASSUME NEW V, NEW n \in Nat, NEW f \in [1 .. n -> V], NEW v \in V,
         NEW g \in [1 .. n + 1 -> V], g[n + 1] = v, \A j \in 1 .. n : g[j] = f[j]
  PROVE  Len(f) = n /\ g = Append(f, v)
<1>1. f \in Seq(V) /\ g \in Seq(V) /\ Len(f) = n /\ Len(g) = n + 1
  OBVIOUS
<1>2. /\ Append(f, v) \in Seq(V) /\ Len(Append(f, v)) = n + 1
      /\ \A j \in 1 .. n + 1 : Append(f, v)[j] = g[j]
  BY <1>1
<1>3. QED
  BY <1>1, <1>2, SeqEqual

LEMMA SeqTail ==
  ASSUME NEW V, NEW n \in Nat, n > 0, NEW f \in [1 .. n -> V],
         NEW g \in [1 .. n - 1 -> V], \A j \in 1 .. n - 1 : g[j] = f[j + 1]
  PROVE  f # <<>> /\ Head(f) = f[1] /\ g = Tail(f)
<1>1. f \in Seq(V) /\ Len(f) = n /\ f # <<>>
  OBVIOUS
<1>2. g \in Seq(V) /\ Len(g) = n - 1
  <2>1. n - 1 \in Nat
    OBVIOUS
  <2>2. QED
    BY <2>1
<1>3. /\ Tail(f) \in Seq(V) /\ Len(Tail(f)) = n - 1
      /\ \A j \in 1 .. n - 1 : Tail(f)[j] = f[j + 1]
  BY <1>1, HeadTailProperties
<1>4. g = Tail(f)
  BY <1>2, <1>3, SeqEqual
<1>5. QED
  BY <1>1, <1>4

(* The n values from head h on, of which the first one may be in moved.    *)
QueueOf(h, n, b, st, m) ==
  [j \in 1 .. n |-> IF j = 1 /\ st = "release" THEN m ELSE b[Mask(h + (j - 1))]]

LEMMA QueueShape ==
  ASSUME NEW h \in Words, NEW n \in Nat, NEW b, NEW st, NEW m
  PROVE  [j \in 1 .. n |-> IF j = 1 /\ st = "release" THEN m
                           ELSE b[Mask(WrapAdd(h, j - 1))]]
           = QueueOf(h, n, b, st, m)
<1>1. ASSUME NEW j \in 1 .. n PROVE Mask(WrapAdd(h, j - 1)) = Mask(h + (j - 1))
  <2>1. h + (j - 1) \in Int
    BY Sizes DEF Words
  <2>2. Mask(Word(h + (j - 1))) = Mask(h + (j - 1))
    BY <2>1, MaskWord
  <2>3. QED
    BY <2>2 DEF WrapAdd
<1>2. QED
  BY <1>1 DEF QueueOf

LEMMA QueueType ==
  ASSUME NEW h \in Words, NEW n \in 0 .. Cap, NEW b \in [Slots -> Values \cup {Nothing}],
         NEW st, NEW m \in Values \cup {Nothing}
  PROVE  QueueOf(h, n, b, st, m) \in [1 .. n -> Values \cup {Nothing}]
<1>1. ASSUME NEW j \in 1 .. n PROVE Mask(h + (j - 1)) \in Slots
  <2>1. h + (j - 1) \in Int
    BY Sizes DEF Words
  <2>2. QED
    BY <2>1, MaskRange
<1>2. QED
  BY <1>1 DEF QueueOf

(* A value that was written stays in its slot until tail is stored.        *)
Written == pushSt = "publish" => buf[Mask(tail)] = val

LEMMA WrittenStep == IInv /\ Written /\ [Next]_vars => Written'
<1> SUFFICES ASSUME IInv, Written, [Next]_vars, pushSt' = "publish"
             PROVE  buf'[Mask(tail')] = val'
  BY DEF Written
<1>1. CASE PushWrite
  BY <1>1, Room DEF PushWrite, IInv, TypeOK
<1>2. CASE pushSt = "publish" /\ tail' = tail /\ val' = val
  <2>1. buf[Mask(tail)] = val
    BY <1>2 DEF Written
  <2>2. CASE PopRead
    <3>1. Occupied < Cap /\ Occupied > 0
      BY <1>2, <2>2, Room DEF PopRead, Pushing, Popping
    <3>2. PICK k \in Slots :
            /\ Mask(tail) = Mask(head) <=> k = 0
            /\ Mask(tail) = Mask(tail) <=> k = Occupied
      BY <3>1, Room, SlotAt
    <3>3. Mask(tail) # Mask(head)
      BY <3>1, <3>2, Room
    <3>4. QED
      BY <1>2, <2>1, <2>2, <3>3, Room DEF PopRead, IInv, TypeOK
  <2>3. CASE ~PopRead
    <3>1. \A h \in handles : ~(DropHandle(h) /\ handles' = {})
      <4>1. "producer" \in handles
        BY <1>2 DEF IInv, CallsInv, PushIdle
      <4>2. QED
        BY <1>2, <4>1 DEF DropHandle, PushIdle
    <3>2. buf' = buf
      BY <1>2, <2>3, <3>1 DEF Next, Push, Pop, PushCall, PushRefresh, PushWrite,
         PushPublish, PopCall, PopRefresh, PopRelease, DropHandle, cvars, vars, PushIdle
    <3>3. QED
      BY <1>2, <2>1, <3>2
  <2>4. QED
    BY <2>2, <2>3
<1>3. QED
  BY <1>1, <1>2 DEF Next, Push, Pop, PushCall, PushRefresh, PushPublish, PopCall,
     PopRefresh, PopRead, PopRelease, DropHandle, pvars, cvars, vars, PushIdle

LEMMA WrittenAlways == Spec => []Written
<1>1. Init => Written
  BY DEF Init, Written
<1>2. QED
  BY <1>1, WrittenStep, Invariant, PTL DEF Spec

(* What the steps do to the queue.                                         *)
LEMMA QueueNow ==
  ASSUME IInv, handles # {}
  PROVE  /\ AbstractQueue = QueueOf(head, Occupied, buf, popSt, moved)
         /\ AbstractQueue \in [1 .. Occupied -> Values \cup {Nothing}]
         /\ Occupied \in 0 .. Cap
<1>1. Occupied \in 0 .. Cap /\ Occupied \in Nat /\ head \in Words
  BY Room, Sizes DEF IInv, TypeOK
<1>2. AbstractQueue = QueueOf(head, Occupied, buf, popSt, moved)
  BY <1>1, QueueShape DEF AbstractQueue
<1>3. QED
  BY <1>1, <1>2, QueueType DEF IInv, TypeOK

LEMMA QueueThen ==
  ASSUME IInv', handles' # {}
  PROVE  /\ AbstractQueue' = QueueOf(head', Occupied', buf', popSt', moved')
         /\ AbstractQueue' \in [1 .. Occupied' -> Values \cup {Nothing}]
<1>1. /\ head' \in Words /\ tail' \in Words /\ moved' \in Values \cup {Nothing}
      /\ buf' \in [Slots -> Values \cup {Nothing}]
      /\ Occupied' <= Cap
  BY DEF IInv, TypeOK, IndicesInv
<1>2. Occupied' \in 0 .. Cap /\ Occupied' \in Nat
  <2>1. tail' \in Int /\ head' \in Int
    BY <1>1 DEF Words
  <2>2. WrapSub(tail', head') \in Words
    BY <2>1, WordClosed, Zenon
  <2>3. QED
    BY <1>1, <2>2, Sizes DEF Occupied, Words
<1>3. AbstractQueue' = QueueOf(head', Occupied', buf', popSt', moved')
  BY <1>1, <1>2, QueueShape DEF AbstractQueue
<1>4. QED
  BY <1>1, <1>2, <1>3, QueueType

(* A step that leaves head and tail alone leaves the queue as it is: a     *)
(* write is behind its values, and a read moves the oldest of them.        *)
LEMMA QueueStays ==
  ASSUME IInv, IInv', handles # {}, UNCHANGED <<handles, head, tail>>,
         \/ UNCHANGED buf /\ (popSt' = "release" <=> popSt = "release")
              /\ UNCHANGED moved
         \/ PushWrite
         \/ PopRead
  PROVE  AbstractQueue' = AbstractQueue
<1>1. /\ AbstractQueue = QueueOf(head, Occupied, buf, popSt, moved)
      /\ AbstractQueue' = QueueOf(head, Occupied, buf', popSt', moved')
      /\ Occupied \in 0 .. Cap
  BY QueueNow, QueueThen DEF Occupied
<1>2. ASSUME NEW j \in 1 .. Occupied
      PROVE  /\ Mask(head + (j - 1)) \in Slots
             /\ Mask(head + (j - 1)) = Mask(head) <=> j = 1
             /\ Occupied < Cap => Mask(head + (j - 1)) # Mask(tail)
  <2>1. j - 1 \in Slots /\ j - 1 < Occupied /\ head + (j - 1) \in Int
    BY <1>1, Room, Sizes DEF Slots
  <2>2. Mask(head + (j - 1)) \in Slots
    BY <2>1, MaskRange
  <2>3. PICK k \in Slots :
          /\ Mask(head + k) = Mask(head + (j - 1))
          /\ Mask(head + (j - 1)) = Mask(head) <=> k = 0
          /\ Occupied < Cap => (Mask(head + (j - 1)) = Mask(tail) <=> k = Occupied)
    BY <2>2, SlotAt
  <2>4. k = j - 1
    BY <2>1, <2>3, Room, MaskInjective
  <2>5. QED
    BY <2>1, <2>2, <2>3, <2>4
<1>3. CASE UNCHANGED buf /\ (popSt' = "release" <=> popSt = "release")
             /\ UNCHANGED moved
  BY <1>1, <1>3 DEF QueueOf
<1>4. CASE PushWrite
  <2>1. Occupied < Cap
    BY <1>4, Room DEF PushWrite, Pushing
  <2>2. \A j \in 1 .. Occupied : buf'[Mask(head + (j - 1))] = buf[Mask(head + (j - 1))]
    BY <1>2, <1>4, <2>1 DEF PushWrite, IInv, TypeOK
  <2>3. popSt' = popSt /\ moved' = moved
    BY <1>4 DEF PushWrite, cvars
  <2>4. QED
    BY <1>1, <2>2, <2>3 DEF QueueOf
<1>5. CASE PopRead
  <2>1. popSt = "read" /\ popSt' = "release" /\ moved' = buf[Mask(head)]
    BY <1>5 DEF PopRead
  <2>2. ASSUME NEW j \in 1 .. Occupied, j # 1
        PROVE  buf'[Mask(head + (j - 1))] = buf[Mask(head + (j - 1))]
    BY <1>2, <1>5, <2>2 DEF PopRead, IInv, TypeOK
  <2>3. 1 \in 1 .. Occupied => Mask(head + (1 - 1)) = Mask(head)
    BY <1>2
  <2>4. QED
    BY <1>1, <2>1, <2>2, <2>3 DEF QueueOf
<1>6. QED
  BY <1>3, <1>4, <1>5

LEMMA AcceptStep ==
  ASSUME IInv, IInv', Written, PushPublish
  PROVE  Fifo!Accept("producer")
<1>1. /\ pushSt = "publish" /\ pushSt' = "ok" /\ tail' = WrapAdd(tail, 1)
      /\ UNCHANGED <<head, buf, handles, val, popSt, moved, out>>
      /\ "producer" \in handles /\ val \in Values
  BY DEF PushPublish, cvars, IInv, CallsInv, PushIdle
<1>2. Occupied < Cap /\ Occupied \in Nat
  BY <1>1, Room DEF Pushing
<1>3. Occupied' = Occupied + 1
  BY <1>1, <1>2, SubOfNext DEF IInv, TypeOK, Occupied
<1>4. /\ AbstractQueue = QueueOf(head, Occupied, buf, popSt, moved)
      /\ AbstractQueue' = QueueOf(head, Occupied + 1, buf, popSt, moved)
      /\ AbstractQueue \in [1 .. Occupied -> Values \cup {Nothing}]
      /\ AbstractQueue' \in [1 .. Occupied + 1 -> Values \cup {Nothing}]
  BY <1>1, <1>3, QueueNow, QueueThen
<1>5. Mask(head + Occupied) = Mask(tail) /\ buf[Mask(tail)] = val
  BY <1>1, MaskTail DEF IInv, TypeOK, Written
<1>6. popSt = "release" => Occupied > 0
  BY Room DEF Popping
<1>7. AbstractQueue'[Occupied + 1] = val
  <2>1. (Occupied + 1) - 1 = Occupied /\ Occupied + 1 \in 1 .. Occupied + 1
    BY <1>2
  <2>2. QED
    BY <1>2, <1>4, <1>5, <1>6, <2>1 DEF QueueOf
<1>8. \A j \in 1 .. Occupied : AbstractQueue'[j] = AbstractQueue[j]
  BY <1>2, <1>4 DEF QueueOf
<1>9. Len(AbstractQueue) = Occupied /\ AbstractQueue' = Append(AbstractQueue, val)
  <2>1. PICK n, f, g : n = Occupied /\ f = AbstractQueue /\ g = AbstractQueue'
    OBVIOUS
  <2>2. /\ n \in Nat /\ f \in [1 .. n -> Values \cup {Nothing}]
        /\ g \in [1 .. n + 1 -> Values \cup {Nothing}]
        /\ g[n + 1] = val /\ \A j \in 1 .. n : g[j] = f[j]
        /\ val \in Values \cup {Nothing}
    BY <1>1, <1>2, <1>4, <1>7, <1>8, <2>1
  <2>3. Len(f) = n /\ g = Append(f, val)
    BY <2>2, SeqAppend
  <2>4. QED
    BY <2>1, <2>3
<1>10. QED
  BY <1>1, <1>2, <1>9 DEF Fifo!Accept, PushIdle, PopIdle

LEMMA DeliverStep ==
  ASSUME IInv, IInv', PopRelease
  PROVE  Fifo!Deliver("consumer")
<1>1. /\ popSt = "release" /\ popSt' = "got" /\ head' = WrapAdd(head, 1)
      /\ out' = moved /\ moved' = Nothing
      /\ UNCHANGED <<tail, buf, handles, pushSt, val>>
      /\ "consumer" \in handles
  BY DEF PopRelease, pvars, IInv, CallsInv, PopIdle
<1>2. Occupied > 0 /\ Occupied \in Nat /\ Occupied <= Cap
  BY <1>1, Room DEF Popping
<1>3. Occupied' = Occupied - 1
  BY <1>1, <1>2, SubNext DEF IInv, TypeOK, Occupied
<1>4. /\ AbstractQueue = QueueOf(head, Occupied, buf, popSt, moved)
      /\ AbstractQueue' = QueueOf(head', Occupied - 1, buf, popSt', moved')
      /\ AbstractQueue \in [1 .. Occupied -> Values \cup {Nothing}]
      /\ AbstractQueue' \in [1 .. Occupied - 1 -> Values \cup {Nothing}]
  BY <1>1, <1>3, QueueNow, QueueThen
<1>5. AbstractQueue[1] = moved
  BY <1>1, <1>2, <1>4 DEF QueueOf
<1>6. ASSUME NEW j \in 1 .. Occupied - 1
      PROVE  AbstractQueue'[j] = AbstractQueue[j + 1]
  <2>1. j + 1 \in 1 .. Occupied /\ j + 1 # 1 /\ (j + 1) - 1 = j
    BY <1>2
  <2>2. Mask(head' + (j - 1)) = Mask(head + j)
    <3>1. head + 1 \in Int /\ j - 1 \in Int /\ (head + 1) + (j - 1) = head + j
      BY Room
    <3>2. Mask(Word(head + 1) + (j - 1)) = Mask((head + 1) + (j - 1))
      BY <3>1, MaskWordPlus
    <3>3. QED
      BY <1>1, <3>1, <3>2 DEF WrapAdd
  <2>3. AbstractQueue[j + 1] = buf[Mask(head + j)]
    BY <1>4, <2>1 DEF QueueOf
  <2>4. AbstractQueue'[j] = buf[Mask(head' + (j - 1))]
    BY <1>1, <1>4 DEF QueueOf
  <2>5. QED
    BY <2>2, <2>3, <2>4
<1>7. /\ AbstractQueue # <<>> /\ Head(AbstractQueue) = moved
      /\ AbstractQueue' = Tail(AbstractQueue)
  <2>1. PICK n, f, g : n = Occupied /\ f = AbstractQueue /\ g = AbstractQueue'
    OBVIOUS
  <2>2. /\ n \in Nat /\ n > 0 /\ f \in [1 .. n -> Values \cup {Nothing}]
        /\ g \in [1 .. n - 1 -> Values \cup {Nothing}]
        /\ \A j \in 1 .. n - 1 : g[j] = f[j + 1]
    BY <1>2, <1>4, <1>6, <2>1
  <2>3. f # <<>> /\ Head(f) = f[1] /\ g = Tail(f)
    BY <2>2, SeqTail
  <2>4. QED
    BY <1>5, <2>1, <2>3
<1>8. QED
  BY <1>1, <1>7 DEF Fifo!Deliver, PushIdle, PopIdle

LEMMA FifoNext ==
  IInv /\ IInv' /\ Written /\ [Next]_vars => [Fifo!Next]_(Fifo!vars)
<1> SUFFICES ASSUME IInv, IInv', Written, [Next]_vars
             PROVE  Fifo!Next \/ UNCHANGED Fifo!vars
  OBVIOUS
<1>1. ASSUME NEW v \in Values, PushCall(v) PROVE Fifo!CallPush("producer", v)
  <2>1. /\ "producer" \in handles /\ PushIdle /\ val' = v /\ ~PushIdle'
        /\ UNCHANGED <<head, tail, buf, handles, popSt, moved, out>>
    BY <1>1 DEF PushCall, cvars, PushIdle
  <2>2. AbstractQueue' = AbstractQueue
    BY <2>1, QueueStays
  <2>3. pushSt # "called"
    BY <2>1 DEF PushIdle
  <2>4. QED
    BY <2>1, <2>2, <2>3 DEF Fifo!CallPush, PopIdle
<1>2. CASE PushRefresh
  <2>1. /\ pushSt = "refresh" /\ ~PushIdle /\ pushSt' \in {"full", "write"}
        /\ UNCHANGED <<head, tail, buf, handles, val, popSt, moved, out>>
        /\ "producer" \in handles
    BY <1>2 DEF PushRefresh, cvars, PushIdle, IInv, CallsInv
  <2>2. AbstractQueue' = AbstractQueue
    BY <2>1, QueueStays
  <2>3. CASE pushSt' = "full"
    <3>1. Fifo!Refuse("producer")
      BY <2>1, <2>2, <2>3 DEF Fifo!Refuse, PushIdle, PopIdle
    <3>2. QED
      BY <3>1 DEF Fifo!Next
  <2>4. CASE pushSt' = "write"
    BY <2>1, <2>2, <2>4 DEF Fifo!vars, PushIdle, PopIdle
  <2>5. QED
    BY <2>1, <2>3, <2>4
<1>3. CASE PushWrite
  <2>1. /\ pushSt = "write" /\ pushSt' = "publish"
        /\ UNCHANGED <<head, tail, handles, val, popSt, moved, out>>
        /\ "producer" \in handles
    BY <1>3 DEF PushWrite, cvars, PushIdle, IInv, CallsInv
  <2>2. AbstractQueue' = AbstractQueue
    BY <1>3, <2>1, QueueStays
  <2>3. QED
    BY <2>1, <2>2 DEF Fifo!vars, PushIdle, PopIdle
<1>4. CASE PushPublish
  BY <1>4, AcceptStep DEF Fifo!Next
<1>5. CASE PopCall
  <2>1. /\ "consumer" \in handles /\ PopIdle /\ popSt' \in {"refresh", "read"}
        /\ UNCHANGED <<head, tail, buf, handles, moved, out, pushSt, val>>
    BY <1>5 DEF PopCall, pvars
  <2>2. popSt # "release" /\ popSt # "called"
    BY <2>1 DEF PopIdle
  <2>3. AbstractQueue' = AbstractQueue
    BY <2>1, <2>2, QueueStays
  <2>4. Fifo!CallPop("consumer")
    BY <2>1, <2>2, <2>3 DEF Fifo!CallPop, PopIdle, PushIdle
  <2>5. QED
    BY <2>4 DEF Fifo!Next
<1>6. CASE PopRefresh
  <2>1. /\ popSt = "refresh" /\ popSt' \in {"empty", "read"}
        /\ UNCHANGED <<head, tail, buf, handles, moved, out, pushSt, val>>
        /\ "consumer" \in handles
    BY <1>6 DEF PopRefresh, pvars, PopIdle, IInv, CallsInv
  <2>2. AbstractQueue' = AbstractQueue
    BY <2>1, QueueStays
  <2>3. CASE popSt' = "empty"
    <3>1. Fifo!FindNothing("consumer")
      BY <2>1, <2>2, <2>3 DEF Fifo!FindNothing, PushIdle, PopIdle
    <3>2. QED
      BY <3>1 DEF Fifo!Next
  <2>4. CASE popSt' = "read"
    BY <2>1, <2>2, <2>4 DEF Fifo!vars, PushIdle, PopIdle
  <2>5. QED
    BY <2>1, <2>3, <2>4
<1>7. CASE PopRead
  <2>1. /\ popSt = "read" /\ popSt' = "release"
        /\ UNCHANGED <<head, tail, handles, out, pushSt, val>>
        /\ "consumer" \in handles
    BY <1>7 DEF PopRead, pvars, PopIdle, IInv, CallsInv
  <2>2. AbstractQueue' = AbstractQueue
    BY <1>7, <2>1, QueueStays
  <2>3. QED
    BY <2>1, <2>2 DEF Fifo!vars, PushIdle, PopIdle
<1>8. CASE PopRelease
  BY <1>8, DeliverStep DEF Fifo!Next
<1>9. ASSUME NEW h \in handles, DropHandle(h) PROVE Fifo!DropHandle(h)
  <2>1. /\ h = "producer" => PushIdle
        /\ h = "consumer" => PopIdle
        /\ handles' = handles \ {h}
        /\ UNCHANGED <<head, tail, val, out, pushSt, popSt, moved>>
        /\ handles' # {} => UNCHANGED buf
    BY <1>9 DEF DropHandle, pvars, cvars
  <2>2. AbstractQueue' = IF handles' = {} THEN <<>> ELSE AbstractQueue
    <3>1. CASE handles' = {}
      BY <3>1 DEF AbstractQueue
    <3>2. CASE handles' # {}
      <4>1. /\ AbstractQueue = QueueOf(head, Occupied, buf, popSt, moved)
            /\ AbstractQueue' = QueueOf(head', Occupied', buf', popSt', moved')
        BY <3>2, QueueNow, QueueThen
      <4>2. QED
        BY <2>1, <3>2, <4>1 DEF Occupied
    <3>3. QED
      BY <3>1, <3>2
  <2>3. PushIdle => pushSt # "called"
    BY DEF PushIdle
  <2>4. PopIdle => popSt # "called"
    BY DEF PopIdle
  <2>5. QED
    BY <2>1, <2>2, <2>3, <2>4 DEF Fifo!DropHandle, PushIdle, PopIdle
<1>10. CASE UNCHANGED vars
  BY <1>10 DEF vars, pvars, cvars, Fifo!vars, AbstractQueue, Occupied, PushIdle, PopIdle
<1>11. QED
  BY <1>1, <1>2, <1>3, <1>4, <1>5, <1>6, <1>7, <1>8, <1>9, <1>10
     DEF Next, Push, Pop, Fifo!Next

LEMMA FifoInit == Init => Fifo!Init
<1> SUFFICES ASSUME Init PROVE Fifo!Init
  OBVIOUS
<1>1. 0 \in Words /\ WrapSub(0, 0) = 0
  BY WordSub, ModulusAssumption DEF Words
<1>2. Occupied = 0
  BY <1>1 DEF Init, Occupied
<1>3. AbstractQueue = <<>>
  BY <1>2 DEF Init, AbstractQueue
<1>4. QED
  BY <1>3 DEF Init, Fifo!Init, PushIdle, PopIdle

(* spsc.rs is a bounded FIFO queue: each value accepted is delivered once, *)
(* in order, and never are there more than Cap of them, whatever the       *)
(* capacity and the width of the wrapping indices, with exact loads and    *)
(* with stale ones.                                                        *)
THEOREM FirstInFirstOut == Spec => FifoSpec
  BY FifoInit, FifoNext, Invariant, WrittenAlways, PTL DEF Spec, FifoSpec, Fifo!Spec
==============================================================================
