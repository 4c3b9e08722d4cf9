----------------------------- MODULE Heap_proofs -----------------------------
(***************************************************************************)
(* Proofs about Heap, for every set of elements, every key function and    *)
(* every length.  HeapOrder is inductive together with TypeOK: its second  *)
(* part, that the children of the sifted element are in order with its     *)
(* parent, is what makes a swap safe.  That the first element is a least   *)
(* one follows by a minimal counterexample: the parent of a least index    *)
(* with a smaller key would have a smaller key as well.                    *)
(***************************************************************************)
EXTENDS Heap, WellFoundedInduction, FiniteSetTheorems, TLAPS

IInv == TypeOK /\ HeapOrder

(* The shape of the tree.                                                  *)
LEMMA Parents ==
  ASSUME NEW k \in Nat, k > 0
  PROVE  /\ parent(k) \in Nat /\ parent(k) < k
         /\ k = left(parent(k)) \/ k = right(parent(k))
BY DEF parent, left, right

LEMMA Children ==
  ASSUME NEW k \in Nat
  PROVE  /\ left(k) \in Nat /\ left(k) > k /\ parent(left(k)) = k
         /\ right(k) \in Nat /\ right(k) > left(k) /\ parent(right(k)) = k
BY DEF parent, left, right

(* child picks a child, and one in order with its sibling.                 *)
LEMMA ChildChoice ==
  ASSUME TypeOK, NEW k \in 0 .. len - 1, left(k) < len
  PROVE  /\ child(k) \in 1 .. len - 1 /\ parent(child(k)) = k /\ child(k) > k
         /\ \A c \in 1 .. len - 1 : parent(c) = k => InOrder(child(k), c)
<1>1. k \in Nat /\ len \in Nat
  BY BoundAssumption DEF TypeOK
<1>2. child(k) \in {left(k), right(k)} /\ child(k) < len
  BY <1>1, Children DEF child
<1>3. \A x \in 0 .. len - 1 : Key[data[x]] \in Int
  BY KeyAssumption DEF TypeOK
<1>4. ASSUME NEW c \in 1 .. len - 1, parent(c) = k PROVE InOrder(child(k), c)
  <2>1. c = left(k) \/ c = right(k)
    BY <1>4, Parents
  <2>2. left(k) \in 0 .. len - 1
    BY <1>1, Children
  <2>3. CASE right(k) < len
    <3>1. right(k) \in 0 .. len - 1
      BY <1>1, <2>3, Children
    <3>. QED
      BY <1>3, <2>1, <2>2, <2>3, <3>1 DEF child, Greater, InOrder
  <2>4. CASE ~(right(k) < len)
    BY <1>1, <1>3, <2>1, <2>2, <2>4, Children DEF child, Greater, InOrder
  <2>. QED
    BY <2>3, <2>4
<1>. QED
  BY <1>1, <1>2, <1>4, Children

LEMMA SwapFacts ==
  ASSUME TypeOK, NEW x \in 0 .. len - 1, NEW y \in 0 .. len - 1, x # y,
         data' = Swapped(x, y)
  PROVE  /\ data' \in [0 .. len - 1 -> Elements]
         /\ data'[x] = data[y] /\ data'[y] = data[x]
         /\ \A k \in (0 .. len - 1) \ {x, y} : data'[k] = data[k]
BY DEF TypeOK, Swapped

------------------------------------------------------------------------------
LEMMA InitIInv == Init => IInv
<1>. SUFFICES ASSUME Init PROVE IInv
  OBVIOUS
<1>1. len = 0 /\ 0 .. len - 1 = {} /\ 1 .. len - 1 = {}
  BY DEF Init
<1>2. data \in [0 .. len - 1 -> Elements]
  BY <1>1 DEF Init
<1>3. TypeOK
  <2>1. pc = "idle" /\ i = 0 /\ res = None /\ ret = None /\ broken = FALSE
    BY DEF Init
  <2>2. len \in 0 .. MaxLen
    BY <1>1, BoundAssumption
  <2>3. i \in 0 .. (IF pc = "up" THEN len - 1 ELSE IF len = 0 THEN 0 ELSE len - 1)
    BY <1>1, <2>1
  <2>. QED
    BY <1>2, <2>1, <2>2, <2>3, Zenon DEF TypeOK
<1>4. HeapOrder
  BY <1>1 DEF HeapOrder
<1>. QED
  BY <1>3, <1>4 DEF IInv

LEMMA UpSwapIInv == IInv /\ UpSwap => IInv'
<1>. SUFFICES ASSUME IInv, UpSwap PROVE IInv'
  OBVIOUS
<1>. USE DEF IInv
<1>0. PICK p : p = parent(i)
  OBVIOUS
<1>1. /\ len \in Nat /\ i \in 1 .. len - 1 /\ pc = "up"
      /\ i' = p /\ data' = Swapped(i, p)
      /\ UNCHANGED <<len, pc, res, ret, broken>>
  BY <1>0, BoundAssumption DEF UpSwap, TypeOK
<1>2. p \in 0 .. len - 1 /\ p < i /\ p = parent(i)
  BY <1>0, <1>1, Parents
<1>3. /\ data' \in [0 .. len - 1 -> Elements]
      /\ data'[i] = data[p] /\ data'[p] = data[i]
      /\ \A k \in (0 .. len - 1) \ {i, p} : data'[k] = data[k]
  BY <1>1, <1>2, SwapFacts
<1>4. TypeOK'
  BY <1>1, <1>2, <1>3 DEF TypeOK
<1>5. \A x \in 0 .. len - 1 : Key[data[x]] \in Int
  BY KeyAssumption DEF TypeOK
<1>6. Key[data[p]] > Key[data[i]]
  BY <1>0 DEF UpSwap, Greater
<1>7. ASSUME ~broken, NEW k \in 1 .. len - 1
      PROVE  /\ InOrder(parent(k), k)' \/ k = p
             /\ parent(k) = p /\ p > 0 => Key[data'[parent(p)]] <= Key[data'[k]]
  <2>1. /\ parent(k) \in 0 .. len - 1 /\ parent(k) < k
        /\ p > 0 => parent(p) \in 0 .. len - 1 /\ parent(p) < p
    BY <1>1, <1>2, Parents
  <2>2. /\ k # i => InOrder(parent(k), k)
        /\ parent(k) = i => InOrder(p, k)
        /\ p > 0 => InOrder(parent(p), p)
    BY <1>1, <1>2, <1>7 DEF HeapOrder
  <2>3. InOrder(parent(k), k)' \/ k = p
    BY <1>1, <1>2, <1>3, <1>5, <1>6, <2>1, <2>2 DEF InOrder
  <2>4. parent(k) = p /\ p > 0 => Key[data'[parent(p)]] <= Key[data'[k]]
    BY <1>1, <1>2, <1>3, <1>5, <1>6, <2>1, <2>2 DEF InOrder
  <2>. QED
    BY <2>3, <2>4
<1>8. HeapOrder'
  BY <1>1, <1>2, <1>7 DEF HeapOrder, InOrder
<1>. QED
  BY <1>4, <1>8

LEMMA DownSwapIInv == IInv /\ DownSwap => IInv'
<1>. SUFFICES ASSUME IInv, DownSwap PROVE IInv'
  OBVIOUS
<1>. USE DEF IInv
<1>0. PICK c : c = child(i)
  OBVIOUS
<1>1. /\ len \in Nat /\ i \in 0 .. len - 1 /\ pc = "down" /\ left(i) < len
      /\ i' = c /\ data' = Swapped(i, c)
      /\ UNCHANGED <<len, pc, res, ret, broken>>
  BY <1>0, BoundAssumption, Children DEF DownSwap, TypeOK
<1>2. /\ c \in 1 .. len - 1 /\ parent(c) = i /\ c > i
      /\ \A k \in 1 .. len - 1 : parent(k) = i => InOrder(c, k)
  BY <1>0, <1>1, ChildChoice
<1>3. /\ data' \in [0 .. len - 1 -> Elements]
      /\ data'[i] = data[c] /\ data'[c] = data[i]
      /\ \A k \in (0 .. len - 1) \ {i, c} : data'[k] = data[k]
  BY <1>1, <1>2, SwapFacts
<1>4. TypeOK'
  BY <1>1, <1>2, <1>3 DEF TypeOK
<1>5. \A x \in 0 .. len - 1 : Key[data[x]] \in Int
  BY KeyAssumption DEF TypeOK
<1>6. Key[data[i]] > Key[data[c]]
  BY <1>0 DEF DownSwap, Greater
<1>7. ASSUME ~broken, NEW k \in 1 .. len - 1
      PROVE  /\ InOrder(parent(k), k)' \/ parent(k) = c
             /\ parent(k) = c => Key[data'[i]] <= Key[data'[k]]
  <2>1. parent(k) \in 0 .. len - 1 /\ parent(k) < k
    BY <1>1, Parents
  <2>2. /\ parent(k) # i => InOrder(parent(k), k)
        /\ i > 0 => InOrder(parent(i), c)
    BY <1>1, <1>2, <1>7 DEF HeapOrder
  <2>3. InOrder(parent(k), k)' \/ parent(k) = c
    BY <1>1, <1>2, <1>3, <1>5, <1>6, <2>1, <2>2 DEF InOrder
  <2>4. parent(k) = c => Key[data'[i]] <= Key[data'[k]]
    BY <1>1, <1>2, <1>3, <1>5, <1>6, <2>1, <2>2 DEF InOrder
  <2>. QED
    BY <2>3, <2>4
<1>8. HeapOrder'
  BY <1>1, <1>2, <1>7 DEF HeapOrder, InOrder
<1>. QED
  BY <1>4, <1>8

LEMMA PushIInv == ASSUME IInv, NEW e \in Elements, Push(e) PROVE IInv'
<1>. USE DEF IInv
<1>1. /\ len \in Nat /\ len < MaxLen /\ len' = len + 1 /\ i' = len /\ pc' = "up"
      /\ pc = "idle" /\ UNCHANGED <<res, ret, broken>>
  BY BoundAssumption DEF Push, TypeOK
<1>2. /\ data' \in [0 .. len -> Elements]
      /\ \A k \in 0 .. len - 1 : data'[k] = data[k]
  BY <1>1 DEF Push, TypeOK
<1>3. TypeOK'
  BY <1>1, <1>2, BoundAssumption DEF TypeOK
<1>4. ASSUME ~broken, NEW k \in 1 .. len
      PROVE  parent(k) # len /\ (k # len => InOrder(parent(k), k)')
  <2>1. parent(k) \in 0 .. len - 1
    BY <1>1, Parents
  <2>2. k # len => InOrder(parent(k), k)
    BY <1>1, <1>4 DEF HeapOrder
  <2>. QED
    BY <1>1, <1>2, <2>1, <2>2 DEF InOrder
<1>5. HeapOrder'
  BY <1>1, <1>4 DEF HeapOrder
<1>. QED
  BY <1>3, <1>5

LEMMA PopIInv == IInv /\ Pop => IInv'
<1>. SUFFICES ASSUME IInv, Pop PROVE IInv'
  OBVIOUS
<1>. USE DEF IInv
<1>1. /\ len \in Nat /\ len > 0 /\ len' = len - 1 /\ i' = 0 /\ pc' = "down"
      /\ pc = "idle" /\ res' = data[0] /\ UNCHANGED <<ret, broken>>
  BY BoundAssumption DEF Pop, TypeOK
<1>2. /\ data' \in [0 .. len - 2 -> Elements]
      /\ \A k \in 1 .. len - 2 : data'[k] = data[k]
  BY <1>1 DEF Pop, TypeOK
<1>3. TypeOK'
  BY <1>1, <1>2, BoundAssumption DEF TypeOK
<1>4. ASSUME ~broken, NEW k \in 1 .. len - 2, parent(k) # 0
      PROVE  InOrder(parent(k), k)'
  <2>1. parent(k) \in 1 .. len - 2
    BY <1>1, <1>4, Parents
  <2>2. InOrder(parent(k), k)
    BY <1>1, <1>4 DEF HeapOrder
  <2>. QED
    BY <1>2, <2>1, <2>2 DEF InOrder
<1>5. HeapOrder'
  BY <1>1, <1>4 DEF HeapOrder
<1>. QED
  BY <1>3, <1>5

LEMMA UpDoneIInv == IInv /\ UpDone => IInv'
<1>. SUFFICES ASSUME IInv, UpDone PROVE IInv'
  OBVIOUS
<1>. USE DEF IInv
<1>1. /\ len \in Nat /\ i \in 0 .. len - 1 /\ pc = "up" /\ pc' = "idle" /\ i' = 0
      /\ UNCHANGED <<data, len, res, ret, broken>>
  BY BoundAssumption DEF UpDone, TypeOK
<1>2. TypeOK'
  BY <1>1 DEF TypeOK
<1>3. i > 0 => InOrder(parent(i), i)
  <2>1. i > 0 => parent(i) \in 0 .. len - 1
    BY <1>1, Parents
  <2>2. \A x \in 0 .. len - 1 : Key[data[x]] \in Int
    BY KeyAssumption DEF TypeOK
  <2>. QED
    BY <1>1, <2>1, <2>2 DEF UpDone, Greater, InOrder
<1>4. ~broken => \A k \in 1 .. len - 1 : InOrder(parent(k), k)
  BY <1>1, <1>3 DEF HeapOrder
<1>5. HeapOrder'
  BY <1>1, <1>4 DEF HeapOrder, InOrder
<1>. QED
  BY <1>2, <1>5

LEMMA DownDoneIInv == IInv /\ DownDone => IInv'
<1>. SUFFICES ASSUME IInv, DownDone PROVE IInv'
  OBVIOUS
<1>. USE DEF IInv
<1>1. /\ len \in Nat /\ i \in Nat /\ pc = "down" /\ pc' = "idle" /\ i' = 0
      /\ ret' = res /\ res' = None /\ UNCHANGED <<data, len, broken>>
  BY BoundAssumption DEF DownDone, TypeOK
<1>2. TypeOK'
  BY <1>1 DEF TypeOK
<1>3. ASSUME NEW k \in 1 .. len - 1, parent(k) = i PROVE InOrder(i, k)
  <2>1. left(i) < len /\ i \in 0 .. len - 1
    BY <1>1, <1>3, Parents, Children
  <2>2. child(i) \in 1 .. len - 1 /\ InOrder(child(i), k)
    BY <1>3, <2>1, ChildChoice
  <2>3. \A x \in 0 .. len - 1 : Key[data[x]] \in Int
    BY KeyAssumption DEF TypeOK
  <2>4. InOrder(i, child(i))
    BY <1>1, <2>1, <2>2, <2>3 DEF DownDone, Greater, InOrder
  <2>. QED
    BY <1>1, <2>1, <2>2, <2>3, <2>4 DEF InOrder
<1>4. ~broken => \A k \in 1 .. len - 1 : InOrder(parent(k), k)
  BY <1>1, <1>3 DEF HeapOrder
<1>5. HeapOrder'
  BY <1>1, <1>4 DEF HeapOrder, InOrder
<1>. QED
  BY <1>2, <1>5

LEMMA NextIInv == IInv /\ [Next]_vars => IInv'
<1>. SUFFICES ASSUME IInv, [Next]_vars PROVE IInv'
  OBVIOUS
<1>1. CASE \E e \in Elements : Push(e)
  BY <1>1, PushIInv
<1>2. CASE PopEmpty
  BY <1>2 DEF PopEmpty, IInv, TypeOK, HeapOrder, InOrder
<1>3. CASE Pop
  BY <1>3, PopIInv
<1>4. CASE Sift
  BY <1>4, UpSwapIInv, UpDoneIInv, DownSwapIInv, DownDoneIInv DEF Sift
<1>5. CASE CmpPanics
  <2>1. HeapOrder'
    BY <1>5 DEF CmpPanics, HeapOrder
  <2>2. TypeOK'
    BY <1>5, BoundAssumption DEF CmpPanics, IInv, TypeOK
  <2>. QED
    BY <2>1, <2>2 DEF IInv
<1>6. CASE UNCHANGED vars
  BY <1>6 DEF vars, IInv, TypeOK, HeapOrder, InOrder
<1>. QED
  BY <1>1, <1>2, <1>3, <1>4, <1>5, <1>6 DEF Next

LEMMA Invariance == Spec => []IInv
BY InitIInv, NextIInv, PTL DEF Spec

------------------------------------------------------------------------------
(* A vector in heap order has a least key first.                           *)
LEMMA LeastFirst == IInv => PeekIsLeast
<1>. SUFFICES ASSUME IInv, ~broken, pc = "idle" PROVE PeekIsLeast
  BY DEF PeekIsLeast
<1>. USE DEF IInv
<1>. DEFINE Smaller == {k \in 0 .. len - 1 : Key[data[k]] < Key[data[0]]}
<1>1. SUFFICES ASSUME Smaller # {} PROVE FALSE
  <2>1. \A x \in 0 .. len - 1 : Key[data[x]] \in Int
    BY KeyAssumption DEF TypeOK
  <2>2. len \in Nat
    BY BoundAssumption DEF TypeOK
  <2>. QED
    BY <1>1, <2>1, <2>2 DEF PeekIsLeast
<1>2. len \in Nat /\ Smaller \subseteq Nat
  BY BoundAssumption DEF TypeOK
<1>3. PICK m \in Smaller : \A k \in Smaller : <<k, m>> \notin OpToRel(<, Nat)
  BY <1>1, <1>2, NatLessThanWellFounded, WFMin, Zenon
<1>4. \A k \in Smaller : ~(k < m)
  BY <1>2, <1>3 DEF OpToRel
<1>5. m \in 1 .. len - 1
  <2>1. Key[data[0]] \in Int
    BY <1>2, KeyAssumption DEF TypeOK
  <2>2. m # 0
    BY <2>1
  <2>. QED
    BY <1>2, <2>2
<1>6. parent(m) \in 0 .. len - 1 /\ parent(m) < m
  BY <1>2, <1>5, Parents
<1>7. InOrder(parent(m), m)
  BY <1>5 DEF HeapOrder
<1>8. \A x \in 0 .. len - 1 : Key[data[x]] \in Int
  BY KeyAssumption DEF TypeOK
<1>9. parent(m) \in Smaller
  BY <1>2, <1>5, <1>6, <1>7, <1>8 DEF InOrder
<1>. QED
  BY <1>4, <1>6, <1>9

(* No index is out of bounds: the loops of heap.rs stay inside the vector, *)
(* also after a panic of cmp.                                              *)
THEOREM TypeCorrect == Spec => []TypeOK
<1>1. IInv => TypeOK
  BY DEF IInv
<1>. QED
  BY <1>1, Invariance, PTL

(* sift_up and sift_down restore the heap after each push and each pop.    *)
THEOREM OrderCorrect == Spec => []HeapOrder
<1>1. IInv => HeapOrder
  BY DEF IInv
<1>. QED
  BY <1>1, Invariance, PTL

(* peek returns an element with the least key, as long as cmp has not      *)
(* panicked.                                                               *)
THEOREM PeekCorrect == Spec => []PeekIsLeast
BY Invariance, LeastFirst, PTL

(* pop takes an element with the least key.                                *)
THEOREM PopCorrect ==
  Spec => [][Pop /\ ~broken => \A k \in 0 .. len - 1 : Key[res'] <= Key[data[k]]]_vars
<1>1. IInv => (Pop /\ ~broken => \A k \in 0 .. len - 1 : Key[res'] <= Key[data[k]])
  BY LeastFirst DEF Pop, PeekIsLeast
<1>. QED
  BY <1>1, Invariance, PTL DEF Spec

------------------------------------------------------------------------------
(* The elements of the heap as a bag.                                      *)

Where(e) == {k \in 0 .. len - 1 : data[k] = e}

LEMMA Counts ==
  ASSUME TypeOK, NEW e
  PROVE  /\ IsFiniteSet(Where(e)) /\ Count(e) = Cardinality(Where(e)) /\ Count(e) \in Nat
         /\ Count(e) > 0 <=> e \in DOMAIN Content
<1>1. len \in Nat /\ len - 1 \in Int
  BY BoundAssumption DEF TypeOK
<1>2. IsFiniteSet(0 .. len - 1) /\ Where(e) \in SUBSET (0 .. len - 1)
  BY <1>1, FS_Interval DEF Where
<1>3. IsFiniteSet(Where(e))
  BY <1>2, FS_Subset
<1>4. Count(e) = Cardinality(Where(e)) /\ Count(e) \in Nat
  BY <1>3, FS_CardinalityType DEF Count, Where
<1>5. Count(e) = 0 <=> Where(e) = {}
  BY <1>3, <1>4, FS_EmptySet
<1>6. Where(e) # {} <=> e \in DOMAIN Content
  BY DEF Where, Content
<1>7. QED
  BY <1>3, <1>4, <1>5, <1>6

(* The same after a step.                                                  *)
LEMMA CountsThen ==
  ASSUME TypeOK', NEW e
  PROVE  /\ Count(e)' = Cardinality(Where(e)') /\ Count(e)' \in Nat
         /\ Count(e)' > 0 <=> e \in DOMAIN Content'
<1>1. len' \in Nat /\ len' - 1 \in Int
  BY BoundAssumption DEF TypeOK
<1>2. IsFiniteSet(0 .. len' - 1) /\ Where(e)' \in SUBSET (0 .. len' - 1)
  BY <1>1, FS_Interval DEF Where
<1>3. IsFiniteSet(Where(e)')
  BY <1>2, FS_Subset
<1>4. Count(e)' = Cardinality(Where(e)') /\ Count(e)' \in Nat
  BY <1>3, FS_CardinalityType DEF Count, Where
<1>5. Count(e)' = 0 <=> Where(e)' = {}
  BY <1>3, <1>4, FS_EmptySet
<1>6. Where(e)' # {} <=> e \in DOMAIN Content'
  BY DEF Where, Content
<1>7. QED
  BY <1>4, <1>5, <1>6

(* A bag is as large as it counts.                                         *)
IsBag(B) == B = [x \in DOMAIN B |-> B[x]] /\ \A x \in DOMAIN B : B[x] \in Nat /\ B[x] > 0
Copies(B, x) == IF x \in DOMAIN B THEN B[x] ELSE 0

LEMMA BagEqual ==
  ASSUME NEW B, NEW C, IsBag(B), IsBag(C), \A x : Copies(B, x) = Copies(C, x)
  PROVE  B = C
<1>1. ASSUME NEW x PROVE x \in DOMAIN B <=> x \in DOMAIN C
  BY DEF IsBag, Copies
<1>2. DOMAIN B = DOMAIN C
  BY <1>1
<1>3. \A x \in DOMAIN B : B[x] = C[x]
  BY <1>2 DEF Copies
<1>4. QED
  BY <1>2, <1>3 DEF IsBag

LEMMA OneMore ==
  ASSUME NEW B, IsBag(B), NEW e
  PROVE  /\ IsBag(Queue!(+)(B, Queue!SetToBag({e})))
         /\ \A x : Copies(Queue!(+)(B, Queue!SetToBag({e})), x)
                     = Copies(B, x) + (IF x = e THEN 1 ELSE 0)
<1> DEFINE S == Queue!SetToBag({e})
           C == Queue!(+)(B, S)
<1>1. DOMAIN S = {e} /\ S[e] = 1
  BY DEF Queue!SetToBag
<1>2. C = [x \in DOMAIN B \cup {e} |-> Copies(B, x) + (IF x = e THEN 1 ELSE 0)]
  <2>1. C = [x \in DOMAIN B \cup DOMAIN S |->
               (IF x \in DOMAIN B THEN B[x] ELSE 0) + (IF x \in DOMAIN S THEN S[x] ELSE 0)]
    BY DEF Queue!(+)
  <2>2. \A x \in DOMAIN B \cup {e} :
          (IF x \in DOMAIN S THEN S[x] ELSE 0) = IF x = e THEN 1 ELSE 0
    BY <1>1
  <2> HIDE DEF S, C
  <2>3. QED
    BY <1>1, <2>1, <2>2 DEF Copies
<1> HIDE DEF S, C
<1>3. \A x : Copies(B, x) \in Nat
  BY DEF IsBag, Copies
<1>4. DOMAIN C = DOMAIN B \cup {e}
  BY <1>2
<1>5. ASSUME NEW x PROVE Copies(C, x) = Copies(B, x) + (IF x = e THEN 1 ELSE 0)
  <2>1. CASE x \in DOMAIN C
    BY <1>2, <1>4, <2>1 DEF Copies
  <2>2. CASE x \notin DOMAIN C
    BY <1>4, <2>2 DEF Copies
  <2>3. QED
    BY <2>1, <2>2
<1>6. IsBag(C)
  <2>1. ASSUME NEW x \in DOMAIN C PROVE C[x] \in Nat /\ C[x] > 0
    <3>1. x # e => Copies(B, x) > 0
      BY <1>4, <2>1 DEF IsBag, Copies
    <3>2. C[x] = Copies(B, x) + (IF x = e THEN 1 ELSE 0)
      BY <1>5 DEF Copies
    <3>3. QED
      BY <1>3, <3>1, <3>2
  <2>2. C = [x \in DOMAIN C |-> C[x]]
    BY <1>2, <1>4
  <2>3. QED
    BY <2>1, <2>2 DEF IsBag
<1>7. QED
  BY <1>5, <1>6 DEF C, S

LEMMA OneLess ==
  ASSUME NEW B, IsBag(B), NEW e \in DOMAIN B
  PROVE  /\ IsBag(Queue!(-)(B, Queue!SetToBag({e})))
         /\ \A x : Copies(Queue!(-)(B, Queue!SetToBag({e})), x)
                     = Copies(B, x) - (IF x = e THEN 1 ELSE 0)
<1> DEFINE S == Queue!SetToBag({e})
           C == Queue!(-)(B, S)
           D == [x \in DOMAIN B |-> IF x \in DOMAIN S THEN B[x] - S[x] ELSE B[x]]
<1>1. DOMAIN S = {e} /\ S[e] = 1
  BY DEF Queue!SetToBag
<1>2. C = [x \in {d \in DOMAIN D : D[d] > 0} |-> D[x]]
  BY DEF Queue!(-)
<1>3. DOMAIN D = DOMAIN B
  OBVIOUS
<1>4. ASSUME NEW x \in DOMAIN B PROVE D[x] = B[x] - (IF x = e THEN 1 ELSE 0) /\ D[x] \in Nat
  <2>1. B[x] \in Nat /\ B[x] > 0
    BY DEF IsBag
  <2>2. x = e => D[x] = B[x] - 1
    BY <1>1
  <2>3. x # e => D[x] = B[x]
    BY <1>1
  <2> HIDE DEF D, S
  <2>4. QED
    BY <2>1, <2>2, <2>3
<1> HIDE DEF S, C, D
<1>5. DOMAIN C = {d \in DOMAIN B : D[d] > 0} /\ \A x \in DOMAIN C : C[x] = D[x]
  BY <1>2, <1>3
<1>6. ASSUME NEW x PROVE Copies(C, x) = Copies(B, x) - (IF x = e THEN 1 ELSE 0)
  <2>1. CASE x \in DOMAIN C
    BY <1>4, <1>5, <2>1 DEF Copies
  <2>2. CASE x \in DOMAIN B /\ x \notin DOMAIN C
    <3>1. D[x] = 0
      BY <1>4, <1>5, <2>2
    <3>2. QED
      BY <1>4, <2>2, <3>1 DEF Copies
  <2>3. CASE x \notin DOMAIN B
    BY <1>5, <2>3 DEF Copies
  <2>4. QED
    BY <2>1, <2>2, <2>3
<1>7. IsBag(C)
  <2>1. C = [x \in DOMAIN C |-> C[x]]
    BY <1>2
  <2>2. QED
    BY <1>4, <1>5, <2>1 DEF IsBag
<1>8. QED
  BY <1>6, <1>7 DEF C, S

LEMMA ContentNow ==
  ASSUME TypeOK
  PROVE  IsBag(Content) /\ \A e : Copies(Content, e) = Count(e)
<1>1. \A e \in DOMAIN Content : Content[e] = Count(e)
  BY DEF Content
<1>2. \A e : Count(e) \in Nat /\ (Count(e) > 0 <=> e \in DOMAIN Content)
  BY Counts
<1>3. Content = [e \in DOMAIN Content |-> Content[e]]
  BY DEF Content
<1>4. QED
  BY <1>1, <1>2, <1>3 DEF IsBag, Copies

LEMMA ContentThen ==
  ASSUME TypeOK'
  PROVE  IsBag(Content') /\ \A e : Copies(Content', e) = Count(e)'
<1>1. \A e \in DOMAIN Content' : Content'[e] = Count(e)'
  BY DEF Content
<1>2. \A e : Count(e)' \in Nat /\ (Count(e)' > 0 <=> e \in DOMAIN Content')
  BY CountsThen
<1>3. Content' = [e \in DOMAIN Content' |-> Content'[e]]
  BY DEF Content
<1>4. QED
  BY <1>1, <1>2, <1>3 DEF IsBag, Copies

(* What the steps do to the bag.                                           *)
LEMMA PushBag ==
  ASSUME TypeOK, TypeOK', NEW e \in Elements, Push(e)
  PROVE  Content' = Queue!(+)(Content, Queue!SetToBag({e}))
<1>1. /\ len \in Nat /\ len' = len + 1
      /\ data' = [k \in 0 .. len |-> IF k = len THEN e ELSE data[k]]
  BY BoundAssumption DEF Push, TypeOK
<1>2. ASSUME NEW x PROVE Count(x)' = Count(x) + (IF x = e THEN 1 ELSE 0)
  <2>1. PICK W : W = Where(x)'
    OBVIOUS
  <2>2. W = (IF x = e THEN Where(x) \cup {len} ELSE Where(x)) /\ len \notin Where(x)
    BY <1>1, <2>1 DEF Where
  <2>3. IsFiniteSet(Where(x)) /\ Count(x) = Cardinality(Where(x)) /\ Count(x) \in Nat
    BY Counts
  <2>4. Count(x)' = Cardinality(W)
    BY <2>1, CountsThen
  <2>5. Cardinality(Where(x) \cup {len}) = Cardinality(Where(x)) + 1
    BY <2>2, <2>3, FS_AddElement
  <2>6. QED
    BY <2>2, <2>3, <2>4, <2>5
<1>3. /\ IsBag(Content) /\ IsBag(Content')
      /\ \A x : Copies(Content, x) = Count(x) /\ Copies(Content', x) = Count(x)'
  BY ContentNow, ContentThen
<1>4. PICK B, C : B = Content /\ C = Content'
  OBVIOUS
<1>5. PICK D : D = Queue!(+)(B, Queue!SetToBag({e}))
  OBVIOUS
<1>6. /\ IsBag(B) /\ IsBag(C)
      /\ \A x : Copies(C, x) = Copies(B, x) + (IF x = e THEN 1 ELSE 0)
  BY <1>2, <1>3, <1>4
<1>7. /\ IsBag(D)
      /\ \A x : Copies(D, x) = Copies(B, x) + (IF x = e THEN 1 ELSE 0)
  BY <1>5, <1>6, OneMore
<1>8. C = D
  BY <1>6, <1>7, BagEqual
<1>9. QED
  BY <1>4, <1>5, <1>8

(* Where an element is in a vector whose last place n - 1 has moved to     *)
(* place 0, given where it was.                                            *)
LEMMA LastMoved ==
  ASSUME NEW n \in Nat, n > 0, NEW V \in SUBSET (0 .. n - 1), NEW W,
         \A k : k \in W <=> /\ k \in 0 .. n - 2
                            /\ k = 0 => n - 1 \in V
                            /\ k # 0 => k \in V
  PROVE  /\ 0 \in V /\ n - 1 \in V => W = V \ {n - 1}
         /\ 0 \in V /\ n - 1 \notin V => W = V \ {0}
         /\ 0 \notin V /\ n - 1 \in V => W = (V \ {n - 1}) \cup {0}
         /\ 0 \notin V /\ n - 1 \notin V => W = V
<1>1. \A k : k \in 0 .. n - 2 <=> k \in 0 .. n - 1 /\ k # n - 1
  OBVIOUS
<1>2. \A k : k \in V => k \in 0 .. n - 1
  OBVIOUS
<1>3. 0 \in 0 .. n - 1
  OBVIOUS
<1>4. PICK m : m = n - 1
  OBVIOUS
<1>5. PICK I : I = 0 .. n - 1
  OBVIOUS
<1>6. \A k : k \in W <=> /\ k \in I /\ k # m
                         /\ k = 0 => m \in V
                         /\ k # 0 => k \in V
  BY <1>1, <1>4, <1>5
<1>7. (\A k : k \in V => k \in I) /\ 0 \in I
  BY <1>2, <1>3, <1>5
<1>8. /\ 0 \in V /\ m \in V => W = V \ {m}
      /\ 0 \in V /\ m \notin V => W = V \ {0}
      /\ 0 \notin V /\ m \in V => W = (V \ {m}) \cup {0}
      /\ 0 \notin V /\ m \notin V => W = V
  <2>1. CASE 0 \in V /\ m \in V
    <3>1. \A k : k \in W <=> k \in V \ {m}
      BY <1>6, <1>7, <2>1
    <3>2. QED
      BY <2>1, <3>1
  <2>2. CASE 0 \in V /\ m \notin V
    <3>1. \A k : k \in W <=> k \in V \ {0}
      BY <1>6, <1>7, <2>2
    <3>2. QED
      BY <2>2, <3>1
  <2>3. CASE 0 \notin V /\ m \in V
    <3>1. \A k : k \in W <=> k \in (V \ {m}) \cup {0}
      BY <1>6, <1>7, <2>3
    <3>2. QED
      BY <2>3, <3>1
  <2>4. CASE 0 \notin V /\ m \notin V
    <3>1. \A k : k \in W <=> k \in V
      BY <1>6, <1>7, <2>4
    <3>2. QED
      BY <2>4, <3>1
  <2>5. QED
    BY <2>1, <2>2, <2>3, <2>4
<1>9. QED
  BY <1>4, <1>8

LEMMA PopBag ==
  ASSUME TypeOK, TypeOK', Pop
  PROVE  /\ res' \in DOMAIN Content
         /\ Content' = Queue!(-)(Content, Queue!SetToBag({res'}))
<1>1. /\ len \in Nat /\ len > 0 /\ len' = len - 1 /\ res' = data[0]
      /\ data' = [k \in 0 .. len - 2 |-> IF k = 0 THEN data[len - 1] ELSE data[k]]
  BY BoundAssumption DEF Pop, TypeOK
<1>2. PICK e : e = data[0]
  OBVIOUS
<1>3. ASSUME NEW x PROVE Count(x)' = Count(x) - (IF x = e THEN 1 ELSE 0)
  <2>1. PICK W : W = Where(x)'
    OBVIOUS
  <2>2. PICK V : V = Where(x)
    OBVIOUS
  <2>3. IsFiniteSet(V) /\ Count(x) = Cardinality(V) /\ Count(x) \in Nat
    BY <2>2, Counts
  <2>4. Count(x)' = Cardinality(W)
    BY <2>1, CountsThen
  <2>5. 0 \in V <=> x = e
    BY <1>1, <1>2, <2>2 DEF Where
  <2>6. len - 1 \in V <=> data[len - 1] = x
    BY <1>1, <2>2 DEF Where
  <2>7. \A k : k \in W <=> /\ k \in 0 .. len - 2
                           /\ k = 0 => len - 1 \in V
                           /\ k # 0 => k \in V
    BY <1>1, <2>1, <2>2, <2>6 DEF Where
  <2>8. /\ 0 \in V /\ len - 1 \in V => W = V \ {len - 1}
        /\ 0 \in V /\ len - 1 \notin V => W = V \ {0}
        /\ 0 \notin V /\ len - 1 \in V => W = (V \ {len - 1}) \cup {0}
        /\ 0 \notin V /\ len - 1 \notin V => W = V
    <3>1. V \in SUBSET (0 .. len - 1)
      BY <2>2 DEF Where
    <3>2. QED
      BY <1>1, <2>7, <3>1, LastMoved
  <2>9. CASE x = e /\ len - 1 \in V
    <3>1. W = V \ {len - 1}
      BY <2>5, <2>8, <2>9
    <3>2. Cardinality(W) = Cardinality(V) - 1
      BY <2>3, <2>9, <3>1, FS_RemoveElement
    <3>3. QED
      BY <2>3, <2>4, <2>9, <3>2
  <2>10. CASE x = e /\ len - 1 \notin V
    <3>1. W = V \ {0} /\ 0 \in V
      BY <2>5, <2>8, <2>10
    <3>2. Cardinality(W) = Cardinality(V) - 1
      BY <2>3, <3>1, FS_RemoveElement
    <3>3. QED
      BY <2>3, <2>4, <2>10, <3>2
  <2>11. CASE x # e /\ len - 1 \in V
    <3>1. W = (V \ {len - 1}) \cup {0} /\ 0 \notin V
      BY <2>5, <2>8, <2>11
    <3>2. PICK U : U = V \ {len - 1}
      OBVIOUS
    <3>3. IsFiniteSet(U) /\ Cardinality(U) = Cardinality(V) - 1
      BY <2>3, <2>11, <3>2, FS_RemoveElement
    <3>4. Cardinality(W) = Cardinality(U) + 1
      BY <3>1, <3>2, <3>3, FS_AddElement
    <3>5. QED
      BY <2>3, <2>4, <2>11, <3>3, <3>4
  <2>12. CASE x # e /\ len - 1 \notin V
    <3>1. W = V
      BY <2>5, <2>8, <2>12
    <3>2. QED
      BY <2>3, <2>4, <2>12, <3>1
  <2>13. QED
    BY <2>9, <2>10, <2>11, <2>12
<1>4. /\ IsBag(Content) /\ IsBag(Content')
      /\ \A x : Copies(Content, x) = Count(x) /\ Copies(Content', x) = Count(x)'
  BY ContentNow, ContentThen
<1>5. e \in DOMAIN Content
  BY <1>1, <1>2 DEF Content
<1>6. PICK B, C : B = Content /\ C = Content'
  OBVIOUS
<1>7. PICK D : D = Queue!(-)(B, Queue!SetToBag({e}))
  OBVIOUS
<1>8. /\ IsBag(B) /\ IsBag(C) /\ e \in DOMAIN B
      /\ \A x : Copies(C, x) = Copies(B, x) - (IF x = e THEN 1 ELSE 0)
  BY <1>3, <1>4, <1>5, <1>6
<1>9. /\ IsBag(D)
      /\ \A x : Copies(D, x) = Copies(B, x) - (IF x = e THEN 1 ELSE 0)
  BY <1>7, <1>8, OneLess
<1>10. C = D
  BY <1>8, <1>9, BagEqual
<1>11. QED
  BY <1>1, <1>2, <1>5, <1>6, <1>7, <1>10

LEMMA SwapBag ==
  ASSUME TypeOK, TypeOK', NEW a \in 0 .. len - 1, NEW b \in 0 .. len - 1, a # b,
         data' = Swapped(a, b), len' = len
  PROVE  Content' = Content
<1>1. /\ data'[a] = data[b] /\ data'[b] = data[a]
      /\ \A k \in (0 .. len - 1) \ {a, b} : data'[k] = data[k]
  BY SwapFacts
<1>2. ASSUME NEW x PROVE Count(x)' = Count(x)
  <2>1. PICK W, V : W = Where(x)' /\ V = Where(x)
    OBVIOUS
  <2>2. IsFiniteSet(V) /\ Count(x) = Cardinality(V) /\ Count(x) \in Nat
    BY <2>1, Counts
  <2>3. Count(x)' = Cardinality(W)
    BY <2>1, CountsThen
  <2>4. /\ a \in W <=> b \in V
        /\ b \in W <=> a \in V
        /\ \A k : k # a /\ k # b => (k \in W <=> k \in V)
    BY <1>1, <2>1 DEF Where
  <2>5. ASSUME NEW c, NEW d, c # d, c \in V, d \notin V, W = (V \ {c}) \cup {d}
        PROVE  Cardinality(W) = Cardinality(V)
    <3>1. PICK U : U = V \ {c}
      OBVIOUS
    <3>2. IsFiniteSet(U) /\ Cardinality(U) = Cardinality(V) - 1
      BY <2>2, <2>5, <3>1, FS_RemoveElement
    <3>3. Cardinality(W) = Cardinality(U) + 1
      BY <2>5, <3>1, <3>2, FS_AddElement
    <3>4. QED
      BY <2>2, <3>2, <3>3
  <2>6. CASE a \in V <=> b \in V
    <3>1. W = V
      BY <2>4, <2>6
    <3>2. QED
      BY <2>2, <2>3, <3>1
  <2>7. CASE a \in V /\ b \notin V
    <3>1. W = (V \ {a}) \cup {b}
      BY <2>4, <2>7
    <3>2. QED
      BY <2>2, <2>3, <2>5, <2>7, <3>1
  <2>8. CASE a \notin V /\ b \in V
    <3>1. W = (V \ {b}) \cup {a}
      BY <2>4, <2>8
    <3>2. QED
      BY <2>2, <2>3, <2>5, <2>8, <3>1
  <2>9. QED
    BY <2>6, <2>7, <2>8
<1>3. PICK B, C : B = Content /\ C = Content'
  OBVIOUS
<1>4. /\ IsBag(B) /\ IsBag(C)
      /\ \A x : Copies(B, x) = Copies(C, x)
  BY <1>2, <1>3, ContentNow, ContentThen
<1>5. B = C
  BY <1>4, BagEqual
<1>6. QED
  BY <1>3, <1>5

LEMMA QueueNext == IInv /\ IInv' /\ [Next]_vars => [Queue!Next]_<<Content, broken, Call, Taken>>
<1> SUFFICES ASSUME IInv, IInv', [Next]_vars
             PROVE  Queue!Next \/ UNCHANGED <<Content, broken, Call, Taken>>
  OBVIOUS
<1> USE DEF IInv
<1>1. ASSUME NEW e \in Elements, Push(e) PROVE Queue!Next
  <2>1. Content' = Queue!(+)(Content, Queue!SetToBag({e}))
    BY <1>1, PushBag
  <2>2. Call = "idle" /\ Call' = "push" /\ Taken' = Taken /\ broken' = broken
    BY <1>1 DEF Push, Call, Taken
  <2>3. Queue!Push(e)
    BY <2>1, <2>2 DEF Queue!Push
  <2>4. QED
    BY <2>3 DEF Queue!Next
<1>2. CASE PopEmpty
  <2>1. Call = "idle" /\ Call' = Call /\ broken' = broken /\ Taken' = None
    BY <1>2 DEF PopEmpty, Call, Taken
  <2>2. Content' = Content
    BY <1>2 DEF PopEmpty, Content, Count
  <2>3. Content = Queue!EmptyBag
    <3>1. {data[k] : k \in 0 .. len - 1} = {}
      BY <1>2 DEF PopEmpty
    <3>2. QED
      BY <3>1 DEF Content, Queue!EmptyBag, Queue!SetToBag
  <2>4. Queue!PopNothing
    BY <2>1, <2>2, <2>3 DEF Queue!PopNothing
  <2>5. QED
    BY <2>4 DEF Queue!Next
<1>3. CASE Pop
  <2>1. /\ res' \in DOMAIN Content
        /\ Content' = Queue!(-)(Content, Queue!SetToBag({res'}))
    BY <1>3, PopBag
  <2>2. /\ Call = "idle" /\ Call' = "pop" /\ Taken' = res' /\ broken' = broken
        /\ res' = data[0]
    BY <1>3 DEF Pop, Call, Taken
  <2>3. broken \/ Queue!Least(res')
    <3>1. CASE ~broken
      <4>1. \A k \in 0 .. len - 1 : Key[data[0]] <= Key[data[k]]
        BY <1>3, <3>1, LeastFirst DEF Pop, PeekIsLeast
      <4>2. \A f \in DOMAIN Content : \E k \in 0 .. len - 1 : f = data[k]
        BY DEF Content
      <4>3. QED
        BY <2>2, <4>1, <4>2 DEF Queue!Least, Queue!BagToSet
    <3>2. QED
      BY <3>1
  <2>4. PICK r : r = res'
    OBVIOUS
  <2>5. Queue!Pop
    BY <2>1, <2>2, <2>3, <2>4 DEF Queue!Pop, Queue!BagToSet, Queue!Least
  <2>6. QED
    BY <2>5 DEF Queue!Next
<1>4. CASE UpSwap
  <2>1. /\ parent(i) \in 0 .. len - 1 /\ i \in 0 .. len - 1 /\ parent(i) # i
        /\ data' = Swapped(i, parent(i)) /\ UNCHANGED <<len, pc, res, ret, broken>>
    BY <1>4, Parents, BoundAssumption DEF UpSwap, TypeOK
  <2>2. Content' = Content
    BY <2>1, SwapBag
  <2>3. QED
    BY <2>1, <2>2 DEF Call, Taken
<1>5. CASE DownSwap
  <2>1. /\ i \in 0 .. len - 1 /\ left(i) < len
    BY <1>5, Children, BoundAssumption DEF DownSwap, TypeOK
  <2>2. child(i) \in 0 .. len - 1 /\ child(i) # i
    BY <2>1, ChildChoice, BoundAssumption DEF TypeOK
  <2>3. data' = Swapped(i, child(i)) /\ UNCHANGED <<len, pc, res, ret, broken>>
    BY <1>5 DEF DownSwap
  <2>4. Content' = Content
    BY <2>1, <2>2, <2>3, SwapBag
  <2>5. QED
    BY <2>3, <2>4 DEF Call, Taken
<1>6. CASE UpDone \/ DownDone
  <2>1. Call # "idle" /\ Call' = "idle" /\ Taken' = Taken /\ broken' = broken
    BY <1>6 DEF UpDone, DownDone, Call, Taken
  <2>2. Content' = Content
    BY <1>6 DEF UpDone, DownDone, Content, Count
  <2>3. Queue!Return
    BY <2>1, <2>2 DEF Queue!Return
  <2>4. QED
    BY <2>3 DEF Queue!Next
<1>7. CASE CmpPanics
  <2>1. /\ Call # "idle" /\ Call' = "idle" /\ broken' = TRUE
        /\ Taken' = IF Call = "pop" THEN None ELSE Taken
    BY <1>7 DEF CmpPanics, Comparing, Call, Taken
  <2>2. Content' = Content
    BY <1>7 DEF CmpPanics, Content, Count
  <2>3. Queue!Abort
    BY <2>1, <2>2 DEF Queue!Abort
  <2>4. QED
    BY <2>3 DEF Queue!Next
<1>8. CASE UNCHANGED vars
  BY <1>8 DEF vars, Content, Count, Call, Taken
<1>9. QED
  BY <1>1, <1>2, <1>3, <1>4, <1>5, <1>6, <1>7, <1>8 DEF Next, Sift

LEMMA QueueInit == Init => Queue!Init
<1> SUFFICES ASSUME Init PROVE Queue!Init
  OBVIOUS
<1>1. {data[k] : k \in 0 .. len - 1} = {}
  BY DEF Init
<1>2. Content = Queue!EmptyBag
  BY <1>1 DEF Content, Queue!EmptyBag, Queue!SetToBag
<1>3. QED
  BY <1>2 DEF Init, Queue!Init, Call, Taken

(* heap.rs is a priority queue: what the sifts do is invisible, no element *)
(* is lost or doubled, not even by a panic of cmp, and, as long as it has  *)
(* not panicked, pop takes an element with the least key.                  *)
THEOREM IsPriorityQueue == Spec => PriorityQueueSpec
  BY QueueInit, QueueNext, Invariance, PTL DEF Spec, PriorityQueueSpec, Queue!Spec
==============================================================================
