-------------------------------- MODULE Heap --------------------------------
(***************************************************************************)
(* algors-heap/src/heap.rs: a binary heap in one vector.  Each iteration   *)
(* of sift_up and sift_down is a step, since each of them calls cmp, which *)
(* belongs to the user.  cmp orders by a key and two elements may share    *)
(* it; cmp may also panic, and the heap outlives the unwinding call.       *)
(*                                                                         *)
(* Operators whose name has a suffix after an underscore are bugs that     *)
(* the properties must notice.                                             *)
(***************************************************************************)
EXTENDS Integers, FiniteSets

CONSTANTS
  Elements,   \* what the heap may hold
  Key,        \* the key of each element, by which cmp compares
  None,       \* Option::None
  MaxLen,     \* bound on the length of the heap
  Panics      \* whether cmp may panic

ASSUME KeyAssumption == Key \in [Elements -> Int]
ASSUME NoneAssumption == None \notin Elements
ASSUME BoundAssumption == MaxLen \in Nat

VARIABLES
  data,       \* the elements, indexed from 0
  len,
  pc,         \* "idle", "up" or "down"
  i,          \* the index of the element being sifted
  res,        \* pop: the element taken
  ret,        \* what the last pop returned
  broken      \* whether cmp has panicked in a call

vars == <<data, len, pc, i, res, ret, broken>>

left(k) == 2 * k + 1
right(k) == 2 * k + 2
parent(k) == (k - 1) \div 2

Greater(a, b) == Key[a] > Key[b]
Swapped(a, b) == [data EXCEPT ![a] = data[b], ![b] = data[a]]

Init ==
  /\ data = [k \in {} |-> None]
  /\ len = 0
  /\ pc = "idle"
  /\ i = 0
  /\ res = None
  /\ ret = None
  /\ broken = FALSE

Push_pastEnd(e) ==
  /\ pc = "idle"
  /\ len < MaxLen
  /\ data' = [k \in 0 .. len |-> IF k = len THEN e ELSE data[k]]
  /\ len' = len + 1
  /\ pc' = "up"
  /\ i' = len + 1
  /\ UNCHANGED <<res, ret, broken>>

Push(e) ==
  /\ pc = "idle"
  /\ len < MaxLen
  /\ data' = [k \in 0 .. len |-> IF k = len THEN e ELSE data[k]]
  /\ len' = len + 1
  /\ pc' = "up"
  /\ i' = len
  /\ UNCHANGED <<res, ret, broken>>

PopEmpty ==
  /\ pc = "idle"
  /\ len = 0
  /\ ret' = None
  /\ UNCHANGED <<data, len, pc, i, res, broken>>

Pop_unswapped ==
  /\ pc = "idle"
  /\ len > 0
  /\ res' = data[len - 1]
  /\ data' = [k \in 0 .. len - 2 |-> data[k]]
  /\ len' = len - 1
  /\ pc' = "down"
  /\ i' = 0
  /\ UNCHANGED <<ret, broken>>

(* data.swap(0, last); data.pop()                                          *)
Pop ==
  /\ pc = "idle"
  /\ len > 0
  /\ res' = data[0]
  /\ data' = [k \in 0 .. len - 2 |-> IF k = 0 THEN data[len - 1] ELSE data[k]]
  /\ len' = len - 1
  /\ pc' = "down"
  /\ i' = 0
  /\ UNCHANGED <<ret, broken>>

UpSwap ==
  /\ pc = "up"
  /\ i > 0
  /\ Greater(data[parent(i)], data[i])
  /\ data' = Swapped(i, parent(i))
  /\ i' = parent(i)
  /\ UNCHANGED <<len, pc, res, ret, broken>>

UpDone ==
  /\ pc = "up"
  /\ i > 0 => ~Greater(data[parent(i)], data[i])
  /\ pc' = "idle"
  /\ i' = 0
  /\ UNCHANGED <<data, len, res, ret, broken>>

child_left(k) == left(k)

(* The child to compare with: the right one only if it is strictly less.   *)
child(k) ==
  IF right(k) < len /\ Greater(data[left(k)], data[right(k)])
  THEN right(k) ELSE left(k)

DownSwap ==
  /\ pc = "down"
  /\ left(i) < len
  /\ Greater(data[i], data[child(i)])
  /\ data' = Swapped(i, child(i))
  /\ i' = child(i)
  /\ UNCHANGED <<len, pc, res, ret, broken>>

DownDone ==
  /\ pc = "down"
  /\ left(i) < len => ~Greater(data[i], data[child(i)])
  /\ pc' = "idle"
  /\ i' = 0
  /\ ret' = res
  /\ res' = None
  /\ UNCHANGED <<data, len, broken>>

(* cmp is called in an iteration, but with one element at most it is not.  *)
Comparing == \/ pc = "up" /\ i > 0
             \/ pc = "down" /\ left(i) < len

CmpPanics ==
  /\ Panics
  /\ Comparing
  /\ pc' = "idle"
  /\ i' = 0
  /\ res' = None
  /\ ret' = IF pc = "down" THEN None ELSE ret
  /\ broken' = TRUE
  /\ UNCHANGED <<data, len>>

Sift == UpSwap \/ UpDone \/ DownSwap \/ DownDone

Next == (\E e \in Elements : Push(e)) \/ PopEmpty \/ Pop \/ Sift \/ CmpPanics

Spec == Init /\ [][Next]_vars

------------------------------------------------------------------------------
(* The vector has len elements and the element being sifted is one of      *)
(* them, unless the pop has emptied the heap: no index is out of bounds.   *)
TypeOK ==
  /\ len \in 0 .. MaxLen
  /\ data \in [0 .. len - 1 -> Elements]
  /\ pc \in {"idle", "up", "down"}
  /\ i \in 0 .. (IF pc = "up" THEN len - 1 ELSE IF len = 0 THEN 0 ELSE len - 1)
  /\ res \in Elements \cup {None}
  /\ ret \in Elements \cup {None}
  /\ broken \in BOOLEAN

InOrder(a, b) == Key[data[a]] <= Key[data[b]]

(* While an element is sifted only the pairs it is in may be out of order, *)
(* on the side it moves to, and skipping it would leave a heap: between    *)
(* calls the vector is a heap as long as cmp has not panicked.             *)
HeapOrder ==
  ~broken =>
    \A k \in 1 .. len - 1 :
      /\ InOrder(parent(k), k) \/ (pc = "up" /\ k = i)
                               \/ (pc = "down" /\ parent(k) = i)
      /\ pc # "idle" /\ parent(k) = i /\ i > 0 => InOrder(parent(i), k)

(* Between calls peek, which looks at the first element only, sees one     *)
(* with the least key, however far down the heap its rivals are.           *)
PeekIsLeast ==
  ~broken /\ pc = "idle" =>
    \A k \in 0 .. len - 1 : Key[data[0]] <= Key[data[k]]

Count(e) == Cardinality({k \in 0 .. len - 1 : data[k] = e})

Content == [e \in {data[k] : k \in 0 .. len - 1} |-> Count(e)]
Call == CASE pc = "idle" -> "idle" [] pc = "up" -> "push" [] pc = "down" -> "pop"
Taken == IF pc = "down" THEN res ELSE ret

Queue == INSTANCE PriorityQueue WITH bag <- Content, call <- Call, ret <- Taken

(* heap.rs is a priority queue: what is pushed comes out once, least key   *)
(* first, whatever the sifting does in between; after a panic of cmp the   *)
(* elements are still all there.                                           *)
PriorityQueueSpec == Queue!Spec
==============================================================================
