---------------------------- MODULE PriorityQueue ----------------------------
(***************************************************************************)
(* What a priority queue promises: elements go in and come out, each as    *)
(* often as it went in, and a pop takes an element with the least key.  A  *)
(* call that the comparison function aborted leaves the elements but may   *)
(* lose that order for good.                                               *)
(***************************************************************************)
EXTENDS Integers, Bags

CONSTANTS Elements, Key, None

VARIABLES
  bag,        \* the elements queued
  broken,     \* whether a comparison has aborted a call
  call,       \* the call in progress: "idle", "push", or "pop"
  ret         \* what the last pop took

Least(e) == \A f \in BagToSet(bag) : Key[e] <= Key[f]

Init ==
  /\ bag = EmptyBag
  /\ broken = FALSE
  /\ call = "idle"
  /\ ret = None

Push(e) ==
  /\ call = "idle"
  /\ bag' = bag (+) SetToBag({e})
  /\ call' = "push"
  /\ UNCHANGED <<broken, ret>>

Pop ==
  /\ call = "idle"
  /\ \E e \in BagToSet(bag) :
       /\ broken \/ Least(e)
       /\ bag' = bag (-) SetToBag({e})
       /\ ret' = e
  /\ call' = "pop"
  /\ UNCHANGED broken

PopNothing ==
  /\ call = "idle"
  /\ bag = EmptyBag
  /\ ret' = None
  /\ UNCHANGED <<bag, broken, call>>

Return ==
  /\ call # "idle"
  /\ call' = "idle"
  /\ UNCHANGED <<bag, broken, ret>>

(* The caller does not get what an aborted pop took: it is destroyed.      *)
Abort ==
  /\ call # "idle"
  /\ call' = "idle"
  /\ broken' = TRUE
  /\ ret' = IF call = "pop" THEN None ELSE ret
  /\ UNCHANGED bag

Next == (\E e \in Elements : Push(e)) \/ Pop \/ PopNothing \/ Return \/ Abort

Spec == Init /\ [][Next]_<<bag, broken, call, ret>>
==============================================================================
