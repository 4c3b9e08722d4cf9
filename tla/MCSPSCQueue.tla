----------------------------- MODULE MCSPSCQueue -----------------------------
(***************************************************************************)
(* TLC instances of SPSCQueue.  The values are interchangeable.            *)
(***************************************************************************)
EXTENDS SPSCQueue, TLC

Symmetry == Permutations(Values)
==============================================================================
