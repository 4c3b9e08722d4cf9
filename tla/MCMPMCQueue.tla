---------------------------- MODULE MCMPMCQueue ----------------------------
(* MPMCQueue for TLC: threads of one kind run the same code, and no test  *)
(* or assignment of the model looks into a value.                         *)
EXTENDS MPMCQueue, TLC

Symmetry ==
  Permutations(Producers) \cup Permutations(Consumers) \cup Permutations(Values)

(* FairSpec with the handles kept: a thread without one is like a thread  *)
(* that makes no call, since fairness asks nobody to begin a call.        *)
LiveSpec == Init /\ [][Next /\ UNCHANGED handles]_vars /\ Fairness
=============================================================================
