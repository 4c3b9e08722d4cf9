-------------------------- MODULE MCBlockingQueue --------------------------
(* Setups for TLC.  A thread with no calls to make takes no part.         *)
EXTENDS BlockingQueue, FiniteSets

CONSTANTS p1, p2, c1, c2

Quotas(a, b, c, d) ==
  [t \in Threads |-> CASE t = p1 -> a [] t = p2 -> b [] t = c1 -> c [] t = c2 -> d]

Setup(how, one, calls) == [waiting |-> how, shared |-> one, calls |-> calls]

(* One thread on a side at least, and two objects when the other has two;  *)
(* or waiters that do not sleep, however they are used.                    *)
SoundSetups ==
  {Setup("blocking", one, Quotas(4, 0, 4, 0)) : one \in BOOLEAN}
    \cup {Setup("blocking", FALSE, Quotas(4, 0, 2, 2)),
          Setup("blocking", FALSE, Quotas(2, 2, 4, 0)),
          Setup("yielding", TRUE, Quotas(2, 2, 2, 2))}

SharedSetups == {Setup("blocking", TRUE, Quotas(2, 2, 2, 2))}

SeparateSetups == {Setup("blocking", FALSE, Quotas(2, 2, 2, 2))}
=============================================================================
