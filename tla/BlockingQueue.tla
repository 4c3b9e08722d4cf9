---------------------------- MODULE BlockingQueue ----------------------------
(***************************************************************************)
(* push and pop: the waiters of algors-utils/src/waiter.rs around try_push *)
(* and try_pop, and the notifications between the two sides of a queue.    *)
(*                                                                         *)
(* The queue is a TicketRing: an attempt claims or takes a slot, or is     *)
(* refused, in one step, and hands the slot on in a second.  MPMCQueue     *)
(* and SPSCQueue are shown to claim, take and hand on in just that way.    *)
(* A refusal is theirs, too: it says that the slot the thread looks at is  *)
(* not free or not full, but for a store the thread may not see yet.       *)
(* Their RefusalIsHonest says which: see Unseen.                           *)
(*                                                                         *)
(* A thread sees of BlockingWait::state only whether it still equals the   *)
(* `prev' it read: moved[t] says that it does not.  notify adds 1, and the *)
(* 2^64 notifications it takes to come round are out of reach.             *)
(***************************************************************************)
EXTENDS TicketRing, FiniteSets

CONSTANTS
  StaleLoads,   \* TRUE: an attempt may miss a store, see Unseen
  SpinTries,    \* backoff.done() after so many spins: YIELD_MAX
  Setups        \* how a program may use the queue, see SetupsAssumption

(* A program has finitely many threads.                                    *)
ASSUME FiniteAssumption == IsFiniteSet(Threads)
ASSUME LoadsAssumption == StaleLoads \in BOOLEAN
ASSUME SpinAssumption == SpinTries \in Nat \ {0}

(* waiting: "blocking" for BlockingWait, "yielding" for YieldWait and      *)
(* SpinWait.  shared: waiter and notifier are one object.  calls: how many *)
(* times each thread calls push or pop.                                    *)
ASSUME SetupsAssumption ==
  \A s \in Setups : /\ s.waiting \in {"blocking", "yielding"}
                    /\ s.shared \in BOOLEAN
                    /\ s.calls \in [Threads -> Nat]

VARIABLES
  waiting, shared, \* the setup
  todo,         \* each thread: calls not yet begun
  pc,           \* each thread: where it is in push, pop or wait_for
  count,        \* each thread: Backoff::count
  moved,        \* each thread: *state is not prev any more
  handed        \* each thread: the slot it handed on last

threadVars == <<todo, pc, count, moved, handed>>
setup == <<waiting, shared>>
vars == <<ringVars, threadVars, setup>>

(* The object a thread passes as `waiter', and the one as `notifier'.      *)
WaiterOf(t) == IF shared THEN "both" ELSE IF t \in Producers THEN "push" ELSE "pop"

NotifierOf(t) == IF shared THEN "both" ELSE IF t \in Producers THEN "pop" ELSE "push"

Init ==
  /\ RingInit
  /\ \E s \in Setups : waiting = s.waiting /\ shared = s.shared /\ todo = s.calls
  /\ pc = [t \in Threads |-> "out"]
  /\ count = [t \in Threads |-> 0]
  /\ moved = [t \in Threads |-> FALSE]
  /\ handed = [t \in Threads |-> 0]

Goto(t, label) == pc' = [pc EXCEPT ![t] = label]

BackoffDone_never(n) == FALSE

(* backoff.done(), which only BlockingWait asks                            *)
BackoffDone(n) == waiting = "blocking" /\ n >= SpinTries

(* Back at the top of the loop of wait_for.                                *)
Loop(t, n) ==
  /\ count' = [count EXCEPT ![t] = n]
  /\ Goto(t, IF BackoffDone(n) THEN "sample" ELSE "try")

(* What the operation passed to wait_for does to the queue.                *)
Acquire(t) == IF t \in Producers THEN Claim(t) ELSE Take(t)
HandOn(t) == IF t \in Producers THEN Publish(t) ELSE Release(t)
Refused(t) == IF t \in Producers THEN slot[tail] # "free" ELSE slot[head] # "full"

(* The slot t looks at was handed on by a store that t may not see.  The   *)
(* lock of state orders every store before a notification before every     *)
(* attempt that follows a later sample; so the notification of that store  *)
(* came after t's sample, or is still to be made.                          *)
Opposed(t) == IF t \in Producers THEN Consumers ELSE Producers
Ahead(t) == IF t \in Producers THEN tail ELSE head
Unseen(t) ==
  /\ StaleLoads
  /\ moved[t] \/ \E u \in Opposed(t) : pc[u] = "notify" /\ handed[u] = Ahead(t)

Call(t) ==
  /\ pc[t] = "out" /\ todo[t] > 0
  /\ todo' = [todo EXCEPT ![t] = @ - 1]
  /\ Loop(t, 0)
  /\ UNCHANGED <<ringVars, moved, handed>>

(* op() succeeds: first the slot is acquired, then handed on.              *)
Succeed(t) ==
  /\ pc[t] \in {"try", "retry"}
  /\ Acquire(t)
  /\ Goto(t, "holding")
  /\ UNCHANGED <<todo, count, moved, handed>>

Finish(t) ==
  /\ pc[t] = "holding"
  /\ HandOn(t)
  /\ \E s \in Slots : slot[s] = t /\ handed' = [handed EXCEPT ![t] = s]
  /\ Goto(t, "notify")
  /\ UNCHANGED <<todo, count, moved>>

(* op() fails, maybe for a store it does not see: no lock was taken here.  *)
(* The thread spins or yields.                                             *)
Spin(t) ==
  /\ pc[t] = "try" /\ (Refused(t) \/ StaleLoads)
  /\ Loop(t, IF waiting = "blocking" THEN count[t] + 1 ELSE 0)
  /\ UNCHANGED <<ringVars, todo, moved, handed>>

(* let prev = *self.state.lock()                                           *)
Sample(t) ==
  /\ pc[t] = "sample"
  /\ moved' = [moved EXCEPT ![t] = FALSE]
  /\ Goto(t, "retry")
  /\ UNCHANGED <<ringVars, todo, count, handed>>

(* op() fails again.                                                       *)
GiveUp(t) ==
  /\ pc[t] = "retry" /\ (Refused(t) \/ Unseen(t))
  /\ Goto(t, "wait")
  /\ UNCHANGED <<ringVars, todo, count, moved, handed>>

Wait_once(t) ==
  /\ pc[t] = "wait"
  /\ pc' = [pc EXCEPT ![t] = "asleep"]
  /\ UNCHANGED <<ringVars, todo, count, moved, handed>>

(* With the lock: sleep while *cur == prev, else start over.               *)
Wait(t) ==
  /\ pc[t] = "wait"
  /\ \/ ~moved[t] /\ Goto(t, "asleep") /\ UNCHANGED count
     \/ moved[t] /\ Loop(t, 0)
  /\ UNCHANGED <<ringVars, todo, moved, handed>>

(* cvar.wait returns without a notification.                               *)
SpuriousWake(t) ==
  /\ pc[t] = "asleep"
  /\ Goto(t, "wait")
  /\ UNCHANGED <<ringVars, todo, count, moved, handed>>

Sleepers(w) == {u \in Threads : pc[u] = "asleep" /\ WaiterOf(u) = w}

Notify_noCount(t) ==
  /\ pc[t] = "notify"
  /\ UNCHANGED moved
  /\ LET asleep == Sleepers(NotifierOf(t))
     IN IF asleep = {} THEN Goto(t, "out")
        ELSE \E u \in asleep : pc' = [pc EXCEPT ![t] = "out", ![u] = "wait"]
  /\ UNCHANGED <<ringVars, todo, count, handed>>

(* notifier.notify(): state += 1, and notify_one wakes one of the sleepers *)
(* if there is any.  The other waiters' notify does nothing.               *)
Notify(t) ==
  /\ pc[t] = "notify"
  /\ IF waiting = "blocking"
     THEN moved' = [u \in Threads |-> moved[u] \/ WaiterOf(u) = NotifierOf(t)]
     ELSE UNCHANGED moved
  /\ LET asleep == Sleepers(NotifierOf(t))
     IN IF asleep = {} THEN Goto(t, "out")
        ELSE \E u \in asleep : pc' = [pc EXCEPT ![t] = "out", ![u] = "wait"]
  /\ UNCHANGED <<ringVars, todo, count, handed>>

Step(t) ==
  \/ Call(t) \/ Succeed(t) \/ Finish(t) \/ Spin(t) \/ Sample(t) \/ GiveUp(t)
  \/ Wait(t) \/ Notify(t)

Next == (\E t \in Threads : Step(t) \/ SpuriousWake(t)) /\ UNCHANGED setup

Spec == Init /\ [][Next]_vars

(* The scheduler runs every thread that is not asleep, which includes that *)
(* the program makes its calls, and a store is seen in the end by a thread *)
(* that goes on trying (a yielding thread's Spin changes nothing).  Nobody *)
(* promises a spurious wakeup.                                             *)
FairSpec == Spec /\ \A t \in Threads : WF_vars(Step(t) /\ UNCHANGED setup)

------------------------------------------------------------------------------
TypeOK ==
  /\ slot \in [Slots -> {"free", "full"} \cup Threads]
  /\ head \in Slots /\ tail \in Slots
  /\ waiting \in {"blocking", "yielding"} /\ shared \in BOOLEAN
  /\ todo \in [Threads -> Nat]
  /\ pc \in [Threads -> {"out", "try", "sample", "retry", "wait", "asleep",
                         "holding", "notify"}]
  /\ count \in [Threads -> 0 .. SpinTries]
  /\ moved \in [Threads -> BOOLEAN]
  /\ handed \in [Threads -> Slots]

Quiet(t) == pc[t] = "asleep" \/ (pc[t] = "out" /\ todo[t] = 0)

(* No lost wakeup.  It never happens that every thread has finished or is  *)
(* asleep in BlockingWait while one of the sleepers, retried, would        *)
(* succeed: nobody is left who could notify it.                            *)
NoThreadStranded ==
  (\A t \in Threads : Quiet(t)) =>
    \A t \in Threads : pc[t] = "asleep" => Refused(t)

(* When as many values are popped as are pushed every call returns: "the   *)
(* waiter is used to retry until successful completion".                   *)
AllReturn == <>(\A t \in Threads : pc[t] = "out" /\ todo[t] = 0)
==============================================================================
