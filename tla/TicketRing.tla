------------------------------ MODULE TicketRing ------------------------------
(***************************************************************************)
(* A ring of Cap slots as the threads of a queue hand them to each other:  *)
(* a producer claims the slot at tail if it is free, and later publishes   *)
(* it; a consumer takes the slot at head if it was published, and later    *)
(* releases it.  The slots go round in order, but each is published and    *)
(* released whenever its holder gets there.                                *)
(*                                                                         *)
(* This is what one thread in try_push or try_pop does to the others, in   *)
(* either queue; the values and the word arithmetic are left out.          *)
(***************************************************************************)
EXTENDS Naturals

CONSTANTS Producers, Consumers, Cap

ASSUME CapAssumption == Cap \in Nat \ {0}
ASSUME ThreadsAssumption ==
  Producers \cap Consumers = {} /\ {"free", "full"} \cap (Producers \cup Consumers) = {}

VARIABLES
  slot,         \* each slot: "free", "full" or the thread that holds it
  head, tail    \* the next slot to take and the next to claim

ringVars == <<slot, head, tail>>

Slots == 0 .. Cap - 1
Threads == Producers \cup Consumers

Holds(t) == \E s \in Slots : slot[s] = t

RingInit == slot = [s \in Slots |-> "free"] /\ head = 0 /\ tail = 0

After(s) == (s + 1) % Cap

Claim(p) ==
  /\ ~Holds(p) /\ slot[tail] = "free"
  /\ slot' = [slot EXCEPT ![tail] = p]
  /\ tail' = After(tail)
  /\ UNCHANGED head

Publish(p) ==
  /\ \E s \in Slots : slot[s] = p /\ slot' = [slot EXCEPT ![s] = "full"]
  /\ UNCHANGED <<head, tail>>

Take(c) ==
  /\ ~Holds(c) /\ slot[head] = "full"
  /\ slot' = [slot EXCEPT ![head] = c]
  /\ head' = After(head)
  /\ UNCHANGED tail

Release(c) ==
  /\ \E s \in Slots : slot[s] = c /\ slot' = [slot EXCEPT ![s] = "free"]
  /\ UNCHANGED <<head, tail>>

RingNext ==
  \/ \E p \in Producers : Claim(p) \/ Publish(p)
  \/ \E c \in Consumers : Take(c) \/ Release(c)

RingSpec == RingInit /\ [][RingNext]_ringVars
==============================================================================
