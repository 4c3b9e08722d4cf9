----------------------------- MODULE BoundedFifo -----------------------------
(***************************************************************************)
(* What a bounded queue promises its callers: a sequence of at most Cap    *)
(* values, to which a push appends and from which a pop takes, each at one *)
(* instant between its call and its return.  A value that was accepted is  *)
(* delivered once, in the order of acceptance, or destroyed when the last  *)
(* handle goes.                                                            *)
(*                                                                         *)
(* A refusal promises nothing here: when a thread loads an older index it  *)
(* may well be refused by a queue that is neither full nor empty now.      *)
(***************************************************************************)
EXTENDS Naturals, Sequences

CONSTANTS Producers, Consumers, Values, Nothing, Cap

VARIABLES
  q,          \* the values accepted and not yet delivered, oldest first
  pushSt,     \* each producer: "idle", "called", "ok" or "full"
  arg,        \* each producer: the value of its last call
  popSt,      \* each consumer: "idle", "called", "got" or "empty"
  out,        \* each consumer: the last value delivered to it
  handles     \* the handles not yet dropped

vars == <<q, pushSt, arg, popSt, out, handles>>

Init ==
  /\ q = <<>>
  /\ pushSt = [p \in Producers |-> "idle"]
  /\ arg = [p \in Producers |-> Nothing]
  /\ popSt = [c \in Consumers |-> "idle"]
  /\ out = [c \in Consumers |-> Nothing]
  /\ handles = Producers \cup Consumers

CallPush(p, v) ==
  /\ p \in handles
  /\ pushSt[p] # "called"
  /\ pushSt' = [pushSt EXCEPT ![p] = "called"]
  /\ arg' = [arg EXCEPT ![p] = v]
  /\ UNCHANGED <<q, popSt, out, handles>>

Accept(p) ==
  /\ pushSt[p] = "called"
  /\ Len(q) < Cap
  /\ q' = Append(q, arg[p])
  /\ pushSt' = [pushSt EXCEPT ![p] = "ok"]
  /\ UNCHANGED <<arg, popSt, out, handles>>

Refuse(p) ==
  /\ pushSt[p] = "called"
  /\ pushSt' = [pushSt EXCEPT ![p] = "full"]
  /\ UNCHANGED <<q, arg, popSt, out, handles>>

CallPop(c) ==
  /\ c \in handles
  /\ popSt[c] # "called"
  /\ popSt' = [popSt EXCEPT ![c] = "called"]
  /\ UNCHANGED <<q, pushSt, arg, out, handles>>

Deliver(c) ==
  /\ popSt[c] = "called"
  /\ q # <<>>
  /\ q' = Tail(q)
  /\ out' = [out EXCEPT ![c] = Head(q)]
  /\ popSt' = [popSt EXCEPT ![c] = "got"]
  /\ UNCHANGED <<pushSt, arg, handles>>

FindNothing(c) ==
  /\ popSt[c] = "called"
  /\ popSt' = [popSt EXCEPT ![c] = "empty"]
  /\ UNCHANGED <<q, pushSt, arg, out, handles>>

(* The last handle takes the values still queued with it.                  *)
DropHandle(h) ==
  /\ h \in handles
  /\ h \in Producers => pushSt[h] # "called"
  /\ h \in Consumers => popSt[h] # "called"
  /\ handles' = handles \ {h}
  /\ q' = IF handles' = {} THEN <<>> ELSE q
  /\ UNCHANGED <<pushSt, arg, popSt, out>>

(* A handle is cloned by a thread of its kind that had dropped its own.    *)
CloneHandle(h, t) ==
  /\ h \in handles /\ t \notin handles
  /\ {h, t} \subseteq Producers \/ {h, t} \subseteq Consumers
  /\ handles' = handles \cup {t}
  /\ UNCHANGED <<q, pushSt, arg, popSt, out>>

Next ==
  \/ \E p \in Producers : \/ \E v \in Values : CallPush(p, v)
                          \/ Accept(p)
                          \/ Refuse(p)
  \/ \E c \in Consumers : CallPop(c) \/ Deliver(c) \/ FindNothing(c)
  \/ \E h \in handles : DropHandle(h)
  \/ \E h \in handles, t \in Producers \cup Consumers : CloneHandle(h, t)

Spec == Init /\ [][Next]_vars
==============================================================================
