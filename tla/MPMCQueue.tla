------------------------------ MODULE MPMCQueue ------------------------------
(***************************************************************************)
(* The multi-producer multi-consumer ring of algors-queue/src/mpmc.rs.     *)
(*                                                                         *)
(* One step per access to shared memory, any interleaving of the threads.  *)
(*                                                                         *)
(* Positions.  head, tail, the sequence numbers and the threads' idx count *)
(* from the creation of the queue without wrapping; the code holds the     *)
(* machine word of each, and every test below compares machine words.      *)
(* The queue starts at position Start: Start values have gone through it.  *)
(*                                                                         *)
(* Memory model.  head and tail change by compare-exchange only, and the   *)
(* stores to one sequence number are ordered.  A load may return an older  *)
(* store (StaleLoads); a thread never sees head or tail go backwards, and  *)
(* idx keeps what it saw last.  stamp and acq track what an Acquire load   *)
(* of a Release store orders: stamp[s] is the sequence number that the     *)
(* last access to data[s] leads to, acq[t] the one that t acquired.        *)
(***************************************************************************)
EXTENDS MachineWord, Sequences, FiniteSets

CONSTANTS
  Producers,    \* threads that own a Producer
  Consumers,    \* threads that own a Consumer
  Values,       \* the values of type T
  Nothing,      \* a slot whose MaybeUninit owns no value
  Cap,          \* buf.len() = 1 << pow
  Start,        \* the position at which the model starts
  MaxCalls,     \* bound: the number of calls of try_push
  StaleLoads    \* TRUE: loads may return an older store

ASSUME CapAssumption ==
  /\ Cap \in Nat \ {0}
  /\ \E k \in 2 .. Modulus : Modulus = Cap * k
(* "free" and "full" are TicketRing's marks for a slot nobody holds.       *)
ASSUME ThreadsAssumption ==
  Producers \cap Consumers = {} /\ {"free", "full"} \cap (Producers \cup Consumers) = {}
ASSUME ValuesAssumption == Nothing \notin Values /\ StaleLoads \in BOOLEAN
ASSUME BoundAssumption == Start \in Nat /\ MaxCalls \in Nat

VARIABLES
  head, tail,   \* Inner::head and Inner::tail
  seq, data,    \* Inner::buf, the two fields of each slot
  stamp,        \* the last access to each data field
  handles,      \* owners of the Arc<Inner>
  pc,           \* each thread: idle with a result, or its next access
  idx,          \* each thread: its local idx
  acq,          \* each thread: its local seq
  arg,          \* each producer: the argument of try_push
  out,          \* each consumer: the value it moved out last
  calls         \* calls of try_push so far

vars == <<head, tail, seq, data, stamp, handles, pc, idx, acq, arg, out, calls>>

Threads == Producers \cup Consumers
Slots == 0 .. Cap - 1

Mask(num) == num % Cap

(* seq.wrapping_sub(idx) as isize                                          *)
Diff_noWrap(a, b) == Word(a) - Word(b)

Diff(a, b) == AsSigned(WrapSub(a, b))

Idle(t) == pc[t] \in {"idle", "ok", "full", "got", "empty"}

(* A load of head or tail, now at cur, by a thread that saw known last.    *)
Loadable(known, cur) == IF StaleLoads THEN known .. cur ELSE {cur}

(* A load of the sequence number of slot s: the stores made to it so far.  *)
SeqStores(s) ==
  {v \in Start .. seq[s] : Mask(v) = s \/ (v > Start /\ Mask(v - 1) = s)}
LoadableSeq(s) == IF StaleLoads THEN SeqStores(s) ELSE {seq[s]}

(* The accesses to data[s] known to come before, after an Acquire load of  *)
(* the sequence number v, which was stored with Release.                   *)
Acquired_relaxed(v) == Start

Acquired(v) == v

Init ==
  /\ head = Start /\ tail = Start
  /\ seq = [s \in Slots |-> Start + ((s - Start) % Cap)]
  /\ data = [s \in Slots |-> Nothing]
  /\ stamp = seq
  /\ handles = Threads
  /\ pc = [t \in Threads |-> "idle"]
  /\ idx = [t \in Threads |-> Start]
  /\ acq = [t \in Threads |-> Start]
  /\ arg = [p \in Producers |-> Nothing]
  /\ out = [c \in Consumers |-> Nothing]
  /\ calls = 0

Goto(t, label) == pc' = [pc EXCEPT ![t] = label]

------------------------------------------------------------------------------
(* Producer::try_push                                                      *)

PushCall(p, v) ==
  /\ p \in handles /\ Idle(p) /\ calls < MaxCalls
  /\ calls' = calls + 1
  /\ arg' = [arg EXCEPT ![p] = v]
  /\ \E i \in Loadable(idx[p], tail) : idx' = [idx EXCEPT ![p] = i]
  /\ Goto(p, "seq")
  /\ UNCHANGED <<head, tail, seq, data, stamp, handles, acq, out>>

PushLoadSeq_neverFull(p) ==
  /\ pc[p] = "seq"
  /\ \E v \in LoadableSeq(Mask(idx[p])) :
       /\ acq' = [acq EXCEPT ![p] = Acquired(v)]
       /\ LET diff == Diff(v, idx[p])
          IN \/ diff <= 0 /\ Goto(p, "claim")
             \/ diff > 0 /\ Goto(p, "reload")
  /\ UNCHANGED <<head, tail, seq, data, stamp, handles, idx, arg, out, calls>>

PushLoadSeq(p) ==
  /\ pc[p] = "seq"
  /\ \E v \in LoadableSeq(Mask(idx[p])) :
       /\ acq' = [acq EXCEPT ![p] = Acquired(v)]
       /\ LET diff == Diff(v, idx[p])
          IN \/ diff = 0 /\ Goto(p, "claim")
             \/ diff < 0 /\ Goto(p, "full")
             \/ diff > 0 /\ Goto(p, "reload")
  /\ UNCHANGED <<head, tail, seq, data, stamp, handles, idx, arg, out, calls>>

PushClaim_noCheck(p) ==
  /\ pc[p] = "claim"
  /\ tail' = tail + 1
  /\ Goto(p, "write")
  /\ UNCHANGED <<head, seq, data, stamp, handles, idx, acq, arg, out, calls>>

(* The compare-exchange of tail succeeds ...                               *)
PushClaim(p) ==
  /\ pc[p] = "claim"
  /\ Word(tail) = Word(idx[p])
  /\ tail' = tail + 1
  /\ Goto(p, "write")
  /\ UNCHANGED <<head, seq, data, stamp, handles, idx, acq, arg, out, calls>>

(* ... or fails, which the weak one may do for no reason.                  *)
PushLose(p) ==
  /\ pc[p] = "claim"
  /\ \E i \in Loadable(idx[p], tail) : idx' = [idx EXCEPT ![p] = i]
  /\ Goto(p, "seq")
  /\ UNCHANGED <<head, tail, seq, data, stamp, handles, acq, arg, out, calls>>

PushReload_skipped(p) ==
  /\ pc[p] = "reload"
  /\ Goto(p, "seq")
  /\ UNCHANGED <<head, tail, seq, data, stamp, handles, idx, acq, arg, out, calls>>

PushReload(p) ==
  /\ pc[p] = "reload"
  /\ \E i \in Loadable(idx[p], tail) : idx' = [idx EXCEPT ![p] = i]
  /\ Goto(p, "seq")
  /\ UNCHANGED <<head, tail, seq, data, stamp, handles, acq, arg, out, calls>>

PushWrite(p) ==
  /\ pc[p] = "write"
  /\ data' = [data EXCEPT ![Mask(idx[p])] = arg[p]]
  /\ stamp' = [stamp EXCEPT ![Mask(idx[p])] = idx[p] + 1]
  /\ Goto(p, "publish")
  /\ UNCHANGED <<head, tail, seq, handles, idx, acq, arg, out, calls>>

PushPublish(p) ==
  /\ pc[p] = "publish"
  /\ seq' = [seq EXCEPT ![Mask(idx[p])] = idx[p] + 1]
  /\ Goto(p, "ok")
  /\ UNCHANGED <<head, tail, data, stamp, handles, idx, acq, arg, out, calls>>

------------------------------------------------------------------------------
(* Consumer::try_pop                                                       *)

PopCall(c) ==
  /\ c \in handles /\ Idle(c)
  /\ \E i \in Loadable(idx[c], head) : idx' = [idx EXCEPT ![c] = i]
  /\ Goto(c, "seq")
  /\ UNCHANGED <<head, tail, seq, data, stamp, handles, acq, arg, out, calls>>

PopLoadSeq(c) ==
  /\ pc[c] = "seq"
  /\ \E v \in LoadableSeq(Mask(idx[c])) :
       /\ acq' = [acq EXCEPT ![c] = Acquired(v)]
       /\ LET diff == Diff(v, idx[c] + 1)
          IN \/ diff = 0 /\ Goto(c, "claim")
             \/ diff < 0 /\ Goto(c, "empty")
             \/ diff > 0 /\ Goto(c, "reload")
  /\ UNCHANGED <<head, tail, seq, data, stamp, handles, idx, arg, out, calls>>

PopClaim(c) ==
  /\ pc[c] = "claim"
  /\ Word(head) = Word(idx[c])
  /\ head' = head + 1
  /\ Goto(c, "read")
  /\ UNCHANGED <<tail, seq, data, stamp, handles, idx, acq, arg, out, calls>>

PopLose(c) ==
  /\ pc[c] = "claim"
  /\ \E i \in Loadable(idx[c], head) : idx' = [idx EXCEPT ![c] = i]
  /\ Goto(c, "seq")
  /\ UNCHANGED <<head, tail, seq, data, stamp, handles, acq, arg, out, calls>>

PopReload(c) ==
  /\ pc[c] = "reload"
  /\ \E i \in Loadable(idx[c], head) : idx' = [idx EXCEPT ![c] = i]
  /\ Goto(c, "seq")
  /\ UNCHANGED <<head, tail, seq, data, stamp, handles, acq, arg, out, calls>>

(* assume_init_read moves the value out of the slot.                       *)
PopRead(c) ==
  /\ pc[c] = "read"
  /\ out' = [out EXCEPT ![c] = data[Mask(idx[c])]]
  /\ data' = [data EXCEPT ![Mask(idx[c])] = Nothing]
  /\ stamp' = [stamp EXCEPT ![Mask(idx[c])] = idx[c] + Cap]
  /\ Goto(c, "release")
  /\ UNCHANGED <<head, tail, seq, handles, idx, acq, arg, calls>>

PopRelease(c) ==
  /\ pc[c] = "release"
  /\ seq' = [seq EXCEPT ![Mask(idx[c])] = idx[c] + Cap]
  /\ Goto(c, "got")
  /\ UNCHANGED <<head, tail, data, stamp, handles, idx, acq, arg, out, calls>>

------------------------------------------------------------------------------
(* Dropping a handle; the last one runs Inner::drop.                       *)

DropRange_fromTail ==
  {Mask(tail + i) : i \in {j \in 0 .. WrapSub(tail, head) - 1 :
                             Word(seq[Mask(tail + j)]) = Word(tail + j + 1)}}

(* The slots whose value the loop of Inner::drop destroys.                 *)
DropRange ==
  {Mask(head + i) : i \in {j \in 0 .. WrapSub(tail, head) - 1 :
                             Word(seq[Mask(head + j)]) = Word(head + j + 1)}}

InnerDrop == data' = [s \in Slots |-> IF s \in DropRange THEN Nothing ELSE data[s]]

DropHandle(h) ==
  /\ h \in handles /\ Idle(h)
  /\ handles' = handles \ {h}
  /\ IF handles' = {} THEN InnerDrop ELSE UNCHANGED data
  /\ UNCHANGED <<head, tail, seq, stamp, pc, idx, acq, arg, out, calls>>

(* Producer::clone and Consumer::clone: h lends its Arc to a thread of its *)
(* kind that has no handle.                                                *)
CloneHandle(h, t) ==
  /\ h \in handles /\ t \notin handles
  /\ {h, t} \subseteq Producers \/ {h, t} \subseteq Consumers
  /\ handles' = handles \cup {t}
  /\ UNCHANGED <<head, tail, seq, data, stamp, pc, idx, acq, arg, out, calls>>

------------------------------------------------------------------------------
(* The steps of a call under way.                                          *)
PushStep(p) ==
  \/ PushLoadSeq(p) \/ PushClaim(p) \/ PushLose(p) \/ PushReload(p)
  \/ PushWrite(p) \/ PushPublish(p)
PopStep(c) ==
  \/ PopLoadSeq(c) \/ PopClaim(c) \/ PopLose(c) \/ PopReload(c)
  \/ PopRead(c) \/ PopRelease(c)

Next ==
  \/ \E p \in Producers : PushStep(p) \/ \E v \in Values : PushCall(p, v)
  \/ \E c \in Consumers : PopStep(c) \/ PopCall(c)
  \/ \E h \in handles : DropHandle(h) \/ \E t \in Threads : CloneHandle(h, t)

Spec == Init /\ [][Next]_vars

(* The scheduler runs every thread, and a weak compare-exchange that could *)
(* succeed again and again does not fail for ever.                         *)
Fairness ==
  /\ \A p \in Producers : WF_vars(PushStep(p)) /\ SF_vars(PushClaim(p))
  /\ \A c \in Consumers : WF_vars(PopStep(c)) /\ SF_vars(PopClaim(c))

FairSpec == Spec /\ Fairness

------------------------------------------------------------------------------
TypeOK ==
  /\ head \in Nat /\ tail \in head .. head + Cap
  /\ seq \in [Slots -> Nat] /\ stamp \in [Slots -> Nat]
  /\ data \in [Slots -> Values \cup {Nothing}]
  /\ handles \subseteq Threads
  /\ pc \in [Threads -> {"idle", "ok", "full", "got", "empty", "seq", "claim",
                         "reload", "write", "publish", "read", "release"}]
  /\ idx \in [Threads -> Nat] /\ acq \in [Threads -> Nat]
  /\ arg \in [Producers -> Values \cup {Nothing}]
  /\ out \in [Consumers -> Values \cup {Nothing}]
  /\ calls \in 0 .. MaxCalls

(* No data race on a slot.  The last access to the slot that a thread is   *)
(* about to write or to read happened before: its sequence number is the   *)
(* one the thread acquired.  Nothing else orders the accesses, head and    *)
(* tail being loaded and compare-exchanged Relaxed.                        *)
NoDataRace ==
  \A t \in Threads :
    pc[t] \in {"write", "read"} => stamp[Mask(idx[t])] = acq[t]

(* The accesses to a slot alternate.  A write never lands on a value that  *)
(* was not read yet, and assume_init_read never reads a slot whose value   *)
(* was moved out or never written.                                         *)
SlotsAlternate ==
  \A t \in Threads :
    /\ pc[t] = "write" => data[Mask(idx[t])] = Nothing
    /\ pc[t] = "read" => data[Mask(idx[t])] # Nothing

(* Inner::drop destroys exactly the values still owned by slots.           *)
DropExact ==
  [][handles # {} /\ handles' = {} =>
       DropRange = {s \in Slots : data[s] # Nothing}]_vars

(* A refusal is honest (loads not stale).  A push that is about to fail    *)
(* meets a full queue, or a consumer that has claimed the position one lap *)
(* earlier and not released it; a pop that is about to fail meets an empty *)
(* queue, or a producer that has claimed the head and not published it.    *)
RefusalIsHonest ==
  /\ \A p \in Producers :
       pc[p] = "seq" /\ Diff(seq[Mask(idx[p])], idx[p]) < 0 =>
         \/ tail - head = Cap
         \/ \E c \in Consumers : pc[c] \in {"read", "release"} /\ idx[c] = tail - Cap
  /\ \A c \in Consumers :
       pc[c] = "seq" /\ Diff(seq[Mask(idx[c])], idx[c] + 1) < 0 =>
         \/ tail = head
         \/ \E p \in Producers : pc[p] \in {"write", "publish"} /\ idx[p] = head

(* The comment at the refusal of try_push: the slot that holds the value   *)
(* of the previous lap, not read yet, is the one with diff < 0.  So a push *)
(* that has loaded the tail of a full queue is refused.                    *)
UnreadIsRefused ==
  \A p \in Producers :
    pc[p] = "seq" /\ idx[p] = tail /\ tail - head = Cap =>
      Diff(seq[Mask(idx[p])], idx[p]) < 0

(* Every call of try_push and of try_pop returns: no thread is left going  *)
(* round the loop, whatever its stale copy of tail or head was.            *)
CallsReturn == \A t \in Threads : ~Idle(t) ~> Idle(t)

------------------------------------------------------------------------------
(* The queue as its callers see it.  A push takes effect when it claims    *)
(* the tail, before its value is in the slot; a pop when it claims the     *)
(* head, before it moved the value out.                                    *)

Claimants(pos) ==
  {p \in Producers : pc[p] \in {"write", "publish"} /\ idx[p] = pos}

AbstractQueue ==
  IF handles = {} THEN <<>>
  ELSE [j \in 1 .. tail - head |->
          LET pos == head + j - 1
          IN IF Claimants(pos) = {} THEN data[Mask(pos)]
             ELSE arg[CHOOSE p \in Claimants(pos) : TRUE]]

PushState ==
  [p \in Producers |->
     IF Idle(p) THEN pc[p]
     ELSE IF pc[p] \in {"write", "publish"} THEN "ok" ELSE "called"]
PopState ==
  [c \in Consumers |->
     IF Idle(c) THEN pc[c]
     ELSE IF pc[c] \in {"read", "release"} THEN "got" ELSE "called"]
Delivered ==
  [c \in Consumers |-> IF pc[c] = "read" THEN data[Mask(idx[c])] ELSE out[c]]

Fifo == INSTANCE BoundedFifo WITH
  q <- AbstractQueue,
  pushSt <- PushState,
  popSt <- PopState,
  out <- Delivered

(* mpmc.rs implements a bounded FIFO queue: values are delivered once, in  *)
(* the order in which their pushes claimed the tail, whatever the order in *)
(* which they are written, published, read and released.                   *)
FifoSpec == Fifo!Spec

(* What the threads do to each other: see TicketRing.  A thread holds its  *)
(* slot from its compare-exchange to its store of the sequence number; the *)
(* slots are counted from the one of position Start.                       *)
HolderOf(s) == {t \in Threads : /\ pc[t] \in {"write", "publish", "read", "release"}
                                /\ Mask(idx[t]) = s}

SlotMark ==
  [s \in Slots |-> IF HolderOf(s) # {} THEN CHOOSE t \in HolderOf(s) : TRUE
                   ELSE IF Mask(seq[s]) = s THEN "free" ELSE "full"]

RingHead == Mask(head - Start)
RingTail == Mask(tail - Start)
RingSlot == [k \in Slots |-> SlotMark[Mask(Start + k)]]

Ring == INSTANCE TicketRing WITH
  head <- RingHead,
  tail <- RingTail,
  slot <- RingSlot

(* A slot is claimed only when it was released, and taken only when it was *)
(* published, in the order of the positions and by one thread at a time.   *)
RingSpec == Ring!RingSpec
==============================================================================
