------------------------------ MODULE SPSCQueue ------------------------------
(***************************************************************************)
(* The single-producer single-consumer ring of algors-queue/src/spsc.rs.   *)
(*                                                                         *)
(* One step per access to shared memory.  head and tail are machine words  *)
(* and the run of the queue is not bounded: they wrap, again and again.    *)
(*                                                                         *)
(* Memory model.  tail is written by the producer only and head by the     *)
(* consumer only, so each is exact for its writer.  The other side may     *)
(* load an older word, but never an older one than it loaded before        *)
(* (StaleLoads).  What an Acquire load of a Release store orders is kept   *)
(* in seenReads and seenWrites: the accesses to the slots that happened    *)
(* before the thread's next access.  toldHead and toldTail are for the     *)
(* refusals: when a call begins, the rest of the program (a lock the two   *)
(* threads share, say) may have told its thread of newer stores than the   *)
(* queue did, and no later load of that thread is older than those.        *)
(***************************************************************************)
EXTENDS MachineWord, Sequences, FiniteSets

CONSTANTS
  Cap,          \* buf.len() = 1 << pow
  Values,       \* the values of type T
  Nothing,      \* a slot whose MaybeUninit owns no value
  StaleLoads    \* TRUE: loads may return an older store

(* pow < usize::BITS and Modulus = 2^BITS: Cap divides Modulus, properly.  *)
ASSUME CapAssumption ==
  /\ Cap \in Nat \ {0}
  /\ \E k \in 2 .. Modulus : Modulus = Cap * k
ASSUME ValuesAssumption == Nothing \notin Values /\ StaleLoads \in BOOLEAN

VARIABLES
  head, tail,   \* Inner::head and Inner::tail
  buf,          \* Inner::buf, what each slot owns
  handles,      \* owners of the Arc<Inner>
  headCache,    \* Producer::head_cache
  pushSt,       \* the producer: idle, or the access it makes next
  val,          \* the argument of try_push
  tailCache,    \* Consumer::tail_cache
  popSt,        \* the consumer: idle, or the access it makes next
  moved,        \* try_pop's local: the value moved out of the slot
  out,          \* the value the last successful try_pop returned
  seenReads,    \* the reads of positions before it happen before the producer
  toldHead,     \* the head the producer had been told of when it called
  seenWrites,   \* the writes of positions before it happen before the consumer
  toldTail      \* the tail the consumer had been told of when it called

pvars == <<headCache, pushSt, val, seenReads, toldHead>>
cvars == <<tailCache, popSt, moved, out, seenWrites, toldTail>>
vars == <<head, tail, buf, handles, pvars, cvars>>

Slots == 0 .. Cap - 1
Words == 0 .. Modulus - 1

Mask(num) == num % Cap

PushIdle == pushSt \in {"idle", "ok", "full"}
PopIdle == popSt \in {"idle", "got", "empty"}

(* What a load of a word last written as cur may return to a thread that   *)
(* has already seen it as known: the stores since, in modification order.  *)
Loadable(known, cur) ==
  IF StaleLoads
  THEN {WrapAdd(known, k) : k \in 0 .. WrapSub(cur, known)}
  ELSE {cur}

Acquired_relaxed(seen, loaded) == seen

(* An Acquire load of a Release store of the position `loaded': all slot   *)
(* accesses to earlier positions by the storing thread are now ordered.    *)
Acquired(seen, loaded) == loaded

Full_past(t, h) == WrapSub(t, h) > Cap
Drained_never(t, h) == FALSE

Full(t, h) == WrapSub(t, h) = Cap
Drained(t, h) == WrapSub(t, h) = 0

Init ==
  /\ head = 0 /\ tail = 0
  /\ buf = [s \in Slots |-> Nothing]
  /\ handles = {"producer", "consumer"}
  /\ headCache = 0 /\ pushSt = "idle" /\ val = Nothing
  /\ seenReads = 0 /\ toldHead = 0
  /\ tailCache = 0 /\ popSt = "idle" /\ moved = Nothing /\ out = Nothing
  /\ seenWrites = 0 /\ toldTail = 0

------------------------------------------------------------------------------
(* Producer::try_push                                                      *)

PushCall_cached(v) ==
  /\ "producer" \in handles
  /\ PushIdle
  /\ val' = v
  /\ toldHead' \in Loadable(headCache, head)
  /\ pushSt' = IF Full(tail, headCache) THEN "full" ELSE "write"
  /\ UNCHANGED <<head, tail, buf, handles, headCache, seenReads, cvars>>

PushCall(v) ==
  /\ "producer" \in handles
  /\ PushIdle
  /\ val' = v
  /\ toldHead' \in Loadable(headCache, head)
  /\ pushSt' = IF Full(tail, headCache) THEN "refresh" ELSE "write"
  /\ UNCHANGED <<head, tail, buf, handles, headCache, seenReads, cvars>>

PushRefresh ==
  /\ pushSt = "refresh"
  /\ \E h \in Loadable(toldHead, head) :
       /\ headCache' = h
       /\ seenReads' = Acquired(seenReads, h)
       /\ pushSt' = IF Full(tail, h) THEN "full" ELSE "write"
  /\ UNCHANGED <<head, tail, buf, handles, val, toldHead, cvars>>

PushWrite_atCache ==
  /\ pushSt = "write"
  /\ buf' = [buf EXCEPT ![Mask(headCache)] = val]
  /\ pushSt' = "publish"
  /\ UNCHANGED <<head, tail, handles, headCache, val, seenReads, toldHead, cvars>>

PushWrite ==
  /\ pushSt = "write"
  /\ buf' = [buf EXCEPT ![Mask(tail)] = val]
  /\ pushSt' = "publish"
  /\ UNCHANGED <<head, tail, handles, headCache, val, seenReads, toldHead, cvars>>

PushPublish ==
  /\ pushSt = "publish"
  /\ tail' = WrapAdd(tail, 1)
  /\ pushSt' = "ok"
  /\ UNCHANGED <<head, buf, handles, headCache, val, seenReads, toldHead, cvars>>

------------------------------------------------------------------------------
(* Consumer::try_pop                                                       *)

PopCall ==
  /\ "consumer" \in handles
  /\ PopIdle
  /\ toldTail' \in Loadable(tailCache, tail)
  /\ popSt' = IF Drained(tailCache, head) THEN "refresh" ELSE "read"
  /\ UNCHANGED <<head, tail, buf, handles, tailCache, moved, out, seenWrites, pvars>>

PopRefresh ==
  /\ popSt = "refresh"
  /\ \E t \in Loadable(toldTail, tail) :
       /\ tailCache' = t
       /\ seenWrites' = Acquired(seenWrites, t)
       /\ popSt' = IF Drained(t, head) THEN "empty" ELSE "read"
  /\ UNCHANGED <<head, tail, buf, handles, moved, out, toldTail, pvars>>

(* assume_init_read moves the value out of the slot.                       *)
PopRead ==
  /\ popSt = "read"
  /\ moved' = buf[Mask(head)]
  /\ buf' = [buf EXCEPT ![Mask(head)] = Nothing]
  /\ popSt' = "release"
  /\ UNCHANGED <<head, tail, handles, tailCache, out, seenWrites, toldTail, pvars>>

PopRelease ==
  /\ popSt = "release"
  /\ head' = WrapAdd(head, 1)
  /\ popSt' = "got"
  /\ out' = moved
  /\ moved' = Nothing
  /\ UNCHANGED <<tail, buf, handles, tailCache, seenWrites, toldTail, pvars>>

------------------------------------------------------------------------------
(* Dropping a handle; the last one runs Inner::drop.  The Arc orders every *)
(* earlier step before that, so its Relaxed loads are exact.               *)

DropRange_offByOne == {Mask(WrapAdd(head, i)) : i \in 1 .. WrapSub(tail, head)}

(* The slots whose value the loop of Inner::drop destroys.                 *)
DropRange == {Mask(WrapAdd(head, i)) : i \in 0 .. WrapSub(tail, head) - 1}

InnerDrop == buf' = [s \in Slots |-> IF s \in DropRange THEN Nothing ELSE buf[s]]

DropHandle(h) ==
  /\ h \in handles
  /\ h = "producer" => PushIdle
  /\ h = "consumer" => PopIdle
  /\ handles' = handles \ {h}
  /\ IF handles' = {} THEN InnerDrop ELSE UNCHANGED buf
  /\ UNCHANGED <<head, tail, pvars, cvars>>

------------------------------------------------------------------------------
Push == (\E v \in Values : PushCall(v)) \/ PushRefresh \/ PushWrite \/ PushPublish
Pop == PopCall \/ PopRefresh \/ PopRead \/ PopRelease

Next == Push \/ Pop \/ \E h \in handles : DropHandle(h)

Spec == Init /\ [][Next]_vars

------------------------------------------------------------------------------
TypeOK ==
  /\ head \in Words /\ tail \in Words
  /\ headCache \in Words /\ tailCache \in Words
  /\ seenReads \in Words /\ seenWrites \in Words
  /\ toldHead \in Words /\ toldTail \in Words
  /\ buf \in [Slots -> Values \cup {Nothing}]
  /\ handles \subseteq {"producer", "consumer"}
  /\ pushSt \in {"idle", "ok", "full", "refresh", "write", "publish"}
  /\ popSt \in {"idle", "got", "empty", "refresh", "read", "release"}
  /\ val \in Values \cup {Nothing}
  /\ moved \in Values \cup {Nothing}
  /\ out \in Values \cup {Nothing}

(* No data race on a slot.  When the producer is about to write the slot   *)
(* of position tail, the consumer's read of the position Cap before it     *)
(* happened before; when the consumer is about to read position head, the  *)
(* producer's write of it happened before.  This is what the unsafe        *)
(* accesses of try_push and try_pop rest on: the cached indices, refreshed *)
(* by Acquire loads of Release stores.                                     *)
NoDataRace ==
  /\ pushSt = "write" => WrapSub(tail, seenReads) < Cap
  /\ popSt = "read" => WrapSub(seenWrites, head) \in 1 .. Cap

(* The accesses to a slot alternate.  A write never lands on a value that  *)
(* was not read yet (it would be leaked), and assume_init_read never reads *)
(* a slot that was moved out of or never written (undefined behaviour).    *)
SlotsAlternate ==
  /\ pushSt = "write" => buf[Mask(tail)] = Nothing
  /\ popSt = "read" => buf[Mask(head)] # Nothing

(* No false refusal.  A try_push that returned its value found the queue   *)
(* full, and a try_pop that returned None found it empty, after the newest *)
(* store of the other side that its thread had been told of when it called *)
(* - whatever older index it had cached.  (A store it was not told of yet  *)
(* may be missed: that is all a stale load can do.)                        *)
RefusalIsHonest ==
  /\ pushSt = "full" => Full(tail, toldHead)
  /\ popSt = "empty" => Drained(toldTail, head)

(* Inner::drop destroys exactly the values still owned by slots: dropping  *)
(* another slot would be undefined behaviour, missing one would leak it.   *)
DropExact ==
  [][handles # {} /\ handles' = {} =>
       DropRange = {s \in Slots : buf[s] # Nothing}]_vars

------------------------------------------------------------------------------
(* The queue as its callers see it.  A push takes effect when tail is      *)
(* stored and a pop when head is stored; between the read of a slot and    *)
(* that store the value is still the oldest of the queue.                  *)

Occupied == WrapSub(tail, head)

AbstractQueue ==
  IF handles = {} THEN <<>>
  ELSE [j \in 1 .. Occupied |->
          IF j = 1 /\ popSt = "release" THEN moved
          ELSE buf[Mask(WrapAdd(head, j - 1))]]

Fifo == INSTANCE BoundedFifo WITH
  Producers <- {"producer"},
  Consumers <- {"consumer"},
  q <- AbstractQueue,
  pushSt <- [p \in {"producer"} |-> IF PushIdle THEN pushSt ELSE "called"],
  arg <- [p \in {"producer"} |-> val],
  popSt <- [c \in {"consumer"} |-> IF PopIdle THEN popSt ELSE "called"],
  out <- [c \in {"consumer"} |-> out]

(* spsc.rs implements a bounded FIFO queue: never more than Cap values,    *)
(* each delivered once, in order, although both sides look at a cached     *)
(* index and the indices wrap.                                             *)
FifoSpec == Fifo!Spec

(* What the two threads do to each other: see TicketRing.  Each holds its  *)
(* slot from its test of the indices to its store of its own index.        *)
Pushing == pushSt \in {"write", "publish"}
Popping == popSt \in {"read", "release"}

RingHead == Mask(IF Popping THEN head + 1 ELSE head)
RingTail == Mask(IF Pushing THEN tail + 1 ELSE tail)
RingSlot ==
  [s \in Slots |-> IF Pushing /\ s = Mask(tail) THEN "producer"
                   ELSE IF Popping /\ s = Mask(head) THEN "consumer"
                   ELSE IF Mask(s - head) < Occupied THEN "full" ELSE "free"]

Ring == INSTANCE TicketRing WITH
  Producers <- {"producer"},
  Consumers <- {"consumer"},
  head <- RingHead,
  tail <- RingTail,
  slot <- RingSlot

(* A slot is written only when it was released, and read only when it was  *)
(* published, although both sides decide on indices they cached.           *)
RingSpec == Ring!RingSpec
==============================================================================
