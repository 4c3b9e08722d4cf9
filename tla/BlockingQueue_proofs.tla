------------------------ MODULE BlockingQueue_proofs ------------------------
(***************************************************************************)
(* No wakeup is lost in the setups where one side of the queue has a       *)
(* single thread and a waiter of its own, or both sides have one thread    *)
(* each, for any capacity, any number of threads on the other side and any *)
(* number of calls, with loads that are exact and with stale ones.         *)
(***************************************************************************)
EXTENDS BlockingQueue, ModularArithmetic, FiniteSetTheorems, TLAPS

------------------------------------------------------------------------------
(* The two sides of the queue, and what the threads of a side look for:    *)
(* the slot at their cursor, in the state they want.                       *)

Sides == {"push", "pop"}
Other(w) == IF w = "push" THEN "pop" ELSE "push"
Side(w) == IF w = "push" THEN Producers ELSE Consumers
Cursor(w) == IF w = "push" THEN tail ELSE head
Wanted(w) == IF w = "push" THEN "free" ELSE "full"

(* At most one thread of the side still takes part.                        *)
Active(t) == pc[t] # "out" \/ todo[t] > 0
Alone(w) == \A t, u \in Side(w) : Active(t) /\ Active(u) => t = u

(* A thread that will go to sleep, or sleeps, unless somebody notifies it; *)
(* one that will try again before it can sleep.                            *)
Dozing(t) == pc[t] = "asleep" \/ (pc[t] = "wait" /\ ~moved[t])
Ready(t) == pc[t] \in {"try", "sample", "retry"} \/ (pc[t] = "wait" /\ moved[t])

Pending(w) == \E t \in Side(w) : pc[t] = "notify"

(* The slots wanted by side w follow its cursor, n of them; the other      *)
(* side's thread holds the next one or none.                               *)
Pos(s, j) == (s + j) % Cap
Layout(w, n) ==
  /\ \A s \in Slots :
       slot[s] = Wanted(w) <=> \E j \in 0 .. n - 1 : s = Pos(Cursor(w), j)
  /\ \A s \in Slots :
       slot[s] \in Side(Other(w)) =>
         /\ n < Cap /\ s = Pos(Cursor(w), n)
         /\ Cursor(Other(w)) = Pos(Cursor(w), n + 1)
  /\ (\A s \in Slots : slot[s] \notin Side(Other(w))) =>
       Cursor(Other(w)) = Pos(Cursor(w), n)

ReadyOn(w) == {t \in Side(w) : Ready(t)}
Enough(w, n) ==
  (\E t \in Side(w) : Dozing(t)) =>
    n <= Cardinality(ReadyOn(w)) + (IF Pending(Other(w)) THEN 1 ELSE 0)

(* A thread of the other side with a notification to make handed on the    *)
(* last one of the slots wanted, unless that was acquired since.           *)
LastOf(w, n) ==
  \A u \in Side(Other(w)) :
    pc[u] = "notify" /\ n >= 1 => handed[u] = Pos(Cursor(w), n - 1)

(* A side with one thread: it is not left dozing before the slot it wants. *)
Heard(w) ==
  \A t \in Side(w) : Dozing(t) /\ slot[Cursor(w)] = Wanted(w) => Pending(Other(w))

(* A side that faces one thread: while anyone dozes there is somebody to   *)
(* try for each slot that is wanted, but for one.                          *)
Served(w) == \E n \in 0 .. Cap : Layout(w, n) /\ Enough(w, n) /\ LastOf(w, n)

Settled(w) == Alone(w) /\ Heard(w)

Holders ==
  /\ \A s \in Slots : slot[s] \in Threads => pc[slot[s]] = "holding"
  /\ \A s, r \in Slots : slot[s] \in Threads /\ slot[s] = slot[r] => s = r

NoSleep == \A t \in Threads : pc[t] \in {"out", "try", "holding", "notify"}

Spinning ==
  \A t \in Threads : pc[t] = "try" /\ waiting = "blocking" => count[t] < SpinTries

IInv ==
  /\ TypeOK /\ Holders /\ Spinning
  /\ waiting = "yielding" => NoSleep
  /\ waiting = "blocking" =>
       IF shared THEN \A w \in Sides : Settled(w)
       ELSE \E w \in Sides : Settled(w) /\ Served(Other(w))

------------------------------------------------------------------------------
(* The setups in question.                                                 *)

OneCaller(calls, S) == \A t, u \in S : calls[t] > 0 /\ calls[u] > 0 => t = u

Sound(s) ==
  s.waiting = "blocking" =>
    IF s.shared THEN OneCaller(s.calls, Producers) /\ OneCaller(s.calls, Consumers)
    ELSE OneCaller(s.calls, Producers) \/ OneCaller(s.calls, Consumers)

------------------------------------------------------------------------------
(* Sides and positions.                                                    *)

LEMMA SidesAre ==
  /\ \A w \in Sides :
       /\ Other(w) \in Sides /\ Other(w) # w /\ Other(Other(w)) = w
       /\ Threads = Side(w) \cup Side(Other(w))
       /\ Side(w) \cap Side(Other(w)) = {}
       /\ Wanted(w) # Wanted(Other(w)) /\ Wanted(w) \notin Threads
  /\ \A t \in Threads : \E w \in Sides : t \in Side(w)
BY ThreadsAssumption DEF Sides, Other, Side, Wanted, Threads

LEMMA PosType ==
  ASSUME NEW s \in Slots, NEW j \in Nat
  PROVE  Pos(s, j) \in Slots /\ After(s) \in Slots
<1>1. s + j \in Int /\ s + 1 \in Int /\ Cap \in Nat \ {0}
  BY CapAssumption DEF Slots
<1>2. (s + j) % Cap \in 0 .. Cap - 1 /\ (s + 1) % Cap \in 0 .. Cap - 1
  BY <1>1, ModRange, Zenon
<1>3. QED
  BY <1>2 DEF Pos, After, Slots

LEMMA PosZero ==
  ASSUME NEW s \in Slots
  PROVE  Pos(s, 0) = s
<1>1. s + 0 = s /\ s \in 0 .. Cap - 1 /\ Cap \in Nat \ {0}
  BY CapAssumption DEF Slots
<1>2. s % Cap = s
  BY <1>1, ModSmall, Zenon
<1>3. QED
  BY <1>1, <1>2, Zenon DEF Pos

LEMMA PosAfter ==
  ASSUME NEW s \in Slots, NEW j \in Nat
  PROVE  After(Pos(s, j)) = Pos(s, j + 1) /\ Pos(After(s), j) = Pos(s, j + 1)
<1> DEFINE x == s + j
           y == s + 1
           q == x \div Cap
           r == y \div Cap
<1>1. x \in Int /\ y \in Int /\ Cap \in Nat \ {0} /\ s \in Int
  BY CapAssumption DEF Slots
<1>2. /\ q \in Int /\ x = (Cap * q) + (x % Cap) /\ x % Cap \in Int
      /\ r \in Int /\ y = (Cap * r) + (y % Cap) /\ y % Cap \in Int
  BY <1>1, DivMod, ModRange
<1>3. s + (j + 1) = ((x % Cap) + 1) + (Cap * q)
  <2> DEFINE a == x % Cap
             b == Cap * q
  <2>1. x = b + a /\ a \in Int
    BY <1>2
  <2>2. b \in Int
    BY <1>1, <1>2
  <2>3. x = s + j
    OBVIOUS
  <2> HIDE DEF a, b, x
  <2>4. s + (j + 1) = (a + 1) + b
    BY <1>1, <2>1, <2>2, <2>3
  <2>5. QED
    BY <2>4 DEF a, b
<1>4. s + (j + 1) = ((y % Cap) + j) + (Cap * r)
  <2> DEFINE a == y % Cap
             b == Cap * r
  <2>1. y = b + a /\ a \in Int
    BY <1>2
  <2>2. b \in Int
    BY <1>1, <1>2
  <2>3. y = s + 1
    OBVIOUS
  <2> HIDE DEF a, b, y
  <2>4. s + (j + 1) = (a + j) + b
    BY <1>1, <2>1, <2>2, <2>3
  <2>5. QED
    BY <2>4 DEF a, b
<1> HIDE DEF q, r
<1>5. (((x % Cap) + 1) + (Cap * q)) % Cap = ((x % Cap) + 1) % Cap
  <2>1. (x % Cap) + 1 \in Int
    BY <1>2
  <2>2. QED
    BY <1>1, <1>2, <2>1, ModPeriodic, Zenon
<1>6. (((y % Cap) + j) + (Cap * r)) % Cap = ((y % Cap) + j) % Cap
  <2>1. (y % Cap) + j \in Int
    BY <1>2
  <2>2. QED
    BY <1>1, <1>2, <2>1, ModPeriodic, Zenon
<1>7. QED
  BY <1>3, <1>4, <1>5, <1>6, Zenon DEF Pos, After

LEMMA PosDistinct ==
  ASSUME NEW s \in Slots, NEW i \in Nat, NEW j \in Nat, i < j, j < i + Cap
  PROVE  Pos(s, i) # Pos(s, j)
<1>1. /\ s + i \in Int /\ s + j \in Int /\ Cap \in Nat \ {0}
      /\ s + i < s + j /\ s + j < (s + i) + Cap
  BY CapAssumption DEF Slots
<1>2. (s + i) % Cap # (s + j) % Cap
  BY <1>1, ModInjective, Zenon
<1>3. QED
  BY <1>2 DEF Pos

LEMMA PosAll ==
  ASSUME NEW s \in Slots, NEW r \in Slots
  PROVE  \E j \in 0 .. Cap - 1 : r = Pos(s, j)
<1>1. /\ s \in Int /\ r \in Int /\ Cap \in Nat \ {0}
      /\ 0 <= s /\ s < Cap /\ 0 <= r /\ r < Cap /\ r \in 0 .. Cap - 1
  BY CapAssumption DEF Slots
<1>2. r % Cap = r
  BY <1>1, ModSmall, Zenon
<1>3. CASE r >= s
  <2>1. r - s \in 0 .. Cap - 1 /\ s + (r - s) = r
    BY <1>1, <1>3
  <2>2. Pos(s, r - s) = r
    BY <1>2, <2>1, Zenon DEF Pos
  <2>3. QED
    BY <2>1, <2>2
<1>4. CASE r < s
  <2>1. (r - s) + Cap \in 0 .. Cap - 1 /\ s + ((r - s) + Cap) = r + Cap
    BY <1>1, <1>4
  <2>2. (r + Cap) % Cap = r % Cap
    BY <1>1, ModShift, Zenon
  <2>3. Pos(s, (r - s) + Cap) = r
    BY <1>2, <2>1, <2>2, Zenon DEF Pos
  <2>4. QED
    BY <2>1, <2>3
<1>5. QED
  BY <1>1, <1>3, <1>4

------------------------------------------------------------------------------
(* The steps on the ring, by side.                                         *)

LEMMA AcquireIs ==
  ASSUME NEW w \in Sides, NEW t \in Side(w), Acquire(t)
  PROVE  /\ slot[Cursor(w)] = Wanted(w) /\ slot' = [slot EXCEPT ![Cursor(w)] = t]
         /\ Cursor(w)' = After(Cursor(w)) /\ Cursor(Other(w))' = Cursor(Other(w))
         /\ ~Holds(t)
BY ThreadsAssumption
   DEF Sides, Side, Other, Acquire, Claim, Take, Cursor, Wanted

LEMMA HandOnIs ==
  ASSUME NEW w \in Sides, NEW t \in Side(w), HandOn(t)
  PROVE  /\ \E s \in Slots : slot[s] = t /\ slot' = [slot EXCEPT ![s] = Wanted(Other(w))]
         /\ UNCHANGED <<head, tail>>
BY ThreadsAssumption DEF Sides, Side, Other, HandOn, Publish, Release, Wanted

LEMMA RefusedIs ==
  ASSUME NEW w \in Sides, NEW t \in Side(w)
  PROVE  Refused(t) <=> slot[Cursor(w)] # Wanted(w)
BY ThreadsAssumption DEF Sides, Side, Refused, Cursor, Wanted

LEMMA UnseenIs ==
  ASSUME NEW w \in Sides, NEW t \in Side(w), Unseen(t)
  PROVE  \/ moved[t]
         \/ \E u \in Side(Other(w)) : pc[u] = "notify" /\ handed[u] = Cursor(w)
BY ThreadsAssumption DEF Sides, Side, Other, Unseen, Opposed, Ahead, Cursor

LEMMA Cursors ==
  TypeOK => \A w \in Sides : Cursor(w) \in Slots /\ Wanted(w) \in {"free", "full"}
BY DEF TypeOK, Cursor, Wanted

(* Everything but who is notified.                                         *)
Base ==
  /\ TypeOK /\ Holders /\ Spinning
  /\ waiting = "yielding" => NoSleep

LEMMA InitBase == Init => Base
<1> SUFFICES ASSUME Init PROVE Base
  OBVIOUS
<1>1. Cap \in Nat \ {0} /\ 0 \in Slots
  BY CapAssumption DEF Slots
<1>2. PICK s \in Setups : waiting = s.waiting /\ shared = s.shared /\ todo = s.calls
  BY DEF Init
<1>3. TypeOK
  BY <1>1, <1>2, SetupsAssumption, SpinAssumption DEF Init, RingInit, TypeOK
<1>4. Holders
  BY ThreadsAssumption DEF Init, RingInit, Holders, Threads
<1>5. Spinning /\ NoSleep
  BY DEF Init, Spinning, NoSleep
<1>6. QED
  BY <1>3, <1>4, <1>5 DEF Base

LEMMA LoopBase ==
  ASSUME Base, NEW t \in Threads, NEW n \in Nat, Loop(t, n),
         waiting = "blocking" => n <= SpinTries, waiting = "yielding" => n = 0
  PROVE  /\ pc' \in [Threads -> {"out", "try", "sample", "retry", "wait", "asleep",
                                  "holding", "notify"}]
         /\ count' \in [Threads -> 0 .. SpinTries]
         /\ pc'[t] \in {"try", "sample"} /\ (waiting = "yielding" => pc'[t] = "try")
         /\ pc'[t] = "try" /\ waiting = "blocking" => count'[t] < SpinTries
         /\ \A u \in Threads \ {t} : pc'[u] = pc[u] /\ count'[u] = count[u]
<1>1. SpinTries \in Nat \ {0} /\ waiting \in {"blocking", "yielding"}
  BY SpinAssumption DEF Base, TypeOK
<1>2. n \in 0 .. SpinTries
  BY <1>1
<1>3. /\ pc' = [pc EXCEPT ![t] = IF BackoffDone(n) THEN "sample" ELSE "try"]
      /\ count' = [count EXCEPT ![t] = n]
  BY DEF Loop, Goto
<1>4. BackoffDone(n) <=> waiting = "blocking" /\ n >= SpinTries
  BY DEF BackoffDone
<1>5. QED
  BY <1>1, <1>2, <1>3, <1>4 DEF Base, TypeOK

LEMMA SucceedBase ==
  ASSUME Base, NEW t \in Threads, Succeed(t), UNCHANGED setup
  PROVE  Base'
<1>1. PICK w \in Sides : t \in Side(w)
  BY SidesAre
<1>2. /\ slot[Cursor(w)] = Wanted(w) /\ slot' = [slot EXCEPT ![Cursor(w)] = t]
      /\ Cursor(w)' = After(Cursor(w)) /\ Cursor(Other(w))' = Cursor(Other(w))
      /\ ~Holds(t) /\ pc' = [pc EXCEPT ![t] = "holding"]
      /\ UNCHANGED <<todo, count, moved, handed>> /\ pc[t] \in {"try", "retry"}
  BY <1>1, AcquireIs DEF Succeed, Goto
<1>3. Cursor(w) \in Slots /\ Cursor(Other(w)) \in Slots /\ Wanted(w) \notin Threads
  BY Cursors, SidesAre DEF Base
<1>4. head' \in Slots /\ tail' \in Slots
  <2>1. Cursor(w)' \in Slots /\ Cursor(Other(w))' \in Slots
    BY <1>2, <1>3, PosType, 0 \in Nat
  <2>2. QED
    BY <2>1 DEF Cursor, Other, Sides
<1>5. TypeOK'
  BY <1>2, <1>3, <1>4 DEF Base, TypeOK, setup
<1>6. Holders'
  BY <1>2, <1>3 DEF Base, TypeOK, Holders, Holds
<1>7. Spinning' /\ (waiting' = "yielding" => NoSleep')
  BY <1>2 DEF Base, TypeOK, Spinning, NoSleep, setup
<1>8. QED
  BY <1>5, <1>6, <1>7 DEF Base

LEMMA FinishBase ==
  ASSUME Base, NEW t \in Threads, Finish(t), UNCHANGED setup
  PROVE  Base'
<1>1. PICK w \in Sides : t \in Side(w)
  BY SidesAre
<1>2. PICK s \in Slots : slot[s] = t /\ slot' = [slot EXCEPT ![s] = Wanted(Other(w))]
  BY <1>1, HandOnIs DEF Finish
<1>3. /\ UNCHANGED <<head, tail, todo, count, moved>>
      /\ pc' = [pc EXCEPT ![t] = "notify"]
  BY <1>1, HandOnIs DEF Finish, Goto
<1>4. Wanted(Other(w)) \in {"free", "full"} /\ Wanted(Other(w)) \notin Threads
  BY Cursors, SidesAre DEF Base
<1>5. TypeOK'
  <2>1. handed' \in [Threads -> Slots]
    BY DEF Finish, Base, TypeOK
  <2>2. QED
    BY <1>2, <1>3, <1>4, <2>1 DEF Base, TypeOK, setup
<1>6. Holders'
  BY <1>2, <1>3, <1>4 DEF Base, TypeOK, Holders
<1>7. Spinning' /\ (waiting' = "yielding" => NoSleep')
  BY <1>3 DEF Base, TypeOK, Spinning, NoSleep, setup
<1>8. QED
  BY <1>5, <1>6, <1>7 DEF Base

(* A step that does not touch the ring, of a thread that holds no slot.    *)
LEMMA LocalBase ==
  ASSUME Base, NEW t \in Threads, UNCHANGED <<ringVars, setup, handed>>,
         pc[t] # "holding",
         todo' \in [Threads -> Nat], moved' \in [Threads -> BOOLEAN],
         count' \in [Threads -> 0 .. SpinTries],
         pc' \in [Threads -> {"out", "try", "sample", "retry", "wait", "asleep",
                               "holding", "notify"}],
         waiting = "yielding" => pc'[t] \in {"out", "try", "holding", "notify"},
         pc'[t] = "try" /\ waiting = "blocking" => count'[t] < SpinTries,
         \A u \in Threads \ {t} : pc'[u] = pc[u] /\ count'[u] = count[u]
  PROVE  Base'
<1>1. TypeOK'
  BY DEF Base, TypeOK, ringVars, setup
<1>2. Holders'
  BY DEF Base, TypeOK, Holders, ringVars
<1>3. Spinning' /\ (waiting' = "yielding" => NoSleep')
  BY DEF Base, Spinning, NoSleep, setup
<1>4. QED
  BY <1>1, <1>2, <1>3 DEF Base

LEMMA NotifyBase ==
  ASSUME Base, NEW t \in Threads, Notify(t), UNCHANGED setup
  PROVE  Base'
<1>1. pc[t] = "notify" /\ UNCHANGED <<ringVars, todo, count, handed>>
  BY DEF Notify
<1>2. moved' \in [Threads -> BOOLEAN]
  BY DEF Notify, Base, TypeOK
<1>3. CASE Goto(t, "out")
  BY <1>1, <1>2, <1>3, LocalBase DEF Goto, Base, TypeOK
<1>4. ASSUME NEW u \in Sleepers(NotifierOf(t)),
             pc' = [pc EXCEPT ![t] = "out", ![u] = "wait"]
      PROVE  Base'
  <2>1. u \in Threads /\ pc[u] = "asleep" /\ u # t
    BY <1>1, <1>4 DEF Sleepers
  <2>2. \A x \in Threads :
          pc'[x] = IF x = u THEN "wait" ELSE IF x = t THEN "out" ELSE pc[x]
    BY <1>4, <2>1 DEF Base, TypeOK
  <2>3. waiting # "yielding"
    BY <2>1 DEF Base, NoSleep
  <2>4. TypeOK'
    BY <1>1, <1>2, <1>4, <2>1 DEF Base, TypeOK, ringVars, setup
  <2>5. Holders'
    BY <1>1, <2>1, <2>2 DEF Base, TypeOK, Holders, ringVars
  <2>6. Spinning'
    BY <1>1, <2>2 DEF Base, Spinning, setup
  <2>7. QED
    BY <2>3, <2>4, <2>5, <2>6 DEF Base, setup
<1>5. QED
  BY <1>3, <1>4 DEF Notify

(* What a step does to the threads: the labels before and after.  Only a   *)
(* notification changes another thread.                                    *)
Steps(t) ==
  \/ pc[t] = "out" /\ pc'[t] \in {"try", "sample"} /\ todo[t] > 0
  \/ pc[t] = "try" /\ pc'[t] \in {"try", "sample"}
  \/ pc[t] = "sample" /\ pc'[t] = "retry"
  \/ pc[t] = "retry" /\ (Refused(t) \/ Unseen(t)) /\ pc'[t] = "wait"
  \/ pc[t] = "wait" /\ ~moved[t] /\ pc'[t] = "asleep"
  \/ pc[t] = "wait" /\ moved[t] /\ pc'[t] \in {"try", "sample"}
  \/ pc[t] = "asleep" /\ pc'[t] = "wait"

Local(t) ==
  /\ Steps(t)
  /\ UNCHANGED <<ringVars, setup, handed>>
  /\ \A u \in Threads \ {t} : pc'[u] = pc[u] /\ moved'[u] = moved[u] /\ todo'[u] = todo[u]
  /\ moved'[t] = moved[t] \/ pc'[t] = "retry"
  /\ todo'[t] > 0 => todo[t] > 0

LEMMA LocalSteps ==
  ASSUME Base, NEW t \in Threads, UNCHANGED setup,
         \/ Call(t) \/ Spin(t) \/ Sample(t) \/ GiveUp(t) \/ Wait(t) \/ SpuriousWake(t)
  PROVE  Base' /\ Local(t)
<1>1. SpinTries \in Nat \ {0} /\ waiting \in {"blocking", "yielding"}
  BY SpinAssumption DEF Base, TypeOK
<1>2. CASE Call(t)
  <2>1. /\ pc[t] = "out" /\ todo[t] > 0 /\ todo' = [todo EXCEPT ![t] = @ - 1]
        /\ Loop(t, 0) /\ UNCHANGED <<ringVars, moved, handed>>
    BY <1>2 DEF Call
  <2>2. /\ todo' \in [Threads -> Nat] /\ todo'[t] = todo[t] - 1
        /\ \A u \in Threads \ {t} : todo'[u] = todo[u]
    BY <2>1 DEF Base, TypeOK
  <2>3. moved' \in [Threads -> BOOLEAN]
    BY <2>1 DEF Base, TypeOK
  <2>4. Base'
    BY <1>1, <2>1, <2>2, <2>3, LoopBase, LocalBase
  <2>5. /\ pc'[t] \in {"try", "sample"}
        /\ \A u \in Threads \ {t} : pc'[u] = pc[u]
    BY <1>1, <2>1, LoopBase
  <2>6. QED
    BY <2>1, <2>2, <2>4, <2>5 DEF Local, Steps
<1>3. CASE Spin(t)
  <2> DEFINE n == IF waiting = "blocking" THEN count[t] + 1 ELSE 0
  <2>1. pc[t] = "try" /\ Loop(t, n) /\ UNCHANGED <<ringVars, todo, moved, handed>>
    BY <1>3 DEF Spin
  <2>2. n \in Nat /\ (waiting = "blocking" => n <= SpinTries) /\ (waiting = "yielding" => n = 0)
    BY <1>1, <2>1 DEF Base, TypeOK, Spinning
  <2>3. moved' \in [Threads -> BOOLEAN] /\ todo' \in [Threads -> Nat]
    BY <2>1 DEF Base, TypeOK
  <2> HIDE DEF n
  <2>4. Base'
    BY <1>1, <2>1, <2>2, <2>3, LoopBase, LocalBase
  <2>5. /\ pc'[t] \in {"try", "sample"}
        /\ \A u \in Threads \ {t} : pc'[u] = pc[u]
    BY <1>1, <2>1, <2>2, LoopBase
  <2>6. QED
    BY <2>1, <2>4, <2>5 DEF Local, Steps
<1>4. CASE Sample(t)
  <2>1. /\ pc[t] = "sample" /\ moved' = [moved EXCEPT ![t] = FALSE]
        /\ pc' = [pc EXCEPT ![t] = "retry"] /\ UNCHANGED <<ringVars, todo, count, handed>>
    BY <1>4 DEF Sample, Goto
  <2>2. waiting # "yielding"
    BY <2>1 DEF Base, NoSleep
  <2>3. Base'
    BY <2>1, <2>2, LocalBase DEF Base, TypeOK
  <2>4. QED
    BY <2>1, <2>3 DEF Local, Steps, Base, TypeOK
<1>5. CASE GiveUp(t)
  <2>1. /\ pc[t] = "retry" /\ (Refused(t) \/ Unseen(t)) /\ pc' = [pc EXCEPT ![t] = "wait"]
        /\ UNCHANGED <<ringVars, todo, count, moved, handed>>
    BY <1>5 DEF GiveUp, Goto
  <2>2. waiting # "yielding"
    BY <2>1 DEF Base, NoSleep
  <2>3. Base'
    BY <2>1, <2>2, LocalBase DEF Base, TypeOK
  <2>4. QED
    BY <2>1, <2>3 DEF Local, Steps, Base, TypeOK
<1>6. CASE Wait(t)
  <2>1. pc[t] = "wait" /\ UNCHANGED <<ringVars, todo, moved, handed>>
    BY <1>6 DEF Wait
  <2>2. waiting # "yielding"
    BY <2>1 DEF Base, NoSleep
  <2>3. moved' \in [Threads -> BOOLEAN] /\ todo' \in [Threads -> Nat]
    BY <2>1 DEF Base, TypeOK
  <2>4. CASE ~moved[t] /\ Goto(t, "asleep") /\ UNCHANGED count
    <3>1. Base'
      BY <2>1, <2>2, <2>3, <2>4, LocalBase DEF Base, TypeOK, Goto
    <3>2. QED
      BY <2>1, <2>4, <3>1 DEF Local, Steps, Base, TypeOK, Goto
  <2>5. CASE moved[t] /\ Loop(t, 0)
    <3>1. Base'
      BY <1>1, <2>1, <2>3, <2>5, LoopBase, LocalBase
    <3>2. /\ pc'[t] \in {"try", "sample"}
          /\ \A u \in Threads \ {t} : pc'[u] = pc[u]
      BY <1>1, <2>5, LoopBase
    <3>3. QED
      BY <2>1, <2>5, <3>1, <3>2 DEF Local, Steps
  <2>6. QED
    BY <1>6, <2>4, <2>5 DEF Wait
<1>7. CASE SpuriousWake(t)
  <2>1. /\ pc[t] = "asleep" /\ pc' = [pc EXCEPT ![t] = "wait"]
        /\ UNCHANGED <<ringVars, todo, count, moved, handed>>
    BY <1>7 DEF SpuriousWake, Goto
  <2>2. waiting # "yielding"
    BY <2>1 DEF Base, NoSleep
  <2>3. Base'
    BY <2>1, <2>2, LocalBase DEF Base, TypeOK
  <2>4. QED
    BY <2>1, <2>3 DEF Local, Steps, Base, TypeOK
<1>8. QED
  BY <1>2, <1>3, <1>4, <1>5, <1>6, <1>7

(* A notification, of one of the sleepers if there are any.                *)
Notifies(t) ==
  /\ pc[t] = "notify" /\ pc'[t] = "out" /\ UNCHANGED <<ringVars, setup, todo, handed>>
  /\ waiting = "blocking" =>
       \A u \in Threads : moved'[u] = (moved[u] \/ WaiterOf(u) = NotifierOf(t))
  /\ \/ Sleepers(NotifierOf(t)) = {} /\ \A u \in Threads \ {t} : pc'[u] = pc[u]
     \/ \E s \in Sleepers(NotifierOf(t)) :
          /\ pc'[s] = "wait"
          /\ \A u \in Threads \ {s, t} : pc'[u] = pc[u]

LEMMA NotifySteps ==
  ASSUME Base, NEW t \in Threads, UNCHANGED setup, Notify(t)
  PROVE  Base' /\ Notifies(t)
<1>1. Base'
  BY NotifyBase
<1>2. pc[t] = "notify" /\ UNCHANGED <<ringVars, setup, todo, handed>>
  BY DEF Notify
<1>3. waiting = "blocking" =>
        \A u \in Threads : moved'[u] = (moved[u] \/ WaiterOf(u) = NotifierOf(t))
  BY Zenon DEF Notify
<1>4. CASE Sleepers(NotifierOf(t)) = {}
  <2>1. pc' = [pc EXCEPT ![t] = "out"]
    BY <1>4 DEF Notify, Goto
  <2>2. QED
    BY <1>1, <1>2, <1>3, <1>4, <2>1 DEF Notifies, Base, TypeOK
<1>5. CASE Sleepers(NotifierOf(t)) # {}
  <2>1. PICK s \in Sleepers(NotifierOf(t)) : pc' = [pc EXCEPT ![t] = "out", ![s] = "wait"]
    BY <1>5 DEF Notify
  <2>2. s \in Threads /\ pc[s] = "asleep" /\ s # t
    BY <1>2 DEF Sleepers
  <2>3. /\ pc'[s] = "wait" /\ pc'[t] = "out"
        /\ \A u \in Threads \ {s, t} : pc'[u] = pc[u]
    BY <2>1, <2>2 DEF Base, TypeOK
  <2>4. QED
    BY <1>1, <1>2, <1>3, <2>3 DEF Notifies
<1>6. QED
  BY <1>4, <1>5

LEMMA AllSteps ==
  ASSUME Base, NEW t \in Threads, UNCHANGED setup, Step(t) \/ SpuriousWake(t)
  PROVE  Base' /\ (Local(t) \/ Notifies(t) \/ Succeed(t) \/ Finish(t))
BY LocalSteps, NotifySteps, SucceedBase, FinishBase DEF Step

(* A thread that acquires a slot or hands it on.                           *)
LEMMA RingSteps ==
  ASSUME Base, NEW t \in Threads, Succeed(t) \/ Finish(t)
  PROVE  /\ pc[t] \in {"try", "retry", "holding"} /\ pc'[t] \in {"holding", "notify"}
         /\ Succeed(t) => Acquire(t) /\ pc[t] # "holding" /\ pc'[t] = "holding"
         /\ Finish(t) => HandOn(t) /\ pc[t] = "holding" /\ pc'[t] = "notify"
         /\ \A u \in Threads \ {t} : pc'[u] = pc[u]
         /\ moved' = moved /\ todo' = todo
         /\ \A u \in Threads \ {t} : handed'[u] = handed[u]
         /\ Succeed(t) => handed' = handed
BY DEF Succeed, Finish, Goto, Base, TypeOK

LEMMA AloneStep ==
  ASSUME Base, NEW w \in Sides, Alone(w), NEW t \in Threads,
         Local(t) \/ Notifies(t) \/ Succeed(t) \/ Finish(t)
  PROVE  Alone(w)'
<1>1. \A u \in Threads : Active(u)' => Active(u)
  <2>1. CASE Local(t)
    BY <2>1 DEF Local, Steps, Active
  <2>2. CASE Notifies(t)
    BY <2>2 DEF Notifies, Active, Sleepers
  <2>3. CASE Succeed(t) \/ Finish(t)
    BY <2>3, RingSteps DEF Active
  <2>4. QED
    BY <2>1, <2>2, <2>3
<1>2. Side(w) \subseteq Threads
  BY SidesAre
<1>3. QED
  BY <1>1, <1>2 DEF Alone

(* The object that a thread of one side notifies is the other side's.      *)
LEMMA Objects ==
  ASSUME NEW w \in Sides, NEW t \in Side(Other(w)), NEW u \in Threads
  PROVE  /\ u \in Side(w) => NotifierOf(t) = WaiterOf(u)
         /\ ~shared /\ NotifierOf(t) = WaiterOf(u) => u \in Side(w)
BY ThreadsAssumption DEF Sides, Side, Other, NotifierOf, WaiterOf, Threads

LEMMA HeardStep ==
  ASSUME Base, waiting = "blocking", NEW w \in Sides, Alone(w), Heard(w),
         shared => Alone(Other(w)), NEW t \in Threads,
         Local(t) \/ Notifies(t) \/ Succeed(t) \/ Finish(t)
  PROVE  Heard(w)'
<1> SUFFICES ASSUME NEW u \in Side(w), Dozing(u)', slot'[Cursor(w)'] = Wanted(w)
             PROVE  Pending(Other(w))'
  BY DEF Heard, Wanted
<1>1. /\ Other(w) \in Sides /\ Threads = Side(w) \cup Side(Other(w)) /\ u \in Threads
      /\ Wanted(w) \notin Threads
  BY SidesAre
<1>2. Dozing(u) => Active(u)
  BY DEF Dozing, Active
<1>3. CASE Local(t)
  <2>1. slot'[Cursor(w)'] = slot[Cursor(w)]
    BY <1>3 DEF Local, ringVars, Cursor
  <2>2. \E v \in Side(Other(w)) : pc[v] = "notify"
    <3>1. ~Refused(u)
      BY <2>1, RefusedIs
    <3>2. CASE Dozing(u)
      BY <2>1, <3>2 DEF Heard, Pending
    <3>3. CASE ~Dozing(u)
      <4>1. u = t /\ pc[u] = "retry" /\ Unseen(u) /\ pc'[u] = "wait" /\ moved'[u] = moved[u]
        BY <1>1, <1>3, <3>1, <3>3 DEF Local, Steps, Dozing
      <4>2. ~moved[u]
        BY <4>1 DEF Dozing
      <4>3. QED
        BY <4>1, <4>2, UnseenIs
    <3>4. QED
      BY <3>2, <3>3
  <2>3. PICK v \in Side(Other(w)) : pc[v] = "notify"
    BY <2>2
  <2>4. pc'[v] = "notify"
    BY <1>1, <1>3, <2>3 DEF Local, Steps
  <2>5. QED
    BY <2>4 DEF Pending, Side, Other
<1>4. CASE Notifies(t)
  <2>1. pc[t] = "notify" /\ pc'[t] = "out" /\ Active(t) /\ u # t
    BY <1>4 DEF Notifies, Active, Dozing
  <2>2. pc[u] # "out" /\ Active(u)
    BY <1>1, <1>4, <2>1 DEF Notifies, Dozing, Sleepers, Active
  <2>3. t \in Side(Other(w))
    BY <1>1, <2>1, <2>2 DEF Alone
  <2>4. moved'[u] /\ pc'[u] = "asleep"
    BY <1>1, <1>4, <2>3, Objects DEF Notifies, Dozing
  <2>5. u \in Sleepers(NotifierOf(t))
    BY <1>1, <1>4, <2>1, <2>3, <2>4, Objects DEF Notifies, Sleepers
  <2>6. PICK s \in Sleepers(NotifierOf(t)) : pc'[s] = "wait"
    BY <1>4, <2>5 DEF Notifies
  <2>7. s \in Threads /\ pc[s] = "asleep" /\ Active(s) /\ WaiterOf(s) = NotifierOf(t)
    BY DEF Sleepers, Active
  <2>8. s \notin Side(w)
    BY <2>2, <2>4, <2>6, <2>7 DEF Alone
  <2>9. shared /\ s \in Side(Other(w))
    BY <1>1, <2>3, <2>7, <2>8, Objects
  <2>10. QED
    BY <2>1, <2>3, <2>7, <2>9 DEF Alone
<1>5. CASE Succeed(t) \/ Finish(t)
  <2>1. u # t /\ Dozing(u) /\ Active(t)
    BY <1>1, <1>5, RingSteps DEF Dozing, Active
  <2>2. t \in Side(Other(w))
    BY <1>1, <1>2, <2>1 DEF Alone
  <2>3. CASE Finish(t)
    BY <2>2, <2>3, RingSteps DEF Pending, Side, Other
  <2>4. CASE Succeed(t)
    <3>1. /\ slot' = [slot EXCEPT ![Cursor(Other(w))] = t] /\ Cursor(w)' = Cursor(w)
      BY <1>1, <2>2, <2>4, RingSteps, AcquireIs, SidesAre
    <3>2. slot[Cursor(w)] = Wanted(w)
      <4>1. Cursor(w) \in Slots /\ Cursor(Other(w)) \in Slots /\ slot \in [Slots -> {"free", "full"} \cup Threads]
        BY <1>1, Cursors DEF Base, TypeOK
      <4>2. QED
        BY <1>1, <3>1, <4>1
    <3>3. PICK v \in Side(Other(w)) : pc[v] = "notify"
      BY <2>1, <3>2 DEF Heard, Pending
    <3>4. pc'[v] = "notify"
      BY <1>1, <2>4, <3>3, RingSteps
    <3>5. QED
      BY <3>4 DEF Pending, Side, Other
  <2>5. QED
    BY <1>5, <2>3, <2>4
<1>6. QED
  BY <1>3, <1>4, <1>5

------------------------------------------------------------------------------
(* The layout of the ring, when one side has one thread.                   *)

LEMMA AcquireOwn ==
  ASSUME Base, NEW w \in Sides, NEW n \in 0 .. Cap, Layout(w, n),
         NEW t \in Side(w), Acquire(t)
  PROVE  n >= 1 /\ Layout(w, n - 1)'
<1> DEFINE C == Cursor(w)
           D == Cursor(Other(w))
<1>1. /\ slot[C] = Wanted(w) /\ slot' = [slot EXCEPT ![C] = t] /\ C' = After(C)
      /\ D' = D /\ C \in Slots /\ D \in Slots /\ DOMAIN slot = Slots
  BY AcquireIs, Cursors, SidesAre DEF Base, TypeOK
<1>2. /\ t \in Threads /\ t \notin Side(Other(w)) /\ Wanted(w) \notin Threads
      /\ Side(Other(w)) \subseteq Threads /\ t # Wanted(w) /\ Wanted(w)' = Wanted(w)
      /\ Side(Other(w))' = Side(Other(w))
  BY SidesAre DEF Wanted, Side, Other
<1>3. Cap \in Nat \ {0} /\ n \in Nat
  BY CapAssumption
<1>4. /\ \A s \in Slots : slot[s] = Wanted(w) <=> \E j \in 0 .. n - 1 : s = Pos(C, j)
      /\ \A s \in Slots : slot[s] \in Side(Other(w)) =>
           n < Cap /\ s = Pos(C, n) /\ D = Pos(C, n + 1)
      /\ (\A s \in Slots : slot[s] \notin Side(Other(w))) => D = Pos(C, n)
  BY DEF Layout
<1> HIDE DEF C, D
<1>5. n >= 1
  BY <1>1, <1>3, <1>4
<1>6. Pos(C, 0) = C /\ \A j \in Nat : Pos(C', j) = Pos(C, j + 1)
  BY <1>1, PosZero, PosAfter
<1>7. \A s \in Slots : slot'[s] = IF s = C THEN t ELSE slot[s]
  BY <1>1
<1>8. ASSUME NEW s \in Slots
      PROVE  slot'[s] = Wanted(w) <=> \E j \in 0 .. (n - 1) - 1 : s = Pos(C', j)
  <2>1. ASSUME slot'[s] = Wanted(w)
        PROVE  \E j \in 0 .. (n - 1) - 1 : s = Pos(C', j)
    <3>1. s # C /\ slot[s] = Wanted(w)
      BY <1>2, <1>7, <2>1
    <3>2. PICK j \in 0 .. n - 1 : s = Pos(C, j)
      BY <1>4, <3>1
    <3>3. j - 1 \in 0 .. (n - 1) - 1 /\ j - 1 \in Nat /\ (j - 1) + 1 = j
      BY <1>3, <1>6, <3>1, <3>2
    <3>4. s = Pos(C', j - 1)
      BY <1>6, <3>2, <3>3
    <3>5. QED
      BY <3>3, <3>4
  <2>2. ASSUME NEW j \in 0 .. (n - 1) - 1, s = Pos(C', j)
        PROVE  slot'[s] = Wanted(w)
    <3>1. /\ j \in Nat /\ j + 1 \in 0 .. n - 1 /\ j + 1 \in Nat /\ 0 \in Nat
          /\ 0 < j + 1 /\ j + 1 < 0 + Cap
      BY <1>3
    <3>2. s = Pos(C, j + 1)
      BY <1>6, <2>2, <3>1
    <3>3. s # C
      BY <1>1, <1>6, <3>1, <3>2, PosDistinct
    <3>4. QED
      BY <1>4, <1>7, <3>1, <3>2, <3>3
  <2>3. QED
    BY <2>1, <2>2
<1>9. n - 1 \in Nat /\ (n - 1) + 1 = n
  BY <1>3, <1>5
<1>10. Pos(C', n - 1) = Pos(C, n) /\ Pos(C', n) = Pos(C, n + 1)
  BY <1>3, <1>6, <1>9
<1>11. ASSUME NEW s \in Slots, slot'[s] \in Side(Other(w))
       PROVE  n - 1 < Cap /\ s = Pos(C', n - 1) /\ D' = Pos(C', (n - 1) + 1)
  BY <1>1, <1>2, <1>3, <1>4, <1>7, <1>9, <1>10, <1>11
<1>12. (\A s \in Slots : slot'[s] \notin Side(Other(w))) => D' = Pos(C', n - 1)
  BY <1>1, <1>2, <1>4, <1>7, <1>10
<1>13. QED
  BY <1>2, <1>5, <1>8, <1>11, <1>12 DEF Layout, C, D, Slots, Pos

LEMMA AcquireOther ==
  ASSUME Base, NEW w \in Sides, Alone(Other(w)), NEW n \in 0 .. Cap, Layout(w, n),
         NEW t \in Side(Other(w)), pc[t] # "out", Acquire(t)
  PROVE  Layout(w, n)'
<1> DEFINE C == Cursor(w)
           D == Cursor(Other(w))
<1>1. /\ slot[D] = Wanted(Other(w)) /\ slot' = [slot EXCEPT ![D] = t] /\ D' = After(D)
      /\ C' = C /\ ~Holds(t) /\ C \in Slots /\ D \in Slots /\ DOMAIN slot = Slots
  BY AcquireIs, Cursors, SidesAre DEF Base, TypeOK
<1>2. /\ t \in Threads /\ Wanted(w) \notin Threads /\ Wanted(Other(w)) # Wanted(w)
      /\ Side(Other(w)) \subseteq Threads /\ Wanted(w)' = Wanted(w)
      /\ Side(Other(w))' = Side(Other(w)) /\ Wanted(Other(w)) \notin Threads
  BY SidesAre DEF Wanted, Side, Other
<1>3. Cap \in Nat \ {0} /\ n \in Nat
  BY CapAssumption
<1>4. \A s \in Slots : slot[s] \notin Side(Other(w))
  <2> SUFFICES ASSUME NEW s \in Slots, slot[s] \in Side(Other(w)) PROVE FALSE
    OBVIOUS
  <2>1. Active(slot[s]) /\ Active(t)
    BY <1>2 DEF Base, Holders, Active
  <2>2. slot[s] = t
    BY <2>1 DEF Alone
  <2>3. QED
    BY <1>1, <2>2 DEF Holds
<1>5. /\ \A s \in Slots : slot[s] = Wanted(w) <=> \E j \in 0 .. n - 1 : s = Pos(C, j)
      /\ D = Pos(C, n)
  BY <1>4 DEF Layout
<1> HIDE DEF C, D
<1>6. n < Cap
  <2>1. PICK j \in 0 .. Cap - 1 : D = Pos(C, j)
    BY <1>1, PosAll
  <2>2. j \notin 0 .. n - 1
    BY <1>1, <1>2, <1>5, <2>1
  <2>3. QED
    BY <1>3, <2>1, <2>2
<1>7. D' = Pos(C, n + 1)
  BY <1>1, <1>3, <1>5, PosAfter
<1>8. \A s \in Slots : slot'[s] = IF s = D THEN t ELSE slot[s]
  BY <1>1
<1>9. \A s \in Slots : slot'[s] = Wanted(w) <=> \E j \in 0 .. n - 1 : s = Pos(C', j)
  <2>1. \A s \in Slots : slot'[s] = Wanted(w) <=> slot[s] = Wanted(w)
    BY <1>1, <1>2, <1>8
  <2>2. QED
    BY <1>1, <1>5, <2>1
<1>10. \A s \in Slots : slot'[s] \in Side(Other(w)) =>
         n < Cap /\ s = Pos(C', n) /\ D' = Pos(C', n + 1)
  BY <1>1, <1>4, <1>5, <1>6, <1>7, <1>8
<1>11. slot'[D] \in Side(Other(w))
  BY <1>1, <1>8
<1>12. QED
  BY <1>1, <1>2, <1>9, <1>10, <1>11 DEF Layout, C, D, Slots, Pos

LEMMA HandOnOwn ==
  ASSUME Base, NEW w \in Sides, NEW n \in 0 .. Cap, Layout(w, n),
         NEW t \in Side(w), HandOn(t)
  PROVE  Layout(w, n)'
<1> DEFINE C == Cursor(w)
           D == Cursor(Other(w))
<1>1. PICK r \in Slots : slot[r] = t /\ slot' = [slot EXCEPT ![r] = Wanted(Other(w))]
  BY HandOnIs
<1>2. C' = C /\ D' = D /\ DOMAIN slot = Slots
  BY HandOnIs DEF Cursor, Other, Base, TypeOK
<1>3. /\ t \in Threads /\ t \notin Side(Other(w)) /\ Wanted(w) \notin Threads
      /\ Side(Other(w)) \subseteq Threads /\ Wanted(w)' = Wanted(w)
      /\ Wanted(Other(w)) # Wanted(w) /\ Wanted(Other(w)) \notin Threads
      /\ Side(Other(w))' = Side(Other(w))
  BY SidesAre DEF Wanted, Side, Other
<1>4. /\ \A s \in Slots : slot[s] = Wanted(w) <=> \E j \in 0 .. n - 1 : s = Pos(C, j)
      /\ \A s \in Slots : slot[s] \in Side(Other(w)) =>
           n < Cap /\ s = Pos(C, n) /\ D = Pos(C, n + 1)
      /\ (\A s \in Slots : slot[s] \notin Side(Other(w))) => D = Pos(C, n)
  BY DEF Layout
<1> HIDE DEF C, D
<1>5. \A s \in Slots : slot'[s] = IF s = r THEN Wanted(Other(w)) ELSE slot[s]
  BY <1>1, <1>2
<1>6. /\ \A s \in Slots : slot'[s] = Wanted(w) <=> slot[s] = Wanted(w)
      /\ \A s \in Slots : slot'[s] \in Side(Other(w)) <=> slot[s] \in Side(Other(w))
  BY <1>1, <1>3, <1>5
<1>7. QED
  BY <1>2, <1>3, <1>4, <1>6 DEF Layout, C, D, Slots, Pos

LEMMA HandOnOther ==
  ASSUME Base, NEW w \in Sides, NEW n \in 0 .. Cap, Layout(w, n),
         NEW t \in Side(Other(w)), HandOn(t)
  PROVE  n < Cap /\ Layout(w, n + 1)'
<1> DEFINE C == Cursor(w)
           D == Cursor(Other(w))
<1>1. PICK r \in Slots : slot[r] = t /\ slot' = [slot EXCEPT ![r] = Wanted(w)]
  BY HandOnIs, SidesAre
<1>2. C' = C /\ D' = D /\ DOMAIN slot = Slots
  BY HandOnIs, SidesAre DEF Cursor, Other, Base, TypeOK
<1>3. /\ Wanted(w) \notin Threads /\ Side(Other(w)) \subseteq Threads
      /\ Wanted(w)' = Wanted(w) /\ Side(Other(w))' = Side(Other(w))
  BY SidesAre DEF Wanted, Side, Other
<1>4. /\ \A s \in Slots : slot[s] = Wanted(w) <=> \E j \in 0 .. n - 1 : s = Pos(C, j)
      /\ \A s \in Slots : slot[s] \in Side(Other(w)) =>
           n < Cap /\ s = Pos(C, n) /\ D = Pos(C, n + 1)
  BY DEF Layout
<1> HIDE DEF C, D
<1>5. n < Cap /\ r = Pos(C, n) /\ D = Pos(C, n + 1)
  BY <1>1, <1>4
<1>6. \A s \in Slots : slot'[s] = IF s = r THEN Wanted(w) ELSE slot[s]
  BY <1>1, <1>2
<1>7. \A s \in Slots : slot'[s] = Wanted(w) <=> \E j \in 0 .. (n + 1) - 1 : s = Pos(C', j)
  <2>1. 0 .. (n + 1) - 1 = (0 .. n - 1) \cup {n}
    OBVIOUS
  <2>2. QED
    BY <1>2, <1>4, <1>5, <1>6, <2>1
<1>8. \A s \in Slots : slot'[s] \notin Side(Other(w))
  BY <1>3, <1>4, <1>5, <1>6
<1>9. QED
  BY <1>2, <1>3, <1>5, <1>7, <1>8 DEF Layout, C, D, Slots, Pos

------------------------------------------------------------------------------
(* The side that faces one thread: a slot is wanted once more only when    *)
(* that thread hands it on and is about to notify, and a ready thread is   *)
(* lost only when it acquires a slot or finds that there is none.          *)

LEMMA ReadyFinite ==
  ASSUME NEW w \in Sides
  PROVE  /\ IsFiniteSet(ReadyOn(w)) /\ Cardinality(ReadyOn(w)) \in Nat
         /\ IsFiniteSet(ReadyOn(w)') /\ Cardinality(ReadyOn(w)') \in Nat
<1>1. ReadyOn(w) \subseteq Threads /\ ReadyOn(w)' \subseteq Threads
  BY SidesAre DEF ReadyOn, Side
<1>2. QED
  BY <1>1, FiniteAssumption, FS_Subset, FS_CardinalityType

LEMMA MoreReady ==
  ASSUME NEW w \in Sides, ReadyOn(w) \subseteq ReadyOn(w)'
  PROVE  Cardinality(ReadyOn(w)) <= Cardinality(ReadyOn(w)')
BY ReadyFinite, FS_Subset

LEMMA OneReadyLess ==
  ASSUME NEW w \in Sides, NEW t, ReadyOn(w) \ {t} \subseteq ReadyOn(w)'
  PROVE  Cardinality(ReadyOn(w)) <= Cardinality(ReadyOn(w)') + 1
<1> DEFINE R == ReadyOn(w)
           Q == ReadyOn(w)'
<1>1. /\ IsFiniteSet(R) /\ Cardinality(R) \in Nat
      /\ IsFiniteSet(Q) /\ Cardinality(Q) \in Nat /\ R \ {t} \subseteq Q
  BY ReadyFinite
<1> HIDE DEF R, Q
<1>2. /\ IsFiniteSet(R \ {t})
      /\ Cardinality(R \ {t}) = IF t \in R THEN Cardinality(R) - 1 ELSE Cardinality(R)
  BY <1>1, FS_RemoveElement
<1>3. Cardinality(R \ {t}) <= Cardinality(Q)
  BY <1>1, FS_Subset
<1>4. Cardinality(R) <= Cardinality(Q) + 1
  BY <1>1, <1>2, <1>3
<1>5. QED
  BY <1>4 DEF R, Q

LEMMA OneReadyMore ==
  ASSUME NEW w \in Sides, NEW t, t \notin ReadyOn(w), t \in ReadyOn(w)',
         ReadyOn(w) \subseteq ReadyOn(w)'
  PROVE  Cardinality(ReadyOn(w)) + 1 <= Cardinality(ReadyOn(w)')
<1> DEFINE R == ReadyOn(w)
           Q == ReadyOn(w)'
<1>1. /\ IsFiniteSet(R) /\ Cardinality(R) \in Nat /\ t \notin R
      /\ IsFiniteSet(Q) /\ Cardinality(Q) \in Nat /\ R \cup {t} \subseteq Q
  BY ReadyFinite
<1> HIDE DEF R, Q
<1>2. Cardinality(R \cup {t}) = Cardinality(R) + 1
  BY <1>1, FS_AddElement
<1>3. Cardinality(R \cup {t}) <= Cardinality(Q)
  BY <1>1, FS_Subset
<1>4. Cardinality(R) + 1 <= Cardinality(Q)
  BY <1>1, <1>2, <1>3
<1>5. QED
  BY <1>4 DEF R, Q

(* The wanted slots stay what they are; enough of the side stays ready.    *)
LEMMA StillEnough ==
  ASSUME NEW w \in Sides, NEW n \in Nat, Enough(w, n),
         (\E u \in Side(w) : Dozing(u)') => \E u \in Side(w) : Dozing(u),
         Pending(Other(w)) => Pending(Other(w))',
         ReadyOn(w) \subseteq ReadyOn(w)'
  PROVE  Enough(w, n)'
<1> SUFFICES ASSUME NEW u \in Side(w), Dozing(u)'
             PROVE  n <= Cardinality(ReadyOn(w)') + (IF Pending(Other(w))' THEN 1 ELSE 0)
  BY DEF Enough, Side, Other
<1>1. n <= Cardinality(ReadyOn(w)) + (IF Pending(Other(w)) THEN 1 ELSE 0)
  BY DEF Enough
<1>2. Cardinality(ReadyOn(w)) <= Cardinality(ReadyOn(w)')
  BY MoreReady
<1> DEFINE a == Cardinality(ReadyOn(w))
           b == Cardinality(ReadyOn(w)')
<1>3. a \in Nat /\ b \in Nat /\ a <= b /\ n <= a + (IF Pending(Other(w)) THEN 1 ELSE 0)
  BY <1>1, <1>2, ReadyFinite
<1> HIDE DEF a, b
<1>4. n <= b + (IF Pending(Other(w))' THEN 1 ELSE 0)
  <2>1. CASE Pending(Other(w))
    <3>1. n <= b + 1
      BY <1>3, <2>1
    <3>2. QED
      BY <2>1, <3>1
  <2>2. CASE ~Pending(Other(w))
    <3>1. n <= b + 0 /\ n <= b + 1
      BY <1>3, <2>2
    <3>2. QED
      BY <3>1
  <2>3. QED
    BY <2>1, <2>2
<1>5. QED
  BY <1>4 DEF b

LEMMA SameLayout ==
  ASSUME NEW w \in Sides, NEW n \in 0 .. Cap, Layout(w, n), UNCHANGED ringVars
  PROVE  Layout(w, n)'
BY DEF ringVars, Layout, Cursor, Wanted, Pos, Slots, Side, Other

(* While a thread makes no step on the ring, the last wanted slot is the   *)
(* same, and nobody comes to have a notification to make.                  *)
LEMMA SameLast ==
  ASSUME NEW w \in Sides, NEW n \in 0 .. Cap, LastOf(w, n), UNCHANGED ringVars,
         \A u \in Side(Other(w)) :
           pc'[u] = "notify" => pc[u] = "notify" /\ handed'[u] = handed[u]
  PROVE  LastOf(w, n)'
BY DEF ringVars, LastOf, Cursor, Pos, Side, Other

LEMMA ServedLocal ==
  ASSUME Base, NEW w \in Sides, Served(w), NEW t \in Threads, Local(t)
  PROVE  Served(w)'
<1>1. PICK n \in 0 .. Cap : Layout(w, n) /\ Enough(w, n) /\ LastOf(w, n)
  BY DEF Served
<1>2. Layout(w, n)'
  BY <1>1, SameLayout DEF Local
<1>3. n \in Nat /\ Cap \in Nat \ {0} /\ n <= Cap
  BY CapAssumption
<1>4. /\ Threads = Side(w) \cup Side(Other(w)) /\ Side(w) \cap Side(Other(w)) = {}
  BY SidesAre
<1>5. \A u \in Threads : pc'[u] = "notify" <=> pc[u] = "notify"
  BY DEF Local, Steps
<1>6. LastOf(w, n)'
  BY <1>1, <1>4, <1>5, SameLast DEF Local
<1>7. Pending(Other(w)) <=> Pending(Other(w))'
  BY <1>4, <1>5 DEF Pending, Side, Other
<1>8. CASE t \in Side(w) /\ pc[t] = "retry" /\ ~moved[t]
  <2>1. Refused(t) \/ Unseen(t)
    BY <1>8 DEF Local, Steps
  <2>2. Cursor(w) \in Slots /\ Pos(Cursor(w), 0) = Cursor(w)
    BY Cursors, PosZero DEF Base
  <2>3. CASE Refused(t)
    <3>1. slot[Cursor(w)] # Wanted(w)
      BY <1>8, <2>3, RefusedIs
    <3>2. 0 \notin 0 .. n - 1
      BY <1>1, <2>2, <3>1 DEF Layout
    <3>3. n = 0
      BY <1>3, <3>2
    <3>4. Enough(w, n)'
      <4> SUFFICES n <= Cardinality(ReadyOn(w)') + (IF Pending(Other(w))' THEN 1 ELSE 0)
        BY DEF Enough, Side, Other
      <4> DEFINE b == Cardinality(ReadyOn(w)')
      <4>1. b \in Nat
        BY ReadyFinite
      <4> HIDE DEF b
      <4>2. 0 <= b + 1 /\ 0 <= b + 0
        BY <4>1
      <4>3. QED
        BY <3>3, <4>2 DEF b
    <3>5. QED
      BY <1>2, <1>6, <3>4 DEF Served
  <2>4. CASE Unseen(t)
    <3>1. PICK u \in Side(Other(w)) : pc[u] = "notify" /\ handed[u] = Cursor(w)
      BY <1>8, <2>4, UnseenIs
    <3>2. n <= 1
      <4> SUFFICES ASSUME n > 1 PROVE FALSE
        BY <1>3
      <4>1. Cursor(w) = Pos(Cursor(w), n - 1)
        BY <1>1, <1>3, <3>1 DEF LastOf
      <4>2. 0 \in Nat /\ n - 1 \in Nat /\ 0 < n - 1 /\ n - 1 < 0 + Cap
        BY <1>3
      <4>3. Pos(Cursor(w), 0) # Pos(Cursor(w), n - 1)
        BY <2>2, <4>2, PosDistinct
      <4>4. QED
        BY <2>2, <4>1, <4>3
    <3>3. Pending(Other(w))'
      BY <1>7, <3>1 DEF Pending
    <3>4. Enough(w, n)'
      <4> SUFFICES n <= Cardinality(ReadyOn(w)') + 1
        BY <3>3 DEF Enough, Side, Other
      <4>1. Cardinality(ReadyOn(w)') \in Nat
        BY ReadyFinite
      <4>2. QED
        BY <1>3, <3>2, <4>1
    <3>5. QED
      BY <1>2, <1>6, <3>4 DEF Served
  <2>5. QED
    BY <2>1, <2>3, <2>4
<1>9. CASE ~(t \in Side(w) /\ pc[t] = "retry" /\ ~moved[t])
  <2>1. ReadyOn(w) \subseteq ReadyOn(w)'
    <3> SUFFICES ASSUME NEW v \in Side(w), Ready(v) PROVE Ready(v)'
      BY DEF ReadyOn, Side
    <3>1. QED
      BY <1>4, <1>9 DEF Local, Steps, Ready
  <2>2. ASSUME NEW u \in Side(w), Dozing(u)' PROVE Dozing(u)
    BY <1>4, <1>9, <2>2 DEF Local, Steps, Dozing
  <2>3. Enough(w, n)'
    BY <1>1, <1>3, <1>7, <2>1, <2>2, StillEnough
  <2>4. QED
    BY <1>2, <1>6, <2>3 DEF Served
<1>10. QED
  BY <1>8, <1>9

LEMMA ServedNotifies ==
  ASSUME Base, waiting = "blocking", ~shared, NEW w \in Sides, Served(w),
         NEW t \in Threads, Notifies(t)
  PROVE  Served(w)'
<1>1. PICK n \in 0 .. Cap : Layout(w, n) /\ Enough(w, n) /\ LastOf(w, n)
  BY DEF Served
<1>2. Layout(w, n)'
  BY <1>1, SameLayout DEF Notifies
<1>3. n \in Nat
  BY CapAssumption
<1>4. /\ Threads = Side(w) \cup Side(Other(w)) /\ Side(w) \cap Side(Other(w)) = {}
      /\ Other(w) \in Sides /\ Other(Other(w)) = w
  BY SidesAre
<1>5. /\ pc[t] = "notify" /\ pc'[t] = "out"
      /\ \A u \in Threads : moved'[u] = (moved[u] \/ WaiterOf(u) = NotifierOf(t))
      /\ \/ Sleepers(NotifierOf(t)) = {} /\ \A u \in Threads \ {t} : pc'[u] = pc[u]
         \/ \E s \in Sleepers(NotifierOf(t)) :
              pc'[s] = "wait" /\ \A u \in Threads \ {s, t} : pc'[u] = pc[u]
  BY DEF Notifies
<1>6. LastOf(w, n)'
  <2>1. \A u \in Threads : pc'[u] = "notify" => pc[u] = "notify"
    BY <1>5
  <2>2. UNCHANGED ringVars /\ handed' = handed
    BY DEF Notifies
  <2>3. QED
    BY <1>1, <1>4, <2>1, <2>2, SameLast
<1>7. CASE t \in Side(w)
  <2>1. \A u \in Side(w) : WaiterOf(u) # NotifierOf(t)
    BY <1>4, <1>7, Objects
  <2>2. \A u \in Side(w) : moved[u] \in BOOLEAN /\ moved'[u] = moved[u]
    BY <1>4, <1>5, <2>1 DEF Base, TypeOK
  <2>3. \A u \in Side(w) \ {t} : pc'[u] = pc[u]
    BY <1>4, <1>5, <2>1 DEF Sleepers
  <2>4. ReadyOn(w) \subseteq ReadyOn(w)'
    <3> SUFFICES ASSUME NEW v \in Side(w), Ready(v) PROVE Ready(v)'
      BY DEF ReadyOn, Side
    <3>1. QED
      BY <1>5, <2>2, <2>3 DEF Ready
  <2>5. ASSUME NEW u \in Side(w), Dozing(u)' PROVE Dozing(u)
    BY <1>5, <2>2, <2>3, <2>5 DEF Dozing
  <2>6. Pending(Other(w)) => Pending(Other(w))'
    BY <1>4, <1>5, <1>7 DEF Pending, Side, Other, Sleepers
  <2>7. Enough(w, n)'
    BY <1>1, <1>3, <2>4, <2>5, <2>6, StillEnough
  <2>8. QED
    BY <1>2, <1>6, <2>7 DEF Served
<1>8. CASE t \in Side(Other(w))
  <2>1. Enough(w, n)'
    <3> SUFFICES ASSUME NEW u \in Side(w), Dozing(u)'
                 PROVE  n <= Cardinality(ReadyOn(w)') + (IF Pending(Other(w))' THEN 1 ELSE 0)
      BY DEF Enough, Side, Other
    <3>1. \A v \in Side(w) : v # t /\ WaiterOf(v) = NotifierOf(t) /\ moved'[v]
      BY <1>4, <1>5, <1>8, Objects
    <3>2. pc'[u] = "asleep" /\ pc[u] = "asleep"
      BY <1>4, <1>5, <3>1 DEF Dozing
    <3>3. u \in Sleepers(NotifierOf(t))
      BY <1>4, <3>1, <3>2 DEF Sleepers
    <3>4. PICK s \in Sleepers(NotifierOf(t)) :
            pc'[s] = "wait" /\ \A v \in Threads \ {s, t} : pc'[v] = pc[v]
      BY <1>5, <3>3
    <3>5. s \in Side(w) /\ pc[s] = "asleep"
      BY <1>8, Objects DEF Sleepers
    <3>6. s \notin ReadyOn(w) /\ s \in ReadyOn(w)'
      BY <3>1, <3>4, <3>5 DEF ReadyOn, Ready, Side
    <3>7. ReadyOn(w) \subseteq ReadyOn(w)'
      <4> SUFFICES ASSUME NEW v \in Side(w), Ready(v) PROVE Ready(v)'
        BY DEF ReadyOn, Side
      <4>1. v \in Threads \ {s, t}
        BY <1>4, <3>1, <3>5 DEF Ready
      <4>2. pc'[v] = pc[v] /\ moved'[v]
        BY <3>1, <3>4, <4>1
      <4>3. QED
        BY <4>2 DEF Ready
    <3> DEFINE a == Cardinality(ReadyOn(w))
               b == Cardinality(ReadyOn(w)')
    <3>8. a \in Nat /\ b \in Nat /\ a + 1 <= b
      BY <3>6, <3>7, OneReadyMore, ReadyFinite
    <3>9. n <= a + (IF Pending(Other(w)) THEN 1 ELSE 0)
      BY <1>1, <3>2 DEF Enough, Dozing
    <3> HIDE DEF a, b
    <3>10. n <= b /\ n <= b + 1
      <4>1. n <= a + 1
        BY <1>3, <3>8, <3>9
      <4>2. QED
        BY <1>3, <3>8, <4>1
    <3>11. QED
      BY <1>3, <3>8, <3>10 DEF b
  <2>2. QED
    BY <1>2, <1>6, <2>1 DEF Served
<1>9. QED
  BY <1>4, <1>7, <1>8

(* The other side's one thread does not acquire or hand on a slot while it *)
(* has a notification to make.                                             *)
LEMMA ServedRing ==
  ASSUME Base, NEW w \in Sides, Alone(Other(w)), Served(w),
         NEW t \in Threads, Succeed(t) \/ Finish(t)
  PROVE  Served(w)'
<1>1. PICK n \in 0 .. Cap : Layout(w, n) /\ Enough(w, n) /\ LastOf(w, n)
  BY DEF Served
<1>2. n \in Nat /\ Cap \in Nat \ {0} /\ n <= Cap
  BY CapAssumption
<1>3. /\ Threads = Side(w) \cup Side(Other(w)) /\ Side(w) \cap Side(Other(w)) = {}
      /\ Other(w) \in Sides /\ Other(Other(w)) = w
  BY SidesAre
<1>4. /\ pc[t] \in {"try", "retry", "holding"} /\ pc'[t] \in {"holding", "notify"}
      /\ \A u \in Threads \ {t} : pc'[u] = pc[u]
      /\ moved' = moved
  BY RingSteps
<1>5. \A u \in Side(w) : Dozing(u)' => Dozing(u)
  BY <1>3, <1>4 DEF Dozing
<1>6. ReadyOn(w) \ {t} \subseteq ReadyOn(w)'
  BY <1>3, <1>4 DEF ReadyOn, Ready, Side
<1>7. Pending(Other(w)) => Pending(Other(w))'
  BY <1>3, <1>4 DEF Pending, Side, Other
<1>8. CASE t \notin ReadyOn(w)
  <2>1. ReadyOn(w) \subseteq ReadyOn(w)'
    BY <1>6, <1>8
  <2>2. Enough(w, n)'
    BY <1>1, <1>2, <1>5, <1>7, <2>1, StillEnough
  <2>3. CASE t \in Side(w)
    <3>1. Finish(t)
      <4>1. pc[t] = "holding"
        BY <1>4, <1>8, <2>3 DEF ReadyOn, Ready
      <4>2. QED
        BY <4>1, RingSteps
    <3>2. Layout(w, n)'
      BY <1>1, <2>3, <3>1, RingSteps, HandOnOwn
    <3>3. LastOf(w, n)'
      <4>1. UNCHANGED <<head, tail>>
        BY <2>3, <3>1, HandOnIs, RingSteps
      <4>2. \A u \in Side(Other(w)) : pc'[u] = pc[u] /\ handed'[u] = handed[u]
        BY <1>3, <2>3, RingSteps
      <4>3. QED
        BY <1>1, <4>1, <4>2 DEF LastOf, Cursor, Pos, Side, Other
    <3>4. QED
      BY <2>2, <3>2, <3>3 DEF Served
  <2>4. CASE t \in Side(Other(w)) /\ Succeed(t)
    <3>1. Layout(w, n)'
      BY <1>1, <1>4, <2>4, RingSteps, AcquireOther
    <3>2. LastOf(w, n)'
      <4>1. Cursor(w)' = Cursor(w)
        BY <1>3, <2>4, RingSteps, AcquireIs
      <4>2. \A u \in Side(Other(w)) :
              pc'[u] = "notify" => pc[u] = "notify" /\ handed'[u] = handed[u]
        BY <1>3, <1>4, <2>4, RingSteps
      <4>3. QED
        BY <1>1, <4>1, <4>2 DEF LastOf, Pos, Side, Other
    <3>3. QED
      BY <2>2, <3>1, <3>2 DEF Served
  <2>5. CASE t \in Side(Other(w)) /\ Finish(t)
    <3>1. n < Cap /\ Layout(w, n + 1)'
      BY <1>1, <2>5, RingSteps, HandOnOther
    <3>2. ~Pending(Other(w))
      <4> SUFFICES ASSUME NEW v \in Side(Other(w)), pc[v] = "notify" PROVE FALSE
        BY DEF Pending
      <4>1. pc[t] = "holding" /\ Active(v) /\ Active(t)
        BY <2>5, RingSteps DEF Active
      <4>2. QED
        BY <2>5, <4>1 DEF Alone
    <3>3. Pending(Other(w))'
      BY <1>3, <2>5, RingSteps DEF Pending, Side, Other
    <3>4. Enough(w, n + 1)'
      <4> SUFFICES ASSUME NEW u \in Side(w), Dozing(u)'
                   PROVE  n + 1 <= Cardinality(ReadyOn(w)') + 1
        BY <3>3 DEF Enough, Side, Other
      <4> DEFINE a == Cardinality(ReadyOn(w))
                 b == Cardinality(ReadyOn(w)')
      <4>1. a \in Nat /\ b \in Nat /\ a <= b
        BY <2>1, MoreReady, ReadyFinite
      <4>2. n <= a + 0
        BY <1>1, <1>5, <3>2 DEF Enough
      <4> HIDE DEF a, b
      <4>3. n + 1 <= b + 1
        BY <1>2, <4>1, <4>2
      <4>4. QED
        BY <4>3 DEF b
    <3>5. n + 1 \in 0 .. Cap
      BY <1>2, <3>1
    <3>6. LastOf(w, n + 1)'
      <4> SUFFICES ASSUME NEW u \in Side(Other(w)), pc'[u] = "notify"
                   PROVE  handed'[u] = Pos(Cursor(w)', n)
        BY <1>2 DEF LastOf, Pos, Side, Other
      <4>1. u = t
        <5>1. u # t => pc[u] = "notify"
          BY <1>3, <1>4
        <5>2. u # t => Active(u) /\ Active(t)
          BY <1>4, <5>1 DEF Active
        <5>3. QED
          BY <2>5, <5>2 DEF Alone
      <4>2. PICK s \in Slots : slot[s] = t /\ handed' = [handed EXCEPT ![t] = s]
        BY <2>5 DEF Finish
      <4>3. handed'[t] = s
        BY <4>2 DEF Base, TypeOK
      <4>4. s = Pos(Cursor(w), n)
        BY <1>1, <2>5, <4>2 DEF Layout
      <4>5. Cursor(w)' = Cursor(w)
        BY <1>3, <2>5, RingSteps, HandOnIs DEF Cursor
      <4>6. QED
        BY <4>1, <4>3, <4>4, <4>5
    <3>7. QED
      BY <3>1, <3>4, <3>5, <3>6 DEF Served
  <2>6. QED
    BY <1>3, <2>3, <2>4, <2>5
<1>9. CASE t \in ReadyOn(w)
  <2>1. t \in Side(w) /\ Succeed(t)
    <3>1. t \in Side(w) /\ pc[t] # "holding"
      BY <1>9 DEF ReadyOn, Ready
    <3>2. QED
      BY <3>1, RingSteps
  <2>2. n >= 1 /\ Layout(w, n - 1)'
    BY <1>1, <2>1, RingSteps, AcquireOwn
  <2>3. Enough(w, n - 1)'
    <3> SUFFICES ASSUME NEW u \in Side(w), Dozing(u)'
                 PROVE  n - 1 <= Cardinality(ReadyOn(w)') + (IF Pending(Other(w))' THEN 1 ELSE 0)
      BY DEF Enough, Side, Other
    <3> DEFINE a == Cardinality(ReadyOn(w))
               b == Cardinality(ReadyOn(w)')
    <3>1. a \in Nat /\ b \in Nat /\ a <= b + 1
      BY <1>6, OneReadyLess, ReadyFinite
    <3>2. n <= a + (IF Pending(Other(w)) THEN 1 ELSE 0)
      BY <1>1, <1>5 DEF Enough
    <3> HIDE DEF a, b
    <3>3. CASE Pending(Other(w))
      <4>1. n - 1 <= b + 1
        BY <1>2, <3>1, <3>2, <3>3
      <4>2. QED
        BY <1>7, <3>3, <4>1 DEF b
    <3>4. CASE ~Pending(Other(w))
      <4>1. n - 1 <= b + 0 /\ n - 1 <= b + 1
        BY <1>2, <3>1, <3>2, <3>4
      <4>2. QED
        BY <4>1 DEF b
    <3>5. QED
      BY <3>3, <3>4
  <2>4. n - 1 \in 0 .. Cap
    BY <1>2, <2>2
  <2>5. LastOf(w, n - 1)'
    <3> SUFFICES ASSUME NEW u \in Side(Other(w)), pc'[u] = "notify", n - 1 >= 1
                 PROVE  handed'[u] = Pos(Cursor(w)', (n - 1) - 1)
      BY DEF LastOf, Pos, Side, Other
    <3>1. pc[u] = "notify" /\ handed'[u] = handed[u]
      BY <1>3, <1>4, <2>1, RingSteps
    <3>2. handed[u] = Pos(Cursor(w), n - 1)
      BY <1>1, <1>2, <3>1 DEF LastOf
    <3>3. Cursor(w)' = After(Cursor(w)) /\ Cursor(w) \in Slots
      BY <2>1, RingSteps, AcquireIs, Cursors DEF Base
    <3>4. (n - 1) - 1 \in Nat /\ ((n - 1) - 1) + 1 = n - 1
      BY <1>2
    <3>5. Pos(After(Cursor(w)), (n - 1) - 1) = Pos(Cursor(w), n - 1)
      BY <3>3, <3>4, PosAfter
    <3>6. QED
      BY <3>1, <3>2, <3>3, <3>5
  <2>6. QED
    BY <2>2, <2>3, <2>4, <2>5 DEF Served
<1>10. QED
  BY <1>8, <1>9

LEMMA ServedStep ==
  ASSUME Base, waiting = "blocking", ~shared, NEW w \in Sides, Alone(Other(w)),
         Served(w), NEW t \in Threads,
         Local(t) \/ Notifies(t) \/ Succeed(t) \/ Finish(t)
  PROVE  Served(w)'
BY ServedLocal, ServedNotifies, ServedRing

------------------------------------------------------------------------------
(* The invariant.                                                          *)

LEMMA InitInv ==
  ASSUME \A s \in Setups : Sound(s)
  PROVE  Init => IInv
<1> SUFFICES ASSUME Init PROVE IInv
  OBVIOUS
<1>1. Base
  BY InitBase
<1>2. PICK s \in Setups : waiting = s.waiting /\ shared = s.shared /\ todo = s.calls
  BY DEF Init
<1>3. /\ Cap \in Nat \ {0} /\ head = 0 /\ tail = 0 /\ \A x \in Slots : slot[x] = "free"
      /\ \A t \in Threads : pc[t] = "out"
  BY CapAssumption DEF Init, RingInit
<1>4. ASSUME NEW w \in Sides, OneCaller(todo, Side(w)) PROVE Alone(w)
  <2>1. Side(w) \subseteq Threads
    BY DEF Side, Threads
  <2>2. QED
    BY <1>3, <1>4, <2>1 DEF OneCaller, Alone, Active
<1>5. ASSUME NEW w \in Sides PROVE Heard(w) /\ \A t \in Side(w) : ~Dozing(t)
  <2>1. Side(w) \subseteq Threads
    BY DEF Side, Threads
  <2>2. QED
    BY <1>3, <2>1 DEF Heard, Dozing
<1>6. ASSUME NEW w \in Sides PROVE Served(w)
  <2>1. \A n \in 0 .. Cap : Enough(w, n) /\ LastOf(w, n)
    <3>1. Side(Other(w)) \subseteq Threads
      BY SidesAre
    <3>2. QED
      BY <1>3, <1>5, <3>1 DEF Enough, LastOf
  <2>2. \A x \in Slots : slot[x] \notin Side(Other(w))
    <3>1. "free" \notin Side(Other(w))
      BY ThreadsAssumption DEF Side
    <3>2. QED
      BY <1>3, <3>1
  <2>3. 0 \in Slots /\ 0 \in 0 .. Cap /\ Cap \in 0 .. Cap /\ 0 \in Int
    BY <1>3 DEF Slots
  <2>4. CASE w = "push"
    <3>1. Layout(w, Cap)
      <4>1. \A x \in Slots : \E j \in 0 .. Cap - 1 : x = Pos(0, j)
        BY <2>3, PosAll
      <4>2. Pos(0, Cap) = 0
        <5>1. Cap \in Int /\ 0 + Cap = Cap /\ 0 \in 0 .. Cap - 1
          BY <1>3
        <5>2. (0 + Cap) % Cap = 0 % Cap
          BY <1>3, <2>3, ModShift, Zenon
        <5>3. 0 % Cap = 0
          BY <1>3, <5>1, ModSmall, Zenon
        <5>4. QED
          BY <5>2, <5>3 DEF Pos
      <4>3. Wanted(w) = "free" /\ Cursor(w) = 0 /\ Cursor(Other(w)) = 0
        BY <1>3, <2>4 DEF Wanted, Cursor, Other
      <4>4. QED
        BY <1>3, <2>2, <4>1, <4>2, <4>3, Zenon DEF Layout
    <3>2. QED
      BY <2>1, <2>3, <3>1 DEF Served
  <2>5. CASE w = "pop"
    <3>1. Layout(w, 0)
      <4>1. Pos(0, 0) = 0 /\ 0 .. 0 - 1 = {}
        BY <2>3, PosZero
      <4>2. Wanted(w) = "full" /\ Cursor(w) = 0 /\ Cursor(Other(w)) = 0
        BY <1>3, <2>5 DEF Wanted, Cursor, Other
      <4>3. \A x \in Slots : slot[x] # "full"
        BY <1>3
      <4>4. QED
        BY <2>2, <4>1, <4>2, <4>3 DEF Layout
    <3>2. QED
      BY <2>1, <2>3, <3>1 DEF Served
  <2>6. QED
    BY <2>4, <2>5 DEF Sides
<1>7. waiting = "blocking" =>
        IF shared THEN \A w \in Sides : Settled(w)
        ELSE \E w \in Sides : Settled(w) /\ Served(Other(w))
  <2>1. "push" \in Sides /\ "pop" \in Sides /\ Side("push") = Producers /\ Side("pop") = Consumers
    BY DEF Sides, Side
  <2>2. ASSUME waiting = "blocking", shared PROVE \A w \in Sides : Settled(w)
    <3>1. OneCaller(todo, Producers) /\ OneCaller(todo, Consumers)
      BY <1>2, <2>2 DEF Sound
    <3>2. Alone("push") /\ Alone("pop")
      BY <1>4, <2>1, <3>1
    <3>3. QED
      BY <1>5, <3>2 DEF Settled, Sides
  <2>3. ASSUME waiting = "blocking", ~shared
        PROVE  \E w \in Sides : Settled(w) /\ Served(Other(w))
    <3>1. OneCaller(todo, Producers) \/ OneCaller(todo, Consumers)
      BY <1>2, <2>3 DEF Sound
    <3>2. Alone("push") \/ Alone("pop")
      BY <1>4, <2>1, <3>1
    <3>3. QED
      BY <1>5, <1>6, <2>1, <3>2, SidesAre DEF Settled
  <2>4. QED
    BY <2>2, <2>3
<1>8. QED
  BY <1>1, <1>7 DEF IInv, Base

LEMMA StepInv == IInv /\ [Next]_vars => IInv'
<1> SUFFICES ASSUME IInv, [Next]_vars PROVE IInv'
  OBVIOUS
<1>1. Base
  BY DEF IInv, Base
<1>2. CASE UNCHANGED vars
  <2>1. /\ slot' = slot /\ head' = head /\ tail' = tail /\ waiting' = waiting /\ shared' = shared
        /\ todo' = todo /\ pc' = pc /\ count' = count /\ moved' = moved
        /\ handed' = handed
    BY <1>2 DEF vars, ringVars, threadVars, setup
  <2>2. Base'
    BY <1>1, <2>1 DEF Base, TypeOK, Holders, Spinning, NoSleep
  <2>3. \A w \in Sides : Settled(w)' <=> Settled(w)
    BY <2>1 DEF Settled, Alone, Heard, Active, Dozing, Pending, Side, Other, Wanted, Cursor
  <2>4. ASSUME NEW w \in Sides, Served(w) PROVE Served(w)'
    <3>1. PICK n \in 0 .. Cap : Layout(w, n) /\ Enough(w, n) /\ LastOf(w, n)
      BY <2>4 DEF Served
    <3>2. Layout(w, n)'
      BY <1>2, <3>1, SameLayout DEF vars
    <3>3. n \in Nat
      BY CapAssumption
    <3>4. Enough(w, n)'
      BY <2>1, <3>1, <3>3, StillEnough DEF Dozing, Pending, ReadyOn, Ready, Side, Other
    <3>5. LastOf(w, n)'
      BY <1>2, <2>1, <3>1, SameLast DEF vars
    <3>6. QED
      BY <3>2, <3>4, <3>5 DEF Served
  <2>5. \A w \in Sides : Other(w) \in Sides
    BY SidesAre
  <2>6. QED
    BY <2>1, <2>2, <2>3, <2>4, <2>5 DEF IInv, Base
<1>3. ASSUME NEW t \in Threads, Step(t) \/ SpuriousWake(t), UNCHANGED setup PROVE IInv'
  <2>1. Base' /\ (Local(t) \/ Notifies(t) \/ Succeed(t) \/ Finish(t))
    BY <1>1, <1>3, AllSteps
  <2>2. waiting' = waiting /\ shared' = shared /\ waiting \in {"blocking", "yielding"}
    BY <1>1, <1>3 DEF setup, Base, TypeOK
  <2>3. CASE waiting = "yielding"
    BY <2>1, <2>2, <2>3 DEF IInv, Base
  <2>4. CASE waiting = "blocking" /\ shared
    <3>1. \A w \in Sides : Other(w) \in Sides /\ Settled(w)
      BY <2>4, SidesAre DEF IInv
    <3>2. ASSUME NEW w \in Sides PROVE Alone(w)' /\ Heard(w)'
      <4>1. Alone(w) /\ Heard(w) /\ Alone(Other(w))
        BY <3>1 DEF Settled
      <4>2. QED
        BY <1>1, <2>1, <2>4, <4>1, AloneStep, HeardStep
    <3>3. (\A w \in Sides : Settled(w))'
      BY <3>2 DEF Settled, Sides
    <3>4. QED
      BY <2>1, <2>2, <2>4, <3>3 DEF IInv, Base
  <2>5. CASE waiting = "blocking" /\ ~shared
    <3>1. PICK w \in Sides : Settled(w) /\ Served(Other(w))
      BY <2>5 DEF IInv
    <3>2. Other(w) \in Sides /\ Other(Other(w)) = w /\ Alone(w) /\ Heard(w)
      BY <3>1, SidesAre DEF Settled
    <3>3. Alone(w)' /\ Heard(w)'
      BY <1>1, <2>1, <2>5, <3>2, AloneStep, HeardStep
    <3>4. Served(Other(w))'
      BY <1>1, <2>1, <2>5, <3>1, <3>2, ServedStep
    <3>5. (\E v \in Sides : Settled(v) /\ Served(Other(v)))'
      BY <3>3, <3>4 DEF Settled, Sides
    <3>6. QED
      BY <2>1, <2>2, <2>5, <3>5 DEF IInv, Base
  <2>6. QED
    BY <2>2, <2>3, <2>4, <2>5
<1>4. QED
  BY <1>2, <1>3 DEF Next

------------------------------------------------------------------------------
(* The theorems.                                                           *)

(* In every setup the ring, the labels and the counts of push, pop and     *)
(* wait_for stay in their types: in particular backoff never counts past   *)
(* YIELD_MAX, after which BlockingWait sleeps.                             *)
THEOREM TypeCorrect == Spec => []TypeOK
<1>1. Base /\ [Next]_vars => Base'
  <2> SUFFICES ASSUME Base, [Next]_vars PROVE Base'
    OBVIOUS
  <2>1. CASE UNCHANGED vars
    BY <2>1 DEF vars, ringVars, threadVars, setup, Base, TypeOK, Holders, Spinning, NoSleep
  <2>2. CASE Next
    BY <2>2, AllSteps DEF Next
  <2>3. QED
    BY <2>1, <2>2
<1>2. Base => TypeOK
  BY DEF Base
<1>3. QED
  BY InitBase, <1>1, <1>2, PTL DEF Spec

(* push, pop and wait_for with BlockingWait: when one side of the queue    *)
(* has a single caller and a waiter of its own, or each side has a single  *)
(* caller, nobody is left asleep while a retry would succeed and no thread *)
(* is left to notify.  YieldWait and SpinWait need no such condition.      *)
THEOREM NoLostWakeup ==
  ASSUME \A s \in Setups : Sound(s)
  PROVE  Spec => []NoThreadStranded
<1>1. IInv => NoThreadStranded
  <2> SUFFICES ASSUME IInv, \A u \in Threads : Quiet(u),
                      NEW t \in Threads, pc[t] = "asleep", ~Refused(t)
               PROVE  FALSE
    BY DEF NoThreadStranded
  <2>1. waiting = "blocking"
    BY DEF IInv, TypeOK, NoSleep
  <2>2. PICK w \in Sides : t \in Side(w)
    BY SidesAre
  <2>3. slot[Cursor(w)] = Wanted(w) /\ Cursor(w) \in Slots
    BY <2>2, RefusedIs, Cursors DEF IInv
  <2>4. ASSUME NEW v \in Sides
        PROVE  Side(v) \subseteq Threads /\ ~Pending(v) /\ ReadyOn(v) = {}
    <3>1. Side(v) \subseteq Threads
      BY DEF Side, Threads
    <3>2. QED
      BY <3>1 DEF Quiet, Pending, ReadyOn, Ready
  <2>5. Other(w) \in Sides /\ Other(Other(w)) = w
    BY SidesAre
  <2>6. ~Heard(w)
    BY <2>2, <2>3, <2>4, <2>5 DEF Heard, Dozing
  <2>7. ~Served(w)
    <3> SUFFICES ASSUME NEW n \in 0 .. Cap, Layout(w, n), Enough(w, n) PROVE FALSE
      BY DEF Served
    <3>1. Cardinality(ReadyOn(w)) = 0 /\ n \in Nat
      BY <2>4, FS_EmptySet, CapAssumption
    <3>2. n <= 0
      BY <2>2, <2>4, <2>5, <3>1 DEF Enough, Dozing
    <3>3. n >= 1
      BY <2>3, <3>1 DEF Layout
    <3>4. QED
      BY <3>1, <3>2, <3>3
  <2>8. QED
    <3>1. ~Settled(w)
      BY <2>6 DEF Settled
    <3>2. \A v \in Sides : v = w \/ Other(v) = w
      BY <2>2 DEF Sides, Other
    <3>3. QED
      BY <2>1, <2>7, <3>1, <3>2 DEF IInv
<1>2. QED
  BY <1>1, InitInv, StepInv, PTL DEF Spec
==============================================================================
