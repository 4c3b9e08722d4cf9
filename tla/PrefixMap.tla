------------------------------ MODULE PrefixMap ------------------------------
(***************************************************************************)
(* What the trie promises: a map from non-empty keys to values.  A call    *)
(* takes effect in one step.  for_each_prefix hands over the values of the *)
(* keys with a prefix one by one, each once, in an order it does not say.  *)
(***************************************************************************)
EXTENDS Integers, Sequences

Seqs == INSTANCE SequencesExt

CONSTANTS Calls, Values, None

VARIABLES
  map,        \* the values of the keys present
  call,       \* the operation in progress, its key and its value
  left,       \* for_each_prefix: the keys it has not yet come to
  ret         \* what the last operation returned, or handed over last

NoCall == [op |-> "none", key |-> <<>>, val |-> None]

Value(k) == IF k \in DOMAIN map THEN map[k] ELSE None
Put(k, v) == [x \in DOMAIN map \cup {k} |-> IF x = k THEN v ELSE map[x]]
Without(S) == [x \in DOMAIN map \ S |-> map[x]]
Extensions(p) == {k \in DOMAIN map : Seqs!IsPrefix(p, k)}

Init == map = <<>> /\ call = NoCall /\ left = {} /\ ret = None

Call ==
  /\ call = NoCall /\ call' \in Calls
  /\ ret' = None /\ UNCHANGED <<map, left>>

Returns(op) == call.op = op /\ call' = NoCall /\ UNCHANGED left

(* The empty string is no key: to insert it changes nothing.               *)
Insert ==
  /\ Returns("insert") /\ UNCHANGED ret
  /\ map' = IF call.key = <<>> THEN map ELSE Put(call.key, call.val)

Get == Returns("get") /\ ret' = Value(call.key) /\ UNCHANGED map

(* The caller writes through the reference it is given.                    *)
GetMut ==
  /\ Returns("get_mut") /\ ret' = Value(call.key)
  /\ map' = IF call.key \in DOMAIN map THEN Put(call.key, call.val) ELSE map

Remove ==
  Returns("remove") /\ ret' = Value(call.key) /\ map' = Without({call.key})

RemovePrefix ==
  Returns("remove_prefix") /\ UNCHANGED ret /\ map' = Without(Extensions(call.key))

Find ==
  /\ call.op = "for_each" /\ call' = [call EXCEPT !.op = "visit"]
  /\ left' = Extensions(call.key)
  /\ UNCHANGED <<map, ret>>

FindNothing ==
  /\ Returns("for_each") /\ Extensions(call.key) = {} /\ UNCHANGED <<map, ret>>

Visit ==
  /\ call.op = "visit"
  /\ \E k \in left :
       /\ left' = left \ {k}
       /\ ret' = <<SubSeq(k, Len(call.key) + 1, Len(k)), map[k]>>
  /\ UNCHANGED <<map, call>>

EndVisits == Returns("visit") /\ left = {} /\ UNCHANGED <<map, ret>>

Next ==
  \/ Call \/ Insert \/ Get \/ GetMut \/ Remove \/ RemovePrefix
  \/ Find \/ FindNothing \/ Visit \/ EndVisits

Spec == Init /\ [][Next]_<<map, call, left, ret>>
==============================================================================
