------------------------------ MODULE TrieNode ------------------------------
(***************************************************************************)
(* node.rs: the nodes of the trie, as its operations in trie.rs build and  *)
(* take them apart.  A node is a block of memory with room for a value;    *)
(* two bits of the pointer to it say whether it is a leaf, a block without *)
(* room for children, and whether the value is there.                      *)
(*                                                                         *)
(* The caller owns the nodes in its hands; the others are owned by the     *)
(* slot of a vector.  The ledger counts the allocations not yet freed, by  *)
(* layout.  An action is a call of one method, under the conditions in     *)
(* which trie.rs calls it.                                                 *)
(***************************************************************************)
EXTENDS ChildTable, Prefix

CONSTANTS
  Texts,      \* the prefixes given to new nodes
  MaxText,    \* bound on the length of a prefix
  Uses        \* the uses callers make of the nodes

ASSUME NamesAssumption == Junk \notin Names \cup Values /\ None \notin Values
ASSUME UsesAssumption == \A u \in Uses : u.texts \subseteq Texts /\ Texts \subseteq Seq(Bytes)

VARIABLES
  live,       \* the nodes allocated and not freed
  leaf,       \* those whose pointer has LEAF_TAG
  valued,     \* those whose pointer has VAL_TAG
  val,        \* the memory for the value
  prefix,
  table,      \* bitmap and vector of an internal node
  hands,      \* the nodes the caller owns
  outside,    \* the values that are not in the nodes' care
  ledger,     \* allocations of each layout
  use         \* which of Uses this is

vars == <<live, leaf, valued, val, prefix, table, hands, outside, ledger, use>>

------------------------------------------------------------------------------
(* Layouts of the allocations.                                             *)

Leaf == <<"LeafNode", 1>>
Internal == <<"InternalNode", 1>>
Block(n) == IF n \in leaf THEN Leaf ELSE Internal
BufferOf(v) == IF v.null THEN {} ELSE {<<"Node", capacity(v)>>}
BytesOf(p) == IF is_inline(p) THEN {} ELSE {<<"u8", len(p)>>}
Allocations(n) == {Block(n)} \cup BufferOf(table[n].vec) \cup BytesOf(prefix[n])

Layouts ==
  {Leaf, Internal} \cup {<<"Node", CapacityOf(t)>> : t \in 0 .. TAG_MAX}
    \cup {<<"u8", k>> : k \in 1 .. MaxText}

One(l, S) == IF l \in S THEN 1 ELSE 0
Account(freed, allocated) ==
  ledger' = [l \in Layouts |-> ledger[l] - One(l, freed) + One(l, allocated)]

------------------------------------------------------------------------------
(* The subtree of a node, by the iterators over the vectors.               *)

Slots(n) == {get_child_by_idx(table[n], i) : i \in Visited(table[n])}
Closed(S) == \A n \in S : Slots(n) \subseteq S
Below(n) == {x \in live : \A S \in SUBSET live : n \in S /\ Closed(S) => x \in S}

Unrelated(n, m) == n \notin Below(m) /\ m \notin Below(n)

Blank == new(<<>>)

------------------------------------------------------------------------------
Init ==
  /\ live = {} /\ leaf = {} /\ valued = {} /\ hands = {}
  /\ val = [n \in Names |-> Junk]
  /\ prefix = [n \in Names |-> Blank]
  /\ table = [n \in Names |-> NoChildren]
  /\ outside = Values
  /\ ledger = [l \in Layouts |-> 0]
  /\ use \in Uses

(* Node::new                                                               *)
New(n, text) ==
  /\ n \notin live
  /\ live' = live \cup {n}
  /\ leaf' = leaf \cup {n}
  /\ hands' = hands \cup {n}
  /\ prefix' = [prefix EXCEPT ![n] = new(text)]
  /\ Account({}, {Leaf} \cup BytesOf(new(text)))
  /\ UNCHANGED <<valued, val, table, outside, use>>

(* The old value is dropped.                                               *)
SetVal(n, v) ==
  /\ v \in outside
  /\ outside' = (outside \ {v}) \cup (IF n \in valued THEN {val[n]} ELSE {})
  /\ val' = [val EXCEPT ![n] = v]
  /\ valued' = valued \cup {n}
  /\ UNCHANGED <<live, leaf, prefix, table, hands, ledger, use>>

TakeVal_keepsTag(n) ==
  /\ n \in valued
  /\ outside' = outside \cup {val[n]}
  /\ val' = [val EXCEPT ![n] = Junk]
  /\ UNCHANGED <<live, leaf, valued, prefix, table, hands, ledger, use>>

TakeVal(n) ==
  /\ n \in valued
  /\ outside' = outside \cup {val[n]}
  /\ val' = [val EXCEPT ![n] = Junk]
  /\ valued' = valued \ {n}
  /\ UNCHANGED <<live, leaf, prefix, table, hands, ledger, use>>

(* The block and the empty table of an internal node in place of a leaf's. *)
Upgraded(n) == IF n \in leaf THEN NoChildren ELSE table[n]
Downsized(n) == IF n \in leaf THEN {Leaf} ELSE {}
Upsized(n) == IF n \in leaf THEN {Internal} ELSE {}

(* The child must be a tree of its own, filed under a byte that is free.   *)
InsertChild(n, c) ==
  LET pos == child_pos_from_byte(first_byte(prefix[c]))
      old == Upgraded(n)
      grown == insert_child(old, pos, c)
      moves == Full(old.vec, len_children(old))
  IN /\ c \in hands /\ n \notin Below(c)
     /\ len(prefix[c]) > 0
     /\ ~child_exists(old, pos)
     /\ ~Overflows(old.vec, len_children(old))
     /\ table' = [table EXCEPT ![n] = grown]
     /\ leaf' = leaf \ {n}
     /\ hands' = hands \ {c}
     /\ Account(Downsized(n) \cup (IF moves THEN BufferOf(old.vec) ELSE {}),
                Upsized(n) \cup (IF moves THEN BufferOf(grown.vec) ELSE {}))
     /\ UNCHANGED <<live, valued, val, prefix, outside, use>>

RemoveChild(n, b) ==
  LET pos == child_pos_from_byte(b)
  IN /\ child_exists(table[n], pos)
     /\ hands' = hands \cup {get_child_by_pos(table[n], pos)}
     /\ table' = [table EXCEPT ![n] = remove_child(@, pos)]
     /\ UNCHANGED <<live, leaf, valued, val, prefix, outside, ledger, use>>

TransferChildren_leaky(n, m) ==
  /\ n \notin leaf /\ Unrelated(n, m) /\ Slots(m) = {}
  /\ table' = [table EXCEPT ![m] = table[n], ![n] = NoChildren]
  /\ leaf' = leaf \ {m}
  /\ Account(Downsized(m), Upsized(m))
  /\ UNCHANGED <<live, valued, val, prefix, hands, outside, use>>

(* m, which has no children but perhaps a buffer, takes over those of n.   *)
(* Nothing happens if n is a leaf.                                         *)
TransferChildren(n, m) ==
  /\ n \notin leaf /\ Unrelated(n, m) /\ Slots(m) = {}
  /\ table' = [table EXCEPT ![m] = table[n], ![n] = NoChildren]
  /\ leaf' = leaf \ {m}
  /\ Account(Downsized(m) \cup BufferOf(table[m].vec), Upsized(m))
  /\ UNCHANGED <<live, valued, val, prefix, hands, outside, use>>

(* The old prefix is dropped when another is assigned.                     *)
SetPrefix(n, p) ==
  /\ prefix' = [prefix EXCEPT ![n] = p]
  /\ Account(BytesOf(prefix[n]), BytesOf(p))
  /\ UNCHANGED <<live, leaf, valued, val, table, hands, outside, use>>

(* A child must stay filed under its first byte.                           *)
CutPrefix(n, l) ==
  /\ n \in hands \/ l > 0
  /\ SetPrefix(n, new(SubSeq(as_ref(prefix[n]), 1, l)))

(* In compress n is the parent p, at the root it is the only child q.      *)
JoinPrefixes(n, p, q) ==
  /\ n \in {p, q} /\ q \in hands
  /\ n \in hands \/ len(prefix[p]) > 0
  /\ len(prefix[p]) + len(prefix[q]) <= MaxText
  /\ SetPrefix(n, from_slices(as_ref(prefix[p]), as_ref(prefix[q])))

(* The value, the prefix, the children, the buffer and the block.          *)
DropNode(n) ==
  LET D == Below(n)
  IN /\ n \in hands
     /\ live' = live \ D
     /\ leaf' = leaf \ D
     /\ valued' = valued \ D
     /\ outside' = outside \cup {val[x] : x \in D \cap valued}
     /\ val' = [x \in Names |-> IF x \in D THEN Junk ELSE val[x]]
     /\ prefix' = [x \in Names |-> IF x \in D THEN Blank ELSE prefix[x]]
     /\ table' = [x \in Names |-> IF x \in D THEN NoChildren ELSE table[x]]
     /\ hands' = hands \ {n}
     /\ ledger' = [l \in Layouts |->
                     ledger[l] - Cardinality({x \in D : l \in Allocations(x)})]
     /\ UNCHANGED use

(* What the caller does in this use of the nodes.                          *)
Next ==
  \/ \E n \in Names, text \in use.texts : Cardinality(live) < use.size /\ New(n, text)
  \/ \E n \in live :
       \/ \E v \in use.values : SetVal(n, v)
       \/ TakeVal(n)
       \/ \E c \in live : as_ref(prefix[n]) \in use.parents /\ InsertChild(n, c)
       \/ \E b \in Present(table[n]) : RemoveChild(n, b)
       \/ \E m \in live : use.reshape /\ TransferChildren(n, m)
       \/ \E l \in 0 .. len(prefix[n]) - 1 : use.reshape /\ CutPrefix(n, l)
       \/ \E p, q \in live : use.reshape /\ p # q /\ JoinPrefixes(n, p, q)
       \/ DropNode(n)

Spec == Init /\ [][Next]_vars

------------------------------------------------------------------------------
(* Without the caller's mistakes no memory is read that holds no value,    *)
(* and what is not reachable is blank.                                     *)
TypeOK ==
  /\ leaf \cup valued \cup hands \subseteq live /\ live \subseteq Names
  /\ outside \subseteq Values
  /\ \A n \in Names :
       /\ val[n] \in IF n \in valued THEN Values ELSE {Junk}
       /\ as_ref(prefix[n]) \in Seq(Bytes)
       /\ n \in leaf => table[n] = NoChildren

(* Bitmap and vector stay in step through any inserts, removes and moves   *)
(* to larger buffers: the bits below that of a byte count to the slot of   *)
(* the child whose prefix starts with it, and the slots are in the order   *)
(* of the bytes, which is the order in which the trie is traversed.        *)
FiledInOrder ==
  \A n \in live :
    /\ len_children(table[n]) <= capacity(table[n].vec)
    /\ \A b \in Present(table[n]) :
         /\ Child(table[n], b) \in live
         /\ first_byte(prefix[Child(table[n], b)]) = b
    /\ \A i, j \in Visited(table[n]) :
         i < j => first_byte(prefix[get_child_by_idx(table[n], i)])
                    < first_byte(prefix[get_child_by_idx(table[n], j)])

(* assert!(cur_tag < TAG_MAX) in BoundedRawVec::insert cannot fail: as     *)
(* long as a byte is free the vector has room, or a tag for a larger one.  *)
RoomForAll ==
  \A n \in live :
    Bytes # Present(table[n]) =>
      ~Overflows(table[n].vec, len_children(table[n]))

(* A node has one owner, the caller or one slot of one vector, and a value *)
(* is in one node or out of all of them: nothing is dropped twice or used  *)
(* after it was dropped, although the code copies nodes and values bit by  *)
(* bit and marks them as moved by hand.                                    *)
OwnedOnce ==
  /\ \A n \in live : n \in hands <=> \A m \in live : n \notin Slots(m)
  /\ \A m, n \in live :
       \A i \in Visited(table[m]), j \in Visited(table[n]) :
         get_child_by_idx(table[m], i) = get_child_by_idx(table[n], j)
           => m = n /\ i = j
  /\ \A v \in Values : v \in outside <=> \A n \in valued : val[n] # v
  /\ \A m, n \in valued : val[m] = val[n] => m = n

(* What is allocated and not freed, counted by layout, is what the nodes   *)
(* alive have, and they are all in reach of the caller: no path of the     *)
(* code forgets a block, a buffer or the bytes of a prefix, or frees one   *)
(* with another layout than it was allocated with.                         *)
NothingLeaks ==
  /\ \A l \in Layouts : ledger[l] = Cardinality({n \in live : l \in Allocations(n)})
  /\ \A S \in SUBSET live : hands \subseteq S /\ Closed(S) => S = live

(* The nodes are trees of bytes, values and children: a cut or a join of   *)
(* prefixes, of either form, is one of sequences, and a call on one node   *)
(* changes no other.                                                       *)
Forest == INSTANCE NodeForest WITH
  forest <- [n \in live |->
               [prefix |-> as_ref(prefix[n]),
                val |-> IF n \in valued THEN val[n] ELSE None,
                kids |-> [b \in Present(table[n]) |-> Child(table[n], b)]]]

ForestSpec == Forest!Spec
==============================================================================
