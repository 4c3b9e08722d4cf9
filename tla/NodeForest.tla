----------------------------- MODULE NodeForest -----------------------------
(***************************************************************************)
(* What the nodes of the trie promise to trie.rs: trees of nodes, each     *)
(* with the bytes of its prefix, perhaps a value, and children by byte.    *)
(* They are the nodes of TrieMap, with names for the children.  The caller *)
(* owns the nodes it has made, or taken from a parent, and not yet given   *)
(* to another.                                                             *)
(***************************************************************************)
EXTENDS Integers, Sequences

CONSTANTS Names, Values, None, Texts

VARIABLES
  forest,     \* the nodes: prefix, value and children of each
  hands       \* those the caller owns

live == DOMAIN forest
Node(text) == [prefix |-> text, val |-> None, kids |-> <<>>]

Kids(n) == {forest[n].kids[b] : b \in DOMAIN forest[n].kids}
Closed(S) == \A n \in S : Kids(n) \subseteq S
Below(n) == {x \in live : \A S \in SUBSET live : n \in S /\ Closed(S) => x \in S}

(* A node can be changed through a reference while it has a parent, but    *)
(* then it stays filed under the same byte.                                *)
Refile(n, text) ==
  /\ UNCHANGED hands
  /\ n \in hands \/ (text # <<>> /\ text[1] = forest[n].prefix[1])
  /\ forest' = [forest EXCEPT ![n].prefix = text]

Init == forest = <<>> /\ hands = {}

New(n, text) ==
  /\ n \notin hands /\ hands' = hands \cup {n}
  /\ n \notin live
  /\ forest' = [x \in live \cup {n} |-> IF x = n THEN Node(text) ELSE forest[x]]

SetVal(n, v) == UNCHANGED hands /\ forest' = [forest EXCEPT ![n].val = v]

TakeVal(n) ==
  /\ forest[n].val # None
  /\ SetVal(n, None)

InsertChild(n, c) ==
  LET b == forest[c].prefix[1]
      old == forest[n].kids
  IN /\ c \in hands /\ hands' = hands \ {c}
     /\ forest[c].prefix # <<>> /\ b \notin DOMAIN old
     /\ forest' = [forest EXCEPT ![n].kids =
                     [x \in DOMAIN old \cup {b} |-> IF x = b THEN c ELSE old[x]]]
     /\ n \notin Below(c)

RemoveChild(n, b) ==
  LET old == forest[n].kids
  IN /\ b \in DOMAIN old
     /\ forest' = [forest EXCEPT ![n].kids = [x \in DOMAIN old \ {b} |-> old[x]]]
     /\ hands' = hands \cup {old[b]}

(* All the children of n become those of m, which has none.                *)
TransferChildren(n, m) ==
  /\ UNCHANGED hands
  /\ Kids(m) = {}
  /\ forest' = [forest EXCEPT ![n].kids = <<>>, ![m].kids = forest[n].kids]
  /\ n \notin Below(m) /\ m \notin Below(n)

Cut(n, l) == Refile(n, SubSeq(forest[n].prefix, 1, l))
Join(n, p, q) == n \in {p, q} /\ Refile(n, forest[p].prefix \o forest[q].prefix)

DropNode(n) ==
  /\ n \in hands /\ hands' = hands \ {n}
  /\ forest' = [x \in live \ Below(n) |-> forest[x]]

Next ==
  \/ \E n \in Names, text \in Texts : New(n, text)
  \/ \E n \in live :
       \/ \E v \in Values : SetVal(n, v)
       \/ TakeVal(n)
       \/ \E m \in live \ {n} : InsertChild(n, m) \/ TransferChildren(n, m)
       \/ \E b \in DOMAIN forest[n].kids : RemoveChild(n, b)
       \/ \E l \in 0 .. Len(forest[n].prefix) - 1 : Cut(n, l)
       \/ \E p, q \in live : p # q /\ Join(n, p, q)
       \/ DropNode(n)

Spec == Init /\ [][Next]_<<forest, hands>>
==============================================================================
