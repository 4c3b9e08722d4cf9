------------------------------- MODULE TrieMap -------------------------------
(***************************************************************************)
(* algors-trie: a map from byte strings to values in a radix tree.  A node *)
(* holds the bytes between its parent and itself, perhaps a value, and its *)
(* children by their first byte.  An operation walks down from the root,   *)
(* comparing the rest of the key with each node's prefix, and a removal    *)
(* climbs back to compress what it left behind, along pointers to the      *)
(* nodes it came by.  Each iteration of a loop is a step, and some are two.*)
(*                                                                         *)
(* The nodes are those of NodeForest, under names that stand for their     *)
(* addresses.  The trie is used by one thread at a time.  Operators whose  *)
(* name has a suffix after an underscore are bugs that the properties must *)
(* notice.                                                                 *)
(***************************************************************************)
EXTENDS TrieData, Integers, Sequences

Seqs == INSTANCE SequencesExt

CONSTANTS
  Keys,       \* the keys the callers use
  Prefixes    \* the prefixes the callers use

ASSUME TextsAssumption == Keys \cup Prefixes \subseteq Seq(Bytes)
ASSUME NoneAssumption == None \notin Values \cup Names

VARIABLES
  forest,     \* the nodes alive
  root,
  call,       \* the operation in progress, its key and its value
  step,       \* "idle" or what the operation is at
  cur,        \* cur_node, or the parent in an iteration of compress
  rest,       \* cur_data: what is left of the key above cur
  visited,    \* the parents and bytes by which a removal came to cur
  todo,       \* for_each_prefix: the nodes to visit, with their suffixes
  ret,        \* what the last operation returned, or handed over last
  path,       \* ghost: all the bytes on the way to each node
  tidy        \* ghost: whether the trie was compressed when the call began

mapVars ==
  <<forest, root, call, step, cur, rest, visited, todo, ret, path, tidy>>

------------------------------------------------------------------------------
(* Nodes and byte strings.                                                 *)

nodes == DOMAIN forest
Node(text, v) == [prefix |-> text, val |-> v, kids |-> <<>>]
Branches(n) == DOMAIN forest[n].kids
Kids(n) == {forest[n].kids[b] : b \in Branches(n)}
Bare(n) == forest[n].val = None

(* All that is dropped with a node.                                        *)
Under(n) ==
  {x \in nodes : \A S \in SUBSET nodes :
     n \in S /\ (\A y \in S : Kids(y) \subseteq S) => x \in S}

WithKid(n, b, c) ==
  [forest[n] EXCEPT !.kids =
     [x \in Branches(n) \cup {b} |-> IF x = b THEN c ELSE forest[n].kids[x]]]
WithoutKid(n, b) ==
  [forest[n] EXCEPT !.kids = [x \in Branches(n) \ {b} |-> forest[n].kids[x]]]

Take(s, n) == SubSeq(s, 1, n)
Drop(s, n) == SubSeq(s, n + 1, Len(s))

(* util::lcp, as CommonPrefix computes it.                                 *)
Common(s, t) ==
  CHOOSE n \in 0 .. Len(s) :
    /\ n <= Len(t)
    /\ \A k \in 1 .. n : s[k] = t[k]
    /\ n < Len(s) /\ n < Len(t) => s[n + 1] # t[n + 1]

Useful(n) == ~Bare(n) \/ \E b, c \in Branches(n) : b # c
Compressed == \A n \in nodes : Useful(n)

(* A node that compress joins with its only child.                         *)
Joinable_evenValued(n) == \E b \in Branches(n) : Branches(n) = {b}
Joinable(n) == Bare(n) /\ \E b \in Branches(n) : Branches(n) = {b}

------------------------------------------------------------------------------
(* Calls.                                                                  *)

NoCall == [op |-> "none", key |-> <<>>, val |-> None]
Calls ==
  [op : {"insert", "get_mut"}, key : Keys, val : Values] \cup
  [op : {"get", "remove"}, key : Keys, val : {None}] \cup
  [op : {"for_each", "remove_prefix"}, key : Prefixes, val : {None}]
OnKeys == call.op \in {"insert", "get", "get_mut", "remove"}

TrieInit ==
  /\ forest = <<>> /\ root = None /\ path = <<>>
  /\ call = NoCall /\ step = "idle" /\ cur = None /\ rest = <<>>
  /\ visited = <<>> /\ todo = {} /\ ret = None /\ tidy = TRUE

Start ==
  /\ step = "idle"
  /\ call' \in Calls
  /\ step' = "walk" /\ cur' = root /\ rest' = call'.key
  /\ ret' = None /\ tidy' = Compressed
  /\ UNCHANGED <<forest, root, visited, todo, path>>

Finish(r) ==
  /\ call' = NoCall /\ step' = "idle" /\ cur' = None /\ rest' = <<>>
  /\ visited' = <<>> /\ todo' = {} /\ ret' = r /\ tidy' = TRUE

Leave(r) == Finish(r) /\ UNCHANGED <<forest, root, path>>

(* The tests before the loops.                                             *)
Refused == (root = None /\ call.op # "insert") \/ (OnKeys /\ call.key = <<>>)
Refuse == step = "walk" /\ Refused /\ Leave(None)
Walking == step = "walk" /\ ~Refused /\ root # None

------------------------------------------------------------------------------
(* The loops that walk down: get, get_mut, insert, remove, remove_prefix   *)
(* and find_prefix_node.                                                   *)

text == forest[cur].prefix
common == Common(text, rest)
Whole == common = Len(text)
Ends == common = Len(rest)
below == Drop(rest, common)
Missing == below[1] \notin Branches(cur)

Descend ==
  /\ Walking /\ Whole /\ ~Ends /\ ~Missing
  /\ cur' = forest[cur].kids[below[1]]
  /\ rest' = below
  /\ visited' = IF call.op \in {"remove", "remove_prefix"}
                THEN Append(visited, <<cur, below[1]>>) ELSE visited
  /\ UNCHANGED <<forest, root, call, step, todo, ret, path, tidy>>

Miss ==
  /\ Walking /\ call.op # "insert"
  /\ IF Ends THEN OnKeys /\ ~Whole ELSE Whole => Missing
  /\ Leave(None)

(* get, or a removal where there is no value.                              *)
Answer ==
  /\ Walking /\ Whole /\ Ends
  /\ call.op = "get" \/ (call.op = "remove" /\ Bare(cur))
  /\ Leave(forest[cur].val)

GetMut ==
  /\ Walking /\ Whole /\ Ends /\ call.op = "get_mut"
  /\ forest' = IF Bare(cur) THEN forest ELSE [forest EXCEPT ![cur].val = call.val]
  /\ Finish(forest[cur].val)
  /\ UNCHANGED <<root, path>>

------------------------------------------------------------------------------
(* insert                                                                  *)

InsertFirst_bare(n) ==
  /\ step = "walk" /\ ~Refused /\ root = None
  /\ forest' = [x \in {n} |-> Node(<<>>, None)]
  /\ root' = n
  /\ path' = [x \in {n} |-> <<>>]
  /\ cur' = n
  /\ UNCHANGED <<call, step, rest, visited, todo, ret, tidy>>

InsertFirst(n) ==
  /\ step = "walk" /\ ~Refused /\ root = None
  /\ forest' = [x \in {n} |-> Node(call.key, call.val)]
  /\ root' = n
  /\ path' = [x \in {n} |-> call.key]
  /\ Finish(None)

(* The lower half of cur moves to a new node, its only child; the loop     *)
(* goes on at cur, whose prefix is now common with the key.                *)
InsertSplit(n) ==
  LET low == [forest[cur] EXCEPT !.prefix = Drop(text, common)]
      high == [prefix |-> Take(text, common), val |-> None,
               kids |-> [b \in {text[common + 1]} |-> n]]
  IN /\ Walking /\ call.op = "insert" /\ ~Whole
     /\ n \notin nodes
     /\ forest' = [x \in nodes \cup {n} |->
                     CASE x = n -> low [] x = cur -> high [] OTHER -> forest[x]]
     /\ path' = [x \in nodes \cup {n} |->
                   CASE x = n -> path[cur]
                     [] x = cur -> Take(path[cur], Len(path[cur]) - Len(low.prefix))
                     [] OTHER -> path[x]]
     /\ step' = "split"
     /\ UNCHANGED <<root, call, cur, rest, visited, todo, ret, tidy>>

Inserting == call.op = "insert" /\ (Walking \/ step = "split") /\ Whole

InsertHere ==
  /\ Inserting /\ Ends
  /\ forest' = [forest EXCEPT ![cur].val = call.val]
  /\ Finish(None)
  /\ UNCHANGED <<root, path>>

InsertLeaf(n) ==
  /\ Inserting /\ ~Ends /\ Missing
  /\ n \notin nodes
  /\ forest' = [x \in nodes \cup {n} |->
                  CASE x = n -> Node(below, call.val)
                    [] x = cur -> WithKid(cur, below[1], n)
                    [] OTHER -> forest[x]]
  /\ path' = [x \in nodes \cup {n} |-> IF x = n THEN path[cur] \o below ELSE path[x]]
  /\ Finish(None)
  /\ UNCHANGED root

------------------------------------------------------------------------------
(* remove, remove_prefix                                                   *)

Compress(r) ==
  /\ step' = "compress" /\ call' = NoCall /\ cur' = None /\ rest' = <<>>
  /\ ret' = r /\ UNCHANGED <<root, todo, tidy>>

RemoveHere ==
  /\ Walking /\ Whole /\ Ends /\ call.op = "remove" /\ ~Bare(cur)
  /\ forest' = [forest EXCEPT ![cur].val = None]
  /\ Compress(forest[cur].val)
  /\ UNCHANGED <<visited, path>>

CutRoot ==
  /\ Walking /\ Ends /\ call.op = "remove_prefix" /\ visited = <<>>
  /\ forest' = <<>> /\ root' = None /\ path' = <<>>
  /\ Finish(None)

last == visited[Len(visited)]
before == SubSeq(visited, 1, Len(visited) - 1)

(* n loses the child filed under b with all that is below it.              *)
DropKid(n, b) ==
  LET left == nodes \ Under(forest[n].kids[b])
  IN /\ forest' = [x \in left |-> IF x = n THEN WithoutKid(n, b) ELSE forest[x]]
     /\ path' = [x \in left |-> path[x]]

CutChild_kept ==
  /\ Walking /\ Ends /\ call.op = "remove_prefix" /\ visited # <<>>
  /\ DropKid(last[1], last[2])
  /\ UNCHANGED visited
  /\ Compress(None)

CutChild ==
  /\ Walking /\ Ends /\ call.op = "remove_prefix" /\ visited # <<>>
  /\ DropKid(last[1], last[2])
  /\ visited' = before
  /\ Compress(None)

------------------------------------------------------------------------------
(* compress                                                                *)

(* An iteration begins: the child is dropped if it is of no use.           *)
Climb ==
  LET c == forest[last[1]].kids[last[2]]
  IN /\ step = "compress" /\ visited # <<>>
     /\ IF Branches(c) = {} /\ Bare(c) THEN DropKid(last[1], last[2])
                                       ELSE UNCHANGED <<forest, path>>
     /\ cur' = last[1] /\ visited' = before
     /\ step' = "join"
     /\ UNCHANGED <<root, call, rest, todo, ret, tidy>>

OnlyKid(n) == forest[n].kids[CHOOSE b \in Branches(n) : TRUE]

Merged_ownPrefix(n) == forest[OnlyKid(n)]
Merged(n) ==
  [forest[OnlyKid(n)] EXCEPT !.prefix = forest[n].prefix \o @]

(* The parent takes over what its only child has.                          *)
Join ==
  LET left == nodes \ {OnlyKid(cur)}
  IN /\ step = "join" /\ Joinable(cur)
     /\ forest' = [x \in left |-> IF x = cur THEN Merged(cur) ELSE forest[x]]
     /\ path' = [x \in left |-> IF x = cur THEN path[OnlyKid(cur)] ELSE path[x]]
     /\ step' = "compress" /\ cur' = None
     /\ UNCHANGED <<root, call, rest, visited, todo, ret, tidy>>

Settle ==
  /\ step = "join" /\ ~Joinable(cur)
  /\ step' = "compress" /\ cur' = None /\ visited' = <<>>
  /\ UNCHANGED <<forest, root, call, rest, todo, ret, path, tidy>>

AtRoot == step = "compress" /\ visited = <<>>

RootGone ==
  /\ AtRoot /\ Bare(root) /\ Branches(root) = {}
  /\ forest' = <<>> /\ root' = None /\ path' = <<>>
  /\ Finish(ret)

(* The root's only child becomes the root.                                 *)
RootJoin ==
  LET c == OnlyKid(root)
      left == nodes \ {root}
  IN /\ AtRoot /\ Joinable(root)
     /\ forest' = [x \in left |-> IF x = c THEN Merged(root) ELSE forest[x]]
     /\ path' = [x \in left |-> path[x]]
     /\ root' = c
     /\ Finish(ret)

RootKept_always == AtRoot /\ Leave(ret)
RootKept ==
  AtRoot /\ ~Joinable(root) /\ (Branches(root) = {} => ~Bare(root)) /\ Leave(ret)

------------------------------------------------------------------------------
(* for_each_prefix                                                         *)

Find ==
  /\ Walking /\ Ends /\ call.op = "for_each"
  /\ todo' = {<<cur, Drop(text, common)>>}
  /\ call' = [call EXCEPT !.op = "visit"]
  /\ step' = "visit" /\ cur' = None /\ rest' = <<>>
  /\ UNCHANGED <<forest, root, visited, ret, path, tidy>>

(* for_each_prefix_from_node, which calls itself for each child.           *)
Visit(n, suffix) ==
  /\ step = "visit" /\ <<n, suffix>> \in todo
  /\ ret' = IF Bare(n) THEN ret ELSE <<suffix, forest[n].val>>
  /\ todo' = (todo \ {<<n, suffix>>})
               \cup {<<c, suffix \o forest[c].prefix>> : c \in Kids(n)}
  /\ UNCHANGED <<forest, root, call, step, cur, rest, visited, path, tidy>>

EndVisits == step = "visit" /\ todo = {} /\ Leave(ret)

------------------------------------------------------------------------------
TrieNext ==
  \/ Start \/ Refuse \/ Descend \/ Miss \/ Answer \/ GetMut
  \/ \E n \in Names : InsertFirst(n) \/ InsertSplit(n) \/ InsertLeaf(n)
  \/ InsertHere \/ RemoveHere \/ CutRoot \/ CutChild
  \/ Climb \/ Join \/ Settle \/ RootGone \/ RootJoin \/ RootKept
  \/ Find \/ (\E f \in todo : Visit(f[1], f[2])) \/ EndVisits

TrieSpec == TrieInit /\ [][TrieNext]_mapVars

------------------------------------------------------------------------------
Valued == {n \in nodes : ~Bare(n)}

(* The values by what leads to them, and the keys still to be visited.     *)
contents ==
  [k \in {path[n] : n \in Valued} |-> forest[CHOOSE n \in Valued : path[n] = k].val]
unvisited ==
  {path[n] : n \in {x \in Valued : \E f \in todo : Seqs!IsPrefix(path[f[1]], path[x])}}

Map == INSTANCE PrefixMap WITH map <- contents, left <- unvisited

MapSpec == Map!Spec

(* Each child is filed under the first byte of its prefix, which is never  *)
(* empty: a walk that takes the child of a byte is on the only path to the *)
(* key, and insert_child and child_pos_from_idx agree on the bit.  A node  *)
(* other than the root has one parent, and path is what leads to it.       *)
Filed ==
  /\ root # None => path[root] = forest[root].prefix
  /\ \A n \in nodes, b \in Bytes :
       b \in Branches(n) =>
         LET c == forest[n].kids[b]
         IN /\ c # root /\ forest[c].prefix # <<>> /\ forest[c].prefix[1] = b
            /\ path[c] = path[n] \o forest[c].prefix
            /\ \A m \in nodes : \A d \in Branches(m) :
                 forest[m].kids[d] = c => m = n /\ d = b

MapTypeOK ==
  /\ nodes \subseteq Names /\ DOMAIN path = nodes
  /\ \A n \in nodes :
       /\ forest[n].prefix \in Seq(Bytes) /\ path[n] \in Seq(Bytes)
       /\ forest[n].val \in Values \cup {None}
       /\ Branches(n) \subseteq Bytes /\ Kids(n) \subseteq nodes
  /\ root \in nodes \cup {None}
  /\ root = None => nodes = {}
  /\ ret \in Values \cup {None} \cup (Seq(Bytes) \X Values)
  /\ Filed

(* compress goes back through raw pointers and unwraps the child it came   *)
(* by: each of them is to a live node that has a child at that byte, which *)
(* is the next one, whatever was split, dropped and joined further down.   *)
Traversed ==
  /\ \A k \in 1 .. Len(visited) :
       /\ visited[k][1] \in nodes /\ visited[k][2] \in Branches(visited[k][1])
       /\ k > 1 => visited[k][1] = forest[visited[k - 1][1]].kids[visited[k - 1][2]]
  /\ visited # <<>> => visited[1][1] = root
  /\ cur # None => cur \in nodes

(* insert and the writers leave no useless node where there was none: each *)
(* node has a value or two children, so that a trie of n keys has less     *)
(* than 2n nodes until something is removed.                               *)
InsertStaysCompressed ==
  [][call.op = "insert" /\ step' = "idle" /\ tidy => Compressed']_mapVars

(* A removal from a compressed trie may leave one node uncompressed, the   *)
(* one the value or the subtree was taken from, but never a leaf without a *)
(* value.                                                                  *)
RemovalLeavesOne ==
  [][step = "compress" /\ step' = "idle" /\ tidy =>
       (\A n, m \in nodes : ~Useful(n) /\ ~Useful(m) => n = m /\ Branches(n) # {})']_mapVars

(* tests/stress_tests.rs: when every key is removed the trie is empty.     *)
EmptyWithoutKeys == step = "idle" /\ Valued = {} => root = None
==============================================================================
