------------------------------ MODULE UnionFind ------------------------------
(***************************************************************************)
(* algors-union-find/src/union_find.rs: a forest kept in one vector, with  *)
(* union by size and path compression.  Each iteration of a loop of find   *)
(* is a step: the first loop climbs to the root, the second one points     *)
(* every element of the path at it.  union runs find twice and then links. *)
(*                                                                         *)
(* Every index given to a call is below len (the code panics otherwise).   *)
(* Operators whose name has a suffix after an underscore are bugs that     *)
(* the properties must notice.                                             *)
(***************************************************************************)
EXTENDS Integers, FiniteSets

CONSTANT MaxLen     \* bound on the number of elements

ASSUME MaxLenAssumption == MaxLen \in Nat

VARIABLES
  data,       \* negative: a root and minus its size; otherwise: the parent
  num_sets,
  call,       \* the call in progress, or the last one
  pc,         \* "idle", "climb" or "flatten"
  root,       \* find's local variables
  cur,
  root_i,     \* union: what the first find returned, -1 before
  ret         \* what the last call returned

vars == <<data, num_sets, call, pc, root, cur, root_i, ret>>

Elements == DOMAIN data
IsRoot(i) == data[i] < 0

Init ==
  \E size \in 0 .. MaxLen :
    /\ data = [i \in 0 .. size - 1 |-> -1]
    /\ num_sets = size
    /\ call = [name |-> "none"]
    /\ pc = "idle"
    /\ root = 0 /\ cur = 0 /\ root_i = -1
    /\ ret = 0

Add ==
  LET new_i == Cardinality(Elements)
  IN /\ pc = "idle"
     /\ new_i < MaxLen
     /\ data' = [i \in 0 .. new_i |-> IF i = new_i THEN -1 ELSE data[i]]
     /\ num_sets' = num_sets + 1
     /\ call' = [name |-> "add"]
     /\ ret' = new_i
     /\ UNCHANGED <<pc, root, cur, root_i>>

StartFind(i) ==
  /\ root' = i
  /\ cur' = i
  /\ pc' = "climb"

Call ==
  /\ pc = "idle"
  /\ \E i, j \in Elements :
       /\ call' \in {[name |-> "find", i |-> i], [name |-> "size_of", i |-> i],
                     [name |-> "union", i |-> i, j |-> j]}
       /\ StartFind(i)
  /\ UNCHANGED <<data, num_sets, root_i, ret>>

Climb_fromCur ==
  /\ pc = "climb"
  /\ IF IsRoot(root) THEN pc' = "flatten" /\ UNCHANGED root
                     ELSE root' = data[cur] /\ UNCHANGED pc
  /\ UNCHANGED <<data, num_sets, call, cur, root_i, ret>>

Climb_pastRoot ==
  /\ pc = "climb"
  /\ IF data[root] < -1 THEN pc' = "flatten" /\ UNCHANGED root
                        ELSE root' = data[root] /\ UNCHANGED pc
  /\ UNCHANGED <<data, num_sets, call, cur, root_i, ret>>

(* while data[root] >= 0                                                   *)
Climb ==
  /\ pc = "climb"
  /\ IF IsRoot(root) THEN pc' = "flatten" /\ UNCHANGED root
                     ELSE root' = data[root] /\ UNCHANGED pc
  /\ UNCHANGED <<data, num_sets, call, cur, root_i, ret>>

(* while data[cur] >= 0                                                    *)
Flatten ==
  /\ pc = "flatten"
  /\ ~IsRoot(cur)
  /\ data' = [data EXCEPT ![cur] = root]
  /\ cur' = data[cur]
  /\ UNCHANGED <<num_sets, call, pc, root, root_i, ret>>

(* find has nothing left to flatten and returns root.                      *)
Found == pc = "flatten" /\ IsRoot(cur)

Return(result) ==
  /\ pc' = "idle"
  /\ ret' = result
  /\ root' = 0 /\ cur' = 0 /\ root_i' = -1
  /\ UNCHANGED call

Find ==
  /\ Found
  /\ call.name = "find"
  /\ Return(root)
  /\ UNCHANGED <<data, num_sets>>

Magnitude(x) == IF x < 0 THEN -x ELSE x

SizeOf_ofArgument ==
  /\ Found
  /\ call.name = "size_of"
  /\ Return(Magnitude(data[call.i]))
  /\ UNCHANGED <<data, num_sets>>

SizeOf ==
  /\ Found
  /\ call.name = "size_of"
  /\ Return(Magnitude(data[root]))
  /\ UNCHANGED <<data, num_sets>>

UnionSecondFind_again ==
  /\ Found
  /\ call.name = "union" /\ root_i = -1
  /\ root_i' = root
  /\ StartFind(call.i)
  /\ UNCHANGED <<data, num_sets, call, ret>>

UnionSecondFind ==
  /\ Found
  /\ call.name = "union" /\ root_i = -1
  /\ root_i' = root
  /\ StartFind(call.j)
  /\ UNCHANGED <<data, num_sets, call, ret>>

UnionSame ==
  /\ Found
  /\ call.name = "union" /\ root_i = root
  /\ Return(FALSE)
  /\ UNCHANGED <<data, num_sets>>

Hang_sizeLost(child, parent) == [data EXCEPT ![child] = parent]

(* data with the tree of child hung below the root parent                  *)
Hang(child, parent) ==
  [data EXCEPT ![parent] = data[parent] + data[child], ![child] = parent]

Linked_smallerWins ==
  IF data[root] >= data[root_i] THEN Hang(root_i, root) ELSE Hang(root, root_i)

(* The sizes are negative: the larger tree has the smaller datum.          *)
Linked ==
  IF data[root] <= data[root_i] THEN Hang(root_i, root) ELSE Hang(root, root_i)

UnionLink_unchecked ==
  /\ Found
  /\ call.name = "union" /\ root_i # -1
  /\ data' = Linked
  /\ num_sets' = num_sets - 1
  /\ Return(TRUE)

UnionLink ==
  /\ Found
  /\ call.name = "union" /\ root_i \notin {-1, root}
  /\ data' = Linked
  /\ num_sets' = num_sets - 1
  /\ Return(TRUE)

Step == \/ Climb \/ Flatten \/ Find \/ SizeOf
        \/ UnionSecondFind \/ UnionSame \/ UnionLink

Next == Add \/ Call \/ Step

Spec == Init /\ [][Next]_vars

(* A call runs on its caller's thread until it returns.                    *)
FairSpec == Spec /\ WF_vars(Step)

------------------------------------------------------------------------------
(* Every parent is an element, no set has more elements than there are,    *)
(* and the locals of find stay indices: none of data[root], data[cur] and  *)
(* data[root_i] is out of bounds.                                          *)
TypeOK ==
  /\ Elements = 0 .. Cardinality(Elements) - 1
  /\ Cardinality(Elements) <= MaxLen
  /\ \A i \in Elements :
       data[i] \in -Cardinality(Elements) .. Cardinality(Elements) - 1
  /\ num_sets \in 0 .. Cardinality(Elements)
  /\ pc \in {"idle", "climb", "flatten"}
  /\ pc # "idle" => {root, cur} \subseteq Elements
  /\ root_i \in Elements \cup {-1}

(* The forest has no cycle, so that climbing ends: any set of elements has *)
(* one from which the next step up leaves the set (data is negative at a   *)
(* root, hence no element).                                                *)
NoCycle ==
  \A S \in SUBSET Elements : S # {} => \E i \in S : data[i] \notin S

(* A set of elements is closed when no link leaves it.  An element leads   *)
(* to another when each closed set with the one has the other too, that    *)
(* is, when the links go from the one to the other.                        *)
Closed(S) == \A k \in S : ~IsRoot(k) => data[k] \in S
LeadsTo(i, r) == \A S \in SUBSET Elements : Closed(S) /\ i \in S => r \in S
Tree(r) == {k \in Elements : LeadsTo(k, r)}
Roots == {r \in Elements : IsRoot(r)}

(* The argument leads to where find is, and both are in the tree of root   *)
(* all the time that the second loop rearranges it while it walks up: what *)
(* find returns is the root of its argument, also when union has taken one *)
(* root already and the second find changes the vector again.              *)
FindsOwnRoot ==
  pc # "idle" =>
    /\ LeadsTo(IF root_i = -1 THEN call.i ELSE call.j, root)
    /\ pc = "flatten" => IsRoot(root) /\ LeadsTo(cur, root)
    /\ root_i # -1 => IsRoot(root_i) /\ LeadsTo(call.i, root_i)

(* The negative number at a root counts the elements that lead to it, and  *)
(* num_sets counts the roots.                                              *)
SizesExact ==
  /\ \A r \in Roots : data[r] = -Cardinality(Tree(r))
  /\ num_sets = Cardinality(Roots)

------------------------------------------------------------------------------
(* Where climbing from an element ends.                                    *)
RootOf[i \in Elements] == IF IsRoot(i) THEN i ELSE RootOf[data[i]]

(* 2 to the number of links between an element and its root.               *)
Weight[i \in Elements] == IF IsRoot(i) THEN 1 ELSE 2 * Weight[data[i]]

(* Hanging the smaller tree below the larger one keeps every tree shallow: *)
(* an element at depth d is in a set of at least 2^d elements, so that     *)
(* climbing takes at most log2(len) steps at any moment.                   *)
ShallowTrees == \A i \in Elements : Weight[i] <= -data[RootOf[i]]

Sets == INSTANCE Partition WITH
  blocks <- {{k \in Elements : RootOf[k] = r} : r \in Roots},
  count <- num_sets,
  rep <- RootOf,
  busy <- pc # "idle"

(* union_find.rs keeps a partition: find returns the representative,       *)
(* size_of the number of elements of the block, union says whether it      *)
(* merged two blocks, num_sets counts them, and representatives change     *)
(* only when their block is merged, never when find compresses a path.     *)
PartitionSpec == Sets!Spec

(* Every call returns: the climb ends at a root and flattening, which      *)
(* redirects the links it is walking along, does not lose its way.         *)
CallsReturn == pc # "idle" ~> pc = "idle"
==============================================================================
