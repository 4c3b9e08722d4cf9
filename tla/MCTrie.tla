------------------------------- MODULE MCTrie -------------------------------
(***************************************************************************)
(* The layers of the trie for TLC, side by side: the map over nodes that   *)
(* are records (TrieMap), the nodes in memory (TrieNode), and the function *)
(* that compares keys with prefixes (CommonPrefix).  They share no state,  *)
(* and a behaviour is one of one layer.                                    *)
(***************************************************************************)
EXTENDS MCTrieMap, TrieNode, CommonPrefix

VARIABLE layer

(* Uses of the nodes: a parent whose vector grows until it is full; chains *)
(* and moves of three nodes; values and a long prefix.                     *)
Use(texts, parents, values, size, reshape) ==
  [texts |-> texts, parents |-> parents, values |-> values, size |-> size,
   reshape |-> reshape]

MCUses == {
  Use({<<>>, <<0>>, <<1>>, <<4>>, <<7>>}, {<<>>}, {}, 5, FALSE),
  Use({<<1>>, <<4>>}, Strings({1, 4}, 2), {}, 3, TRUE),
  Use({<<1>>, <<4, 1>>}, Strings({1, 4}, 2), Values, 3, FALSE)}

MCTexts == UNION {u.texts : u \in MCUses}

(* Buffers of up to 34 bytes, two words of 16 and a tail: equal, or        *)
(* different in one or two places.                                         *)
Changed(n, D) == [k \in 1 .. n |-> IF k \in D THEN 2 ELSE 1]
MCBuffers ==
  {<<Changed(n, {}), Changed(m, {j, k})>> :
     n \in {0, 1, 2, 3, 5, 8, 11, 16, 17, 33, 34}, m \in {1, 3, 7, 16, 31, 34},
     j \in 0 .. 34, k \in {0, 2, 8, 16, 17, 30, 33}}

LayersInit ==
  /\ layer \in {"map", "nodes", "lcp"}
  /\ TrieInit /\ Init /\ LcpInit
  /\ layer # "nodes" => use = CHOOSE u \in Uses : TRUE

LayersNext ==
  /\ UNCHANGED layer
  /\ \/ layer = "map" /\ TrieNext /\ UNCHANGED <<vars, lcpVars>>
     \/ layer = "nodes" /\ Next /\ UNCHANGED <<mapVars, lcpVars>>
     \/ layer = "lcp" /\ LcpNext /\ UNCHANGED <<vars, mapVars>>

LayersSpec == LayersInit /\ [][LayersNext]_<<layer, vars, mapVars, lcpVars>>

(* The nodes without their names: trees, of which the caller may hold two  *)
(* alike.  Nothing in the model depends on a name but what it stands for.  *)
RECURSIVE Tree(_)
Tree(n) ==
  LET v == table[n].vec
  IN <<n \in leaf, val[n], prefix[n], table[n].bitmap, v.null, v.tag,
       [k \in DOMAIN v.buf |-> IF v.buf[k] = Junk THEN Junk ELSE Tree(v.buf[k])]>>
Trees == {Tree(n) : n \in hands}
Shape ==
  <<layer, MapShape, lcpVars, use, outside, ledger,
    Cardinality(live), Cardinality(valued),
    [t \in Trees |-> Cardinality({n \in hands : Tree(n) = t})]>>
==============================================================================
