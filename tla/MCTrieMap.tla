----------------------------- MODULE MCTrieMap -----------------------------
(* Keys and prefixes for TLC, and the trie without the names of its nodes. *)
EXTENDS TrieMap, TLC

Strings(letters, n) == UNION {[1 .. k -> letters] : k \in 0 .. n}

(* Keys: the empty one, all of one byte and three longer ones.             *)
MCPrefixes == Strings({1, 4}, 1) \cup {<<1, 1>>, <<1, 4>>}
MCKeys == MCPrefixes \cup {<<1, 1, 4>>}

Symmetry == Permutations(Values)

(* Nothing depends on a name but which node it stands for, and no two nodes*)
(* are on the same path.                                                   *)
At(n) == IF n \in nodes THEN path[n] ELSE None
Unnamed(n) ==
  [forest[n] EXCEPT !.kids = [b \in Branches(n) |-> At(forest[n].kids[b])]]
MapShape ==
  <<[p \in {path[n] : n \in nodes} |-> {Unnamed(n) : n \in {m \in nodes : path[m] = p}}],
    At(root), At(cur), [k \in DOMAIN visited |-> <<At(visited[k][1]), visited[k][2]>>],
    {<<At(f[1]), f[2]>> : f \in todo}, call, step, rest, ret, tidy>>
==============================================================================
