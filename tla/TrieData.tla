------------------------------ MODULE TrieData ------------------------------
(***************************************************************************)
(* What the map (TrieMap) and the nodes in memory (TrieNode) have in       *)
(* common: bytes, values, and names that stand for the addresses of nodes. *)
(***************************************************************************)
CONSTANTS
  Bytes,      \* the bytes of keys: all of u8
  Values,
  None,       \* Option::None
  Names       \* names for the nodes that are alive at once
==============================================================================
