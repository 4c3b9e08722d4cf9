------------------------------- MODULE MCHeap -------------------------------
(* Elements for TLC: a and b share the least key, so that ties are sifted. *)
EXTENDS Heap, TLC
CONSTANTS a, b, c, d

MCElements == {a, b, c, d}
MCKey == (a :> 1) @@ (b :> 1) @@ (c :> 2) @@ (d :> 3)
==============================================================================
