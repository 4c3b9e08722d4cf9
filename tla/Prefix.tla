------------------------------- MODULE Prefix -------------------------------
(***************************************************************************)
(* prefix.rs: the bytes of a node's prefix in 16 bytes.  The first one is  *)
(* the length times two plus one if the bytes fit inline; else it is the   *)
(* low byte of a pointer, which is even, and the length and the first byte *)
(* of what it points to are kept beside it.                                *)
(***************************************************************************)
EXTENDS Integers, Sequences

CONSTANT INLINE_CAP     \* 15

(* The tag byte has seven bits for the length.                             *)
ASSUME InlineAssumption == INLINE_CAP \in 1 .. 127

Inline(data) ==
  [tag |-> ((2 * Len(data)) % 256) + 1,
   area |-> [k \in 1 .. INLINE_CAP |-> IF k <= Len(data) THEN data[k] ELSE 0]]

OnHeap(data, first) == [tag |-> 0, len |-> Len(data), first |-> first, block |-> data]

new(data) ==
  IF Len(data) <= INLINE_CAP THEN Inline(data) ELSE OnHeap(data, data[1])

(* The slices of trie.rs are always two.                                   *)
Joined(s, t) ==
  [k \in 1 .. Len(s) + Len(t) |-> IF k <= Len(s) THEN s[k] ELSE t[k - Len(s)]]

from_slices_first(s, t) ==
  IF Len(s) + Len(t) <= INLINE_CAP THEN Inline(Joined(s, t))
  ELSE OnHeap(Joined(s, t), t[1])

from_slices(s, t) ==
  IF Len(s) + Len(t) <= INLINE_CAP THEN Inline(Joined(s, t))
  ELSE OnHeap(Joined(s, t), IF s # <<>> THEN s[1] ELSE t[1])

is_inline(p) == p.tag % 2 = 1
len(p) == IF is_inline(p) THEN p.tag \div 2 ELSE p.len
first_byte(p) == IF is_inline(p) THEN p.area[1] ELSE p.first
as_ref(p) ==
  IF is_inline(p) THEN SubSeq(p.area, 1, len(p)) ELSE SubSeq(p.block, 1, len(p))
==============================================================================
