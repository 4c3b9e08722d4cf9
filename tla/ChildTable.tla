----------------------------- MODULE ChildTable -----------------------------
(***************************************************************************)
(* The children of an internal node: a bitmap of four words (node.rs) that *)
(* says which first bytes have a child, and a BoundedRawVec (util.rs) that *)
(* holds the children in the order of those bytes.  The vector does not    *)
(* know its length: it is the number of bits of the bitmap.                *)
(*                                                                         *)
(* A vector is a buffer of slots indexed from 0; what a slot holds beyond  *)
(* the length is Junk.  The tag in the low bits of its pointer is the only *)
(* record of the buffer's size.  Operators whose name has a suffix after   *)
(* an underscore in lower case are bugs that the properties must notice.   *)
(***************************************************************************)
EXTENDS TrieData, Integers, FiniteSets

CONSTANTS
  WordBits,   \* bits in a word of the bitmap: 64
  TAG_MAX,    \* the largest tag, of three bits: 7
  Junk        \* memory that holds no value

ASSUME BytesAssumption ==
  /\ WordBits \in Nat \ {0}
  /\ TAG_MAX \in 0 .. 7
  /\ Bytes \subseteq 0 .. 4 * WordBits - 1
  /\ Cardinality(Bytes) <= 2 ^ (TAG_MAX + 1)

------------------------------------------------------------------------------
(* BoundedRawVec                                                           *)

NewVec == [null |-> TRUE, tag |-> 0, buf |-> <<>>]

CapacityOf(tag) == 2 ^ (tag + 1)
capacity(v) == IF v.null THEN 0 ELSE CapacityOf(v.tag)

Full_early(v, len) == len + 1 >= capacity(v)
Full(v, len) == len = capacity(v)

(* assert!(cur_tag < TAG_MAX) fails.                                       *)
Overflows(v, len) == Full(v, len) /\ ~v.null /\ v.tag >= TAG_MAX

GrownTag(v) == IF v.null THEN 0 ELSE v.tag + 1

Shifted_overwriting(v, i, e, len, cap) ==
  [k \in 0 .. cap - 1 |-> IF k = i THEN e ELSE IF k < len THEN v.buf[k] ELSE Junk]

(* The elements of v from i on one slot higher, and e at i, in a buffer of *)
(* the given size.                                                         *)
Shifted(v, i, e, len, cap) ==
  [k \in 0 .. cap - 1 |-> IF k < i THEN v.buf[k]
                          ELSE IF k = i THEN e
                          ELSE IF k <= len THEN v.buf[k - 1] ELSE Junk]

vec_insert(v, i, e, len) ==
  LET tag == IF Full(v, len) THEN GrownTag(v) ELSE v.tag
  IN [null |-> FALSE, tag |-> tag, buf |-> Shifted(v, i, e, len, CapacityOf(tag))]

vec_remove(v, i, len) ==
  [v EXCEPT !.buf = [k \in DOMAIN v.buf |->
                       IF k < i THEN v.buf[k]
                       ELSE IF k < len - 1 THEN v.buf[k + 1] ELSE Junk]]

------------------------------------------------------------------------------
(* The bitmap: a word is the set of its bits that are 1.                   *)

NoChildren == [bitmap |-> [w \in 0 .. 3 |-> {}], vec |-> NewVec]

child_pos_from_byte(b) == [idx |-> b \div WordBits, bit |-> b % WordBits]

count_ones(word) == Cardinality(word)

len_children(t) ==
  count_ones(t.bitmap[0]) + count_ones(t.bitmap[1])
    + count_ones(t.bitmap[2]) + count_ones(t.bitmap[3])

child_exists(t, pos) == pos.bit \in t.bitmap[pos.idx]

Mask_closed(bit) == 0 .. bit
Mask(bit) == 0 .. bit - 1     \* (1 << bit) - 1

WordsBefore_short(t, idx) ==
  (IF idx > 0 THEN count_ones(t.bitmap[0]) ELSE 0)
    + (IF idx > 1 THEN count_ones(t.bitmap[1]) ELSE 0)

WordsBefore(t, idx) ==
  (IF idx > 0 THEN count_ones(t.bitmap[0]) ELSE 0)
    + (IF idx > 1 THEN count_ones(t.bitmap[1]) ELSE 0)
    + (IF idx > 2 THEN count_ones(t.bitmap[2]) ELSE 0)

child_idx_from_pos(t, pos) ==
  WordsBefore(t, pos.idx) + count_ones(t.bitmap[pos.idx] \cap Mask(pos.bit))

get_child_by_idx(t, i) == t.vec.buf[i]
get_child_by_pos(t, pos) == get_child_by_idx(t, child_idx_from_pos(t, pos))

insert_child(t, pos, c) ==
  [bitmap |-> [t.bitmap EXCEPT ![pos.idx] = @ \cup {pos.bit}],
   vec |-> vec_insert(t.vec, child_idx_from_pos(t, pos), c, len_children(t))]

remove_child(t, pos) ==
  [bitmap |-> [t.bitmap EXCEPT ![pos.idx] = @ \ {pos.bit}],
   vec |-> vec_remove(t.vec, child_idx_from_pos(t, pos), len_children(t))]

------------------------------------------------------------------------------
(* The children in the order in which iter_children visits them.           *)
Visited(t) == 0 .. len_children(t) - 1

Present(t) == {b \in Bytes : child_exists(t, child_pos_from_byte(b))}
Child(t, b) == get_child_by_pos(t, child_pos_from_byte(b))
==============================================================================
