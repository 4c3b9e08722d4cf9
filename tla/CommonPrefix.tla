---------------------------- MODULE CommonPrefix ----------------------------
(***************************************************************************)
(* util::lcp: how many bytes two buffers have in common, found by          *)
(* comparing words of 16, 8, 4, 2 or 1 bytes.  The last word ends where    *)
(* the shorter buffer ends and overlaps those before it.  A step compares  *)
(* one word.  Buffers are indexed from 1, offsets into them count from 0.  *)
(***************************************************************************)
EXTENDS Integers, Sequences

CONSTANT Buffers      \* the pairs of buffers compared, sequences of bytes

VARIABLES
  bufs,       \* buf1 and buf2
  pc,         \* "idle", "loop" or "done", with a result
  i,          \* the offset of the next word of the loop
  lcp         \* the result

lcpVars == <<bufs, pc, i, lcp>>

(* The length of the shorter buffer.                                       *)
Shorter(s, t) == IF Len(s) <= Len(t) THEN Len(s) ELSE Len(t)
minLen == Shorter(bufs[1], bufs[2])

(* Bytes compared at once: the widest word that fits.                      *)
Width(n) ==
  IF n >= 16 THEN 16 ELSE IF n >= 8 THEN 8 ELSE IF n >= 4 THEN 4
  ELSE IF n >= 2 THEN 2 ELSE 1
width == Width(minLen)

(* The bytes that differ in the words at offset o: those that are not zero *)
(* in the exclusive or, whose zero bits at the end, by eights, count up to *)
(* the first of them.                                                      *)
Diff(o) == {k \in 0 .. width - 1 : bufs[1][o + k + 1] # bufs[2][o + k + 1]}

Least(S) == CHOOSE x \in S : \A y \in S : x <= y

FirstDiff_inWord(o) == Least(Diff(o))
FirstDiff(o) == o + Least(Diff(o))

InLoop == pc = "loop" /\ i + width <= minLen
InTail == pc = "loop" /\ i + width > minLen
tail == minLen - width

------------------------------------------------------------------------------
LcpInit == bufs = << <<>>, <<>> >> /\ pc = "idle" /\ i = 0 /\ lcp = 0

Call ==
  /\ pc = "idle"
  /\ \E p \in Buffers :
       /\ bufs' = p
       /\ pc' = IF Shorter(p[1], p[2]) = 0 THEN "done" ELSE "loop"
  /\ UNCHANGED <<i, lcp>>

Stop(n) == pc' = "done" /\ lcp' = n /\ UNCHANGED <<bufs, i>>

(* Only words of 16 bytes are compared in a loop: of the others one fits.  *)
CompareNext ==
  /\ InLoop
  /\ IF Diff(i) # {} THEN Stop(FirstDiff(i))
                     ELSE i' = i + width /\ UNCHANGED <<bufs, pc, lcp>>

CompareTail_none == InTail /\ Stop(minLen)

(* The word at the end; a single byte, compared once by the code, is its   *)
(* own tail.                                                               *)
CompareTail == InTail /\ Stop(IF Diff(tail) # {} THEN FirstDiff(tail) ELSE minLen)

(* The caller has the result.                                              *)
Return ==
  /\ pc = "done"
  /\ bufs' = << <<>>, <<>> >> /\ pc' = "idle" /\ i' = 0 /\ lcp' = 0

LcpNext == Call \/ CompareNext \/ CompareTail \/ Return

LcpSpec == LcpInit /\ [][LcpNext]_lcpVars

------------------------------------------------------------------------------
(* The result is the length of the longest common prefix, whatever words   *)
(* it was found in and although words overlap: the buffers agree up to it  *)
(* and not one byte further.                                               *)
LcpExact ==
  LET s == bufs[1]
      t == bufs[2]
  IN pc = "done" =>
       /\ lcp \in 0 .. minLen
       /\ \A k \in 1 .. lcp : s[k] = t[k]
       /\ lcp < minLen => s[lcp + 1] # t[lcp + 1]

(* read_unaligned never leaves either buffer.                              *)
ReadsInBounds ==
  \A o \in (IF InLoop THEN {i} ELSE {}) \cup (IF InTail THEN {tail} ELSE {}) :
    0 <= o /\ o + width <= Len(bufs[1]) /\ o + width <= Len(bufs[2])
==============================================================================
