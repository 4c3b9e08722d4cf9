------------------------------ MODULE Partition ------------------------------
(***************************************************************************)
(* What a union-find structure promises: a partition of the elements       *)
(* 0 .. n-1 into blocks, one answer for each call, and a representative of *)
(* each block that only a merge of the block may change.                   *)
(***************************************************************************)
EXTENDS Integers, FiniteSets

CONSTANT MaxLen     \* bound on the number of elements

VARIABLES
  blocks,     \* the partition
  count,      \* the number of sets reported by num_sets
  rep,        \* the representative of each element's block
  call,       \* the call in progress or the last one
  busy,       \* whether call has not returned yet
  ret         \* what the last call returned

Elements == UNION blocks
BlockOf(i) == CHOOSE B \in blocks : i \in B

Init ==
  \E n \in 0 .. MaxLen :
    /\ blocks = {{i} : i \in 0 .. n - 1}
    /\ count = n
    /\ rep = [i \in 0 .. n - 1 |-> i]
    /\ call = [name |-> "none"]
    /\ busy = FALSE
    /\ ret = 0

(* Adding an element gives its index back and needs no search.             *)
Add ==
  LET n == Cardinality(Elements)
  IN /\ ~busy
     /\ n < MaxLen
     /\ blocks' = blocks \cup {{n}}
     /\ count' = count + 1
     /\ rep' = [i \in Elements' |-> IF i = n THEN n ELSE rep[i]]
     /\ call' = [name |-> "add"]
     /\ ret' = n
     /\ UNCHANGED busy

Call ==
  /\ ~busy
  /\ \E i, j \in Elements :
       call' \in {[name |-> "find", i |-> i], [name |-> "size_of", i |-> i],
                  [name |-> "union", i |-> i, j |-> j]}
  /\ busy' = TRUE
  /\ UNCHANGED <<blocks, count, rep, ret>>

Return(result) ==
  /\ busy
  /\ busy' = FALSE
  /\ ret' = result
  /\ UNCHANGED call

Find ==
  /\ call.name = "find"
  /\ Return(rep[call.i])
  /\ UNCHANGED <<blocks, count, rep>>

SizeOf ==
  /\ call.name = "size_of"
  /\ Return(Cardinality(BlockOf(call.i)))
  /\ UNCHANGED <<blocks, count, rep>>

Union ==
  /\ call.name = "union"
  /\ LET B == BlockOf(call.i)
         C == BlockOf(call.j)
     IN IF B = C
        THEN Return(FALSE) /\ UNCHANGED <<blocks, count, rep>>
        ELSE /\ Return(TRUE)
             /\ blocks' = (blocks \ {B, C}) \cup {B \cup C}
             /\ count' = count - 1
             /\ \E r \in {rep[call.i], rep[call.j]} :
                  rep' = [k \in Elements |-> IF k \in B \cup C THEN r ELSE rep[k]]

Next == Add \/ Call \/ Find \/ SizeOf \/ Union

Spec == Init /\ [][Next]_<<blocks, count, rep, call, busy, ret>>
==============================================================================
