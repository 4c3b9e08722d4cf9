-------------------------- MODULE UnionFind_proofs --------------------------
(***************************************************************************)
(* Proofs about UnionFind, for every number of elements.  The forest is    *)
(* followed without recursion: an element leads to another when no closed  *)
(* set of elements tells them apart (LeadsTo).  The trees of two roots are *)
(* disjoint closed sets; find's loops keep each of them, and union adds    *)
(* one to another.                                                         *)
(***************************************************************************)
EXTENDS UnionFind, FiniteSetTheorems, TLAPS

------------------------------------------------------------------------------
(* The inductive invariant.                                                *)

(* Every element is a root or has an element as its parent.                *)
Vector ==
  /\ \E n \in 0 .. MaxLen : data \in [0 .. n - 1 -> Int]
  /\ \A k \in Elements : IsRoot(k) \/ data[k] \in Elements

Calls == [name : {"find", "size_of"}, i : Elements]
           \cup [name : {"union"}, i : Elements, j : Elements]

Argument == IF root_i = -1 THEN call.i ELSE call.j

Locals ==
  /\ pc = "climb" => cur = Argument
  /\ pc \in {"idle", "climb", "flatten"}
  /\ pc = "idle" => root_i = -1
  /\ pc # "idle" => /\ root \in Elements /\ cur \in Elements
                    /\ call \in Calls
                    /\ root_i \in Elements \cup {-1}
                    /\ root_i # -1 => call.name = "union"

IInv == Vector /\ Locals /\ NoCycle /\ FindsOwnRoot /\ SizesExact

------------------------------------------------------------------------------
(* Trees, in one state.                                                    *)

LEMMA RootLeads ==
  ASSUME NEW r \in Roots, NEW s \in Roots
  PROVE  LeadsTo(r, s) <=> r = s
<1>1. Closed({r}) /\ {r} \in SUBSET Elements
  BY DEF Closed, Roots
<1>. QED
  BY <1>1 DEF LeadsTo

LEMMA TreeClosed ==
  ASSUME NEW s \in Roots, Vector
  PROVE  Closed(Tree(s)) /\ Tree(s) \in SUBSET Elements /\ s \in Tree(s)
<1>1. ASSUME NEW k \in Tree(s), ~IsRoot(k)
      PROVE  data[k] \in Tree(s)
  <2>1. data[k] \in Elements
    BY <1>1 DEF Vector, Tree
  <2>2. ASSUME NEW S \in SUBSET Elements, Closed(S), data[k] \in S
        PROVE  s \in S
    <3>1. Closed(S \cup {k}) /\ S \cup {k} \in SUBSET Elements
      BY <1>1, <2>2 DEF Closed, Tree
    <3>2. s \in S \cup {k}
      BY <1>1, <3>1 DEF LeadsTo, Tree
    <3>. QED
      BY <1>1, <3>2 DEF Roots
  <2>. QED
    BY <2>1, <2>2 DEF LeadsTo, Tree
<1>2. s \in Tree(s)
  BY DEF Tree, LeadsTo, Roots
<1>. QED
  BY <1>1, <1>2 DEF Closed, Tree

LEMMA RestClosed ==
  ASSUME NEW s \in Roots, Vector
  PROVE  Closed(Elements \ Tree(s))
<1>1. ASSUME NEW k \in Elements \ Tree(s), ~IsRoot(k)
      PROVE  data[k] \in Elements \ Tree(s)
  <2>1. data[k] \in Elements
    BY <1>1 DEF Vector
  <2>2. PICK S \in SUBSET Elements : Closed(S) /\ k \in S /\ s \notin S
    BY <1>1 DEF Tree, LeadsTo
  <2>3. data[k] \in S
    BY <1>1, <2>2 DEF Closed
  <2>. QED
    BY <2>1, <2>2, <2>3 DEF Tree, LeadsTo
<1>. QED
  BY <1>1 DEF Closed

LEMMA TreesApart ==
  ASSUME NEW r \in Roots, NEW s \in Roots, r # s, Vector
  PROVE  Tree(r) \cap Tree(s) = {}
<1>1. SUFFICES ASSUME NEW k \in Tree(r) \cap Tree(s) PROVE FALSE
  OBVIOUS
<1>2. Closed(Tree(r)) /\ Tree(r) \in SUBSET Elements
  BY TreeClosed
<1>3. s \in Tree(r)
  BY <1>1, <1>2 DEF Tree, LeadsTo
<1>. QED
  BY <1>3, RootLeads DEF Tree

LEMMA Finite ==
  ASSUME Vector
  PROVE  /\ IsFiniteSet(Elements)
         /\ Cardinality(Elements) \in 0 .. MaxLen
         /\ Elements = 0 .. Cardinality(Elements) - 1
<1>1. PICK n \in 0 .. MaxLen : data \in [0 .. n - 1 -> Int]
  BY DEF Vector
<1>2. Elements = 0 .. n - 1
  BY <1>1 DEF Elements
<1>3. n \in Nat /\ n - 1 \in Int
  BY MaxLenAssumption
<1>4. IsFiniteSet(0 .. n - 1) /\ Cardinality(0 .. n - 1) = n
  BY <1>3, FS_Interval
<1>. QED
  BY <1>2, <1>4

------------------------------------------------------------------------------
LEMMA InitIInv == Init => IInv
<1>. SUFFICES ASSUME NEW size \in 0 .. MaxLen,
                     data = [k \in 0 .. size - 1 |-> -1],
                     num_sets = size, pc = "idle", root_i = -1
              PROVE  IInv
  BY DEF Init
<1>1. Elements = 0 .. size - 1 /\ Roots = Elements
  BY DEF Elements, Roots, IsRoot
<1>2. Vector
  BY <1>1 DEF Vector, IsRoot
<1>3. NoCycle
  <2>1. ASSUME NEW S \in SUBSET Elements, NEW k \in S PROVE data[k] \notin S
    BY <1>1
  <2>. QED
    BY <2>1 DEF NoCycle
<1>4. Cardinality(Roots) = size
  <2>1. size \in Nat /\ size - 1 \in Int
    BY MaxLenAssumption
  <2>. QED
    BY <1>1, <2>1, FS_Interval
<1>5. ASSUME NEW r \in Roots PROVE data[r] = -Cardinality(Tree(r))
  <2>1. Tree(r) = {r}
    BY <1>1, RootLeads DEF Tree
  <2>2. Cardinality({r}) = 1
    BY FS_Singleton
  <2>. QED
    BY <1>1, <2>1, <2>2
<1>. QED
  BY <1>2, <1>3, <1>4, <1>5 DEF IInv, Locals, FindsOwnRoot, SizesExact

(* A step that leaves the vector alone leaves the forest alone.            *)
LEMMA SameForest ==
  ASSUME Vector, NoCycle, SizesExact, UNCHANGED <<data, num_sets>>
  PROVE  /\ Vector' /\ NoCycle' /\ SizesExact'
         /\ Elements' = Elements /\ Roots' = Roots
         /\ \A k : IsRoot(k)' <=> IsRoot(k)
         /\ \A k, r : LeadsTo(k, r)' <=> LeadsTo(k, r)
<1>1. Elements' = Elements /\ Roots' = Roots /\ \A k : IsRoot(k)' <=> IsRoot(k)
  BY DEF Elements, Roots, IsRoot
<1>2. Vector' /\ NoCycle'
  BY <1>1 DEF Vector, NoCycle
<1>3. \A S : Closed(S)' <=> Closed(S)
  BY <1>1 DEF Closed
<1>4. \A k, r : LeadsTo(k, r)' <=> LeadsTo(k, r)
  BY <1>1, <1>3 DEF LeadsTo
<1>5. \A r : Tree(r)' = Tree(r)
  BY <1>1, <1>4 DEF Tree
<1>. QED
  BY <1>1, <1>2, <1>4, <1>5 DEF SizesExact

(* Flattening moves one element of a tree to below its root: every element *)
(* leads to the same root as before.                                       *)
LEMMA FlattenForest ==
  ASSUME Vector, NoCycle, SizesExact, Flatten, root \in Roots, cur \in Tree(root)
  PROVE  /\ Vector' /\ NoCycle' /\ SizesExact'
         /\ Elements' = Elements /\ Roots' = Roots
         /\ \A r \in Roots, k \in Elements : LeadsTo(k, r)' <=> LeadsTo(k, r)
<1>. USE DEF Flatten
<1>1. cur \in Elements /\ root \in Elements /\ IsRoot(root) /\ ~IsRoot(cur)
  BY DEF Roots, Tree
<1>2. PICK n \in 0 .. MaxLen : data \in [0 .. n - 1 -> Int]
  BY DEF Vector
<1>3. /\ Elements = 0 .. n - 1 /\ Elements' = Elements
      /\ data' \in [0 .. n - 1 -> Int]
      /\ data'[cur] = root
      /\ \A k \in Elements \ {cur} : data'[k] = data[k]
  BY <1>1, <1>2 DEF Elements
<1>4. \A k \in Elements : IsRoot(k)' <=> IsRoot(k)
  BY <1>1, <1>3 DEF IsRoot
<1>5. Roots' = Roots
  BY <1>3, <1>4 DEF Roots
<1>6. Vector'
  BY <1>1, <1>2, <1>3, <1>4 DEF Vector
<1>7. NoCycle'
  <2>1. SUFFICES ASSUME NEW S \in SUBSET Elements, S # {}
                 PROVE  \E k \in S : data'[k] \notin S
    BY <1>3 DEF NoCycle
  <2>2. PICK k \in S : data[k] \notin S
    BY <2>1 DEF NoCycle
  <2>3. CASE root \in S
    BY <1>1, <1>3, <2>1, <2>3 DEF IsRoot
  <2>4. CASE root \notin S
    BY <1>3, <2>1, <2>2, <2>4
  <2>. QED
    BY <2>3, <2>4
<1>8. ASSUME NEW r \in Roots, NEW k \in Elements, LeadsTo(k, r)'
      PROVE  LeadsTo(k, r)
  <2>1. SUFFICES ASSUME NEW S \in SUBSET Elements, Closed(S), k \in S
                 PROVE  r \in S
    BY DEF LeadsTo
  <2>2. cur \in S => root \in S
    BY <2>1 DEF Tree, LeadsTo
  <2>3. Closed(S)'
    BY <1>3, <1>4, <2>1, <2>2 DEF Closed
  <2>. QED
    BY <1>3, <1>8, <2>1, <2>3 DEF LeadsTo
<1>9. ASSUME NEW r \in Roots, NEW k \in Elements, LeadsTo(k, r)
      PROVE  LeadsTo(k, r)'
  <2>1. SUFFICES ASSUME NEW S \in SUBSET Elements, Closed(S)', k \in S
                 PROVE  r \in S
    BY <1>3 DEF LeadsTo
  <2>2. CASE cur \notin S
    <3>1. Closed(S)
      BY <1>3, <1>4, <2>1, <2>2 DEF Closed
    <3>. QED
      BY <1>9, <2>1, <3>1 DEF LeadsTo
  <2>3. CASE cur \in S
    <3>1. root \in S
      BY <1>1, <1>3, <1>4, <2>1, <2>3 DEF Closed
    <3>2. Closed(Tree(root)) /\ Tree(root) \in SUBSET Elements
      BY TreeClosed
    <3>3. Closed(S \cup Tree(root))
      BY <1>3, <1>4, <2>1, <3>2 DEF Closed
    <3>4. r \in S \cup Tree(root)
      BY <1>9, <2>1, <3>2, <3>3 DEF LeadsTo
    <3>5. r \in Tree(root) => r = root
      BY RootLeads DEF Tree
    <3>. QED
      BY <3>1, <3>4, <3>5
  <2>. QED
    BY <2>2, <2>3
<1>10. \A r \in Roots : Tree(r)' = Tree(r)
  BY <1>3, <1>8, <1>9 DEF Tree
<1>11. SizesExact'
  <2>1. \A r \in Roots : r # cur
    BY <1>1 DEF Roots
  <2>2. \A r \in Roots : data'[r] = -Cardinality(Tree(r)')
    BY <1>3, <1>10, <2>1 DEF SizesExact, Roots
  <2>. QED
    BY <1>5, <2>2 DEF SizesExact
<1>. QED
  BY <1>3, <1>5, <1>6, <1>7, <1>8, <1>9, <1>11

(* Hanging a root c below another root p adds the tree of c to that of p.  *)
LEMMA HangForest ==
  ASSUME Vector, NoCycle, SizesExact,
         NEW c \in Roots, NEW p \in Roots, c # p,
         data' = Hang(c, p), num_sets' = num_sets - 1
  PROVE  /\ Vector' /\ NoCycle' /\ SizesExact'
         /\ Elements' = Elements /\ Roots' = Roots \ {c}
         /\ Tree(p)' = Tree(p) \cup Tree(c)
         /\ \A r \in Roots \ {c, p} : Tree(r)' = Tree(r)
<1>1. PICK n \in 0 .. MaxLen : data \in [0 .. n - 1 -> Int]
  BY DEF Vector
<1>2. /\ c \in Elements /\ p \in Elements /\ IsRoot(c) /\ IsRoot(p)
      /\ data[c] \in Int /\ data[p] \in Int
  BY <1>1 DEF Roots, Elements
<1>3. /\ Elements = 0 .. n - 1 /\ Elements' = Elements
      /\ data' \in [0 .. n - 1 -> Int]
      /\ data'[c] = p /\ data'[p] = data[p] + data[c]
      /\ \A k \in Elements \ {c, p} : data'[k] = data[k]
  BY <1>1, <1>2 DEF Elements, Hang
<1>4. /\ ~IsRoot(c)' /\ IsRoot(p)'
      /\ \A k \in Elements \ {c, p} : IsRoot(k)' <=> IsRoot(k)
  BY <1>2, <1>3 DEF IsRoot
<1>5. Roots' = Roots \ {c}
  BY <1>2, <1>3, <1>4 DEF Roots
<1>6. Vector'
  BY <1>1, <1>2, <1>3, <1>4 DEF Vector
<1>7. NoCycle'
  <2>1. SUFFICES ASSUME NEW S \in SUBSET Elements, S # {}
                 PROVE  \E k \in S : data'[k] \notin S
    BY <1>3 DEF NoCycle
  <2>2. CASE p \in S
    BY <1>3, <1>4, <2>1, <2>2 DEF IsRoot
  <2>3. CASE p \notin S
    <3>1. PICK k \in S : data[k] \notin S
      BY <2>1 DEF NoCycle
    <3>. QED
      BY <1>3, <2>1, <2>3, <3>1
  <2>. QED
    BY <2>2, <2>3
<1>8. \A S \in SUBSET Elements :
        Closed(S)' <=> Closed(S) /\ (c \in S => p \in S)
  BY <1>2, <1>3, <1>4 DEF Closed
<1>9. ASSUME NEW r \in Roots \ {c, p} PROVE Tree(r)' = Tree(r)
  <2>1. Tree(r) \subseteq Tree(r)'
    BY <1>3, <1>8 DEF Tree, LeadsTo
  <2>2. ASSUME NEW k \in Tree(r)', k \notin Tree(r) PROVE FALSE
    <3>0. PICK S \in SUBSET Elements : S = Elements \ Tree(r)
      OBVIOUS
    <3>1. Closed(S)
      BY <3>0, RestClosed
    <3>2. p \in S /\ r \notin S /\ k \in S
      BY <1>2, <1>3, <2>2, <3>0, RootLeads, TreeClosed DEF Tree
    <3>3. Closed(S)'
      BY <1>8, <3>1, <3>2
    <3>. QED
      BY <1>3, <2>2, <3>2, <3>3 DEF Tree, LeadsTo
  <2>. QED
    BY <2>1, <2>2
<1>10. Tree(p)' = Tree(p) \cup Tree(c)
  <2>1. Tree(p) \subseteq Tree(p)'
    BY <1>3, <1>8 DEF Tree, LeadsTo
  <2>2. Tree(c) \subseteq Tree(p)'
    BY <1>3, <1>8 DEF Tree, LeadsTo
  <2>3. ASSUME NEW k \in Tree(p)', k \notin Tree(p) \cup Tree(c) PROVE FALSE
    <3>0. PICK S \in SUBSET Elements : S = (Elements \ Tree(p)) \cap (Elements \ Tree(c))
      OBVIOUS
    <3>1. Closed(Elements \ Tree(p)) /\ Closed(Elements \ Tree(c))
      BY RestClosed
    <3>2. Closed(S)
      BY <3>0, <3>1 DEF Closed
    <3>3. c \notin S /\ p \notin S /\ k \in S
      BY <1>2, <1>3, <2>3, <3>0, TreeClosed DEF Tree
    <3>4. Closed(S)'
      BY <1>8, <3>2, <3>3
    <3>. QED
      BY <1>3, <2>3, <3>3, <3>4 DEF Tree, LeadsTo
  <2>. QED
    BY <2>1, <2>2, <2>3
<1>11. Cardinality(Tree(p)') = Cardinality(Tree(p)) + Cardinality(Tree(c))
  <2>1. IsFiniteSet(Tree(p)) /\ IsFiniteSet(Tree(c))
    BY Finite, FS_Subset DEF Tree
  <2>2. Tree(p) \cap Tree(c) = {}
    BY TreesApart
  <2>3. Cardinality(Tree(p) \cup Tree(c))
          = Cardinality(Tree(p)) + Cardinality(Tree(c)) - Cardinality({})
    BY <2>1, <2>2, FS_Union
  <2>4. Cardinality(Tree(p)) \in Nat /\ Cardinality(Tree(c)) \in Nat
    BY <2>1, FS_CardinalityType
  <2>. QED
    BY <1>10, <2>3, <2>4, FS_EmptySet
<1>12. SizesExact'
  <2>1. data'[p] = -Cardinality(Tree(p)')
    <3>1. IsFiniteSet(Tree(p)) /\ IsFiniteSet(Tree(c))
      BY Finite, FS_Subset DEF Tree
    <3>2. Cardinality(Tree(p)) \in Nat /\ Cardinality(Tree(c)) \in Nat
      BY <3>1, FS_CardinalityType
    <3>. QED
      BY <1>3, <1>11, <3>2 DEF SizesExact
  <2>2. \A r \in Roots \ {c, p} : data'[r] = -Cardinality(Tree(r)')
    BY <1>3, <1>9 DEF SizesExact, Roots
  <2>3. num_sets' = Cardinality(Roots \ {c})
    <3>1. IsFiniteSet(Roots)
      BY Finite, FS_Subset DEF Roots
    <3>. QED
      BY <3>1, FS_RemoveElement DEF SizesExact
  <2>. QED
    BY <1>5, <2>1, <2>2, <2>3 DEF SizesExact
<1>. QED
  BY <1>3, <1>5, <1>6, <1>7, <1>9, <1>10, <1>12

(* A new element is a tree of its own and joins no other.                  *)
LEMMA AddForest ==
  ASSUME Vector, NoCycle, SizesExact, Add
  PROVE  /\ Vector' /\ NoCycle' /\ SizesExact'
         /\ \E new : /\ new = Cardinality(Elements) /\ new \notin Elements
                    /\ Elements' = Elements \cup {new}
                    /\ Roots' = Roots \cup {new}
                    /\ Tree(new)' = {new}
                    /\ \A r \in Roots : Tree(r)' = Tree(r)
<1>0. PICK new : new = Cardinality(Elements)
  OBVIOUS
<1>1. /\ new \in 0 .. MaxLen - 1 /\ Elements = 0 .. new - 1
      /\ IsFiniteSet(Elements)
  BY <1>0, Finite, MaxLenAssumption DEF Add
<1>2. data \in [Elements -> Int]
  BY DEF Vector, Elements
<1>3. /\ data' = [k \in 0 .. new |-> IF k = new THEN -1 ELSE data[k]]
      /\ num_sets' = num_sets + 1
  BY <1>0 DEF Add
<1>4. /\ Elements' = Elements \cup {new} /\ new \notin Elements
      /\ data'[new] = -1
      /\ \A k \in Elements : data'[k] = data[k]
  BY <1>1, <1>3 DEF Elements
<1>5. IsRoot(new)' /\ \A k \in Elements : IsRoot(k)' <=> IsRoot(k)
  BY <1>4 DEF IsRoot
<1>6. Roots' = Roots \cup {new} /\ new \notin Roots
  BY <1>4, <1>5 DEF Roots
<1>7. Vector'
  <2>1. data' \in [0 .. (new + 1) - 1 -> Int] /\ new + 1 \in 0 .. MaxLen
    BY <1>1, <1>2, <1>3, MaxLenAssumption
  <2>. QED
    BY <1>4, <1>5, <2>1 DEF Vector
<1>8. NoCycle'
  <2>1. SUFFICES ASSUME NEW S \in SUBSET Elements', S # {}
                 PROVE  \E k \in S : data'[k] \notin S
    BY DEF NoCycle
  <2>2. CASE new \in S
    <3>1. -1 \notin Elements'
      BY <1>1, <1>4
    <3>. QED
      BY <1>4, <2>1, <2>2, <3>1
  <2>3. CASE new \notin S
    BY <1>4, <2>1, <2>3 DEF NoCycle
  <2>. QED
    BY <2>2, <2>3
<1>9. \A S \in SUBSET Elements : Closed(S)' <=> Closed(S)
  BY <1>4, <1>5 DEF Closed
<1>10. ASSUME NEW r \in Roots PROVE Tree(r)' = Tree(r)
  <2>1. ASSUME NEW k \in Tree(r) PROVE k \in Tree(r)'
    <3>1. SUFFICES ASSUME NEW S \in SUBSET Elements', Closed(S)', k \in S
                   PROVE  r \in S
      BY <1>4, <2>1 DEF Tree, LeadsTo
    <3>2. Closed(S \cap Elements)
      BY <1>4, <1>5, <3>1 DEF Closed, Vector
    <3>. QED
      BY <2>1, <3>1, <3>2 DEF Tree, LeadsTo
  <2>2. ASSUME NEW k \in Tree(r)' PROVE k \in Tree(r)
    <3>1. ASSUME NEW S \in SUBSET Elements, Closed(S), k \in S PROVE r \in S
      BY <1>4, <1>9, <2>2, <3>1 DEF Tree, LeadsTo
    <3>2. k \in Elements
      <4>1. Closed({new})'
        BY <1>5 DEF Closed
      <4>2. k # new
        BY <1>4, <1>6, <2>2, <4>1 DEF Tree, LeadsTo
      <4>. QED
        BY <1>4, <2>2, <4>2 DEF Tree
    <3>. QED
      BY <3>1, <3>2 DEF Tree, LeadsTo
  <2>. QED
    BY <2>1, <2>2
<1>11. Tree(new)' = {new}
  <2>1. new \in Tree(new)'
    BY <1>4 DEF Tree, LeadsTo
  <2>0. PICK E : E = Elements
    OBVIOUS
  <2>2. Closed(E)'
    BY <1>4, <1>5, <2>0 DEF Closed, Vector
  <2>3. ASSUME NEW k \in Tree(new)', k # new PROVE FALSE
    BY <1>4, <2>0, <2>2, <2>3 DEF Tree, LeadsTo
  <2>. QED
    BY <2>1, <2>3
<1>12. SizesExact'
  <2>1. data'[new] = -Cardinality(Tree(new)')
    <3>1. Cardinality({new}) = 1
      BY FS_Singleton
    <3>. QED
      BY <1>4, <1>11, <3>1
  <2>2. \A r \in Roots : data'[r] = -Cardinality(Tree(r)')
    BY <1>4, <1>10 DEF SizesExact, Roots
  <2>3. num_sets' = Cardinality(Roots \cup {new})
    <3>1. IsFiniteSet(Roots)
      BY Finite, FS_Subset DEF Roots
    <3>. QED
      BY <1>3, <1>6, <3>1, FS_AddElement DEF SizesExact
  <2>. QED
    BY <1>6, <2>1, <2>2, <2>3 DEF SizesExact
<1>. QED
  BY <1>0, <1>4, <1>6, <1>7, <1>8, <1>10, <1>11, <1>12

------------------------------------------------------------------------------
(* The invariant is inductive.                                             *)

LEMMA NextIInv == IInv /\ [Next]_vars => IInv'
<1>. SUFFICES ASSUME IInv, [Next]_vars PROVE IInv'
  OBVIOUS
<1>. USE DEF IInv
(* Where find is, as long as it runs.                                      *)
<1>1. ASSUME pc # "idle"
      PROVE  /\ {root, cur} \subseteq Elements
             /\ call.i \in Elements
             /\ root_i # -1 => call.j \in Elements /\ root_i \in Roots
             /\ call.name = "union" => call.j \in Elements
             /\ -1 \notin Elements
  <2>1. -1 \notin Elements
    BY Finite
  <2>. QED
    BY <1>1, <2>1 DEF Locals, Calls, Argument, FindsOwnRoot, Roots
<1>2. pc = "flatten" => root \in Roots /\ cur \in Tree(root)
  BY <1>1 DEF FindsOwnRoot, Roots, Tree
<1>3. CASE Add
  <2>1. Vector' /\ NoCycle' /\ SizesExact'
    BY <1>3, AddForest
  <2>2. Locals' /\ FindsOwnRoot'
    BY <1>3 DEF Add, Locals, FindsOwnRoot
  <2>. QED
    BY <2>1, <2>2
<1>4. CASE UNCHANGED <<data, num_sets>> /\ (Call \/ Climb \/ UnionSecondFind)
  <2>1. /\ Vector' /\ NoCycle' /\ SizesExact'
        /\ Elements' = Elements /\ Roots' = Roots
        /\ \A k : IsRoot(k)' <=> IsRoot(k)
        /\ \A k, r : LeadsTo(k, r)' <=> LeadsTo(k, r)
    BY <1>4, SameForest
  <2>2. \A k : LeadsTo(k, k)
    BY DEF LeadsTo
  <2>3. CASE Call
    <3>1. PICK k, l \in Elements :
            /\ call' \in {[name |-> "find", i |-> k], [name |-> "size_of", i |-> k],
                          [name |-> "union", i |-> k, j |-> l]}
            /\ StartFind(k)
      BY <2>3 DEF Call
    <3>2. call' \in Calls' /\ call'.i = k /\ pc' = "climb" /\ root_i' = -1
          /\ root' = k /\ cur' = k
      BY <2>1, <2>3, <3>1 DEF Call, StartFind, Calls, Locals
    <3>3. Locals'
      BY <2>1, <3>1, <3>2 DEF Locals, Argument
    <3>4. FindsOwnRoot'
      BY <2>1, <2>2, <3>2 DEF FindsOwnRoot
    <3>. QED
      BY <2>1, <3>3, <3>4
  <2>4. CASE Climb
    <3>1. CASE IsRoot(root)
      <4>1. pc' = "flatten" /\ UNCHANGED <<root, call, cur, root_i>>
        BY <2>4, <3>1 DEF Climb
      <4>2. Locals'
        BY <2>1, <2>4, <4>1 DEF Climb, Locals, Calls, Argument
      <4>3. LeadsTo(cur, root)
        BY <2>4 DEF Climb, FindsOwnRoot, Locals, Argument
      <4>4. FindsOwnRoot'
        BY <2>1, <2>4, <3>1, <4>1, <4>3 DEF Climb, FindsOwnRoot
      <4>. QED
        BY <2>1, <4>2, <4>4
    <3>2. CASE ~IsRoot(root)
      <4>1. root' = data[root] /\ UNCHANGED <<pc, call, cur, root_i>> /\ pc = "climb"
        BY <2>4, <3>2 DEF Climb
      <4>2. root' \in Elements
        BY <1>1, <3>2, <4>1 DEF Vector
      <4>3. Locals'
        BY <2>1, <4>1, <4>2 DEF Locals, Calls, Argument
      <4>4. ASSUME NEW k, LeadsTo(k, root) PROVE LeadsTo(k, data[root])
        BY <1>1, <3>2, <4>4 DEF LeadsTo, Closed
      <4>5. FindsOwnRoot'
        BY <2>1, <4>1, <4>4 DEF FindsOwnRoot
      <4>. QED
        BY <2>1, <4>3, <4>5
    <3>. QED
      BY <3>1, <3>2
  <2>5. CASE UnionSecondFind
    <3>1. /\ pc = "flatten" /\ pc' = "climb" /\ call' = call
          /\ call.name = "union" /\ root_i = -1
          /\ root_i' = root /\ root' = call.j /\ cur' = call.j
      BY <2>5 DEF UnionSecondFind, Found, StartFind
    <3>2. Locals'
      BY <1>1, <2>1, <3>1 DEF Locals, Calls, Argument
    <3>3. FindsOwnRoot'
      BY <1>1, <2>1, <2>2, <3>1 DEF FindsOwnRoot
    <3>. QED
      BY <2>1, <3>2, <3>3
  <2>. QED
    BY <1>4, <2>3, <2>4, <2>5
<1>5. CASE Find \/ SizeOf \/ UnionSame
  <2>1. Vector' /\ NoCycle' /\ SizesExact'
    BY <1>5, SameForest DEF Find, SizeOf, UnionSame
  <2>2. pc' = "idle" /\ root_i' = -1
    BY <1>5 DEF Find, SizeOf, UnionSame, Return
  <2>. QED
    BY <2>1, <2>2 DEF Locals, FindsOwnRoot
<1>6. CASE Flatten
  <2>1. pc = "flatten"
    BY <1>6 DEF Flatten
  <2>2. /\ Vector' /\ NoCycle' /\ SizesExact'
        /\ Elements' = Elements /\ Roots' = Roots
        /\ \A r \in Roots, k \in Elements : LeadsTo(k, r)' <=> LeadsTo(k, r)
    BY <1>2, <1>6, <2>1, FlattenForest
  <2>3. cur' = data[cur] /\ ~IsRoot(cur) /\ UNCHANGED <<call, pc, root, root_i>>
    BY <1>6 DEF Flatten
  <2>4. cur' \in Tree(root)
    BY <1>2, <2>1, <2>3, TreeClosed DEF Closed
  <2>5. Locals'
    BY <2>1, <2>2, <2>3, <2>4 DEF Locals, Calls, Tree
  <2>6. FindsOwnRoot'
    <3>1. root \in Roots' /\ (root_i # -1 => root_i \in Roots')
      BY <1>1, <1>2, <2>1, <2>2
    <3>2. ASSUME NEW k \in Elements, NEW r \in Roots, LeadsTo(k, r)
          PROVE  LeadsTo(k, r)'
      BY <2>2, <3>2
    <3>3. LeadsTo(cur, root)'
      <4>1. PICK k \in Elements, r \in Roots : k = cur' /\ r = root /\ LeadsTo(k, r)
        BY <1>2, <2>1, <2>4 DEF Tree
      <4>2. LeadsTo(k, r)'
        BY <3>2, <4>1
      <4>. QED
        BY <2>3, <4>1, <4>2 DEF LeadsTo
    <3>4. LeadsTo(Argument, root)'
      <4>1. PICK k \in Elements, r \in Roots :
              k = Argument /\ r = root /\ LeadsTo(k, r)
        BY <1>1, <1>2, <2>1 DEF Argument, FindsOwnRoot
      <4>2. LeadsTo(k, r)'
        BY <3>2, <4>1
      <4>. QED
        BY <2>3, <4>1, <4>2 DEF LeadsTo, Argument
    <3>5. root_i # -1 => LeadsTo(call.i, root_i)'
      <4>1. SUFFICES ASSUME root_i # -1 PROVE LeadsTo(call.i, root_i)'
        OBVIOUS
      <4>2. PICK k \in Elements, r \in Roots :
              k = call.i /\ r = root_i /\ LeadsTo(k, r)
        BY <1>1, <2>1, <4>1 DEF FindsOwnRoot
      <4>3. LeadsTo(k, r)'
        BY <3>2, <4>2
      <4>. QED
        BY <2>3, <4>2, <4>3 DEF LeadsTo
    <3>. QED
      BY <2>1, <2>3, <3>1, <3>3, <3>4, <3>5 DEF FindsOwnRoot, Roots, Argument
  <2>. QED
    BY <2>2, <2>5, <2>6
<1>7. CASE UnionLink
  <2>1. PICK c \in Roots, p \in Roots :
          c # p /\ data' = Hang(c, p) /\ num_sets' = num_sets - 1
    <3>1. root \in Roots /\ root_i \in Roots /\ root # root_i
      BY <1>1, <1>2, <1>7 DEF UnionLink, Found
    <3>. QED
      BY <1>7, <3>1 DEF UnionLink, Linked
  <2>2. Vector' /\ NoCycle' /\ SizesExact'
    BY <2>1, HangForest
  <2>3. pc' = "idle" /\ root_i' = -1
    BY <1>7 DEF UnionLink, Return
  <2>. QED
    BY <2>2, <2>3 DEF Locals, FindsOwnRoot
<1>8. CASE UNCHANGED vars
  <2>1. /\ Vector' /\ NoCycle' /\ SizesExact'
        /\ Elements' = Elements
        /\ \A k : IsRoot(k)' <=> IsRoot(k)
        /\ \A k, r : LeadsTo(k, r)' <=> LeadsTo(k, r)
    BY <1>8, SameForest DEF vars
  <2>. QED
    BY <1>8, <2>1 DEF vars, Locals, Calls, Argument, FindsOwnRoot
<1>9. (Call \/ Climb \/ UnionSecondFind) => UNCHANGED <<data, num_sets>>
  BY DEF Call, Climb, UnionSecondFind
<1>. QED
  BY <1>3, <1>4, <1>5, <1>6, <1>7, <1>8, <1>9 DEF Next, Step

LEMMA IInvTypeOK == IInv => TypeOK
<1>. SUFFICES ASSUME IInv PROVE TypeOK
  OBVIOUS
<1>. USE DEF IInv
<1>1. /\ Elements = 0 .. Cardinality(Elements) - 1
      /\ Cardinality(Elements) \in 0 .. MaxLen /\ IsFiniteSet(Elements)
  BY Finite
<1>2. ASSUME NEW k \in Elements
      PROVE  data[k] \in -Cardinality(Elements) .. Cardinality(Elements) - 1
  <2>1. CASE IsRoot(k)
    <3>1. IsFiniteSet(Tree(k)) /\ Cardinality(Tree(k)) <= Cardinality(Elements)
      BY <1>1, FS_Subset DEF Tree
    <3>2. Cardinality(Tree(k)) \in Nat
      BY <3>1, FS_CardinalityType
    <3>3. data[k] = -Cardinality(Tree(k)) /\ data[k] < 0
      BY <2>1 DEF SizesExact, Roots, IsRoot
    <3>. QED
      BY <1>1, <3>1, <3>2, <3>3
  <2>2. CASE ~IsRoot(k)
    <3>1. data[k] \in Elements
      BY <2>2 DEF Vector
    <3>. QED
      BY <1>1, <3>1
  <2>. QED
    BY <2>1, <2>2
<1>3. num_sets \in 0 .. Cardinality(Elements)
  <2>1. IsFiniteSet(Roots) /\ Cardinality(Roots) <= Cardinality(Elements)
    BY <1>1, FS_Subset DEF Roots
  <2>2. Cardinality(Roots) \in Nat
    BY <2>1, FS_CardinalityType
  <2>. QED
    BY <1>1, <2>1, <2>2 DEF SizesExact
<1>4. Cardinality(Elements) <= MaxLen
  BY <1>1, MaxLenAssumption
<1>. QED
  BY <1>1, <1>2, <1>3, <1>4 DEF TypeOK, Locals

LEMMA Invariance == Spec => []IInv
BY InitIInv, NextIInv, PTL DEF Spec

(* No operation of union_find.rs leaves the bounds of its vector: parents, *)
(* roots and the locals of find are always elements, and num_sets never    *)
(* goes below 0 nor above len.                                             *)
THEOREM TypeCorrect == Spec => []TypeOK
BY Invariance, IInvTypeOK, PTL

(* Whatever unions and path compressions happen, the parents never form a  *)
(* cycle: the loops of find have an end.                                   *)
THEOREM Acyclic == Spec => []NoCycle
<1>1. IInv => NoCycle
  BY DEF IInv
<1>. QED
  BY <1>1, Invariance, PTL

(* find returns the root its argument leads to, and union links the roots  *)
(* of its two arguments, although each find changes the vector.            *)
THEOREM FindCorrect == Spec => []FindsOwnRoot
<1>1. IInv => FindsOwnRoot
  BY DEF IInv
<1>. QED
  BY <1>1, Invariance, PTL

(* size_of returns the exact size of a set and num_sets the exact number   *)
(* of roots, after any sequence of adds, unions and finds.                 *)
THEOREM SizeCorrect == Spec => []SizesExact
<1>1. IInv => SizesExact
  BY DEF IInv
<1>. QED
  BY <1>1, Invariance, PTL

LEMMA SomeRoot ==
  ASSUME Vector, NoCycle, NEW k \in Elements
  PROVE  \E r \in Roots : LeadsTo(k, r)
<1>. DEFINE Lost == {l \in Elements : \A r \in Roots : ~LeadsTo(l, r)}
<1>1. SUFFICES ASSUME k \in Lost PROVE FALSE
  OBVIOUS
<1>2. PICK l \in Lost : data[l] \notin Lost
  BY <1>1 DEF NoCycle
<1>3. CASE IsRoot(l)
  BY <1>2, <1>3 DEF Roots, LeadsTo
<1>4. CASE ~IsRoot(l)
  <2>1. data[l] \in Elements
    BY <1>2, <1>4 DEF Vector
  <2>2. PICK r \in Roots : LeadsTo(data[l], r)
    BY <1>2, <2>1
  <2>3. LeadsTo(l, r)
    BY <1>4, <2>2 DEF LeadsTo, Closed
  <2>. QED
    BY <1>2, <2>2, <2>3
<1>. QED
  BY <1>3, <1>4

(* The root that find returns is the only one its argument leads to: the   *)
(* trees of the roots partition the elements, so that two elements have    *)
(* either one representative or disjoint sets.                             *)
THEOREM OneRoot ==
  Spec => [](\A k \in Elements : \E r \in Roots :
               LeadsTo(k, r) /\ \A s \in Roots : LeadsTo(k, s) => s = r)
<1>1. IInv => \A k \in Elements : \E r \in Roots :
                LeadsTo(k, r) /\ \A s \in Roots : LeadsTo(k, s) => s = r
  BY TreesApart, SomeRoot DEF IInv, Tree
<1>. QED
  BY <1>1, Invariance, PTL

------------------------------------------------------------------------------
(* The forest is a partition.                                              *)

(* Climbing gives the root an element leads to.                            *)
RootsFound ==
  /\ RootOf \in [Elements -> Roots]
  /\ \A k \in Elements, r \in Roots : LeadsTo(k, r) <=> RootOf[k] = r

(* The equation of RootOf has a solution, as every element leads to a root *)
(* that is its parent's too; and a solution is right wherever it is right  *)
(* for the parent, so that an element where it were wrong would be in a    *)
(* set that no link leaves.                                                *)
LEMMA ClimbFindsRoot == IInv => RootsFound
<1>. SUFFICES ASSUME IInv PROVE RootsFound
  OBVIOUS
<1>0. Vector /\ NoCycle
  BY DEF IInv
<1>. DEFINE f == [k \in Elements |-> CHOOSE r \in Roots : LeadsTo(k, r)]
<1>1. ASSUME NEW k \in Elements
      PROVE  f[k] \in Roots /\ \A r \in Roots : LeadsTo(k, r) <=> f[k] = r
  <2>1. f[k] \in Roots /\ LeadsTo(k, f[k])
    BY <1>0, SomeRoot
  <2>. HIDE DEF f
  <2>. QED
    BY <1>0, <2>1, TreesApart DEF Tree
<1>2. ASSUME NEW k \in Elements, IsRoot(k) PROVE f[k] = k
  <2>1. k \in Roots /\ LeadsTo(k, k)
    BY <1>2 DEF Roots, LeadsTo
  <2>. HIDE DEF f
  <2>. QED
    BY <1>1, <2>1
<1>3. ASSUME NEW k \in Elements, ~IsRoot(k)
      PROVE  /\ data[k] \in Elements
             /\ \A r \in Roots : LeadsTo(k, r) <=> LeadsTo(data[k], r)
  <2>1. data[k] \in Elements
    BY <1>0, <1>3 DEF Vector
  <2>2. \A r \in Roots : LeadsTo(data[k], r) => LeadsTo(k, r)
    BY <1>3 DEF LeadsTo, Closed
  <2>3. ASSUME NEW r \in Roots, LeadsTo(k, r) PROVE LeadsTo(data[k], r)
    BY <1>0, <1>3, <2>3, TreeClosed DEF Closed, Tree
  <2>. QED
    BY <2>1, <2>2, <2>3
<1>4. ASSUME NEW k \in Elements, ~IsRoot(k) PROVE f[k] = f[data[k]]
  <2>1. data[k] \in Elements /\ f[k] \in Roots /\ LeadsTo(k, f[k])
    BY <1>1, <1>3, <1>4
  <2>. HIDE DEF f
  <2>2. LeadsTo(data[k], f[k])
    BY <1>3, <1>4, <2>1
  <2>. QED
    BY <1>1, <2>1, <2>2
<1>5. f = [k \in Elements |-> IF IsRoot(k) THEN k ELSE f[data[k]]]
  BY <1>2, <1>4
<1>6. RootOf = [k \in Elements |-> IF IsRoot(k) THEN k ELSE RootOf[data[k]]]
  <2>. HIDE DEF f
  <2>. QED
    BY <1>5 DEF RootOf
<1>. HIDE DEF f
<1>. DEFINE Lost == {k \in Elements : RootOf[k] # f[k]}
<1>7. ASSUME Lost # {} PROVE FALSE
  <2>1. PICK k \in Lost : data[k] \notin Lost
    BY <1>0, <1>7 DEF NoCycle
  <2>2. ~IsRoot(k)
    BY <1>2, <1>6, <2>1
  <2>3. RootOf[k] = RootOf[data[k]] /\ data[k] \in Elements
    BY <1>3, <1>6, <2>1, <2>2
  <2>. QED
    BY <1>4, <2>1, <2>2, <2>3
<1>8. \A k \in Elements : RootOf[k] = f[k]
  BY <1>7
<1>. QED
  BY <1>1, <1>6, <1>8 DEF RootsFound

(* The blocks of a function are the sets of elements it takes to one value. *)
Sent(E, f, c, p) == [k \in E |-> IF f[k] = c THEN p ELSE f[k]]
Block(E, f, r) == {k \in E : f[k] = r}
Blocks(E, R, f) == {{k \in E : f[k] = r} : r \in R}

LEMMA BlocksCover ==
  ASSUME NEW E, NEW R, NEW f \in [E -> R]
  PROVE  UNION Blocks(E, R, f) = E
BY DEF Blocks

LEMMA BlockAt ==
  ASSUME NEW E, NEW R, NEW f \in [E -> R], NEW k \in E
  PROVE  (CHOOSE B \in Blocks(E, R, f) : k \in B) = {l \in E : f[l] = f[k]}
<1>1. {l \in E : f[l] = f[k]} \in Blocks(E, R, f)
  BY DEF Blocks
<1>2. ASSUME NEW B \in Blocks(E, R, f), k \in B
      PROVE  B = {l \in E : f[l] = f[k]}
  BY <1>2 DEF Blocks
<1>. QED
  BY <1>1, <1>2

(* A new element is a block of its own.                                    *)
LEMMA BlocksAdd ==
  ASSUME NEW E, NEW R, NEW f \in [E -> R], NEW new, R \subseteq E, new \notin E,
         NEW g, g = [k \in E \cup {new} |-> IF k = new THEN new ELSE f[k]]
  PROVE  Blocks(E \cup {new}, R \cup {new}, g) = Blocks(E, R, f) \cup {{new}}
<1>1. ASSUME NEW r \in R
      PROVE  {k \in E \cup {new} : g[k] = r} = {k \in E : f[k] = r}
  OBVIOUS
<1>2. {k \in E \cup {new} : g[k] = new} = {new}
  OBVIOUS
<1>3. ASSUME NEW S \in Blocks(E \cup {new}, R \cup {new}, g)
      PROVE  S \in Blocks(E, R, f) \cup {{new}}
  <2>1. PICK r \in R \cup {new} : S = {k \in E \cup {new} : g[k] = r}
    BY <1>3 DEF Blocks
  <2>2. CASE r = new
    BY <1>2, <2>1, <2>2
  <2>3. CASE r \in R
    BY <1>1, <2>1, <2>3 DEF Blocks
  <2>. QED
    BY <2>1, <2>2, <2>3
<1>4. \A S \in Blocks(E, R, f) : S \in Blocks(E \cup {new}, R \cup {new}, g)
  BY <1>1 DEF Blocks
<1>5. {new} \in Blocks(E \cup {new}, R \cup {new}, g)
  BY <1>2 DEF Blocks
<1>. QED
  BY <1>3, <1>4, <1>5

(* Sending the block of c to p makes one block of the two.                 *)
LEMMA BlocksMerge ==
  ASSUME NEW E, NEW R, NEW f \in [E -> R], R \subseteq E, \A r \in R : f[r] = r,
         NEW c \in R, NEW p \in R, c # p
  PROVE  Blocks(E, R \ {c}, Sent(E, f, c, p))
           = (Blocks(E, R, f) \ {Block(E, f, c), Block(E, f, p)})
               \cup {Block(E, f, c) \cup Block(E, f, p)}
<1>1. PICK g : g = Sent(E, f, c, p)
  OBVIOUS
<1>2. g = [k \in E |-> IF f[k] = c THEN p ELSE f[k]]
  BY <1>1 DEF Sent
<1>3. PICK B, C : /\ B = Block(E, f, c) /\ B = {k \in E : f[k] = c}
                  /\ C = Block(E, f, p) /\ C = {k \in E : f[k] = p}
  BY DEF Block
<1>4. \A r \in R \ {c, p} : {k \in E : g[k] = r} = {k \in E : f[k] = r}
  BY <1>2
<1>5. {k \in E : g[k] = p} = B \cup C
  BY <1>2, <1>3
<1>6. \A r \in R \ {c, p} : {k \in E : f[k] = r} \notin {B, C}
  <2>1. SUFFICES ASSUME NEW r \in R \ {c, p}
                 PROVE  {k \in E : f[k] = r} \notin {B, C}
    OBVIOUS
  <2>2. r \in {k \in E : f[k] = r} /\ r \notin B /\ r \notin C
    BY <1>3
  <2>. QED
    BY <2>2
<1>7. ASSUME NEW S \in Blocks(E, R \ {c}, g)
      PROVE  S \in (Blocks(E, R, f) \ {B, C}) \cup {B \cup C}
  <2>1. PICK r \in R \ {c} : S = {k \in E : g[k] = r}
    BY <1>7 DEF Blocks
  <2>2. CASE r = p
    BY <1>5, <2>1, <2>2
  <2>3. CASE r # p
    BY <1>4, <1>6, <2>1, <2>3 DEF Blocks
  <2>. QED
    BY <2>2, <2>3
<1>8. ASSUME NEW S \in Blocks(E, R, f), S \notin {B, C}
      PROVE  S \in Blocks(E, R \ {c}, g)
  <2>1. PICK r \in R : S = {k \in E : f[k] = r}
    BY <1>8 DEF Blocks
  <2>2. r \notin {c, p}
    BY <1>3, <1>8, <2>1
  <2>. QED
    BY <1>4, <2>1, <2>2 DEF Blocks
<1>9. B \cup C \in Blocks(E, R \ {c}, g)
  BY <1>5 DEF Blocks
<1>10. Blocks(E, R \ {c}, g) = (Blocks(E, R, f) \ {B, C}) \cup {B \cup C}
  BY <1>7, <1>8, <1>9
<1>. QED
  BY <1>1, <1>3, <1>10

(* The parts of the mapping.                                               *)
LEMMA SetsCardinality ==
  ASSUME NEW S
  PROVE  Sets!Cardinality(S) = Cardinality(S)
BY DEF Cardinality, Sets!Cardinality

LEMMA SetsAre ==
  ASSUME RootsFound
  PROVE  /\ Sets!Elements = Elements
         /\ \A k \in Elements :
              Sets!BlockOf(k) = {l \in Elements : RootOf[l] = RootOf[k]}
         /\ \A r \in Roots : {l \in Elements : RootOf[l] = r} = Tree(r)
         /\ \A r \in Roots : RootOf[r] = r
         /\ Roots \subseteq Elements
<1>1. RootOf \in [Elements -> Roots]
  BY DEF RootsFound
<1>2. \A k \in Elements : Sets!BlockOf(k) = {l \in Elements : RootOf[l] = RootOf[k]}
  BY <1>1, BlockAt DEF Sets!BlockOf, Blocks
<1>3. Sets!Elements = Elements
  BY <1>1, BlocksCover DEF Sets!Elements, Blocks
<1>4. \A r \in Roots : RootOf[r] = r /\ r \in Elements
  BY DEF RootsFound, Roots, LeadsTo
<1>. QED
  BY <1>2, <1>3, <1>4 DEF RootsFound, Tree

LEMMA SetsInit == Init /\ IInv /\ RootsFound => Sets!Init
<1>. SUFFICES ASSUME NEW size \in 0 .. MaxLen,
                     data = [k \in 0 .. size - 1 |-> -1],
                     num_sets = size, call = [name |-> "none"],
                     pc = "idle", ret = 0, RootsFound
              PROVE  Sets!Init
  BY DEF Init
<1>1. Elements = 0 .. size - 1 /\ Roots = Elements
  BY DEF Elements, Roots, IsRoot
<1>2. RootOf = [k \in 0 .. size - 1 |-> k]
  BY <1>1, SetsAre DEF RootsFound
<1>3. {{k \in Elements : RootOf[k] = r} : r \in Roots} = {{k} : k \in 0 .. size - 1}
  <2>1. \A r \in Roots : {k \in Elements : RootOf[k] = r} = {r}
    BY <1>1, <1>2
  <2>. QED
    BY <1>1, <2>1
<1>. QED
  BY <1>2, <1>3 DEF Sets!Init

(* What a new element and a link do to the roots.                          *)
LEMMA AddRoots ==
  ASSUME Add, IInv, RootsFound, RootsFound'
  PROVE  \E new : /\ new = Cardinality(Elements) /\ new \notin Elements
                  /\ Elements' = Elements \cup {new}
                  /\ Roots' = Roots \cup {new}
                  /\ RootOf' = [k \in Elements \cup {new} |->
                                  IF k = new THEN new ELSE RootOf[k]]
<1>1. PICK new : /\ new = Cardinality(Elements) /\ new \notin Elements
                 /\ Elements' = Elements \cup {new}
                 /\ Roots' = Roots \cup {new}
                 /\ Tree(new)' = {new}
                 /\ \A r \in Roots : Tree(r)' = Tree(r)
  BY AddForest DEF IInv
<1>2. RootOf \in [Elements -> Roots] /\ RootOf' \in [Elements' -> Roots']
  BY DEF RootsFound
<1>3. RootOf'[new] = new
  <2>1. new \in Tree(new)' /\ new \in Roots' /\ new \in Elements'
    BY <1>1
  <2>. QED
    BY <2>1 DEF Tree, RootsFound
<1>4. ASSUME NEW k \in Elements PROVE RootOf'[k] = RootOf[k]
  <2>1. PICK r \in Roots : r = RootOf[k]
    BY <1>2
  <2>2. k \in Tree(r)
    BY <2>1 DEF RootsFound, Tree
  <2>3. k \in Tree(r)' /\ r \in Roots' /\ k \in Elements'
    BY <1>1, <2>2
  <2>4. RootOf'[k] = r
    BY <2>3 DEF RootsFound, Tree
  <2>. QED
    BY <2>1, <2>4
<1>5. RootOf' = [k \in Elements \cup {new} |-> IF k = new THEN new ELSE RootOf[k]]
  BY <1>1, <1>2, <1>3, <1>4
<1>. QED
  BY <1>1, <1>5

LEMMA SetsAdd == Add /\ IInv /\ RootsFound /\ RootsFound' => Sets!Add
<1>. SUFFICES ASSUME Add, IInv, RootsFound, RootsFound' PROVE Sets!Add
  OBVIOUS
<1>1. PICK new : /\ new = Cardinality(Elements) /\ new \notin Elements
                 /\ Elements' = Elements \cup {new}
                 /\ Roots' = Roots \cup {new}
                 /\ RootOf' = [k \in Elements \cup {new} |->
                                 IF k = new THEN new ELSE RootOf[k]]
  BY AddRoots
<1>2. /\ pc = "idle" /\ new < MaxLen /\ num_sets' = num_sets + 1
      /\ call' = [name |-> "add"] /\ ret' = new /\ UNCHANGED pc
  BY <1>1 DEF Add
<1>3. /\ RootOf \in [Elements -> Roots] /\ RootOf' \in [Elements' -> Roots']
      /\ Roots \subseteq Elements
  BY SetsAre DEF RootsFound
<1>4. Blocks(Elements', Roots', RootOf') = Blocks(Elements, Roots, RootOf) \cup {{new}}
  <2>1. \A g : g = [k \in Elements \cup {new} |-> IF k = new THEN new ELSE RootOf[k]]
          => Blocks(Elements \cup {new}, Roots \cup {new}, g)
               = Blocks(Elements, Roots, RootOf) \cup {{new}}
    <3>1. RootOf \in [Elements -> Roots] /\ Roots \subseteq Elements /\ new \notin Elements
      BY <1>1, <1>3
    <3>. QED
      BY <3>1, BlocksAdd
  <2>2. Blocks(Elements \cup {new}, Roots \cup {new}, RootOf')
          = Blocks(Elements, Roots, RootOf) \cup {{new}}
    BY <1>1, <2>1
  <2>. QED
    BY <1>1, <2>2
<1>5. Sets!Elements' = Elements \cup {new}
  BY <1>1, <1>3, BlocksCover DEF Sets!Elements, Blocks
<1>6. RootOf' = [k \in Sets!Elements' |-> IF k = new THEN new ELSE RootOf[k]]
  BY <1>1, <1>5
<1>7. Sets!Cardinality(Sets!Elements) = new
  BY <1>1, SetsAre, SetsCardinality
<1>. QED
  BY <1>2, <1>4, <1>6, <1>7 DEF Sets!Add, Blocks

(* A step that keeps the trees keeps the partition and representatives.    *)
LEMMA SetsSame ==
  ASSUME RootsFound, RootsFound', UNCHANGED num_sets,
         Elements' = Elements, Roots' = Roots,
         \A k \in Elements, r \in Roots : LeadsTo(k, r)' <=> LeadsTo(k, r)
  PROVE  /\ RootOf' = RootOf
         /\ UNCHANGED <<{{k \in Elements : RootOf[k] = r} : r \in Roots}, num_sets, RootOf>>
<1>1. RootOf \in [Elements -> Roots] /\ RootOf' \in [Elements -> Roots]
  BY DEF RootsFound
<1>2. ASSUME NEW k \in Elements PROVE RootOf'[k] = RootOf[k]
  <2>1. PICK r \in Roots : r = RootOf[k]
    BY <1>1
  <2>2. LeadsTo(k, r)
    BY <2>1 DEF RootsFound
  <2>3. LeadsTo(k, r)'
    BY <2>2
  <2>. QED
    BY <2>1, <2>3 DEF RootsFound
<1>3. RootOf' = RootOf
  BY <1>1, <1>2
<1>. QED
  BY <1>3

LEMMA SetsCall ==
  ASSUME IInv, Call, RootsFound, RootsFound'
  PROVE  Sets!Call
<1>1. /\ Elements' = Elements /\ Roots' = Roots
      /\ \A k, r : LeadsTo(k, r)' <=> LeadsTo(k, r)
  BY SameForest DEF IInv, Call
<1>2. UNCHANGED <<{{k \in Elements : RootOf[k] = r} : r \in Roots}, num_sets, RootOf>>
  BY <1>1, SetsSame DEF Call
<1>3. Sets!Elements = Elements
  BY SetsAre
<1>4. (pc # "idle")' = TRUE
  BY DEF Call, StartFind
<1>. QED
  BY <1>2, <1>3, <1>4 DEF Call, Sets!Call

(* Where find is when it returns, and what the locals say of the blocks.   *)
LEMMA AtReturn ==
  ASSUME IInv, Found, RootsFound
  PROVE  /\ root \in Roots /\ pc # "idle"
         /\ call.i \in Elements
         /\ root_i = -1 => RootOf[call.i] = root
         /\ root_i # -1 => /\ call.i \in Elements /\ call.j \in Elements
                           /\ root_i \in Roots
                           /\ RootOf[call.i] = root_i
                           /\ RootOf[call.j] = root
<1>1. pc # "idle" /\ root \in Elements /\ IsRoot(root) /\ call \in Calls
  BY DEF IInv, Found, Locals, FindsOwnRoot
<1>2. root \in Roots
  BY <1>1 DEF Roots
<1>3. call.i \in Elements /\ (root_i # -1 => call.j \in Elements /\ root_i \in Roots)
  BY <1>1 DEF IInv, Locals, Calls, FindsOwnRoot, Roots
<1>. QED
  BY <1>1, <1>2, <1>3 DEF RootsFound, IInv, FindsOwnRoot

LEMMA SetsReturn ==
  ASSUME IInv, Find \/ SizeOf \/ UnionSame, RootsFound, RootsFound'
  PROVE  Sets!Next
<1>1. Found /\ UNCHANGED <<data, num_sets>>
  BY DEF Find, SizeOf, UnionSame
<1>2. UNCHANGED <<{{k \in Elements : RootOf[k] = r} : r \in Roots}, num_sets, RootOf>>
  <2>1. /\ Elements' = Elements /\ Roots' = Roots
        /\ \A k, r : LeadsTo(k, r)' <=> LeadsTo(k, r)
    BY <1>1, SameForest DEF IInv
  <2>. QED
    BY <1>1, <2>1, SetsSame
<1>3. \A x : Return(x) => Sets!Return(x)
  BY <1>1, AtReturn DEF Return, Sets!Return
<1>4. CASE Find
  <2>1. root_i = -1
    BY <1>1, <1>4, AtReturn DEF IInv, Locals, Find
  <2>2. Return(RootOf[call.i])
    BY <1>1, <1>4, <2>1, AtReturn DEF Find
  <2>. QED
    BY <1>2, <1>3, <1>4, <2>2 DEF Find, Sets!Find, Sets!Next
<1>5. CASE SizeOf
  <2>1. root_i = -1
    BY <1>1, <1>5, AtReturn DEF IInv, Locals, SizeOf
  <2>2. Sets!BlockOf(call.i) = Tree(root) /\ root \in Roots
    BY <1>1, <2>1, AtReturn, SetsAre
  <2>3. data[root] = -Cardinality(Tree(root))
    BY <2>2 DEF IInv, SizesExact
  <2>4. Cardinality(Tree(root)) \in Nat
    BY Finite, FS_Subset, FS_CardinalityType DEF IInv, Tree
  <2>5. Magnitude(data[root]) = Cardinality(Tree(root))
    BY <2>3, <2>4 DEF Magnitude
  <2>6. Return(Sets!Cardinality(Sets!BlockOf(call.i)))
    BY <1>5, <2>2, <2>5, SetsCardinality DEF SizeOf
  <2>. QED
    BY <1>2, <1>3, <1>5, <2>6 DEF SizeOf, Sets!SizeOf, Sets!Next
<1>6. CASE UnionSame
  <2>1. root_i = root /\ root \in Roots
    BY <1>1, <1>6, AtReturn DEF UnionSame
  <2>2. root_i # -1
    BY <2>1, Finite DEF IInv, Roots
  <2>3. RootOf[call.i] = RootOf[call.j] /\ call.i \in Elements /\ call.j \in Elements
    BY <1>1, <2>1, <2>2, AtReturn
  <2>4. Sets!BlockOf(call.i) = Sets!BlockOf(call.j)
    BY <2>3, SetsAre
  <2>5. Sets!Return(FALSE)
    BY <1>3, <1>6 DEF UnionSame
  <2>. QED
    BY <1>2, <1>6, <2>4, <2>5 DEF UnionSame, Sets!Union, Sets!Next
<1>. QED
  BY <1>4, <1>5, <1>6

LEMMA LinkRoots ==
  ASSUME IInv, UnionLink, RootsFound, RootsFound'
  PROVE  \E c, p \in Roots :
           /\ c # p /\ {c, p} = {root, root_i}
           /\ data' = Hang(c, p) /\ data[p] <= data[c]
           /\ Elements' = Elements /\ Roots' = Roots \ {c}
           /\ RootOf' = [k \in Elements |-> IF RootOf[k] = c THEN p ELSE RootOf[k]]
<1>1. Found /\ root_i \notin {-1, root} /\ data' = Linked /\ num_sets' = num_sets - 1
  BY DEF UnionLink
<1>2. root \in Roots /\ root_i \in Roots /\ root # root_i
  BY <1>1, AtReturn
<1>3. PICK c \in Roots, p \in Roots :
        /\ c # p /\ {c, p} = {root, root_i}
        /\ data' = Hang(c, p) /\ data[p] <= data[c]
  <2>1. data[root] \in Int /\ data[root_i] \in Int
    BY <1>2 DEF IInv, Vector, Roots, Elements
  <2>. QED
    BY <1>1, <1>2, <2>1 DEF Linked
<1>4. /\ Elements' = Elements /\ Roots' = Roots \ {c}
      /\ Tree(p)' = Tree(p) \cup Tree(c)
      /\ \A r \in Roots \ {c, p} : Tree(r)' = Tree(r)
  BY <1>1, <1>3, HangForest DEF IInv
<1>5. /\ RootOf \in [Elements -> Roots] /\ RootOf' \in [Elements -> Roots']
      /\ Roots \subseteq Elements /\ \A r \in Roots : RootOf[r] = r
  BY <1>4, SetsAre DEF RootsFound
<1>6. ASSUME NEW k \in Elements
      PROVE  RootOf'[k] = IF RootOf[k] = c THEN p ELSE RootOf[k]
  <2>1. PICK r \in Roots : r = RootOf[k] /\ k \in Tree(r)
    BY <1>5 DEF RootsFound, Tree
  <2>2. PICK s \in Roots : s = (IF r = c THEN p ELSE r) /\ s # c
    BY <1>3, <2>1
  <2>3. k \in Tree(s)'
    BY <1>4, <2>1, <2>2
  <2>4. LeadsTo(k, s)' /\ s \in Roots' /\ k \in Elements'
    BY <1>4, <2>2, <2>3 DEF Tree
  <2>5. RootOf'[k] = s
    BY <2>4 DEF RootsFound
  <2>. QED
    BY <2>1, <2>2, <2>5
<1>7. RootOf' = [k \in Elements |-> IF RootOf[k] = c THEN p ELSE RootOf[k]]
  BY <1>5, <1>6
<1>. QED
  BY <1>3, <1>4, <1>7

LEMMA SetsLink ==
  ASSUME IInv, UnionLink, RootsFound, RootsFound'
  PROVE  Sets!Union
<1>1. Found /\ call.name = "union" /\ root_i \notin {-1, root} /\ data' = Linked
      /\ num_sets' = num_sets - 1 /\ Return(TRUE)
  BY DEF UnionLink
<1>2. /\ root \in Roots /\ root_i \in Roots /\ root # root_i
      /\ call.i \in Elements /\ call.j \in Elements
      /\ RootOf[call.i] = root_i /\ RootOf[call.j] = root
  BY <1>1, AtReturn
<1>3. PICK c \in Roots, p \in Roots :
        /\ c # p /\ {c, p} = {root, root_i}
        /\ Elements' = Elements /\ Roots' = Roots \ {c}
        /\ RootOf' = [k \in Elements |-> IF RootOf[k] = c THEN p ELSE RootOf[k]]
  BY LinkRoots
<1>4. Elements' = Elements /\ Roots' = Roots \ {c}
  BY <1>3
<1>5. /\ RootOf \in [Elements -> Roots] /\ RootOf' \in [Elements -> Roots']
      /\ Roots \subseteq Elements /\ \A r \in Roots : RootOf[r] = r
  BY <1>4, SetsAre DEF RootsFound
<1>6. RootOf' = [k \in Elements |-> IF RootOf[k] = c THEN p ELSE RootOf[k]]
  BY <1>3
<1>7. PICK B, C : /\ B = {k \in Elements : RootOf[k] = c}
                  /\ C = {k \in Elements : RootOf[k] = p}
  OBVIOUS
<1>8. Blocks(Elements', Roots', RootOf')
        = (Blocks(Elements, Roots, RootOf) \ {B, C}) \cup {B \cup C}
  <2>1. PICK E, R, f : E = Elements /\ R = Roots /\ f = RootOf
    OBVIOUS
  <2>2. /\ f \in [E -> R] /\ R \subseteq E /\ \A r \in R : f[r] = r
        /\ c \in R /\ p \in R /\ c # p
    BY <1>3, <1>5, <2>1
  <2>3. B = Block(E, f, c) /\ C = Block(E, f, p)
    BY <1>7, <2>1 DEF Block
  <2>4. Blocks(E, R \ {c}, Sent(E, f, c, p))
          = (Blocks(E, R, f) \ {B, C}) \cup {B \cup C}
    BY <2>2, <2>3, BlocksMerge
  <2>5. \A g : g = [k \in Elements |-> IF RootOf[k] = c THEN p ELSE RootOf[k]]
          => Blocks(Elements, Roots \ {c}, g)
               = (Blocks(Elements, Roots, RootOf) \ {B, C}) \cup {B \cup C}
    BY <2>1, <2>4 DEF Sent
  <2>. QED
    BY <1>4, <1>6, <2>5
<1>9. {Sets!BlockOf(call.i), Sets!BlockOf(call.j)} = {B, C} /\ B # C
  <2>1. /\ Sets!BlockOf(call.i) = {k \in Elements : RootOf[k] = root_i}
        /\ Sets!BlockOf(call.j) = {k \in Elements : RootOf[k] = root}
    BY <1>2, SetsAre
  <2>2. c \in B /\ c \notin C
    BY <1>3, <1>5, <1>7
  <2>. QED
    BY <1>2, <1>3, <1>7, <2>1, <2>2
<1>. DEFINE BI == Sets!BlockOf(call.i)
            BJ == Sets!BlockOf(call.j)
<1>10. /\ BI # BJ
       /\ Blocks(Elements', Roots', RootOf')
            = (Blocks(Elements, Roots, RootOf) \ {BI, BJ}) \cup {BI \cup BJ}
       /\ BI \cup BJ = B \cup C
  <2>1. {BI, BJ} = {B, C} /\ B # C
    BY <1>9
  <2>. HIDE DEF BI, BJ
  <2>2. BI # BJ /\ BI \cup BJ = B \cup C
    BY <2>1
  <2>. QED
    BY <1>8, <2>1, <2>2
<1>11. Sets!Elements = Elements
  BY SetsAre
<1>12. RootOf' = [k \in Sets!Elements |->
                    IF k \in BI \cup BJ THEN p ELSE RootOf[k]]
  <2>1. \A k \in Elements : k \in B \cup C <=> RootOf[k] \in {c, p}
    BY <1>7
  <2>2. RootOf' = [k \in Elements |-> IF k \in B \cup C THEN p ELSE RootOf[k]]
    BY <1>6, <2>1
  <2>. QED
    BY <1>10, <1>11, <2>2
<1>13. p \in {RootOf[call.i], RootOf[call.j]}
  BY <1>2, <1>3
<1>14. Sets!Return(TRUE)
  BY <1>1, AtReturn DEF Return, Sets!Return
<1>. QED
  BY <1>1, <1>10, <1>12, <1>13, <1>14 DEF Sets!Union, Blocks

LEMMA SetsNext ==
  IInv /\ RootsFound /\ RootsFound' /\ [Next]_vars
    => [Sets!Next]_<<{{k \in Elements : RootOf[k] = r} : r \in Roots}, num_sets,
                     RootOf, call, pc # "idle", ret>>
<1>. SUFFICES ASSUME IInv, RootsFound, RootsFound', [Next]_vars
              PROVE  [Sets!Next]_<<{{k \in Elements : RootOf[k] = r} : r \in Roots},
                                   num_sets, RootOf, call, pc # "idle", ret>>
  OBVIOUS
<1>1. CASE Add
  BY <1>1, SetsAdd DEF Sets!Next
<1>2. CASE Call
  BY <1>2, SetsCall DEF Sets!Next
<1>3. CASE Find \/ SizeOf \/ UnionSame
  BY <1>3, SetsReturn
<1>4. CASE UnionLink
  BY <1>4, SetsLink DEF Sets!Next
<1>5. CASE Climb \/ UnionSecondFind \/ UNCHANGED vars
  <2>1. UNCHANGED <<data, num_sets, call, pc # "idle", ret>>
    BY <1>5 DEF Climb, UnionSecondFind, Found, StartFind, vars
  <2>2. /\ Elements' = Elements /\ Roots' = Roots
        /\ \A k, r : LeadsTo(k, r)' <=> LeadsTo(k, r)
    BY <2>1, SameForest DEF IInv
  <2>3. UNCHANGED <<{{k \in Elements : RootOf[k] = r} : r \in Roots}, num_sets, RootOf>>
    BY <2>1, <2>2, SetsSame
  <2>. QED
    BY <2>1, <2>3
<1>6. CASE Flatten
  <2>1. root \in Roots /\ cur \in Tree(root)
    BY <1>6 DEF IInv, Flatten, Locals, FindsOwnRoot, Roots, Tree
  <2>2. /\ Elements' = Elements /\ Roots' = Roots
        /\ \A r \in Roots, k \in Elements : LeadsTo(k, r)' <=> LeadsTo(k, r)
    BY <1>6, <2>1, FlattenForest DEF IInv
  <2>3. UNCHANGED <<num_sets, call, pc # "idle", ret>>
    BY <1>6 DEF Flatten
  <2>4. UNCHANGED <<{{k \in Elements : RootOf[k] = r} : r \in Roots}, num_sets, RootOf>>
    BY <2>2, <2>3, SetsSame
  <2>. QED
    BY <2>3, <2>4
<1>. QED
  BY <1>1, <1>2, <1>3, <1>4, <1>5, <1>6 DEF Next, Step

(* union_find.rs keeps a partition: to its callers find, size_of, union    *)
(* and num_sets answer for the blocks as they are, only a union changes a  *)
(* representative, and nothing that find does on its way is seen.          *)
THEOREM KeepsPartition == Spec => PartitionSpec
<1>1. Spec => []RootsFound
  BY Invariance, ClimbFindsRoot, PTL
<1>. QED
  BY <1>1, Invariance, SetsInit, SetsNext, PTL DEF Spec, PartitionSpec, Sets!Spec

------------------------------------------------------------------------------
(* Trees stay shallow.                                                     *)

(* A solution of Weight's equation on a closed set of elements.            *)
Weighs(S, w) ==
  /\ w \in [S -> Nat]
  /\ \A k \in S : w[k] = IF IsRoot(k) THEN 1 ELSE 2 * w[data[k]]

Weighted == Weighs(Elements, Weight)

LEMMA WeightsAgree ==
  ASSUME NoCycle,
         NEW S \in SUBSET Elements, Closed(S), NEW v, Weighs(S, v),
         NEW T \in SUBSET Elements, Closed(T), NEW w, Weighs(T, w)
  PROVE  \A k \in S \cap T : v[k] = w[k]
<1>. DEFINE Apart == {k \in S \cap T : v[k] # w[k]}
<1>1. SUFFICES ASSUME Apart # {} PROVE FALSE
  OBVIOUS
<1>2. PICK k \in Apart : data[k] \notin Apart
  BY <1>1 DEF NoCycle
<1>3. CASE IsRoot(k)
  BY <1>2, <1>3 DEF Weighs
<1>4. CASE ~IsRoot(k)
  <2>1. data[k] \in S \cap T
    BY <1>2, <1>4 DEF Closed
  <2>2. v[data[k]] = w[data[k]]
    BY <1>2, <2>1
  <2>. QED
    BY <1>2, <1>4, <2>2 DEF Weighs
<1>. QED
  BY <1>3, <1>4

(* Each element is in a closed set with a solution: an element that is not *)
(* but whose parent is could be added to its parent's set.                 *)
LEMMA WeightNear ==
  ASSUME Vector, NoCycle, NEW k \in Elements
  PROVE  \E S \in SUBSET Elements : Closed(S) /\ k \in S /\ \E w : Weighs(S, w)
<1>. DEFINE Near(l) == \E S \in SUBSET Elements :
                         Closed(S) /\ l \in S /\ \E w : Weighs(S, w)
            Far == {l \in Elements : ~Near(l)}
<1>1. SUFFICES ASSUME Far # {} PROVE FALSE
  OBVIOUS
<1>2. PICK l \in Far : data[l] \notin Far
  BY <1>1 DEF NoCycle
<1>3. CASE IsRoot(l)
  <2>1. Closed({l}) /\ {l} \in SUBSET Elements
    BY <1>2, <1>3 DEF Closed
  <2>2. Weighs({l}, [i \in {l} |-> 1])
    BY <1>3 DEF Weighs
  <2>. QED
    BY <1>2, <2>1, <2>2
<1>4. CASE ~IsRoot(l)
  <2>1. data[l] \in Elements
    BY <1>2, <1>4 DEF Vector
  <2>2. PICK S \in SUBSET Elements :
          Closed(S) /\ data[l] \in S /\ \E w : Weighs(S, w)
    BY <1>2, <2>1
  <2>3. PICK w : Weighs(S, w)
    BY <2>2
  <2>4. l \notin S
    BY <1>2, <2>2
  <2>5. Closed(S \cup {l}) /\ S \cup {l} \in SUBSET Elements
    BY <1>2, <2>2 DEF Closed
  <2>6. PICK v : v = [i \in S \cup {l} |-> IF i = l THEN 2 * w[data[l]] ELSE w[i]]
    OBVIOUS
  <2>7. v \in [S \cup {l} -> Nat]
    BY <2>2, <2>3, <2>6 DEF Weighs
  <2>8. v[l] = 2 * v[data[l]]
    BY <2>2, <2>4, <2>6
  <2>9. \A i \in S : v[i] = IF IsRoot(i) THEN 1 ELSE 2 * v[data[i]]
    <3>1. \A i \in S : v[i] = w[i]
      BY <2>4, <2>6
    <3>2. \A i \in S : ~IsRoot(i) => data[i] \in S
      BY <2>2 DEF Closed
    <3>. QED
      BY <2>3, <3>1, <3>2 DEF Weighs
  <2>10. Weighs(S \cup {l}, v)
    BY <1>4, <2>7, <2>8, <2>9 DEF Weighs
  <2>. QED
    BY <1>2, <2>5, <2>10
<1>. QED
  BY <1>3, <1>4

LEMMA WeightSolved == IInv => Weighted
<1>. SUFFICES ASSUME Vector, NoCycle PROVE Weighted
  BY DEF IInv
<1>. DEFINE Fits(k, S, w) == /\ S \in SUBSET Elements /\ Closed(S) /\ k \in S
                             /\ Weighs(S, w)
            f == [k \in Elements |->
                    CHOOSE n \in Nat : \E S, w : Fits(k, S, w) /\ n = w[k]]
<1>1. ASSUME NEW k \in Elements, NEW S, NEW w, Fits(k, S, w)
      PROVE  f[k] = w[k]
  <2>1. w[k] \in Nat
    BY <1>1 DEF Weighs
  <2>2. \E S1, w1 : Fits(k, S1, w1) /\ f[k] = w1[k]
    BY <1>1, <2>1
  <2>3. PICK S1, w1 : Fits(k, S1, w1) /\ f[k] = w1[k]
    BY <2>2
  <2>. HIDE DEF f
  <2>4. \A i \in S \cap S1 : w[i] = w1[i]
    BY <1>1, <2>3, WeightsAgree
  <2>. QED
    BY <1>1, <2>3, <2>4
<1>2. ASSUME NEW k \in Elements
      PROVE  f[k] \in Nat /\ f[k] = IF IsRoot(k) THEN 1 ELSE 2 * f[data[k]]
  <2>1. PICK S \in SUBSET Elements : Closed(S) /\ k \in S /\ \E w : Weighs(S, w)
    BY WeightNear
  <2>2. PICK w : Weighs(S, w)
    BY <2>1
  <2>3. \A i \in S : Fits(i, S, w)
    BY <2>1, <2>2
  <2>. HIDE DEF f, Fits
  <2>4. \A i \in S : f[i] = w[i]
    BY <1>1, <2>3
  <2>5. ~IsRoot(k) => data[k] \in S
    BY <2>1 DEF Closed
  <2>. QED
    BY <2>1, <2>2, <2>4, <2>5 DEF Weighs
<1>. HIDE DEF f
<1>3. f = [k \in Elements |-> IF IsRoot(k) THEN 1 ELSE 2 * f[data[k]]]
  <2>1. DOMAIN f = Elements /\ f = [k \in Elements |-> f[k]]
    BY DEF f
  <2>. QED
    BY <1>2, <2>1
<1>4. Weight = [k \in Elements |-> IF IsRoot(k) THEN 1 ELSE 2 * Weight[data[k]]]
  BY <1>3 DEF Weight
<1>5. \A k \in Elements : Weight[k] = f[k]
  <2>. DEFINE Apart == {k \in Elements : Weight[k] # f[k]}
  <2>1. SUFFICES ASSUME Apart # {} PROVE FALSE
    OBVIOUS
  <2>2. PICK k \in Apart : data[k] \notin Apart
    BY <2>1 DEF NoCycle
  <2>3. ~IsRoot(k)
    BY <1>2, <1>4, <2>2
  <2>4. data[k] \in Elements
    BY <2>2, <2>3 DEF Vector
  <2>. QED
    BY <1>2, <1>4, <2>2, <2>3, <2>4
<1>6. Weight \in [Elements -> Nat]
  BY <1>2, <1>4, <1>5
<1>. QED
  BY <1>4, <1>6 DEF Weighted, Weighs

LEMMA ParentsRoot ==
  ASSUME Vector, RootsFound, NEW k \in Elements, ~IsRoot(k)
  PROVE  data[k] \in Elements /\ RootOf[data[k]] = RootOf[k]
<1>1. data[k] \in Elements
  BY DEF Vector
<1>2. PICK r \in Roots : r = RootOf[data[k]] /\ LeadsTo(data[k], r)
  BY <1>1 DEF RootsFound
<1>3. LeadsTo(k, r)
  BY <1>2 DEF LeadsTo, Closed
<1>. QED
  BY <1>1, <1>2, <1>3 DEF RootsFound

LEMMA WeightPositive ==
  ASSUME Vector, NoCycle, Weighted
  PROVE  /\ \A k \in Elements : Weight[k] \in Nat /\ Weight[k] >= 1
         /\ \A k \in Elements : IsRoot(k) => Weight[k] = 1
         /\ \A k \in Elements : ~IsRoot(k) => Weight[k] = 2 * Weight[data[k]]
<1>1. \A k \in Elements : /\ Weight[k] \in Nat
                          /\ Weight[k] = IF IsRoot(k) THEN 1 ELSE 2 * Weight[data[k]]
  BY DEF Weighted, Weighs
<1>. DEFINE Light == {k \in Elements : ~(Weight[k] >= 1)}
<1>2. ASSUME Light # {} PROVE FALSE
  <2>1. PICK k \in Light : data[k] \notin Light
    BY <1>2 DEF NoCycle
  <2>2. ~IsRoot(k)
    BY <1>1, <2>1
  <2>3. data[k] \in Elements
    BY <2>1, <2>2 DEF Vector
  <2>. QED
    BY <1>1, <2>1, <2>2, <2>3
<1>. QED
  BY <1>1, <1>2

(* A bound on the weights after a step, given that each link doubles it.   *)
LEMMA WeightBound ==
  ASSUME NoCycle', Weighted', Elements \subseteq Elements',
         NEW B \in [Elements -> Nat],
         \A k \in Elements :
           \/ Weight'[k] <= B[k]
           \/ ~IsRoot(k)' /\ data'[k] \in Elements /\ 2 * B[data'[k]] <= B[k]
  PROVE  \A k \in Elements : Weight'[k] <= B[k]
<1>1. \A k \in Elements : /\ Weight'[k] \in Nat
                          /\ ~IsRoot(k)' => Weight'[k] = 2 * Weight'[data'[k]]
  BY DEF Weighted, Weighs
<1>2. PICK Bad : Bad = {k \in Elements : ~(Weight'[k] <= B[k])}
  OBVIOUS
<1>3. ASSUME Bad # {} PROVE FALSE
  <2>1. PICK k \in Bad : data'[k] \notin Bad
    BY <1>2, <1>3 DEF NoCycle
  <2>2. ~IsRoot(k)' /\ data'[k] \in Elements /\ 2 * B[data'[k]] <= B[k]
    BY <1>2, <2>1
  <2>3. Weight'[data'[k]] <= B[data'[k]]
    BY <1>2, <2>1, <2>2
  <2>4. Weight'[k] = 2 * Weight'[data'[k]]
    BY <1>1, <1>2, <2>1, <2>2
  <2>5. Weight'[data'[k]] \in Nat /\ B[data'[k]] \in Nat /\ B[k] \in Nat
    BY <1>1, <1>2, <2>1, <2>2
  <2>6. Weight'[k] <= B[k]
    BY <2>2, <2>3, <2>4, <2>5
  <2>. QED
    BY <1>2, <2>1, <2>6
<1>. QED
  BY <1>2, <1>3

(* Links that stay or come to lead straight to a root make no tree deeper. *)
LEMMA StaysShallow ==
  ASSUME Vector, NoCycle, NoCycle', Weighted, Weighted', ShallowTrees,
         Elements \subseteq Elements',
         \A k \in Elements : IsRoot(k)' <=> IsRoot(k),
         \A k \in Elements : ~IsRoot(k) =>
           \/ data'[k] = data[k]
           \/ data'[k] \in Elements /\ IsRoot(data'[k]),
         \A k \in Elements : /\ RootOf[k] \in Elements /\ RootOf'[k] = RootOf[k]
                             /\ data'[RootOf[k]] = data[RootOf[k]]
  PROVE  \A k \in Elements : Weight'[k] <= -data'[RootOf'[k]]
<1>1. Weight \in [Elements -> Nat]
  BY DEF Weighted, Weighs
<1>2. ASSUME NEW k \in Elements
      PROVE  \/ Weight'[k] <= Weight[k]
             \/ ~IsRoot(k)' /\ data'[k] \in Elements
                /\ 2 * Weight[data'[k]] <= Weight[k]
  <2>1. CASE IsRoot(k)
    <3>1. Weight'[k] = 1
      BY <2>1 DEF Weighted, Weighs
    <3>. QED
      BY <2>1, <3>1, WeightPositive
  <2>2. CASE ~IsRoot(k)
    <3>1. /\ data[k] \in Elements /\ Weight[k] = 2 * Weight[data[k]]
          /\ Weight[data[k]] \in Nat /\ Weight[data[k]] >= 1
      <4>1. data[k] \in Elements
        BY <2>2 DEF Vector
      <4>. QED
        BY <2>2, <4>1, WeightPositive
    <3>2. CASE data'[k] = data[k]
      BY <2>2, <3>1, <3>2
    <3>3. CASE data'[k] \in Elements /\ IsRoot(data'[k])
      <4>1. Weight[data'[k]] = 1
        BY <3>3, WeightPositive
      <4>. QED
        BY <2>2, <3>1, <3>3, <4>1
    <3>. QED
      BY <2>2, <3>2, <3>3
  <2>. QED
    BY <2>1, <2>2
<1>3. PICK B \in [Elements -> Nat] : B = Weight
  BY <1>1
<1>4. \A k \in Elements :
        \/ Weight'[k] <= B[k]
        \/ ~IsRoot(k)' /\ data'[k] \in Elements /\ 2 * B[data'[k]] <= B[k]
  BY <1>2, <1>3
<1>5. \A k \in Elements : Weight'[k] <= Weight[k]
  BY <1>3, <1>4, WeightBound
<1>6. ASSUME NEW k \in Elements PROVE Weight'[k] <= -data'[RootOf'[k]]
  <2>1. Weight[k] <= -data[RootOf[k]] /\ Weight'[k] <= Weight[k]
    BY <1>5 DEF ShallowTrees
  <2>2. Weight[k] \in Nat /\ Weight'[k] \in Nat /\ data[RootOf[k]] \in Int
    BY <1>1 DEF Weighted, Weighs, Vector, Elements
  <2>3. data'[RootOf'[k]] = data[RootOf[k]]
    OBVIOUS
  <2>. QED
    BY <2>1, <2>2, <2>3
<1>. QED
  BY <1>6

(* Hanging a tree doubles the weight of its elements, and its new set is   *)
(* at least twice as large as its old one.                                 *)
LEMMA LinkStaysShallow ==
  ASSUME IInv, IInv', RootsFound, RootsFound', Weighted, Weighted',
         ShallowTrees, UnionLink
  PROVE  ShallowTrees'
<1>1. PICK c \in Roots, p \in Roots :
        /\ c # p /\ data' = Hang(c, p) /\ data[p] <= data[c]
        /\ Elements' = Elements /\ Roots' = Roots \ {c}
        /\ RootOf' = [k \in Elements |-> IF RootOf[k] = c THEN p ELSE RootOf[k]]
  BY LinkRoots
<1>2. Vector /\ NoCycle /\ NoCycle'
  BY DEF IInv
<1>3. data \in [Elements -> Int]
  BY <1>2 DEF Vector, Elements
<1>4. /\ c \in Elements /\ p \in Elements /\ IsRoot(c) /\ IsRoot(p)
      /\ data[c] \in Int /\ data[p] \in Int /\ data[c] < 0 /\ data[p] < 0
  BY <1>3 DEF Roots, IsRoot
<1>5. /\ data'[c] = p /\ data'[p] = data[p] + data[c]
      /\ \A k \in Elements \ {c, p} : data'[k] = data[k]
  BY <1>1, <1>3, <1>4 DEF Hang
<1>6. /\ ~IsRoot(c)' /\ IsRoot(p)'
      /\ \A k \in Elements \ {c, p} : IsRoot(k)' <=> IsRoot(k)
  <2>1. ~IsRoot(c)' /\ IsRoot(p)'
    <3>1. p \in Nat
      BY <1>2, <1>4, Finite
    <3>. QED
      BY <1>4, <1>5, <3>1 DEF IsRoot
  <2>. QED
    BY <1>5, <2>1 DEF IsRoot
<1>7. /\ \A k \in Elements : Weight'[k] \in Nat
      /\ \A k \in Elements : IsRoot(k)' => Weight'[k] = 1
      /\ \A k \in Elements : ~IsRoot(k)' => Weight'[k] = 2 * Weight'[data'[k]]
  BY <1>1 DEF Weighted, Weighs
<1>8. /\ RootOf \in [Elements -> Roots] /\ \A r \in Roots : RootOf[r] = r
      /\ Roots \subseteq Elements
  BY SetsAre DEF RootsFound
<1>. DEFINE B == [k \in Elements |-> IF RootOf[k] = c THEN 2 * Weight[k] ELSE Weight[k]]
<1>9. B \in [Elements -> Nat] /\ \A k \in Elements : Weight[k] \in Nat
  BY DEF Weighted, Weighs
<1>10. ASSUME NEW k \in Elements
       PROVE  \/ Weight'[k] <= B[k]
              \/ ~IsRoot(k)' /\ data'[k] \in Elements /\ 2 * B[data'[k]] <= B[k]
  <2>1. CASE k = c
    <3>1. Weight[c] = 1 /\ B[c] = 2
      BY <1>2, <1>4, <1>8, WeightPositive
    <3>2. Weight'[p] = 1
      BY <1>4, <1>6, <1>7
    <3>3. Weight'[c] = 2
      BY <1>4, <1>5, <1>6, <1>7, <3>2
    <3>. QED
      BY <2>1, <3>1, <3>3
  <2>2. CASE k # c /\ IsRoot(k)
    <3>1. Weight'[k] = 1
      BY <1>6, <1>7, <2>2
    <3>2. Weight[k] = 1
      BY <1>2, <2>2, WeightPositive
    <3>. QED
      BY <3>1, <3>2
  <2>3. CASE ~IsRoot(k)
    <3>1. data'[k] = data[k] /\ ~IsRoot(k)'
      BY <1>4, <1>5, <1>6, <2>3
    <3>2. data[k] \in Elements /\ RootOf[data[k]] = RootOf[k]
      BY <1>2, <2>3, ParentsRoot
    <3>3. Weight[k] = 2 * Weight[data[k]]
      BY <1>2, <2>3, WeightPositive
    <3>4. 2 * B[data[k]] <= B[k]
      BY <1>9, <3>2, <3>3
    <3>. HIDE DEF B
    <3>. QED
      BY <3>1, <3>2, <3>4
  <2>. QED
    BY <2>1, <2>2, <2>3
<1>11. \A k \in Elements : Weight'[k] <= B[k]
  <2>1. PICK b \in [Elements -> Nat] : b = B
    BY <1>9
  <2>. HIDE DEF B
  <2>. QED
    BY <1>1, <1>2, <1>10, <2>1, WeightBound
<1>12. ASSUME NEW k \in Elements PROVE Weight'[k] <= -data'[RootOf'[k]]
  <2>1. Weight[k] <= -data[RootOf[k]] /\ RootOf[k] \in Elements
        /\ data[RootOf[k]] \in Int
    BY <1>3, <1>8 DEF ShallowTrees
  <2>2. CASE RootOf[k] = c
    <3>1. Weight'[k] <= 2 * Weight[k] /\ RootOf'[k] = p
      BY <1>1, <1>11, <2>2
    <3>. QED
      BY <1>1, <1>4, <1>5, <1>7, <1>9, <2>1, <2>2, <3>1
  <2>3. CASE RootOf[k] = p
    <3>1. Weight'[k] <= Weight[k] /\ RootOf'[k] = p
      BY <1>1, <1>11, <2>3
    <3>. QED
      BY <1>4, <1>5, <1>7, <1>9, <2>1, <2>3, <3>1
  <2>4. CASE RootOf[k] \notin {c, p}
    <3>1. Weight'[k] <= Weight[k] /\ RootOf'[k] = RootOf[k]
      BY <1>1, <1>11, <2>4
    <3>2. data'[RootOf[k]] = data[RootOf[k]]
      BY <1>5, <2>1, <2>4
    <3>. QED
      BY <1>7, <1>9, <2>1, <3>1, <3>2
  <2>. QED
    BY <2>2, <2>3, <2>4
<1>. QED
  BY <1>1, <1>12 DEF ShallowTrees

LEMMA ShallowNext ==
  IInv /\ IInv' /\ RootsFound /\ RootsFound' /\ Weighted /\ Weighted'
    /\ ShallowTrees /\ [Next]_vars => ShallowTrees'
<1>. SUFFICES ASSUME IInv, IInv', RootsFound, RootsFound', Weighted, Weighted',
                     ShallowTrees, [Next]_vars
              PROVE  ShallowTrees'
  OBVIOUS
<1>1. /\ Vector /\ NoCycle /\ NoCycle' /\ SizesExact
      /\ RootOf \in [Elements -> Roots] /\ Roots \subseteq Elements
  BY SetsAre DEF IInv, RootsFound
<1>2. CASE Add
  <2>1. PICK new : /\ new = Cardinality(Elements) /\ new \notin Elements
                   /\ Elements' = Elements \cup {new}
                   /\ RootOf' = [k \in Elements \cup {new} |->
                                   IF k = new THEN new ELSE RootOf[k]]
    BY <1>2, AddRoots
  <2>2. /\ data' = [k \in 0 .. new |-> IF k = new THEN -1 ELSE data[k]]
        /\ Elements = 0 .. new - 1 /\ new \in Nat
    BY <1>1, <1>2, <2>1, Finite DEF Add
  <2>3. data'[new] = -1 /\ \A k \in Elements : data'[k] = data[k]
    BY <2>2
  <2>4. IsRoot(new)' /\ \A k \in Elements : IsRoot(k)' <=> IsRoot(k)
    BY <2>3 DEF IsRoot
  <2>5. \A k \in Elements : /\ RootOf[k] \in Elements /\ RootOf'[k] = RootOf[k]
                            /\ data'[RootOf[k]] = data[RootOf[k]]
    BY <1>1, <2>1, <2>3
  <2>6. \A k \in Elements : Weight'[k] <= -data'[RootOf'[k]]
    BY <1>1, <2>1, <2>3, <2>4, <2>5, StaysShallow
  <2>7. Weight'[new] = 1
    BY <2>1, <2>4 DEF Weighted, Weighs
  <2>8. RootOf'[new] = new
    BY <2>1
  <2>9. \A k \in Elements \cup {new} : Weight'[k] <= -data'[RootOf'[k]]
    BY <2>3, <2>6, <2>7, <2>8
  <2>. QED
    BY <2>1, <2>9 DEF ShallowTrees
<1>3. CASE UNCHANGED <<data, num_sets>>
  <2>1. /\ Elements' = Elements /\ Roots' = Roots
        /\ \A k : IsRoot(k)' <=> IsRoot(k)
        /\ \A k, r : LeadsTo(k, r)' <=> LeadsTo(k, r)
    BY <1>1, <1>3, SameForest
  <2>2. RootOf' = RootOf
    BY <1>3, <2>1, SetsSame
  <2>3. \A k \in Elements : Weight'[k] <= -data'[RootOf'[k]]
    BY <1>1, <1>3, <2>1, <2>2, StaysShallow
  <2>. QED
    BY <2>1, <2>3 DEF ShallowTrees
<1>4. CASE Flatten
  <2>1. root \in Roots /\ cur \in Tree(root) /\ cur \notin Roots /\ cur \in Elements
    BY <1>4 DEF IInv, Flatten, Locals, FindsOwnRoot, Roots, Tree
  <2>2. /\ Elements' = Elements /\ Roots' = Roots
        /\ \A r \in Roots, k \in Elements : LeadsTo(k, r)' <=> LeadsTo(k, r)
    BY <1>1, <1>4, <2>1, FlattenForest
  <2>3. RootOf' = RootOf
    BY <1>4, <2>2, SetsSame DEF Flatten
  <2>4. data' = [data EXCEPT ![cur] = root]
    BY <1>4 DEF Flatten
  <2>5. \A k \in Elements : IsRoot(k)' <=> IsRoot(k)
    BY <2>2 DEF Roots
  <2>6. \A k \in Elements : \/ data'[k] = data[k]
                            \/ data'[k] \in Elements /\ IsRoot(data'[k])
    <3>1. \A k \in Elements : data'[k] = IF k = cur THEN root ELSE data[k]
      BY <2>4 DEF Elements
    <3>. QED
      BY <2>1, <3>1 DEF Roots
  <2>7. \A k \in Elements : /\ RootOf[k] \in Elements /\ RootOf'[k] = RootOf[k]
                            /\ data'[RootOf[k]] = data[RootOf[k]]
    BY <1>1, <2>1, <2>3, <2>4 DEF Elements
  <2>8. \A k \in Elements : Weight'[k] <= -data'[RootOf'[k]]
    BY <1>1, <2>2, <2>5, <2>6, <2>7, StaysShallow
  <2>. QED
    BY <2>2, <2>8 DEF ShallowTrees
<1>5. CASE UnionLink
  BY <1>5, LinkStaysShallow
<1>6. \/ Add \/ Flatten \/ UnionLink \/ UNCHANGED <<data, num_sets>>
  BY DEF Next, Step, Call, Climb, Find, SizeOf, UnionSecondFind, UnionSame, vars
<1>. QED
  BY <1>2, <1>3, <1>4, <1>5, <1>6

LEMMA ShallowInit == Init /\ IInv /\ RootsFound /\ Weighted => ShallowTrees
<1>. SUFFICES ASSUME NEW size \in 0 .. MaxLen,
                     data = [k \in 0 .. size - 1 |-> -1], RootsFound, Weighted
              PROVE  ShallowTrees
  BY DEF Init
<1>1. Elements = 0 .. size - 1 /\ \A k \in Elements : IsRoot(k)
  BY DEF Elements, IsRoot
<1>2. ASSUME NEW k \in Elements PROVE Weight[k] <= -data[RootOf[k]]
  <2>1. Weight[k] = 1
    BY <1>1 DEF Weighted, Weighs
  <2>2. data[RootOf[k]] = -1
    BY <1>1 DEF RootsFound, Roots
  <2>. QED
    BY <2>1, <2>2
<1>. QED
  BY <1>2 DEF ShallowTrees

(* Union by size keeps the forest shallow whatever find does to it: an     *)
(* element d links below its root is in a set of at least 2^d elements, so *)
(* that no climb takes more than log2(len) steps.                          *)
THEOREM StayShallow == Spec => []ShallowTrees
<1>1. Spec => []RootsFound
  BY Invariance, ClimbFindsRoot, PTL
<1>2. Spec => []Weighted
  BY Invariance, WeightSolved, PTL
<1>. QED
  BY <1>1, <1>2, Invariance, ShallowInit, ShallowNext, PTL DEF Spec
==============================================================================
