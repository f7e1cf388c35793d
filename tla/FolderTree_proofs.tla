-------------------------- MODULE FolderTree_proofs --------------------------
(***************************************************************************)
(* With at most one folder move in flight the folders stay a forest, for   *)
(* every set of identifiers and any number of concurrent trash, restore,   *)
(* purge and create requests.                                              *)
(*                                                                         *)
(* The walk of MoveFolder reads one row at a time while other requests run,*)
(* so what it has seen must still be true when the UPDATE runs.  WalkInv   *)
(* says so: the folders it has seen form a chain closed under parent that  *)
(* does not contain the moved folder.                                      *)
(***************************************************************************)
EXTENDS FolderTree, TLAPS

\* What the walk of mover m has established, until its UPDATE.
WalkOf(m) ==
    LET w == mv[m] IN
    w.pc # "idle" =>
        /\ w.id \in Known /\ w.to \in Known
        /\ w.seen \subseteq Known
        /\ w.curr \in Known \cup {Root}
        /\ w.id \notin w.seen \cup {w.curr}
        /\ w.to \in w.seen \cup {w.curr}
        /\ \A x \in w.seen \cap rows : parent[x] \in w.seen \cup {w.curr}
        /\ w.pc = "update" => w.curr \notin rows

WalkInv == \A m \in Movers : WalkOf(m)

OnceOnly == rows \cap retired = {}

\* A request that is about to read a subtree was given a folder.
ReadInv == \A k \in Keepers : kp[k].pc = "read" => kp[k].id \in Folders

IInv == TypeOK /\ OnceOnly /\ ParentsExist /\ TreeAcyclic /\ WalkInv /\ ReadInv

OneMover == \A m, n \in Movers : m = n
-----------------------------------------------------------------------------
\* A deleted subtree takes every child with it: what remains keeps its parent.
LEMMA SubtreeClosed ==
    ASSUME NEW D, NEW x \in rows, parent[x] \in Subtree(D)
    PROVE  x \in Subtree(D)
BY DEF Subtree, ClosedBelow

\* The subtree is made of rows.
LEMMA SubtreeRows == ASSUME NEW D PROVE Subtree(D) \subseteq rows
BY DEF Subtree

\* The empty catalog satisfies the inductive invariant.
LEMMA InitInv == Init => IInv
<1> USE RootAssumption
<1> SUFFICES ASSUME Init PROVE IInv OBVIOUS
<1>1. TypeOK
  BY DEF Init, TypeOK, NoMove, NoKeep, MoveState, KeepState, Node
<1>2. OnceOnly /\ ParentsExist /\ TreeAcyclic
  BY DEF Init, OnceOnly, ParentsExist, TreeAcyclic, Acyclic
<1>3. WalkInv /\ ReadInv
  BY DEF Init, WalkInv, WalkOf, ReadInv, NoMove, NoKeep
<1> QED BY <1>1, <1>2, <1>3 DEF IInv

\* Adding a leaf under an existing parent closes no cycle.
LEMMA CreateInv ==
    ASSUME IInv, NEW d \in Folders, NEW p \in Node, CreateFolder(d, p)
    PROVE  IInv'
<1> USE RootAssumption
<1>1. TypeOK' BY DEF IInv, TypeOK, CreateFolder, ParentExists, Node
<1>2. OnceOnly' BY DEF IInv, OnceOnly, CreateFolder, Known
<1>3. ParentsExist'
  BY DEF IInv, TypeOK, ParentsExist, CreateFolder, ParentExists, Known
<1>4. TreeAcyclic'
  <2> SUFFICES ASSUME NEW S \in SUBSET rows', S # {}
               PROVE  \E x \in S : parent'[x] \notin S
      BY DEF TreeAcyclic, Acyclic
  <2> d \notin rows /\ p \in rows \cup {Root} /\ rows' = rows \cup {d}
      BY DEF CreateFolder, Known, ParentExists
  <2> parent'[d] = p /\ \A x \in rows : parent'[x] = parent[x] /\ parent[x] # d
      BY DEF IInv, TypeOK, CreateFolder, ParentsExist, Known
  <2>1. CASE S = {d} BY <2>1
  <2>2. CASE S # {d}
    <3> DEFINE T == S \ {d}
    <3>1. T \in SUBSET rows /\ T # {} BY <2>2
    <3>2. PICK x \in T : parent[x] \notin T BY <3>1 DEF IInv, TreeAcyclic, Acyclic
    <3> QED BY <3>1, <3>2
  <2> QED BY <2>1, <2>2
<1>5. WalkInv' /\ ReadInv'
  BY DEF IInv, TypeOK, WalkInv, WalkOf, ReadInv, CreateFolder, Known
<1> QED BY <1>1, <1>2, <1>3, <1>4, <1>5 DEF IInv

\* Deleting subtrees keeps the rest of the forest as it was.
LEMMA DeleteInv ==
    ASSUME IInv, NEW D, DeleteRows(D), kp' \in [Keepers -> KeepState], ReadInv'
    PROVE  IInv'
<1> USE RootAssumption
<1>0. Subtree(D) \subseteq rows BY SubtreeRows
<1>1. TypeOK' BY <1>0 DEF IInv, TypeOK, DeleteRows
<1>2. OnceOnly' BY <1>0 DEF IInv, OnceOnly, DeleteRows
<1>3. ParentsExist' BY SubtreeClosed DEF IInv, ParentsExist, DeleteRows
<1>4. TreeAcyclic' BY DEF IInv, TreeAcyclic, Acyclic, DeleteRows
<1>5. WalkInv' BY <1>0 DEF IInv, WalkInv, WalkOf, DeleteRows, Known
<1> QED BY <1>1, <1>2, <1>3, <1>4, <1>5 DEF IInv

\* One row read by the walk, and what makes it stop.
LEMMA WalkStepInv ==
    ASSUME IInv, NEW m \in Movers, WalkReject(m) \/ WalkUp(m) \/ WalkBreak(m)
    PROVE  IInv'
<1> USE RootAssumption
<1>0. UNCHANGED <<rows, retired, parent, trashed, kp>>
  BY DEF WalkReject, WalkUp, WalkBreak
<1>1. /\ mv'[m] \in MoveState
      /\ mv' = [mv EXCEPT ![m] = mv'[m]]
      /\ WalkOf(m)'
  <2>0. WalkOf(m) /\ mv[m] \in MoveState /\ mv \in [Movers -> MoveState]
    BY DEF IInv, WalkInv, TypeOK
  <2>1. CASE WalkReject(m)
    BY <2>0, <2>1 DEF WalkOf, WalkReject, NoMove, MoveState, Node
  <2>2. CASE WalkUp(m)
    <3> DEFINE c == mv[m].curr
    <3>1. c \in rows /\ c \in Folders /\ parent[c] \in rows \cup {Root} /\ parent[c] \in Node
      BY <2>2 DEF WalkUp, IInv, TypeOK, ParentsExist
    <3>2. /\ mv' = [mv EXCEPT ![m] = mv'[m]]
          /\ mv'[m] = [mv[m] EXCEPT !.curr = parent[c], !.seen = mv[m].seen \cup {c},
                                    !.pc = IF parent[c] = Root THEN "update" ELSE "walk"]
      BY <2>0, <2>2 DEF WalkUp
    <3>3. mv'[m] \in MoveState
      <4> DEFINE pc == IF parent[c] = Root THEN "update" ELSE "walk"
      <4>1. pc \in {"walk", "update"} /\ mv[m].seen \cup {c} \in SUBSET Folders
        BY <2>0, <3>1 DEF MoveState
      <4> HIDE DEF pc
      <4> QED BY <2>0, <3>1, <3>2, <4>1 DEF MoveState, pc
    <3>4. /\ mv'[m].id = mv[m].id /\ mv'[m].to = mv[m].to
          /\ mv'[m].curr = parent[c] /\ mv'[m].seen = mv[m].seen \cup {c}
          /\ mv'[m].pc = IF parent[c] = Root THEN "update" ELSE "walk"
      BY <2>0, <3>2 DEF MoveState
    <3>5. mv[m].pc # "idle" /\ parent[c] # mv[m].id
      BY <2>2, <3>1 DEF WalkUp, OwnDescendant
    <3>6. Root \notin rows BY DEF IInv, TypeOK
    <3>7. WalkOf(m)' BY <1>0, <2>0, <3>1, <3>4, <3>5, <3>6 DEF WalkOf, Known
    <3> QED BY <3>2, <3>3, <3>7
  <2>3. CASE WalkBreak(m)
    BY <1>0, <2>0, <2>3 DEF WalkOf, WalkBreak, MoveState, Known
  <2> QED BY <2>1, <2>2, <2>3
<1>2. TypeOK' BY <1>0, <1>1 DEF IInv, TypeOK
<1>3. OnceOnly' /\ ParentsExist' /\ TreeAcyclic' /\ ReadInv'
  BY <1>0 DEF IInv, OnceOnly, ParentsExist, TreeAcyclic, Acyclic, ReadInv
<1>4. WalkInv'
  BY <1>0, <1>1 DEF IInv, TypeOK, WalkInv, WalkOf, Known
<1> QED BY <1>2, <1>3, <1>4 DEF IInv

\* The UPDATE closes no cycle.  A set of folders S in which everybody had its
\* parent would contain the new parent, hence folders the walk has seen; and
\* those would already have been such a set before the move.
LEMMA MoveUpdateInv ==
    ASSUME OneMover, IInv, NEW m \in Movers, MoveUpdate(m)
    PROVE  IInv'
<1> USE RootAssumption
<1> DEFINE id == mv[m].id  to == mv[m].to
<1>0. UNCHANGED <<rows, retired, trashed, kp>> BY DEF MoveUpdate
<1>a. mv[m] \in MoveState BY DEF IInv, TypeOK
<1>b. WalkOf(m) /\ mv[m].pc = "update" BY DEF IInv, WalkInv, MoveUpdate
<1>1. TypeOK'
  <2>1. parent' \in [Folders -> Node]
    BY <1>a DEF IInv, TypeOK, MoveUpdate, MoveState
  <2>2. mv' \in [Movers -> MoveState]
    BY DEF IInv, TypeOK, MoveUpdate, NoMove, MoveState, Node
  <2> QED BY <1>0, <2>1, <2>2 DEF IInv, TypeOK
<1>2. OnceOnly' /\ ReadInv' BY <1>0 DEF IInv, OnceOnly, ReadInv
<1>3. WalkInv'
  <2>1. mv'[m].pc = "idle" BY DEF IInv, TypeOK, MoveUpdate, NoMove
  <2>2. \A n \in Movers : n = m BY DEF OneMover
  <2> QED BY <2>1, <2>2 DEF WalkInv, WalkOf
<1>4. CASE parent' = parent
  <2>1. ParentsExist' /\ TreeAcyclic'
    BY <1>0, <1>4 DEF IInv, ParentsExist, TreeAcyclic, Acyclic
  <2> QED BY <1>1, <1>2, <1>3, <2>1 DEF IInv
<1>5. CASE id \in rows /\ ParentExists(to)
  <2>1. /\ parent'[id] = to /\ to \in rows
        /\ \A x \in rows : x # id => parent'[x] = parent[x]
    <3>1. id \in Folders BY <1>5 DEF IInv, TypeOK
    <3>2. parent' = [parent EXCEPT ![id] = to] BY <1>5 DEF MoveUpdate
    <3>3. to \in Known BY <1>b DEF WalkOf
    <3>4. to \in rows BY <1>5, <3>3 DEF ParentExists, IInv, TypeOK, Known
    <3> QED BY <3>1, <3>2, <3>4 DEF IInv, TypeOK
  <2>2. ParentsExist' BY <1>0, <2>1 DEF IInv, ParentsExist
  <2>3. TreeAcyclic'
    <3> SUFFICES ASSUME NEW S \in SUBSET rows, S # {},
                        \A x \in S : parent'[x] \in S
                 PROVE  FALSE
      BY <1>0 DEF TreeAcyclic, Acyclic
    <3>1. CASE id \notin S
      BY <3>1, <2>1 DEF IInv, TreeAcyclic, Acyclic
    <3>2. CASE id \in S
      <4> DEFINE T == S \cap mv[m].seen
      <4>1. to \in T
        BY <3>2, <2>1, <1>b DEF WalkOf
      <4>2. \A x \in T : x # id /\ parent[x] \in mv[m].seen \cup {mv[m].curr}
        BY <1>b DEF WalkOf
      <4>3. \A x \in T : parent[x] \in S BY <4>2, <2>1
      <4>4. \A x \in T : parent[x] \in T BY <4>2, <4>3, <1>b DEF WalkOf
      <4> QED BY <4>1, <4>4 DEF IInv, TreeAcyclic, Acyclic
    <3> QED BY <3>1, <3>2
  <2> QED BY <1>1, <1>2, <1>3, <2>2, <2>3 DEF IInv
<1> QED BY <1>4, <1>5 DEF MoveUpdate

\* The arrival of a move reads nothing yet.
LEMMA MoveStartInv ==
    ASSUME IInv, NEW m \in Movers, NEW id \in Known, NEW to \in Known, MoveStart(m, id, to)
    PROVE  IInv'
<1>0. UNCHANGED <<rows, retired, parent, trashed, kp>> BY DEF MoveStart
<1>1. TypeOK' BY <1>0 DEF IInv, TypeOK, MoveStart, Known, MoveState, Node
<1>2. OnceOnly' /\ ParentsExist' /\ TreeAcyclic' /\ ReadInv'
  BY <1>0 DEF IInv, OnceOnly, ParentsExist, TreeAcyclic, Acyclic, ReadInv
<1>3. WalkInv' BY <1>0 DEF IInv, TypeOK, WalkInv, WalkOf, MoveStart, Known
<1> QED BY <1>1, <1>2, <1>3 DEF IInv

\* A step that leaves the tree and the moves alone.
LEMMA SameTree ==
    ASSUME IInv, UNCHANGED <<rows, retired, parent, mv>>, trashed' \subseteq rows,
           kp' \in [Keepers -> KeepState], ReadInv'
    PROVE  IInv'
BY DEF IInv, TypeOK, OnceOnly, ParentsExist, TreeAcyclic, Acyclic, WalkInv, WalkOf, Known

\* The steps of the trash, restore, purge and empty requests.
LEMMA KeepStepInv == ASSUME IInv, NEW k \in Keepers, KeepStep(k) PROVE IInv'
<1> USE RootAssumption
<1>0. /\ kp \in [Keepers -> KeepState] /\ kp[k] \in KeepState /\ ReadInv
      /\ trashed \subseteq rows /\ rows \subseteq Folders
  BY DEF IInv, TypeOK
<1>1. CASE ReadSubtree(k)
  <2>1. {kp[k].id} \cup Subtree({kp[k].id}) \in SUBSET Folders
    BY <1>0, <1>1, SubtreeRows DEF ReadSubtree, ReadInv
  <2> QED BY <1>0, <1>1, <2>1, SameTree DEF ReadSubtree, KeepState, ReadInv
<1>2. CASE MarkFolders(k)
  BY <1>0, <1>2, SameTree DEF MarkFolders, KeepState, ReadInv
<1>3. CASE MarkFiles(k)
  BY <1>0, <1>3, SameTree DEF MarkFiles, NoKeep, KeepState, ReadInv, Node
<1>4. CASE EmptyList(k)
  BY <1>0, <1>4, SameTree DEF EmptyList, KeepState, ReadInv
<1>5. CASE PurgeDelete(k)
  BY <1>0, <1>5, DeleteInv DEF PurgeDelete, NoKeep, KeepState, ReadInv, Node
<1>6. ASSUME NEW d \in Folders, EmptyDelete(k, d) PROVE IInv'
  BY <1>0, <1>6, DeleteInv DEF EmptyDelete, KeepState, ReadInv
<1>7. CASE EmptySweep(k)
  BY <1>0, <1>7, DeleteInv DEF EmptySweep, NoKeep, KeepState, ReadInv, Node
<1> QED BY <1>1, <1>2, <1>3, <1>4, <1>5, <1>6, <1>7 DEF KeepStep

\* The arrival of a trash, restore, purge or empty request.
LEMMA KeepStartInv ==
    ASSUME IInv, NEW k \in Keepers, NEW id \in Node, NEW pc \in {"read", "files"},
           NEW op \in {"trash", "restore", "purge", "empty"},
           pc = "read" => id \in Folders, KeepStart(k, op, id, pc)
    PROVE  IInv'
<1>1. kp \in [Keepers -> KeepState] /\ ReadInv /\ trashed \subseteq rows BY DEF IInv, TypeOK
<1> QED BY <1>1, SameTree DEF KeepStart, KeepState, ReadInv

\* Every step of the specification keeps the inductive invariant.
LEMMA StepInv == ASSUME OneMover, IInv, [Next]_vars PROVE IInv'
<1>0. Known \subseteq Folders /\ Folders \subseteq Node /\ Root \in Node
  BY DEF IInv, TypeOK, Known, Node
<1>1. CASE Arrive
  <2>1. ASSUME NEW d \in Folders, NEW p \in Node, CreateFolder(d, p) PROVE IInv'
    BY <2>1, CreateInv
  <2>2. ASSUME NEW m \in Movers, NEW id \in Known, NEW to \in Known, MoveStart(m, id, to)
        PROVE IInv'
    BY <2>2, MoveStartInv
  <2>3. ASSUME NEW k \in Keepers, NEW id \in Known,
               TrashStart(k, id) \/ RestoreStart(k, id) \/ PurgeStart(k, id)
        PROVE IInv'
    <3>1. PICK op \in {"trash", "restore", "purge"} : KeepStart(k, op, id, "read")
      BY <2>3 DEF TrashStart, RestoreStart, PurgeStart
    <3> QED BY <1>0, <3>1, KeepStartInv
  <2>4. ASSUME NEW k \in Keepers, EmptyStart(k) PROVE IInv'
    BY <1>0, <2>4, KeepStartInv DEF EmptyStart
  <2> QED BY <1>1, <2>1, <2>2, <2>3, <2>4 DEF Arrive, Node
<1>2. ASSUME NEW m \in Movers, MoveStep(m) PROVE IInv'
  BY <1>2, WalkStepInv, MoveUpdateInv DEF MoveStep
<1>3. ASSUME NEW k \in Keepers, KeepStep(k) PROVE IInv'
  BY <1>3, KeepStepInv
<1>4. CASE UNCHANGED vars
  <2>1. trashed \subseteq rows /\ kp \in [Keepers -> KeepState] /\ ReadInv
    BY DEF IInv, TypeOK
  <2> QED BY <1>4, <2>1, SameTree DEF vars, ReadInv
<1> QED BY <1>1, <1>2, <1>3, <1>4 DEF Next

\* With one move at a time every reachable state satisfies the invariant.
THEOREM Invariance == ASSUME OneMover PROVE Spec => []IInv
<1>1. IInv /\ [Next]_vars => IInv' BY StepInv
<1> QED BY InitInv, <1>1, PTL DEF Spec

\* MoveFolder's walk (files.go:134-154) keeps the folders a forest when moves do
\* not overlap, whatever is created, trashed, restored and purged meanwhile.
THEOREM ForestWithOneMover == ASSUME OneMover PROVE Spec => []TreeAcyclic
BY Invariance, PTL DEF IInv

\* The state keeps its types, and every parent_id names a row or is NULL.
THEOREM TypesAndParents == ASSUME OneMover PROVE Spec => [](TypeOK /\ ParentsExist)
BY Invariance, PTL DEF IInv
=============================================================================
