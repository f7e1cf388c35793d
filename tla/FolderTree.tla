------------------------------ MODULE FolderTree ------------------------------
(***************************************************************************)
(* The folder hierarchy of the catalog (table folders) and the requests    *)
(* that change it.  Every SQL statement is one atomic step; a handler that *)
(* issues several statements is a request that takes several steps, and    *)
(* the steps of concurrent requests interleave: internal/web serves every  *)
(* request on its own goroutine and internal/db opens no transaction here. *)
(*                                                                         *)
(* A row is never created twice under one identifier (generateID), so an   *)
(* identifier is unused, a row, or retired.                                *)
(***************************************************************************)
CONSTANTS Folders,   \* the identifiers generateID may hand out
          Root,      \* the NULL parent_id: a top level folder
          Movers,    \* the PATCH /api/folders requests that may be in flight at once
          Keepers    \* the trash, restore, purge and empty requests in flight at once

ASSUME RootAssumption == Root \notin Folders

VARIABLES rows,      \* the identifiers of the rows of table folders
          retired,   \* identifiers of deleted rows
          parent,    \* column parent_id
          trashed,   \* the rows whose deleted_at is not NULL
          mv,        \* the local state of MoveFolder, per mover
          kp         \* the local state of the trash handlers, per keeper

vars == <<rows, retired, parent, trashed, mv, kp>>

Known == rows \cup retired

-----------------------------------------------------------------------------
(* The shape of the tree. *)

ClosedBelow(S) == \A x \in rows : parent[x] \in S => x \in S

\* The rows of D and everything nested under them: what ON DELETE CASCADE
\* removes with them, and what the recursive query of DescendantFolderIDs finds.
Subtree(D) == {x \in rows : \A S \in SUBSET rows :
                               D \cap rows \subseteq S /\ ClosedBelow(S) => x \in S}

\* No set of folders in which everybody has its parent inside the set.
Acyclic(R) == \A S \in SUBSET R : S # {} => \E x \in S : parent[x] \notin S

\* The recursive query joins with UNION ALL: below a cycle it never ends.
QueryEnds(d) == Acyclic(Subtree({d}))

-----------------------------------------------------------------------------
NoMove == [pc |-> "idle", id |-> Root, to |-> Root, curr |-> Root, seen |-> {}]
NoKeep == [op |-> "none", pc |-> "idle", id |-> Root, todo |-> {}]

Init == /\ rows = {}
        /\ retired = {}
        /\ parent = [d \in Folders |-> Root]
        /\ trashed = {}
        /\ mv = [m \in Movers |-> NoMove]
        /\ kp = [k \in Keepers |-> NoKeep]

-----------------------------------------------------------------------------
(* POST /api/folders: one INSERT, refused by the foreign key when the      *)
(* parent has no row.  The parent may be in the trash.                     *)
ParentExists(p) == p = Root \/ p \in rows

CreateFolder(d, p) ==
    /\ d \in Folders \ Known
    /\ ParentExists(p)
    /\ rows' = rows \cup {d}
    /\ parent' = [parent EXCEPT ![d] = p]
    /\ UNCHANGED <<retired, trashed, mv, kp>>

-----------------------------------------------------------------------------
(* PATCH /api/folders/{id} with a parent_id: the walk towards the root     *)
(* reads one row per query, then one UPDATE moves the folder.              *)

MoveStart(m, id, to) ==
    /\ mv[m].pc = "idle"
    /\ id # to
    /\ mv' = [mv EXCEPT ![m] = [pc |-> "walk", id |-> id, to |-> to,
                                curr |-> to, seen |-> {}]]
    /\ UNCHANGED <<rows, retired, parent, trashed, kp>>

\* Fault: only the target's own parent is compared with the moved folder.
OwnDescendantOneLevel(m) == /\ mv[m].curr = mv[m].to
                            /\ mv[m].curr \in rows /\ parent[mv[m].curr] = mv[m].id

\* The walk found the moved folder among the ancestors of the target.
OwnDescendant(m) == mv[m].curr \in rows /\ parent[mv[m].curr] = mv[m].id

WalkReject(m) ==
    /\ mv[m].pc = "walk"
    /\ OwnDescendant(m)
    /\ mv' = [mv EXCEPT ![m] = NoMove]
    /\ UNCHANGED <<rows, retired, parent, trashed, kp>>

\* "seen" is a history variable: the folders whose parent_id the walk has read.
WalkUp(m) ==
    LET c == mv[m].curr IN
    /\ mv[m].pc = "walk"
    /\ c \in rows
    /\ ~OwnDescendant(m)
    /\ mv' = [mv EXCEPT ![m] = [@ EXCEPT
                 !.curr = parent[c], !.seen = mv[m].seen \cup {c},
                 !.pc = IF parent[c] = Root THEN "update" ELSE "walk"]]
    /\ UNCHANGED <<rows, retired, parent, trashed, kp>>

\* The row is gone: the read fails and the loop breaks.
WalkBreak(m) ==
    /\ mv[m].pc = "walk"
    /\ mv[m].curr \notin rows
    /\ mv' = [mv EXCEPT ![m].pc = "update"]
    /\ UNCHANGED <<rows, retired, parent, trashed, kp>>

\* The UPDATE touches no row when the folder is gone, and fails on the foreign
\* key when the new parent is.
MoveUpdate(m) ==
    LET id == mv[m].id
        to == mv[m].to
    IN  /\ mv[m].pc = "update"
        /\ parent' = IF id \in rows /\ ParentExists(to)
                     THEN [parent EXCEPT ![id] = to] ELSE parent
        /\ mv' = [mv EXCEPT ![m] = NoMove]
        /\ UNCHANGED <<rows, retired, trashed, kp>>

-----------------------------------------------------------------------------
(* DELETE /api/folders/{id} and POST /api/trash/restore: the subtree is    *)
(* read first, then its folders are marked, then the files inside it.  The *)
(* files are columns of another table: this module keeps the step.         *)

KeepStart(k, op, id, pc) ==
    /\ kp[k].pc = "idle"
    /\ kp' = [kp EXCEPT ![k] = [op |-> op, pc |-> pc, id |-> id, todo |-> {}]]
    /\ UNCHANGED <<rows, retired, parent, trashed, mv>>

TrashStart(k, id)   == id \in rows /\ KeepStart(k, "trash", id, "read")
RestoreStart(k, id) == id \in rows /\ KeepStart(k, "restore", id, "read")

\* DELETE /api/trash/folder/{id} checks neither that the folder exists nor
\* that it is in the trash.
PurgeStart(k, id) == id \in Known /\ KeepStart(k, "purge", id, "read")

ReadSubtree(k) ==
    /\ kp[k].pc = "read"
    /\ QueryEnds(kp[k].id)
    /\ kp' = [kp EXCEPT ![k] = [@ EXCEPT
                 !.todo = {kp[k].id} \cup Subtree({kp[k].id}),
                 !.pc = IF kp[k].op = "purge" THEN "files" ELSE "mark"]]
    /\ UNCHANGED <<rows, retired, parent, trashed, mv>>

MarkFolders(k) ==
    /\ kp[k].pc = "mark"
    /\ trashed' = IF kp[k].op = "trash" THEN trashed \cup (kp[k].todo \cap rows)
                                        ELSE trashed \ kp[k].todo
    /\ kp' = [kp EXCEPT ![k].pc = "files"]
    /\ UNCHANGED <<rows, retired, parent, mv>>

\* The UPDATE of the files, the end of a trash or restore request.
MarkFiles(k) ==
    /\ kp[k].op \in {"trash", "restore"} /\ kp[k].pc = "files"
    /\ kp' = [kp EXCEPT ![k] = NoKeep]
    /\ UNCHANGED <<rows, retired, parent, trashed, mv>>

-----------------------------------------------------------------------------
(* Deleting rows: the foreign key cascades to the whole subtree. *)

\* Fault: the foreign key without its ON DELETE CASCADE.
DeleteRowsNoCascade(D) ==
    /\ rows' = rows \ D
    /\ retired' = retired \cup (D \cap rows)
    /\ trashed' = trashed \ D
    /\ UNCHANGED <<parent, mv>>

DeleteRows(D) ==
    /\ rows' = rows \ Subtree(D)
    /\ retired' = retired \cup Subtree(D)
    /\ trashed' = trashed \ Subtree(D)
    /\ UNCHANGED <<parent, mv>>

\* DELETE /api/trash/folder/{id}, after the files of the subtree.
PurgeDelete(k) ==
    /\ kp[k].op = "purge" /\ kp[k].pc = "files"
    /\ DeleteRows({kp[k].id})
    /\ kp' = [kp EXCEPT ![k] = NoKeep]

\* DELETE /api/trash: the files are purged first (pc "files"), then the folders
\* listed by one query are deleted one by one, then whatever is still marked.
EmptyStart(k) == KeepStart(k, "empty", Root, "files")

EmptyList(k) ==
    /\ kp[k].op = "empty" /\ kp[k].pc = "files"
    /\ kp' = [kp EXCEPT ![k] = [@ EXCEPT !.todo = trashed, !.pc = "delete"]]
    /\ UNCHANGED <<rows, retired, parent, trashed, mv>>

EmptyDelete(k, d) ==
    /\ kp[k].pc = "delete" /\ d \in kp[k].todo
    /\ DeleteRows({d})
    /\ kp' = [kp EXCEPT ![k].todo = @ \ {d}]

EmptySweep(k) ==
    /\ kp[k].pc = "delete" /\ kp[k].todo = {}
    /\ DeleteRows(trashed)
    /\ kp' = [kp EXCEPT ![k] = NoKeep]

-----------------------------------------------------------------------------
MoveStep(m) == WalkReject(m) \/ WalkUp(m) \/ WalkBreak(m) \/ MoveUpdate(m)

KeepStep(k) == \/ ReadSubtree(k) \/ MarkFolders(k) \/ MarkFiles(k)
               \/ PurgeDelete(k)
               \/ EmptyList(k) \/ (\E d \in Folders : EmptyDelete(k, d)) \/ EmptySweep(k)

Arrive == \/ \E d \in Folders, p \in Folders \cup {Root} : CreateFolder(d, p)
          \/ \E m \in Movers, id, to \in Known : MoveStart(m, id, to)
          \/ \E k \in Keepers, id \in Known :
                TrashStart(k, id) \/ RestoreStart(k, id) \/ PurgeStart(k, id)
          \/ \E k \in Keepers : EmptyStart(k)

Next == \/ Arrive
        \/ \E m \in Movers : MoveStep(m)
        \/ \E k \in Keepers : KeepStep(k)

Spec == Init /\ [][Next]_vars

\* A goroutine that is ready to run its next statement runs it: the driver's
\* busy timeout and SQLite's single writer only delay a statement.  Requests
\* need not arrive.
Fairness == /\ \A m \in Movers : WF_vars(MoveStep(m))
            /\ \A k \in Keepers : WF_vars(KeepStep(k))

FairSpec == Spec /\ Fairness
-----------------------------------------------------------------------------
Node == Folders \cup {Root}

MoveState == [pc : {"idle", "walk", "update"}, id : Node, to : Node, curr : Node,
              seen : SUBSET Folders]

KeepState == [op : {"none", "trash", "restore", "purge", "empty"},
              pc : {"idle", "read", "mark", "files", "delete"},
              id : Node, todo : SUBSET Folders]

TypeOK ==
    /\ rows \subseteq Folders
    /\ retired \subseteq Folders
    /\ parent \in [Folders -> Node]
    /\ trashed \subseteq rows
    /\ mv \in [Movers -> MoveState]
    /\ kp \in [Keepers -> KeepState]

\* Every parent_id names a row or is NULL, whatever is deleted while folders are
\* created and moved (the foreign key of db.go:22, enabled in the DSN).
ParentsExist == \A d \in rows : parent[d] \in rows \cup {Root}

\* MoveFolder's walk keeps the folders a forest: no folder is its own ancestor.
TreeAcyclic == Acyclic(rows)

\* Every move, trash, restore, purge and empty request is answered: no walk and
\* no recursive query runs for ever.
RequestsEnd == /\ \A m \in Movers : mv[m].pc # "idle" ~> mv[m].pc = "idle"
               /\ \A k \in Keepers : kp[k].pc # "idle" ~> kp[k].pc = "idle"
=============================================================================
