---------------------------- MODULE Catalog_proofs ----------------------------
(***************************************************************************)
(* Proofs about MCCatalog, the module of the run Catalog, for any number   *)
(* of files, versions, messages, folders and requests: the types and the   *)
(* references, and that messages stay with the files they are behind,      *)
(* through crashes too.                                                    *)
(***************************************************************************)
EXTENDS MCCatalog, TLAPS

-----------------------------------------------------------------------------
(* Types, and the rows that others name.                                   *)

VersionRow == [st : {"free", "row", "gone"}, file : Files \cup {NoId},
               name : Names \cup {NoName}, msg : Messages \cup {NoId}]

Request == [op : {"none", "copy", "purge", "finish", "restorev", "deletev"},
            pc : {"idle", "insert", "message", "versions", "row", "send", "find",
                  "archive", "replace", "create", "promote", "drop"},
            f : Files \cup {NoId}, v : Versions \cup {NoId},
            cur : Snapshot, new : Snapshot]

Purge == [folders : SUBSET Folders, files : SUBSET Files, swept : BOOLEAN]

\* A request that is about to read a subtree was given a folder.
TreeTyped == Tree!TypeOK /\ \A k \in Keepers : kp[k].pc = "read" => kp[k].id \in Folders

RequestsTyped == rq \in [Workers \cup Keepers -> Request] /\ pg \in [Keepers -> Purge]

RowsInv == /\ file \in [Files -> Snapshot] /\ version \in [Versions -> VersionRow]
           /\ channel \in [Messages -> {"free", "there", "deleted"}]
           /\ byHand \subseteq FileRows /\ ReferencesResolve

RowsAre == TreeTyped /\ RequestsTyped /\ RowsInv

\* Together these are the types and the references.
LEMMA RowsResolved == RowsAre => RowsResolve
BY DEF RowsAre, TreeTyped, RequestsTyped, RowsInv, RowsResolve, TypeOK, VersionRow, Request, Purge

\* The rows and requests that code makes up.
LEMMA NewRecords ==
    /\ NoFile \in Snapshot /\ GoneFile \in Snapshot
    /\ NoVersion \in VersionRow /\ GoneVersion \in VersionRow
    /\ NoRequest \in Request /\ NoPurge \in Purge
    /\ GoneFile.st = "gone" /\ GoneVersion.st = "gone"
<1>1. NoFile \in Snapshot /\ GoneFile \in Snapshot /\ GoneFile.st = "gone"
  BY DEF NoFile, GoneFile, Snapshot
<1>2. NoVersion \in VersionRow /\ GoneVersion \in VersionRow /\ GoneVersion.st = "gone"
  BY DEF NoVersion, GoneVersion, VersionRow
<1>3. NoRequest \in Request
  BY <1>1 DEF NoRequest, Request
<1>4. NoPurge \in Purge
  BY DEF NoPurge, Purge
<1>5. QED
  BY <1>1, <1>2, <1>3, <1>4

LEMMA RowsInit == Init => RowsAre
<1> SUFFICES ASSUME Init PROVE RowsAre
  OBVIOUS
<1>1. TreeTyped
  <2>1. /\ rows = Folders /\ retired = {} /\ trashed = {} /\ parent \in [Folders -> Folders \cup {Root}]
        /\ mv = [m \in Movers |-> Tree!NoMove] /\ kp = [k \in Keepers |-> Tree!NoKeep]
    BY DEF Init
  <2>2. Tree!NoMove \in Tree!MoveState /\ Tree!NoKeep \in Tree!KeepState /\ Tree!NoKeep.pc = "idle"
    BY DEF Tree!NoMove, Tree!MoveState, Tree!NoKeep, Tree!KeepState, Tree!Node
  <2>3. QED
    BY <2>1, <2>2 DEF TreeTyped, Tree!TypeOK, Tree!Node
<1>2. RequestsTyped
  BY NewRecords DEF Init, RequestsTyped
<1>3. RowsInv
  <2>1. file = [f \in Files |-> NoFile] /\ version = [v \in Versions |-> NoVersion]
        /\ channel = [m \in Messages |-> "free"] /\ byHand = {}
    BY DEF Init
  <2>2. FileRows = {} /\ VersionRows = {}
    BY <2>1 DEF FileRows, VersionRows, NoFile, NoVersion
  <2>3. QED
    BY <2>1, <2>2, NewRecords DEF RowsInv, ReferencesResolve
<1>4. QED
  BY <1>1, <1>2, <1>3 DEF RowsAre

\* A request begins, goes on or is over.
LEMMA RequestMoves ==
    ASSUME RequestsTyped, NEW w \in Workers \cup Keepers, NEW q \in Request, pg' = pg,
           rq' = [rq EXCEPT ![w] = q]
    PROVE  RequestsTyped'
BY DEF RequestsTyped

LEMMA RequestGoes ==
    ASSUME RequestsTyped, NEW w \in Workers \cup Keepers, pg' = pg,
           \/ Done(w)
           \/ \E p \in {"versions", "row", "create", "replace", "promote", "drop"} : Goto(w, p)
    PROVE  RequestsTyped'
<1>1. CASE Done(w)
  BY <1>1, NewRecords, RequestMoves DEF Done
<1>2. ASSUME NEW p \in {"versions", "row", "create", "replace", "promote", "drop"}, Goto(w, p)
      PROVE  RequestsTyped'
  <2>1. PICK q : q = [rq[w] EXCEPT !.pc = p]
    OBVIOUS
  <2>2. q \in Request
    BY <2>1 DEF RequestsTyped, Request
  <2>3. rq' = [rq EXCEPT ![w] = q]
    BY <1>2, <2>1 DEF Goto
  <2>4. QED
    BY <2>2, <2>3, RequestMoves
<1>3. QED
  BY <1>1, <1>2

\* What a row may become.
LEMMA SnapshotOf ==
    ASSUME NEW r \in Snapshot, NEW d \in Folders \cup {Root}, NEW n \in Names \cup {NoName},
           NEW m \in Messages \cup {NoId}
    PROVE  /\ [r EXCEPT !.folder = d] \in Snapshot /\ [r EXCEPT !.name = n] \in Snapshot
           /\ [r EXCEPT !.msg = m] \in Snapshot
           /\ [r EXCEPT !.folder = d, !.name = n] \in Snapshot
           /\ [r EXCEPT !.name = n, !.msg = m] \in Snapshot
BY DEF Snapshot

LEMMA Marked ==
    ASSUME NEW r \in Snapshot, NEW b \in BOOLEAN
    PROVE  /\ [r EXCEPT !.trashed = b] \in Snapshot
           /\ [r EXCEPT !.trashed = b].st = r.st /\ [r EXCEPT !.trashed = b].folder = r.folder
           /\ [r EXCEPT !.trashed = b].msg = r.msg
BY DEF Snapshot

\* A row that is there is changed.
LEMMA RowChanged ==
    ASSUME RowsInv, NEW f \in FileRows, NEW r \in Snapshot, file' = [file EXCEPT ![f] = r],
           r.st = "row", r.folder \in rows \cup {Root},
           byHand' \in {byHand, byHand \cup {f}, byHand \ {f}},
           UNCHANGED <<rows, version, channel>>
    PROVE  RowsInv'
<1>1. FileRows' = FileRows /\ VersionRows' = VersionRows
  BY DEF RowsInv, FileRows, VersionRows
<1>2. \A g \in FileRows : file'[g] = file[g] \/ file'[g] = r
  BY DEF RowsInv, FileRows
<1>3. QED
  BY <1>1, <1>2 DEF RowsInv, ReferencesResolve, FileRows

\* INSERT INTO files.
LEMMA RowInserted ==
    ASSUME RowsInv, NEW new \in Snapshot, InsertFile(new), UNCHANGED <<rows, version, channel, byHand>>
    PROVE  RowsInv'
<1>1. CASE ~FolderExists(new.folder)
  BY <1>1 DEF InsertFile, RowsInv, ReferencesResolve, FileRows, VersionRows
<1>2. CASE FolderExists(new.folder)
  <2>1. FreeFile \in Files /\ file[FreeFile].st = "free" /\ FreeFile \notin FileRows
    BY <1>2 DEF InsertFile, FreeFile, FreeFiles, FileRows
  <2>2. PICK r : r = [new EXCEPT !.st = "row", !.trashed = FALSE]
    OBVIOUS
  <2>3. r \in Snapshot /\ r.st = "row" /\ r.folder \in rows \cup {Root}
    BY <1>2, <2>2 DEF Snapshot, FolderExists, Tree!ParentExists
  <2>4. file' = [file EXCEPT ![FreeFile] = r]
    BY <1>2, <2>2 DEF InsertFile
  <2>5. FileRows' = FileRows \cup {FreeFile} /\ VersionRows' = VersionRows
    BY <2>1, <2>3, <2>4 DEF RowsInv, FileRows, VersionRows
  <2>6. QED
    BY <2>1, <2>3, <2>4, <2>5 DEF RowsInv, ReferencesResolve
<1>3. QED
  BY <1>1, <1>2

\* INSERT INTO file_versions.
LEMMA VersionInserted ==
    ASSUME RowsInv, NEW f \in FileRows, NEW r \in Snapshot, ArchiveVersion(f, r),
           UNCHANGED <<rows, file, channel, byHand>>
    PROVE  RowsInv'
<1>1. FreeVersion \in Versions /\ FreeVersion \notin VersionRows
  BY DEF ArchiveVersion, FreeVersion, FreeVersions, VersionRows
<1>2. PICK q : q = [st |-> "row", file |-> f, name |-> r.name, msg |-> r.msg]
  OBVIOUS
<1>3. q \in VersionRow /\ q.st = "row" /\ q.file = f
  BY <1>2 DEF VersionRow, Snapshot, FileRows
<1>4. version' = [version EXCEPT ![FreeVersion] = q]
  BY <1>2 DEF ArchiveVersion
<1>5. VersionRows' = VersionRows \cup {FreeVersion} /\ FileRows' = FileRows
  BY <1>1, <1>3, <1>4 DEF RowsInv, VersionRows, FileRows
<1>6. QED
  BY <1>1, <1>3, <1>4, <1>5 DEF RowsInv, ReferencesResolve

\* DELETE FROM file_versions.
LEMMA VersionsDeleted ==
    ASSUME RowsInv, UNCHANGED <<rows, file, channel, byHand>>,
           \/ \E F : DeleteVersionsOf(F)
           \/ \E v : version' = [version EXCEPT ![v] = GoneVersion]
    PROVE  RowsInv'
<1>1. /\ version' \in [Versions -> VersionRow]
      /\ \A v \in Versions : version'[v] = version[v] \/ version'[v].st = "gone"
  BY NewRecords DEF RowsInv, DeleteVersionsOf
<1>2. FileRows' = FileRows
  BY DEF FileRows
<1>3. \A v \in VersionRows' : v \in VersionRows /\ version'[v] = version[v]
  BY <1>1 DEF VersionRows
<1>4. QED
  BY <1>1, <1>2, <1>3 DEF RowsInv, ReferencesResolve, FileRows

\* DELETE FROM files: no version is left whose file has gone.
LEMMA FilesDeleted ==
    ASSUME RowsInv, NEW F, DeleteFiles(F), UNCHANGED <<rows, channel>>
    PROVE  RowsInv'
<1>1. /\ file' \in [Files -> Snapshot] /\ version' \in [Versions -> VersionRow]
      /\ \A f \in Files : file'[f] = IF f \in F \cap FileRows THEN GoneFile ELSE file[f]
      /\ \A v \in Versions : version'[v] = IF v \in VersionRows /\ version[v].file \in F
                                           THEN GoneVersion ELSE version[v]
      /\ byHand' = byHand \ F
  BY NewRecords DEF RowsInv, DeleteFiles, DeleteVersionsOf
<1>2. FileRows' = FileRows \ F
  BY <1>1, NewRecords DEF FileRows
<1>3. VersionRows' = {v \in VersionRows : version[v].file \notin F}
  BY <1>1, NewRecords DEF VersionRows
<1>4. QED
  BY <1>1, <1>2, <1>3 DEF RowsInv, ReferencesResolve, FileRows, VersionRows

\* ON DELETE SET NULL: the files of deleted folders are at the root.
LEMMA FoldersDeleted ==
    ASSUME RowsInv, NEW D, Detach(D), rows' = rows \ Tree!Subtree(D),
           UNCHANGED <<version, channel, byHand>>
    PROVE  RowsInv' /\ FileRows' = FileRows
<1>1. \A f \in Files : file'[f] = IF f \in FileRows /\ file[f].folder \in Tree!Subtree(D)
                                  THEN [file[f] EXCEPT !.folder = Root] ELSE file[f]
  BY DEF Detach
<1>2. \A r \in Snapshot : /\ [r EXCEPT !.folder = Root] \in Snapshot
                          /\ [r EXCEPT !.folder = Root].folder = Root
                          /\ [r EXCEPT !.folder = Root].st = r.st
  BY DEF Snapshot
<1>3. file' \in [Files -> Snapshot] /\ \A f \in Files : file'[f].st = file[f].st
  BY <1>1, <1>2 DEF RowsInv, Detach
<1>4. FileRows' = FileRows /\ VersionRows' = VersionRows
  BY <1>3 DEF FileRows, VersionRows
<1>5. ASSUME NEW f \in FileRows PROVE file'[f].folder \in rows' \cup {Root}
  <2>1. f \in Files /\ file[f] \in Snapshot /\ file[f].folder \in rows \cup {Root}
    BY DEF RowsInv, ReferencesResolve, FileRows
  <2>2. CASE file[f].folder \in Tree!Subtree(D)
    BY <1>1, <1>2, <2>1, <2>2
  <2>3. CASE file[f].folder \notin Tree!Subtree(D)
    BY <1>1, <2>1, <2>3
  <2>4. QED
    BY <2>2, <2>3
<1>6. QED
  BY <1>3, <1>4, <1>5 DEF RowsInv, ReferencesResolve

-----------------------------------------------------------------------------
(* The folder steps keep the types of the folders.                         *)

\* A request of FolderTree begins.
LEMMA FolderArrives ==
    ASSUME TreeTyped, NEW k \in Keepers, NEW id \in Tree!Known,
           Tree!TrashStart(k, id) \/ Tree!RestoreStart(k, id) \/ Tree!PurgeStart(k, id) \/ Tree!EmptyStart(k)
    PROVE  TreeTyped' /\ rows' = rows
<1>1. id \in Folders
  BY DEF TreeTyped, Tree!TypeOK, Tree!Known
<1>2. PICK q : /\ \/ \E op \in {"trash", "restore", "purge"} :
                        q = [op |-> op, pc |-> "read", id |-> id, todo |-> {}]
                  \/ q = [op |-> "empty", pc |-> "files", id |-> Root, todo |-> {}]
               /\ kp' = [kp EXCEPT ![k] = q]
  BY DEF Tree!TrashStart, Tree!RestoreStart, Tree!PurgeStart, Tree!EmptyStart, Tree!KeepStart
<1>3. q \in Tree!KeepState /\ (q.pc = "read" => q.id \in Folders)
  BY <1>1, <1>2 DEF Tree!KeepState, Tree!Node
<1>4. UNCHANGED <<rows, retired, parent, trashed, mv>>
  BY DEF Tree!TrashStart, Tree!RestoreStart, Tree!PurgeStart, Tree!EmptyStart, Tree!KeepStart
<1>5. QED
  BY <1>2, <1>3, <1>4 DEF TreeTyped, Tree!TypeOK, Tree!Node

\* It reads a subtree, marks folders, or lists the trash.
LEMMA FolderGoes ==
    ASSUME TreeTyped, NEW k \in Keepers,
           Tree!ReadSubtree(k) \/ Tree!MarkFolders(k) \/ Tree!MarkFiles(k) \/ Tree!EmptyList(k)
    PROVE  TreeTyped' /\ rows' = rows
<1> DEFINE q == kp'[k]
<1>1. kp[k] \in Tree!KeepState /\ trashed \subseteq rows /\ rows \subseteq Folders
  BY DEF TreeTyped, Tree!TypeOK
<1>2. kp' = [kp EXCEPT ![k] = q] /\ q \in Tree!KeepState /\ q.pc # "read"
  <2>1. CASE Tree!ReadSubtree(k)
    <3>1. PICK r : r = [kp[k] EXCEPT !.todo = {kp[k].id} \cup Tree!Subtree({kp[k].id}),
                                     !.pc = IF kp[k].op = "purge" THEN "files" ELSE "mark"]
      OBVIOUS
    <3>2. kp[k].id \in Folders /\ Tree!Subtree({kp[k].id}) \subseteq Folders
      BY <1>1, <2>1 DEF TreeTyped, Tree!ReadSubtree, Tree!Subtree
    <3>3. r \in Tree!KeepState /\ r.pc # "read"
      BY <1>1, <3>1, <3>2 DEF Tree!KeepState
    <3>4. kp' = [kp EXCEPT ![k] = r]
      BY <2>1, <3>1 DEF Tree!ReadSubtree
    <3>5. QED
      BY <3>3, <3>4 DEF TreeTyped, Tree!TypeOK
  <2>2. CASE Tree!MarkFolders(k)
    <3>1. PICK r : r = [kp[k] EXCEPT !.pc = "files"]
      OBVIOUS
    <3>2. r \in Tree!KeepState /\ r.pc # "read" /\ kp' = [kp EXCEPT ![k] = r]
      BY <1>1, <2>2, <3>1 DEF Tree!KeepState, Tree!MarkFolders
    <3>3. QED
      BY <3>2 DEF TreeTyped, Tree!TypeOK
  <2>3. CASE Tree!MarkFiles(k)
    <3>1. Tree!NoKeep \in Tree!KeepState /\ Tree!NoKeep.pc # "read"
      BY DEF Tree!NoKeep, Tree!KeepState, Tree!Node
    <3>2. QED
      BY <2>3, <3>1 DEF TreeTyped, Tree!TypeOK, Tree!MarkFiles
  <2>4. CASE Tree!EmptyList(k)
    <3>1. PICK r : r = [kp[k] EXCEPT !.todo = trashed, !.pc = "delete"]
      OBVIOUS
    <3>2. r \in Tree!KeepState /\ r.pc # "read" /\ kp' = [kp EXCEPT ![k] = r]
      BY <1>1, <2>4, <3>1 DEF Tree!KeepState, Tree!EmptyList
    <3>3. QED
      BY <3>2 DEF TreeTyped, Tree!TypeOK
  <2>5. QED
    BY <2>1, <2>2, <2>3, <2>4
<1>3. UNCHANGED <<rows, retired, parent, mv>> /\ trashed' \subseteq rows'
  BY <1>1 DEF Tree!ReadSubtree, Tree!MarkFolders, Tree!MarkFiles, Tree!EmptyList
<1>4. kp' \in [Keepers -> Tree!KeepState] /\ \A u \in Keepers : kp'[u].pc = "read" => kp'[u].id \in Folders
  BY <1>2 DEF TreeTyped, Tree!TypeOK
<1>5. QED
  BY <1>3, <1>4 DEF TreeTyped, Tree!TypeOK, Tree!Node

\* It deletes folders.
LEMMA FolderDeletes ==
    ASSUME TreeTyped, NEW k \in Keepers, NEW D, Tree!DeleteRows(D),
           kp' = [kp EXCEPT ![k] = Tree!NoKeep] \/ \E d \in Folders : kp' = [kp EXCEPT ![k].todo = @ \ {d}]
    PROVE  TreeTyped' /\ rows' = rows \ Tree!Subtree(D)
<1>1. Tree!Subtree(D) \subseteq rows
  BY DEF Tree!Subtree
<1>2. /\ rows' \subseteq Folders /\ retired' \subseteq Folders /\ trashed' \subseteq rows'
      /\ UNCHANGED <<parent, mv>> /\ rows' = rows \ Tree!Subtree(D)
  BY <1>1 DEF Tree!DeleteRows, TreeTyped, Tree!TypeOK
<1>3. kp' \in [Keepers -> Tree!KeepState] /\ \A u \in Keepers : kp'[u].pc = "read" => kp'[u].id \in Folders
  <2>1. CASE kp' = [kp EXCEPT ![k] = Tree!NoKeep]
    BY <2>1 DEF TreeTyped, Tree!TypeOK, Tree!NoKeep, Tree!KeepState, Tree!Node
  <2>2. ASSUME NEW d \in Folders, kp' = [kp EXCEPT ![k].todo = @ \ {d}]
        PROVE  /\ kp' \in [Keepers -> Tree!KeepState]
               /\ \A u \in Keepers : kp'[u].pc = "read" => kp'[u].id \in Folders
    <3>1. PICK r : r = [kp[k] EXCEPT !.todo = kp[k].todo \ {d}]
      OBVIOUS
    <3>2. kp[k] \in Tree!KeepState
      BY DEF TreeTyped, Tree!TypeOK
    <3>3. r \in Tree!KeepState /\ r.pc = kp[k].pc /\ r.id = kp[k].id
      BY <3>1, <3>2 DEF Tree!KeepState
    <3>4. kp' = [kp EXCEPT ![k] = r]
      BY <2>2, <3>1 DEF TreeTyped, Tree!TypeOK
    <3>5. QED
      BY <3>3, <3>4 DEF TreeTyped, Tree!TypeOK
  <2>3. QED
    BY <2>1, <2>2
<1>4. QED
  BY <1>2, <1>3 DEF TreeTyped, Tree!TypeOK, Tree!Node

-----------------------------------------------------------------------------
(* Every step keeps the types and the references.                          *)

\* Statements on one row.
LEMMA OneRow ==
    ASSUME RowsAre, NEW f \in Files,
           \/ TrashFile(f) \/ RestoreFile(f)
           \/ \E d \in Folders \cup {Root} : MoveFile(f, d)
           \/ \E n \in Names : RenameFile(f, n)
    PROVE  RowsAre'
<1>1. f \in FileRows /\ UNCHANGED <<treeVars, version, channel, rq, pg>>
  BY DEF TrashFile, RestoreFile, MoveFile, RenameFile, LiveFiles
<1>2. file[f] \in Snapshot /\ file[f].st = "row" /\ file[f].folder \in rows \cup {Root}
  BY <1>1 DEF RowsAre, RowsInv, ReferencesResolve, FileRows
<1>3. \E r \in Snapshot : /\ file' = [file EXCEPT ![f] = r]
                          /\ r.st = "row" /\ r.folder \in rows \cup {Root}
  <2>1. CASE TrashFile(f)
    <3>1. PICK r : r = [file[f] EXCEPT !.trashed = TRUE]
      OBVIOUS
    <3>2. r \in Snapshot /\ r.st = "row" /\ r.folder = file[f].folder
      BY <1>2, <3>1 DEF Snapshot
    <3>3. QED
      BY <1>2, <2>1, <3>1, <3>2 DEF TrashFile
  <2>2. CASE RestoreFile(f)
    <3>1. PICK r : r = [file[f] EXCEPT !.trashed = FALSE]
      OBVIOUS
    <3>2. r \in Snapshot /\ r.st = "row" /\ r.folder = file[f].folder
      BY <1>2, <3>1 DEF Snapshot
    <3>3. QED
      BY <1>2, <2>2, <3>1, <3>2 DEF RestoreFile
  <2>3. ASSUME NEW d \in Folders \cup {Root}, MoveFile(f, d)
        PROVE  \E r \in Snapshot : /\ file' = [file EXCEPT ![f] = r]
                                   /\ r.st = "row" /\ r.folder \in rows \cup {Root}
    <3>1. PICK r : r = [file[f] EXCEPT !.folder = d]
      OBVIOUS
    <3>2. r \in Snapshot /\ r.st = "row" /\ r.folder \in rows \cup {Root}
      BY <1>2, <2>3, <3>1 DEF Snapshot, MoveFile, FolderExists, Tree!ParentExists
    <3>3. QED
      BY <2>3, <3>1, <3>2 DEF MoveFile
  <2>4. ASSUME NEW n \in Names, RenameFile(f, n)
        PROVE  \E r \in Snapshot : /\ file' = [file EXCEPT ![f] = r]
                                   /\ r.st = "row" /\ r.folder \in rows \cup {Root}
    <3>1. PICK r : r = [file[f] EXCEPT !.name = n]
      OBVIOUS
    <3>2. r \in Snapshot /\ r.st = "row" /\ r.folder = file[f].folder
      BY <1>2, <3>1 DEF Snapshot
    <3>3. QED
      BY <1>2, <2>4, <3>1, <3>2 DEF RenameFile
  <2>5. QED
    BY <2>1, <2>2, <2>3, <2>4
<1>4. byHand' \in {byHand, byHand \cup {f}, byHand \ {f}}
  BY DEF TrashFile, RestoreFile, MoveFile, RenameFile
<1>5. RowsInv'
  BY <1>1, <1>3, <1>4, RowChanged DEF RowsAre, treeVars
<1>6. TreeTyped' /\ RequestsTyped'
  BY <1>1 DEF RowsAre, treeVars, TreeTyped, Tree!TypeOK, RequestsTyped
<1>7. QED
  BY <1>5, <1>6 DEF RowsAre

\* Nothing but the requests changes.
LEMMA OnlyRequests ==
    ASSUME RowsAre, UNCHANGED <<treeVars, file, version, channel, byHand>>, RequestsTyped'
    PROVE  RowsAre'
<1>1. FileRows' = FileRows /\ VersionRows' = VersionRows
  BY DEF FileRows, VersionRows
<1>2. QED
  BY <1>1 DEF RowsAre, treeVars, TreeTyped, Tree!TypeOK, RowsInv, ReferencesResolve

\* The folders stay.
LEMMA FoldersStay == TreeTyped /\ UNCHANGED treeVars => TreeTyped' /\ rows' = rows
BY DEF treeVars, TreeTyped, Tree!TypeOK

\* A request begins.
LEMMA Begins ==
    ASSUME RowsAre, NEW w \in Workers \cup Keepers,
           \/ \E f \in Files : \/ PurgeStart(w, f)
                               \/ \E d \in Folders \cup {Root}, n \in Names : CopyStart(w, f, d, n)
           \/ \E d \in Folders \cup {Root}, n \in Names : FinishStart(w, d, n)
           \/ \E v \in Versions : RestoreVersionStart(w, v) \/ DeleteVersionStart(w, v)
    PROVE  RowsAre'
<1>1. UNCHANGED <<treeVars, file, version, channel, pg, byHand>>
  BY DEF PurgeStart, CopyStart, FinishStart, RestoreVersionStart, DeleteVersionStart
<1>2. NoRequest \in Request /\ NoFile \in Snapshot
  BY NewRecords
<1>3. \A g \in Files : file[g] \in Snapshot
  BY DEF RowsAre, RowsInv
<1>4. \E q \in Request : rq' = [rq EXCEPT ![w] = q]
  <2>1. ASSUME NEW f \in Files, PurgeStart(w, f)
        PROVE  \E q \in Request : rq' = [rq EXCEPT ![w] = q]
    <3>1. PICK q : q = PurgeRequest(f)
      OBVIOUS
    <3>2. q \in Request
      BY <1>2, <1>3, <3>1 DEF PurgeRequest, Request
    <3>3. QED
      BY <2>1, <3>1, <3>2 DEF PurgeStart, Begin
  <2>2. ASSUME NEW f \in Files, NEW d \in Folders \cup {Root}, NEW n \in Names, CopyStart(w, f, d, n)
        PROVE  \E q \in Request : rq' = [rq EXCEPT ![w] = q]
    <3>1. PICK s : s = [file[f] EXCEPT !.folder = d, !.name = n]
      OBVIOUS
    <3>2. s \in Snapshot
      BY <1>3, <3>1 DEF Snapshot
    <3>3. PICK q : q = [NoRequest EXCEPT !.op = "copy", !.pc = "insert", !.new = s]
      OBVIOUS
    <3>4. q \in Request
      BY <1>2, <3>2, <3>3 DEF Request
    <3>5. QED
      BY <2>2, <3>1, <3>3, <3>4 DEF CopyStart, Begin
  <2>3. ASSUME NEW d \in Folders \cup {Root}, NEW n \in Names, FinishStart(w, d, n)
        PROVE  \E q \in Request : rq' = [rq EXCEPT ![w] = q]
    <3>1. PICK s : s = [NoFile EXCEPT !.folder = d, !.name = n]
      OBVIOUS
    <3>2. s \in Snapshot
      BY <1>2, <3>1 DEF Snapshot
    <3>3. PICK q : q = [NoRequest EXCEPT !.op = "finish", !.pc = "send", !.new = s]
      OBVIOUS
    <3>4. q \in Request
      BY <1>2, <3>2, <3>3 DEF Request
    <3>5. QED
      BY <2>3, <3>1, <3>3, <3>4 DEF FinishStart, Begin
  <2>4. ASSUME NEW v \in Versions, RestoreVersionStart(w, v)
        PROVE  \E q \in Request : rq' = [rq EXCEPT ![w] = q]
    <3>1. PICK s : s = [NoFile EXCEPT !.name = version[v].name, !.msg = version[v].msg]
      OBVIOUS
    <3>2. version[v] \in VersionRow /\ version[v].file \in Files
      BY <2>4 DEF RestoreVersionStart, RowsAre, RowsInv, LiveFiles, FileRows
    <3>3. s \in Snapshot
      BY <1>2, <3>1, <3>2 DEF Snapshot, VersionRow
    <3>4. PICK q : q = [NoRequest EXCEPT !.op = "restorev", !.pc = "archive", !.v = v,
                          !.f = version[v].file, !.cur = file[version[v].file], !.new = s]
      OBVIOUS
    <3>5. q \in Request
      BY <1>2, <1>3, <3>2, <3>3, <3>4 DEF Request
    <3>6. QED
      BY <2>4, <3>1, <3>4, <3>5 DEF RestoreVersionStart, Begin
  <2>5. ASSUME NEW v \in Versions, DeleteVersionStart(w, v)
        PROVE  \E q \in Request : rq' = [rq EXCEPT ![w] = q]
    <3>1. PICK s : s = [NoFile EXCEPT !.msg = version[v].msg]
      OBVIOUS
    <3>2. version[v] \in VersionRow
      BY <2>5 DEF RowsAre, RowsInv
    <3>3. s \in Snapshot
      BY <1>2, <3>1, <3>2 DEF Snapshot, VersionRow
    <3>4. PICK q : q = [NoRequest EXCEPT !.op = "deletev", !.pc = "message", !.v = v, !.cur = s]
      OBVIOUS
    <3>5. q \in Request
      BY <1>2, <3>3, <3>4 DEF Request
    <3>6. QED
      BY <2>5, <3>1, <3>4, <3>5 DEF DeleteVersionStart, Begin
  <2>6. QED
    BY <2>1, <2>2, <2>3, <2>4, <2>5
<1>5. RequestsTyped'
  BY <1>1, <1>4, RequestMoves DEF RowsAre
<1>6. QED
  BY <1>1, <1>5, OnlyRequests

\* A purge goes on.
LEMMA PurgeGoes ==
    ASSUME RowsAre, NEW w \in Workers \cup Keepers, PurgeStep(w)
    PROVE  RowsAre'
<1>1. CASE PurgeMessage(w)
  <2>1. channel' \in [Messages -> {"free", "there", "deleted"}]
    BY <1>1 DEF PurgeMessage, DeleteMessage, RowsAre, RowsInv
  <2>2. UNCHANGED <<treeVars, file, version, pg, byHand>> /\ Goto(w, "versions")
    BY <1>1 DEF PurgeMessage
  <2>3. RequestsTyped' /\ TreeTyped' /\ rows' = rows
    BY <2>2, RequestGoes, FoldersStay DEF RowsAre
  <2>4. RowsInv'
    BY <2>1, <2>2, <2>3 DEF RowsAre, RowsInv, ReferencesResolve, FileRows, VersionRows
  <2>5. QED
    BY <2>3, <2>4 DEF RowsAre
<1>2. CASE PurgeVersions(w)
  <2>1. UNCHANGED <<treeVars, file, channel, pg, byHand>> /\ Goto(w, "row") /\ DeleteVersionsOf({rq[w].f})
    BY <1>2 DEF PurgeVersions
  <2>2. RequestsTyped' /\ TreeTyped' /\ rows' = rows
    BY <2>1, RequestGoes, FoldersStay DEF RowsAre
  <2>3. RowsInv'
    BY <2>1, <2>2, VersionsDeleted DEF RowsAre
  <2>4. QED
    BY <2>2, <2>3 DEF RowsAre
<1>3. CASE PurgeRow(w)
  <2>1. UNCHANGED <<treeVars, channel, pg>> /\ Done(w) /\ DeleteFiles({rq[w].f})
    BY <1>3 DEF PurgeRow
  <2>2. RequestsTyped' /\ TreeTyped' /\ rows' = rows
    BY <2>1, RequestGoes, FoldersStay DEF RowsAre
  <2>3. RowsInv'
    BY <2>1, <2>2, FilesDeleted DEF RowsAre
  <2>4. QED
    BY <2>2, <2>3 DEF RowsAre
<1>4. QED
  BY <1>1, <1>2, <1>3 DEF PurgeStep

\* A copy or an upload goes on.
LEMMA UploadGoes ==
    ASSUME RowsAre, NEW w \in Workers,
           \/ CopyInsert(w) \/ FinishFail(w) \/ FinishFind(w)
           \/ FinishArchive(w) \/ FinishReplace(w) \/ FinishCreate(w)
           \/ \E m \in Messages : FinishSend(w, m)
    PROVE  RowsAre'
<1> USE DEF RowsAre
<1>r. rq[w] \in Request /\ rq[w].new \in Snapshot /\ rq[w].cur \in Snapshot
  BY DEF RequestsTyped, Request
<1>1. CASE CopyInsert(w) \/ FinishCreate(w)
  <2>1. UNCHANGED <<treeVars, version, channel, pg, byHand>> /\ Done(w) /\ InsertFile(rq[w].new)
    BY <1>1 DEF CopyInsert, FinishCreate
  <2>2. RequestsTyped' /\ TreeTyped' /\ rows' = rows
    BY <2>1, RequestGoes, FoldersStay
  <2>3. RowsInv'
    BY <1>r, <2>1, <2>2, RowInserted
  <2>4. QED
    BY <2>2, <2>3
<1>2. CASE FinishFail(w)
  <2>1. UNCHANGED <<treeVars, file, version, channel, pg, byHand>> /\ Done(w)
    BY <1>2 DEF FinishFail
  <2>2. RequestsTyped'
    BY <2>1, RequestGoes
  <2>3. QED
    BY <2>1, <2>2, OnlyRequests
<1>3. CASE FinishFind(w)
  <2>1. UNCHANGED <<treeVars, file, version, channel, pg, byHand>>
    BY <1>3 DEF FinishFind
  <2>2. RequestsTyped'
    <3>1. CASE Goto(w, "create")
      BY <2>1, <3>1, RequestGoes
    <3>2. ASSUME NEW f \in SameName(rq[w].new),
                 rq' = [rq EXCEPT ![w] = [@ EXCEPT !.pc = "archive", !.f = f, !.cur = file[f]]]
          PROVE  RequestsTyped'
      <4>1. PICK q : q = [rq[w] EXCEPT !.pc = "archive", !.f = f, !.cur = file[f]]
        OBVIOUS
      <4>2. f \in Files /\ file[f] \in Snapshot
        BY DEF SameName, LiveFiles, FileRows, RowsInv
      <4>3. q \in Request
        BY <1>r, <4>1, <4>2 DEF Request
      <4>4. rq' = [rq EXCEPT ![w] = q]
        BY <3>2, <4>1 DEF RequestsTyped
      <4>5. QED
        BY <2>1, <4>3, <4>4, RequestMoves
    <3>3. QED
      BY <1>3, <3>1, <3>2 DEF FinishFind
  <2>3. QED
    BY <2>1, <2>2, OnlyRequests
<1>4. CASE FinishArchive(w)
  <2>1. UNCHANGED <<treeVars, file, channel, pg, byHand>>
    BY <1>4 DEF FinishArchive
  <2>2. RequestsTyped' /\ TreeTyped' /\ rows' = rows
    BY <1>4, <2>1, RequestGoes, FoldersStay DEF FinishArchive
  <2>3. CASE rq[w].f \in FileRows
    <3>1. ArchiveVersion(rq[w].f, rq[w].cur)
      BY <1>4, <2>3 DEF FinishArchive
    <3>2. RowsInv'
      BY <1>r, <2>1, <2>2, <2>3, <3>1, VersionInserted
    <3>3. QED
      BY <2>2, <3>2
  <2>4. CASE rq[w].f \notin FileRows
    <3>1. UNCHANGED version
      BY <1>4, <2>4 DEF FinishArchive
    <3>2. QED
      BY <2>1, <2>2, <3>1, OnlyRequests
  <2>5. QED
    BY <2>3, <2>4
<1>5. CASE FinishReplace(w)
  <2>1. UNCHANGED <<treeVars, channel, pg>> /\ Goto(w, "create") /\ DeleteFiles({rq[w].f})
    BY <1>5 DEF FinishReplace
  <2>2. RequestsTyped' /\ TreeTyped' /\ rows' = rows
    BY <2>1, RequestGoes, FoldersStay
  <2>3. RowsInv'
    BY <2>1, <2>2, FilesDeleted
  <2>4. QED
    BY <2>2, <2>3
<1>6. ASSUME NEW m \in Messages, FinishSend(w, m)
      PROVE  RowsAre'
  <2>1. UNCHANGED <<treeVars, file, version, pg, byHand>> /\ channel' = [channel EXCEPT ![m] = "there"]
    BY <1>6 DEF FinishSend
  <2>2. PICK s : s = [rq[w].new EXCEPT !.msg = m]
    OBVIOUS
  <2>3. s \in Snapshot
    BY <1>r, <2>2 DEF Snapshot
  <2>4. PICK q : q = [rq[w] EXCEPT !.pc = "find", !.new = s]
    OBVIOUS
  <2>5. q \in Request
    BY <1>r, <2>3, <2>4 DEF Request
  <2>6. rq' = [rq EXCEPT ![w] = q]
    <3>1. rq' = [rq EXCEPT ![w].pc = "find", ![w].new.msg = m]
      BY <1>6 DEF FinishSend
    <3>2. QED
      BY <1>r, <2>2, <2>4, <3>1 DEF RequestsTyped, Request, Snapshot
  <2>7. RequestsTyped' /\ TreeTyped' /\ rows' = rows
    BY <2>1, <2>5, <2>6, RequestMoves, FoldersStay
  <2>8. RowsInv'
    BY <2>1, <2>7 DEF RowsInv, ReferencesResolve, FileRows, VersionRows
  <2>9. QED
    BY <2>7, <2>8
<1>7. QED
  BY <1>1, <1>2, <1>3, <1>4, <1>5, <1>6

\* A handler of versions goes on.
LEMMA VersionGoes ==
    ASSUME RowsAre, NEW w \in Workers,
           \/ RestoreVersionArchive(w) \/ RestoreVersionPromote(w)
           \/ DeleteVersionMessage(w) \/ DropVersion(w)
    PROVE  RowsAre'
<1> USE DEF RowsAre
<1>r. rq[w] \in Request /\ rq[w].new \in Snapshot /\ rq[w].cur \in Snapshot
  BY DEF RequestsTyped, Request
<1>1. CASE RestoreVersionArchive(w)
  <2>1. UNCHANGED <<treeVars, file, channel, pg, byHand>>
    BY <1>1 DEF RestoreVersionArchive
  <2>2. RequestsTyped' /\ TreeTyped' /\ rows' = rows
    BY <1>1, <2>1, RequestGoes, FoldersStay DEF RestoreVersionArchive
  <2>3. CASE rq[w].f \in FileRows
    <3>1. ArchiveVersion(rq[w].f, rq[w].cur)
      BY <1>1, <2>3 DEF RestoreVersionArchive
    <3>2. RowsInv'
      BY <1>r, <2>1, <2>2, <2>3, <3>1, VersionInserted
    <3>3. QED
      BY <2>2, <3>2
  <2>4. CASE rq[w].f \notin FileRows
    <3>1. UNCHANGED version
      BY <1>1, <2>4 DEF RestoreVersionArchive
    <3>2. QED
      BY <2>1, <2>2, <3>1, OnlyRequests
  <2>5. QED
    BY <2>3, <2>4
<1>2. CASE RestoreVersionPromote(w)
  <2> DEFINE f == rq[w].f
  <2>1. UNCHANGED <<treeVars, version, channel, pg, byHand>> /\ Goto(w, "drop")
    BY <1>2 DEF RestoreVersionPromote
  <2>2. RequestsTyped' /\ TreeTyped' /\ rows' = rows
    BY <2>1, RequestGoes, FoldersStay
  <2>3. CASE f \in FileRows
    <3>1. PICK r : r = [file[f] EXCEPT !.name = rq[w].new.name, !.msg = rq[w].new.msg]
      OBVIOUS
    <3>2. file[f] \in Snapshot /\ file[f].st = "row" /\ file[f].folder \in rows \cup {Root}
      BY <2>3 DEF RowsInv, ReferencesResolve, FileRows
    <3>3. r \in Snapshot /\ r.st = "row" /\ r.folder = file[f].folder
      BY <1>r, <3>1, <3>2 DEF Snapshot
    <3>4. file' = [file EXCEPT ![f] = r]
      BY <1>2, <2>3, <3>1 DEF RestoreVersionPromote, RowsInv, FileRows
    <3>5. RowsInv'
      BY <2>1, <2>2, <2>3, <3>2, <3>3, <3>4, RowChanged
    <3>6. QED
      BY <2>2, <3>5
  <2>4. CASE f \notin FileRows
    <3>1. file' = file
      BY <1>2, <2>4 DEF RestoreVersionPromote, RowsInv
    <3>2. QED
      BY <2>1, <2>2, <3>1, OnlyRequests
  <2>5. QED
    BY <2>3, <2>4
<1>3. CASE DeleteVersionMessage(w)
  <2>1. channel' \in [Messages -> {"free", "there", "deleted"}]
    BY <1>3 DEF DeleteVersionMessage, DeleteMessage, RowsInv
  <2>2. UNCHANGED <<treeVars, file, version, pg, byHand>> /\ Goto(w, "drop")
    BY <1>3 DEF DeleteVersionMessage
  <2>3. RequestsTyped' /\ TreeTyped' /\ rows' = rows
    BY <2>2, RequestGoes, FoldersStay
  <2>4. RowsInv'
    BY <2>1, <2>2, <2>3 DEF RowsInv, ReferencesResolve, FileRows, VersionRows
  <2>5. QED
    BY <2>3, <2>4
<1>4. CASE DropVersion(w)
  <2>1. UNCHANGED <<treeVars, file, channel, pg, byHand>> /\ Done(w)
        /\ version' = [version EXCEPT ![rq[w].v] = GoneVersion]
    BY <1>4 DEF DropVersion
  <2>2. RequestsTyped' /\ TreeTyped' /\ rows' = rows
    BY <2>1, RequestGoes, FoldersStay
  <2>3. RowsInv'
    BY <2>1, <2>2, VersionsDeleted
  <2>4. QED
    BY <2>2, <2>3
<1>5. QED
  BY <1>1, <1>2, <1>3, <1>4

\* What a purge or an empty request of the trash still has to do.
LEMMA PurgeListed ==
    ASSUME RequestsTyped, NEW k \in Keepers, NEW q \in Purge, pg' = [pg EXCEPT ![k] = q], UNCHANGED rq
    PROVE  RequestsTyped'
BY DEF RequestsTyped

\* The requests on folders.
LEMMA KeeperGoes ==
    ASSUME RowsAre, NEW k \in Keepers,
           \/ KeepStep(k) \/ EmptyStart(k)
           \/ \E id \in Tree!Known : FolderArrive(k, id)
    PROVE  RowsAre'
<1> USE DEF RowsAre
<1>p. pg[k] \in Purge /\ rq[k] \in Request
  BY DEF RequestsTyped
<1>f. FileRows \subseteq Files /\ LiveFiles \subseteq Files
  BY DEF FileRows, LiveFiles
<1>s. UNCHANGED <<file, version, channel, byHand>> /\ rows' = rows => RowsInv'
  BY DEF RowsInv, ReferencesResolve, FileRows, VersionRows
<1>1. ASSUME NEW id \in Tree!Known, FolderArrive(k, id) PROVE RowsAre'
  <2>1. UNCHANGED <<file, version, channel, rq, pg, byHand>>
    BY <1>1 DEF FolderArrive, FilesUnchanged
  <2>2. TreeTyped' /\ rows' = rows
    BY <1>1, FolderArrives DEF FolderArrive
  <2>3. QED
    BY <1>s, <2>1, <2>2 DEF RequestsTyped
<1>2. CASE EmptyStart(k)
  <2>1. UNCHANGED <<file, version, channel, rq, byHand>> /\ Tree!EmptyStart(k)
    BY <1>2 DEF EmptyStart
  <2>2. TreeTyped' /\ rows' = rows
    <3>1. UNCHANGED <<rows, retired, parent, trashed, mv>>
      BY <2>1 DEF Tree!EmptyStart, Tree!KeepStart
    <3>2. PICK q : q = [op |-> "empty", pc |-> "files", id |-> Root, todo |-> {}]
      OBVIOUS
    <3>3. q \in Tree!KeepState /\ q.pc # "read" /\ kp' = [kp EXCEPT ![k] = q]
      BY <2>1, <3>2 DEF Tree!EmptyStart, Tree!KeepStart, Tree!KeepState, Tree!Node
    <3>4. QED
      BY <3>1, <3>3 DEF TreeTyped, Tree!TypeOK, Tree!Node
  <2>3. RequestsTyped'
    <3>1. PICK q : q = [pg[k] EXCEPT !.files = FileRows \ LiveFiles]
      OBVIOUS
    <3>2. q \in Purge /\ pg' = [pg EXCEPT ![k] = q]
      BY <1>2, <1>p, <1>f, <3>1 DEF EmptyStart, Purge
    <3>3. QED
      BY <2>1, <3>2, PurgeListed
  <2>4. QED
    BY <1>s, <2>1, <2>2, <2>3
<1>3. CASE ReadSubtree(k)
  <2>1. UNCHANGED <<file, version, channel, rq, byHand>> /\ Tree!ReadSubtree(k)
    BY <1>3 DEF ReadSubtree
  <2>2. TreeTyped' /\ rows' = rows
    BY <2>1, FolderGoes
  <2>3. RequestsTyped'
    <3>1. kp'[k].todo \subseteq Folders
      BY <2>2 DEF TreeTyped, Tree!TypeOK, Tree!KeepState
    <3>2. PICK t : t = kp'[k].todo
      OBVIOUS
    <3>3. PICK q : q = [pg[k] EXCEPT !.folders = t]
      OBVIOUS
    <3>4. q \in Purge /\ (pg' = [pg EXCEPT ![k] = q] \/ pg' = pg)
      BY <1>3, <1>p, <3>1, <3>2, <3>3 DEF ReadSubtree, Purge, RequestsTyped
    <3>5. QED
      BY <2>1, <3>4, PurgeListed DEF RequestsTyped
  <2>4. QED
    BY <1>s, <2>1, <2>2, <2>3
<1>4. CASE MarkFolders(k)
  <2>1. UNCHANGED <<file, version, channel, rq, pg, byHand>> /\ Tree!MarkFolders(k)
    BY <1>4 DEF MarkFolders, FilesUnchanged
  <2>2. TreeTyped' /\ rows' = rows
    BY <2>1, FolderGoes
  <2>3. QED
    BY <1>s, <2>1, <2>2 DEF RequestsTyped
<1>5. CASE MarkFiles(k)
  <2>1. UNCHANGED <<version, channel, rq, pg, byHand>> /\ Tree!MarkFiles(k)
    BY <1>5 DEF MarkFiles
  <2>2. TreeTyped' /\ rows' = rows /\ RequestsTyped'
    BY <2>1, FolderGoes DEF RequestsTyped
  <2>3. PICK mark \in BOOLEAN : mark = (kp[k].op = "trash")
    OBVIOUS
  <2>4. \A r \in Snapshot : /\ [r EXCEPT !.trashed = mark] \in Snapshot
                            /\ [r EXCEPT !.trashed = mark].st = r.st
                            /\ [r EXCEPT !.trashed = mark].folder = r.folder
    BY DEF Snapshot
  <2>5. PICK inside : inside = {f \in FileRows : file[f].folder \in kp[k].todo}
    OBVIOUS
  <2>6. file' = [f \in Files |-> IF f \in inside THEN [file[f] EXCEPT !.trashed = mark] ELSE file[f]]
    BY <1>5, <2>3, <2>5 DEF MarkFiles
  <2>7. /\ file' \in [Files -> Snapshot]
        /\ \A f \in Files : file'[f].st = file[f].st /\ file'[f].folder = file[f].folder
    BY <2>4, <2>6 DEF RowsInv
  <2>8. FileRows' = FileRows /\ VersionRows' = VersionRows
    BY <2>1, <2>7 DEF FileRows, VersionRows
  <2>9. RowsInv'
    BY <2>1, <2>2, <2>7, <2>8, <1>f DEF RowsInv, ReferencesResolve
  <2>10. QED
    BY <2>2, <2>9
<1>6. CASE PurgeStep(k)
  BY <1>6, PurgeGoes
<1>7. ASSUME NEW d \in Folders, PurgeListFolder(k, d) PROVE RowsAre'
  <2>1. UNCHANGED <<treeVars, file, version, channel, rq, byHand>>
    BY <1>7 DEF PurgeListFolder
  <2>2. PICK F \in SUBSET Files : F = {f \in LiveFiles : file[f].folder = d}
    BY <1>f
  <2>3. PICK q : q = [pg[k] EXCEPT !.folders = pg[k].folders \ {d}, !.files = F]
    OBVIOUS
  <2>4. q \in Purge
    BY <1>p, <2>2, <2>3 DEF Purge
  <2>5. pg' = [pg EXCEPT ![k].folders = @ \ {d}, ![k].files = F]
    BY <1>7, <2>2 DEF PurgeListFolder
  <2>6. pg' = [pg EXCEPT ![k] = q]
    BY <2>3, <2>5, <1>p DEF RequestsTyped, Purge
  <2>7. RequestsTyped'
    BY <2>1, <2>4, <2>6, PurgeListed
  <2>8. QED
    BY <2>1, <2>7, OnlyRequests
<1>8. ASSUME NEW f \in Files, PurgeNext(k, f) PROVE RowsAre'
  <2>1. UNCHANGED <<treeVars, file, version, channel, byHand>>
    BY <1>8 DEF PurgeNext
  <2>2. PICK q : q = PurgeRequest(f)
    OBVIOUS
  <2>3. q \in Request
    BY <2>2, NewRecords DEF PurgeRequest, Request, RowsInv
  <2>4. rq' = [rq EXCEPT ![k] = q] \/ rq' = rq
    BY <1>8, <2>2 DEF PurgeNext, Begin
  <2>5. PICK p : p = [pg[k] EXCEPT !.files = pg[k].files \ {f}]
    OBVIOUS
  <2>6. p \in Purge /\ pg' = [pg EXCEPT ![k] = p]
    BY <1>8, <1>p, <2>5 DEF PurgeNext, Purge, RequestsTyped
  <2>7. RequestsTyped'
    BY <2>3, <2>4, <2>6 DEF RequestsTyped
  <2>8. QED
    BY <2>1, <2>7, OnlyRequests
<1>9. CASE PurgeFolder(k)
  <2>1. UNCHANGED <<version, channel, rq, pg, byHand>> /\ Detach({kp[k].id}) /\ Tree!DeleteRows({kp[k].id})
        /\ kp' = [kp EXCEPT ![k] = Tree!NoKeep]
    BY <1>9 DEF PurgeFolder, Tree!PurgeDelete
  <2>2. TreeTyped' /\ rows' = rows \ Tree!Subtree({kp[k].id})
    BY <2>1, FolderDeletes
  <2>3. RowsInv'
    BY <2>1, <2>2, FoldersDeleted
  <2>4. QED
    BY <2>1, <2>2, <2>3 DEF RequestsTyped
<1>10. CASE EmptyListFolders(k)
  <2>1. UNCHANGED <<file, version, channel, rq, pg, byHand>> /\ Tree!EmptyList(k)
    BY <1>10 DEF EmptyListFolders
  <2>2. TreeTyped' /\ rows' = rows
    BY <2>1, FolderGoes
  <2>3. QED
    BY <1>s, <2>1, <2>2 DEF RequestsTyped
<1>11. ASSUME NEW d \in Folders, EmptyDeleteFolder(k, d) PROVE RowsAre'
  <2>1. UNCHANGED <<version, channel, rq, pg, byHand>> /\ Detach({d}) /\ Tree!DeleteRows({d})
        /\ kp' = [kp EXCEPT ![k].todo = @ \ {d}]
    BY <1>11 DEF EmptyDeleteFolder, Tree!EmptyDelete
  <2>2. TreeTyped' /\ rows' = rows \ Tree!Subtree({d})
    BY <2>1, FolderDeletes
  <2>3. RowsInv'
    BY <2>1, <2>2, FoldersDeleted
  <2>4. QED
    BY <2>1, <2>2, <2>3 DEF RequestsTyped
<1>12. CASE EmptySweepFiles(k)
  <2>1. UNCHANGED <<treeVars, channel, rq>> /\ DeleteFiles(FileRows \ LiveFiles)
    BY <1>12 DEF EmptySweepFiles
  <2>2. PICK q : q = [pg[k] EXCEPT !.swept = TRUE]
    OBVIOUS
  <2>3. q \in Purge /\ pg' = [pg EXCEPT ![k] = q]
    BY <1>12, <1>p, <2>2 DEF EmptySweepFiles, Purge
  <2>4. RequestsTyped' /\ TreeTyped' /\ rows' = rows
    BY <2>1, <2>3, PurgeListed, FoldersStay
  <2>5. RowsInv'
    BY <2>1, <2>4, FilesDeleted
  <2>6. QED
    BY <2>4, <2>5
<1>13. CASE EmptySweepFolders(k)
  <2>1. UNCHANGED <<version, channel, rq, byHand>> /\ Detach(trashed) /\ Tree!DeleteRows(trashed)
        /\ kp' = [kp EXCEPT ![k] = Tree!NoKeep] /\ pg' = [pg EXCEPT ![k] = NoPurge]
    BY <1>13 DEF EmptySweepFolders, Tree!EmptySweep
  <2>2. TreeTyped' /\ rows' = rows \ Tree!Subtree(trashed)
    BY <2>1, FolderDeletes
  <2>3. RowsInv'
    BY <2>1, <2>2, FoldersDeleted
  <2>4. RequestsTyped'
    BY <2>1, NewRecords, PurgeListed
  <2>5. QED
    BY <2>2, <2>3, <2>4
<1>14. QED
  BY <1>1, <1>2, <1>3, <1>4, <1>5, <1>6, <1>7, <1>8, <1>9, <1>10, <1>11, <1>12, <1>13 DEF KeepStep

\* All steps together.
LEMMA RowsStep == RowsAre /\ Next => RowsAre'
<1> SUFFICES ASSUME RowsAre, Next PROVE RowsAre'
  OBVIOUS
<1>w. Uploaders \subseteq Workers /\ Versioners \subseteq Workers
  BY WorkerAssumption
<1>1. CASE Arrive
  <2>1. ASSUME NEW f \in Files,
               \/ TrashFile(f) \/ RestoreFile(f)
               \/ \E d \in Folders \cup {Root} : MoveFile(f, d)
               \/ \E n \in Names : RenameFile(f, n)
        PROVE  RowsAre'
    BY <2>1, OneRow
  <2>2. ASSUME NEW w \in Workers, NEW f \in Files,
               \/ PurgeStart(w, f)
               \/ \E d \in Folders \cup {Root}, n \in Names : CopyStart(w, f, d, n)
        PROVE  RowsAre'
    BY <2>2, Begins
  <2>3. ASSUME NEW w \in Uploaders, NEW d \in Folders \cup {Root}, NEW n \in Names, FinishStart(w, d, n)
        PROVE  RowsAre'
    BY <1>w, <2>3, Begins
  <2>4. ASSUME NEW w \in Versioners, NEW v \in Versions,
               RestoreVersionStart(w, v) \/ DeleteVersionStart(w, v)
        PROVE  RowsAre'
    BY <1>w, <2>4, Begins
  <2>5. ASSUME NEW k \in Keepers, EmptyStart(k) \/ \E id \in Tree!Known : FolderArrive(k, id)
        PROVE  RowsAre'
    BY <2>5, KeeperGoes
  <2>6. QED
    BY <1>1, <2>1, <2>2, <2>3, <2>4, <2>5 DEF Arrive
<1>2. ASSUME NEW w \in Workers, WorkStep(w) PROVE RowsAre'
  BY <1>2, UploadGoes, PurgeGoes, VersionGoes DEF WorkStep
<1>3. ASSUME NEW k \in Keepers, KeepStep(k) PROVE RowsAre'
  BY <1>3, KeeperGoes
<1>4. CASE Crash
  <2>1. UNCHANGED <<rows, retired, parent, trashed, mv, file, version, channel, byHand>>
    BY <1>4 DEF Crash
  <2>2. Tree!NoKeep \in Tree!KeepState /\ Tree!NoKeep.pc # "read"
    BY DEF Tree!NoKeep, Tree!KeepState, Tree!Node
  <2>3. TreeTyped'
    BY <1>4, <2>1, <2>2 DEF Crash, RowsAre, TreeTyped, Tree!TypeOK, Tree!Node
  <2>4. RequestsTyped'
    BY <1>4, NewRecords DEF Crash, RequestsTyped
  <2>5. RowsInv'
    BY <2>1 DEF RowsAre, RowsInv, ReferencesResolve, FileRows, VersionRows
  <2>6. QED
    BY <2>3, <2>4, <2>5 DEF RowsAre
<1>5. QED
  BY <1>1, <1>2, <1>3, <1>4 DEF Next

LEMMA RowsStutter == RowsAre /\ UNCHANGED vars => RowsAre'
<1> SUFFICES ASSUME RowsAre, UNCHANGED vars PROVE RowsAre'
  OBVIOUS
<1>1. UNCHANGED <<treeVars, file, version, channel, rq, pg, byHand>>
  BY DEF vars, treeVars
<1>2. RequestsTyped'
  BY <1>1 DEF RowsAre, RequestsTyped
<1>3. QED
  BY <1>1, <1>2, OnlyRequests

\* Every kind of behaviour takes steps of Catalog.
LEMMA CatalogSteps == [CatalogNext]_<<instance, interrupted, vars>> => [Next]_vars
BY DEF CatalogNext, WholeNext, BusyNext, CrashingNext, Requests, Next, vars

LEMMA RowsInvariant == CatalogSpec => []RowsAre
<1>1. CatalogInit => RowsAre
  BY RowsInit DEF CatalogInit
<1>2. RowsAre /\ [CatalogNext]_<<instance, interrupted, vars>> => RowsAre'
  BY RowsStep, RowsStutter, CatalogSteps
<1>3. QED
  BY <1>1, <1>2, PTL DEF CatalogSpec

\* Whatever is deleted and in whatever order - files, versions, folders, the trash, while uploads,
\* copies and restores of versions are between their statements - the folder of a file is a row or
\* the root and the file of a version is a row (files.go, handlers_library.go).
THEOREM ReferencesAlwaysResolve == CatalogSpec => []RowsResolve
<1>1. RowsAre => RowsResolve
  BY RowsResolved
<1>2. QED
  BY <1>1, RowsInvariant, PTL

-----------------------------------------------------------------------------
(* Messages while requests interleave in a library without folders and     *)
(* copies.  Every message belongs to one file at most: it is behind that   *)
(* file, behind its versions, and in the requests that have read them.  A  *)
(* version is there only while the upload that made it replaces its file,  *)
(* or after a crash has stopped that upload, so what a request deletes is  *)
(* of a file whose row is gone, or goes next, or was to go.                *)

\* A request that goes on with the message it has read in the row f.
Holds(w) == \/ rq[w].op = "purge" /\ rq[w].pc = "message"
            \/ rq[w].op = "finish" /\ rq[w].pc = "archive"
            \/ rq[w].op = "restorev"

\* An upload that has sent its message and has no row yet.
Sent(w) == rq[w].op = "finish" /\ rq[w].pc \in {"find", "archive", "replace", "create"}

Deleting(w) == rq[w].op = "deletev" /\ rq[w].pc = "message"

\* A request is under way that ends with the deletion of the row, or was when the process died.
Doomed(f) == Purging(f) \/ f \in interrupted

\* The row of the file is gone, or will be, or a crash has stopped its deletion.
Going(f) == f \notin FileRows \/ Doomed(f)

\* The only file the message m is or was behind.
BelongsTo(owner, m, f) == m \in Messages /\ f \in Files /\ owner[m] = {f}

RowsOwned(owner) ==
    /\ owner \in [Messages -> SUBSET Files]
    /\ \A m \in Messages : channel[m] = "free" => owner[m] = {}
    /\ \A m \in Messages : \A f \in owner[m] : file[f].st # "free"
    /\ \A f \in FileRows : BelongsTo(owner, file[f].msg, f)
    /\ \A v \in VersionRows : BelongsTo(owner, version[v].msg, version[v].file)

WorkerOwned(owner, w) ==
    /\ Holds(w) => BelongsTo(owner, rq[w].cur.msg, rq[w].f)
    /\ rq[w].op = "restorev" => BelongsTo(owner, rq[w].new.msg, rq[w].f) /\ Going(rq[w].f)
    /\ Deleting(w) => \E f \in Files : BelongsTo(owner, rq[w].cur.msg, f) /\ Going(f)
    /\ Sent(w) => /\ rq[w].new.msg \in Messages /\ owner[rq[w].new.msg] = {}
                  /\ channel[rq[w].new.msg] = "there"

Owned(owner) == RowsOwned(owner) /\ \A w \in Workers : WorkerOwned(owner, w)

SentOnce == \A u, w \in Workers : u # w /\ Sent(u) /\ Sent(w) => rq[u].new.msg # rq[w].new.msg

\* The message of a file that stays is in the channel, and such a file has no versions.
Kept == /\ \A f \in FileRows : Doomed(f) \/ channel[file[f].msg] = "there"
        /\ \A v \in VersionRows : Doomed(version[v].file)

Handler(w) == Idle(w) => rq[w].op = "none"

Safe(owner) == /\ SentOnce /\ Kept /\ Owned(owner)
               /\ \A w \in Workers : Handler(w)

ObjectsInv == instance # "whole" => Flat /\ \E owner \in [Messages -> SUBSET Files] : Safe(owner)

\* The invariant is the property.
LEMMA ObjectsKept == ASSUME NEW owner, Safe(owner) PROVE ObjectsExistBut(interrupted)
BY DEF Safe, Kept, Doomed, ObjectsExistBut, LiveFiles

\* A worker takes a step: the others go on with what they have.
LEMMA OthersWait ==
    ASSUME RequestsTyped, NEW w \in Workers, NEW q, rq' = [rq EXCEPT ![w] = q],
           UNCHANGED interrupted
    PROVE  /\ rq'[w] = q
           /\ \A u \in Workers : u # w => /\ rq'[u] = rq[u] /\ Handler(u)' = Handler(u)
                                          /\ Sent(u)' = Sent(u) /\ Holds(u)' = Holds(u)
                                          /\ Deleting(u)' = Deleting(u)
           /\ \A f : Doomed(f) /\ rq[w].f # f => Doomed(f)'
           /\ \A f : Doomed(f) /\ rq[w].op # "purge" /\ (rq[w].op = "finish" => rq[w].pc # "replace")
                       => Doomed(f)'
<1>1. rq'[w] = q /\ \A u \in Workers \cup Keepers : u # w => rq'[u] = rq[u]
  BY DEF RequestsTyped
<1>2. \A u \in Workers : u # w => /\ rq'[u] = rq[u] /\ Handler(u)' = Handler(u)
                                  /\ Sent(u)' = Sent(u) /\ Holds(u)' = Holds(u)
                                  /\ Deleting(u)' = Deleting(u)
  BY <1>1 DEF Handler, Idle, Sent, Holds, Deleting
<1>3. \A f : Doomed(f) /\ rq[w].f # f => Doomed(f)'
  BY <1>1 DEF Doomed, Purging
<1>4. \A f : Doomed(f) /\ rq[w].op # "purge" /\ (rq[w].op = "finish" => rq[w].pc # "replace") => Doomed(f)'
  BY <1>1 DEF Doomed, Purging
<1>5. QED
  BY <1>1, <1>2, <1>3, <1>4

\* A step of one worker that touches no table.  It was not deleting a row.
LEMMA OneRequest ==
    ASSUME RowsAre, NEW owner, Safe(owner), UNCHANGED interrupted, NEW w \in Workers, NEW q, rq' = [rq EXCEPT ![w] = q],
           UNCHANGED <<file, version, channel>>,
           rq[w].op # "purge", rq[w].op = "finish" => rq[w].pc # "replace",
           Sent(w)' => Sent(w) /\ rq'[w].new.msg = rq[w].new.msg,
           (\A f : Going(f) => Going(f)') => WorkerOwned(owner, w)', Handler(w)'
    PROVE  Safe(owner)'
<1> USE DEF Safe
<1>0. RequestsTyped
  BY DEF RowsAre
<1>1. /\ \A u \in Workers : u # w => /\ rq'[u] = rq[u] /\ Handler(u)' = Handler(u)
                                     /\ Sent(u)' = Sent(u) /\ Holds(u)' = Holds(u)
                                     /\ Deleting(u)' = Deleting(u)
      /\ \A f : Doomed(f) => Doomed(f)'
  BY <1>0, OthersWait
<1>2. FileRows' = FileRows /\ VersionRows' = VersionRows
  BY DEF FileRows, VersionRows
<1>3. \A f : Going(f) => Going(f)'
  BY <1>1, <1>2 DEF Going
<1>4. RowsOwned(owner)'
  BY <1>2 DEF Owned, RowsOwned, BelongsTo
<1>5. ASSUME NEW u \in Workers PROVE WorkerOwned(owner, u)'
  <2>1. CASE u = w
    BY <1>3, <2>1
  <2>2. CASE u # w
    <3>1. WorkerOwned(owner, u)
      BY DEF Owned
    <3>2. QED
      BY <1>1, <1>3, <2>2, <3>1 DEF WorkerOwned, BelongsTo
  <2>3. QED
    BY <2>1, <2>2
<1>6. Kept'
  BY <1>1, <1>2 DEF Kept
<1>7. SentOnce'
  BY <1>1 DEF SentOnce
<1>8. \A u \in Workers : Handler(u)'
  BY <1>1
<1>9. QED
  BY <1>4, <1>5, <1>6, <1>7, <1>8 DEF Owned

\* A request begins.
LEMMA SafeBegins ==
    ASSUME RowsAre, NEW owner, Safe(owner), UNCHANGED interrupted, NEW w \in Workers,
           \/ \E f \in Files : PurgeStart(w, f)
           \/ \E d \in Folders \cup {Root}, n \in Names : FinishStart(w, d, n)
           \/ \E v \in Versions : RestoreVersionStart(w, v) \/ DeleteVersionStart(w, v)
    PROVE  Safe(owner)'
<1>1. UNCHANGED <<file, version, channel>> /\ Idle(w)
  BY DEF PurgeStart, FinishStart, RestoreVersionStart, DeleteVersionStart, Begin
<1>2. rq[w].op = "none"
  BY <1>1 DEF Safe, Handler
<1>3. rq[w].op # "purge" /\ (rq[w].op = "finish" => rq[w].pc # "replace")
  BY <1>2
<1>4. NoRequest.op = "none" /\ NoRequest.pc = "idle" /\ RowsOwned(owner)
  BY DEF NoRequest, Safe, Owned
<1>5. \A q : rq' = [rq EXCEPT ![w] = q] => rq'[w] = q
  BY DEF RowsAre, RequestsTyped
<1>6. \A f : f \in FileRows => BelongsTo(owner, file[f].msg, f)
  BY <1>4 DEF RowsOwned
<1>7. \A v : v \in VersionRows => BelongsTo(owner, version[v].msg, version[v].file) /\ Going(version[v].file)
  BY <1>4 DEF RowsOwned, Safe, Kept, Going
<1>10. ASSUME NEW f \in Files, PurgeStart(w, f) PROVE Safe(owner)'
  <2>1. PICK q : q = PurgeRequest(f)
    OBVIOUS
  <2>2. q.op = "purge" /\ q.pc = "message" /\ q.f = f /\ q.cur = file[f]
    BY <2>1 DEF PurgeRequest, NoRequest
  <2>3. rq' = [rq EXCEPT ![w] = q] /\ f \in FileRows
    BY <1>10, <2>1 DEF PurgeStart, Begin
  <2>4. rq'[w] = q
    BY <1>5, <2>3
  <2>5. ~Sent(w)'
    BY <2>2, <2>4 DEF Sent
  <2>6. WorkerOwned(owner, w)' /\ Handler(w)'
    BY <1>1, <1>6, <2>2, <2>3, <2>4 DEF WorkerOwned, Handler, Holds, Deleting, Sent, Idle
  <2>7. QED
    BY <1>1, <1>3, <2>3, <2>5, <2>6, OneRequest
<1>11. ASSUME NEW d \in Folders \cup {Root}, NEW n \in Names, FinishStart(w, d, n) PROVE Safe(owner)'
  <2>1. PICK q : q = [NoRequest EXCEPT !.op = "finish", !.pc = "send",
                                  !.new = [NoFile EXCEPT !.folder = d, !.name = n]]
    OBVIOUS
  <2>2. q.op = "finish" /\ q.pc = "send"
    BY <2>1 DEF NoRequest
  <2>3. rq' = [rq EXCEPT ![w] = q]
    BY <1>11, <2>1 DEF FinishStart, Begin
  <2>4. rq'[w] = q
    BY <1>5, <2>3
  <2>5. ~Sent(w)'
    BY <2>2, <2>4 DEF Sent
  <2>6. WorkerOwned(owner, w)' /\ Handler(w)'
    BY <2>2, <2>4 DEF WorkerOwned, Handler, Holds, Deleting, Sent, Idle
  <2>7. QED
    BY <1>1, <1>3, <2>3, <2>5, <2>6, OneRequest
<1>12. ASSUME NEW v \in Versions, RestoreVersionStart(w, v) PROVE Safe(owner)'
  <2>f. PICK f : f = version[v].file
    OBVIOUS
  <2>1. PICK q : q = [NoRequest EXCEPT !.op = "restorev", !.pc = "archive", !.v = v,
                    !.f = version[v].file, !.cur = file[version[v].file],
                    !.new = [NoFile EXCEPT !.name = version[v].name, !.msg = version[v].msg]]
    OBVIOUS
  <2>2. /\ q.op = "restorev" /\ q.pc = "archive" /\ q.f = f /\ q.cur = file[f]
        /\ q.new.msg = version[v].msg
    BY <2>f, <2>1 DEF NoRequest, NoFile
  <2>3. rq' = [rq EXCEPT ![w] = q] /\ v \in VersionRows /\ f \in FileRows
    BY <2>f, <1>12, <2>1 DEF RestoreVersionStart, Begin, LiveFiles
  <2>4. rq'[w] = q
    BY <1>5, <2>3
  <2>5. ~Sent(w)'
    BY <2>2, <2>4 DEF Sent
  <2>6. BelongsTo(owner, file[f].msg, f) /\ BelongsTo(owner, version[v].msg, f) /\ Going(f)
    BY <2>f, <1>6, <1>7, <2>3
  <2>7. (\A g : Going(g) => Going(g)') => WorkerOwned(owner, w)'
    BY <2>2, <2>4, <2>6 DEF WorkerOwned, Holds, Deleting, Sent, BelongsTo
  <2>8. Handler(w)'
    BY <2>2, <2>4 DEF Handler, Idle
  <2>9. QED
    BY <1>1, <1>3, <2>3, <2>5, <2>7, <2>8, OneRequest
<1>13. ASSUME NEW v \in Versions, DeleteVersionStart(w, v) PROVE Safe(owner)'
  <2>f. PICK f : f = version[v].file
    OBVIOUS
  <2>1. PICK q : q = [NoRequest EXCEPT !.op = "deletev", !.pc = "message", !.v = v,
                    !.cur = [NoFile EXCEPT !.msg = version[v].msg]]
    OBVIOUS
  <2>2. q.op = "deletev" /\ q.pc = "message" /\ q.cur.msg = version[v].msg
    BY <2>1 DEF NoRequest, NoFile
  <2>3. rq' = [rq EXCEPT ![w] = q] /\ v \in VersionRows
    BY <1>13, <2>1 DEF DeleteVersionStart, Begin
  <2>4. rq'[w] = q
    BY <1>5, <2>3
  <2>5. ~Sent(w)' /\ ~Holds(w)' /\ rq'[w].op # "restorev" /\ Handler(w)'
    BY <2>2, <2>4 DEF Sent, Holds, Handler, Idle
  <2>6. BelongsTo(owner, version[v].msg, f) /\ Going(f) /\ f \in Files
    BY <2>f, <1>7, <2>3 DEF BelongsTo
  <2>7. (\A g : Going(g) => Going(g)') => WorkerOwned(owner, w)'
    BY <2>2, <2>4, <2>5, <2>6 DEF WorkerOwned, BelongsTo
  <2>8. QED
    BY <1>1, <1>3, <2>3, <2>5, <2>7, OneRequest
<1>14. QED
  BY <1>10, <1>11, <1>12, <1>13

\* How a request that goes on looks.
LEMMA Onwards ==
    ASSUME RequestsTyped, NEW w \in Workers, NEW p, Goto(w, p)
    PROVE  \E q : /\ rq' = [rq EXCEPT ![w] = q] /\ rq'[w] = q
                  /\ q.op = rq[w].op /\ q.pc = p /\ q.f = rq[w].f /\ q.v = rq[w].v
                  /\ q.cur = rq[w].cur /\ q.new = rq[w].new
<1>1. PICK q : q = [rq[w] EXCEPT !.pc = p]
  OBVIOUS
<1>2. rq[w] \in Request
  BY DEF RequestsTyped
<1>3. /\ q.op = rq[w].op /\ q.pc = p /\ q.f = rq[w].f /\ q.v = rq[w].v
      /\ q.cur = rq[w].cur /\ q.new = rq[w].new
  BY <1>1, <1>2 DEF Request
<1>4. rq' = [rq EXCEPT ![w] = q] /\ rq'[w] = q
  BY <1>1 DEF Goto, RequestsTyped
<1>5. QED
  BY <1>3, <1>4

LEMMA Over ==
    ASSUME RequestsTyped, NEW w \in Workers, NEW owner, Done(w)
    PROVE  /\ rq' = [rq EXCEPT ![w] = NoRequest] /\ rq'[w].op = "none"
           /\ ~Sent(w)' /\ WorkerOwned(owner, w)' /\ Handler(w)'
<1>1. rq' = [rq EXCEPT ![w] = NoRequest] /\ rq'[w] = NoRequest
  BY DEF Done, RequestsTyped
<1>2. rq'[w].op = "none" /\ rq'[w].pc = "idle"
  BY <1>1 DEF NoRequest
<1>3. QED
  BY <1>1, <1>2 DEF Sent, WorkerOwned, Handler, Holds, Deleting, Idle

\* The statements of an upload or a restore that touch no table.
LEMMA SafePasses ==
    ASSUME RowsAre, NEW owner, Safe(owner), UNCHANGED interrupted, NEW w \in Workers, UNCHANGED <<file, version, channel>>,
           \/ FinishFail(w) \/ FinishFind(w)
           \/ rq[w].f \notin FileRows /\ \/ FinishArchive(w) \/ RestoreVersionArchive(w)
                                         \/ RestoreVersionPromote(w)
    PROVE  Safe(owner)'
<1>1. rq[w].op # "purge" /\ (rq[w].op = "finish" => rq[w].pc # "replace")
  BY DEF FinishFail, FinishFind, FinishArchive, RestoreVersionArchive, RestoreVersionPromote
<1>2. \A q : rq' = [rq EXCEPT ![w] = q] => rq'[w] = q
  BY DEF RowsAre, RequestsTyped
<1>3. RequestsTyped /\ WorkerOwned(owner, w) /\ RowsOwned(owner)
  BY DEF RowsAre, Safe, Owned
<1>10. CASE Done(w)
  <2>1. rq' = [rq EXCEPT ![w] = NoRequest] /\ ~Sent(w)' /\ WorkerOwned(owner, w)' /\ Handler(w)'
    BY <1>3, <1>10, Over
  <2>2. QED
    BY <1>1, <2>1, OneRequest
<1>11. CASE rq[w].op = "finish" /\ rq[w].pc \in {"find", "archive"} /\ Goto(w, "create")
  <2>1. PICK q : /\ rq' = [rq EXCEPT ![w] = q] /\ rq'[w] = q
                 /\ q.op = "finish" /\ q.pc = "create" /\ q.new = rq[w].new
    BY <1>3, <1>11, Onwards
  <2>2. Sent(w) /\ rq'[w].new.msg = rq[w].new.msg
    BY <1>11, <2>1 DEF Sent
  <2>3. WorkerOwned(owner, w)' /\ Handler(w)'
    BY <1>3, <2>1, <2>2 DEF WorkerOwned, Handler, Holds, Deleting, Sent, Idle, BelongsTo
  <2>4. QED
    BY <1>1, <2>1, <2>2, <2>3, OneRequest
<1>12. CASE rq[w].op = "restorev" /\ Goto(w, "drop")
  <2>1. PICK q : /\ rq' = [rq EXCEPT ![w] = q] /\ rq'[w] = q /\ q.op = "restorev" /\ q.pc = "drop"
                 /\ q.f = rq[w].f /\ q.cur = rq[w].cur /\ q.new = rq[w].new
    BY <1>3, <1>12, Onwards
  <2>2. ~Sent(w)' /\ Handler(w)'
    BY <2>1 DEF Sent, Handler, Idle
  <2>3. (\A g : Going(g) => Going(g)') => WorkerOwned(owner, w)'
    BY <1>3, <1>12, <2>1, <2>2 DEF WorkerOwned, Holds, Deleting, BelongsTo
  <2>4. QED
    BY <1>1, <2>1, <2>2, <2>3, OneRequest
<1>13. ASSUME NEW f \in SameName(rq[w].new), rq[w].op = "finish", rq[w].pc = "find",
              rq' = [rq EXCEPT ![w] = [@ EXCEPT !.pc = "archive", !.f = f, !.cur = file[f]]]
       PROVE  Safe(owner)'
  <2>1. PICK q : q = [rq[w] EXCEPT !.pc = "archive", !.f = f, !.cur = file[f]]
    OBVIOUS
  <2>2. rq' = [rq EXCEPT ![w] = q] /\ rq'[w] = q
    <3>1. rq' = [rq EXCEPT ![w] = q]
      BY <1>13, <2>1 DEF RowsAre, RequestsTyped
    <3>2. QED
      BY <1>2, <3>1
  <2>3. q.op = "finish" /\ q.pc = "archive" /\ q.f = f /\ q.cur = file[f] /\ q.new = rq[w].new
    <3>1. rq[w] \in Request
      BY <1>3 DEF RequestsTyped
    <3>2. QED
      BY <1>13, <2>1, <3>1 DEF Request
  <2>4. Sent(w) /\ rq'[w].new.msg = rq[w].new.msg
    BY <1>13, <2>2, <2>3 DEF Sent
  <2>5. BelongsTo(owner, file[f].msg, f)
    BY <1>3 DEF RowsOwned, SameName, LiveFiles
  <2>6. WorkerOwned(owner, w)' /\ Handler(w)'
    BY <1>3, <2>2, <2>3, <2>4, <2>5 DEF WorkerOwned, Handler, Holds, Deleting, Sent, Idle, BelongsTo
  <2>7. QED
    BY <1>1, <2>2, <2>4, <2>6, OneRequest
<1>14. QED
  BY <1>10, <1>11, <1>12, <1>13 DEF FinishFail, FinishFind, FinishArchive, RestoreVersionArchive,
     RestoreVersionPromote

\* The marks and the name of a row change.
LEMMA SafeMarks ==
    ASSUME RowsAre, NEW owner, Safe(owner), UNCHANGED interrupted, NEW f \in Files,
           \/ TrashFile(f) \/ RestoreFile(f)
           \/ \E d \in Folders \cup {Root} : MoveFile(f, d)
           \/ \E n \in Names : RenameFile(f, n)
    PROVE  Safe(owner)'
<1>1. UNCHANGED <<version, channel, rq>>
  BY DEF TrashFile, RestoreFile, MoveFile, RenameFile
<1>2. \A g \in Files : file'[g].st = file[g].st /\ file'[g].msg = file[g].msg
  <2>1. file \in [Files -> Snapshot]
    BY DEF RowsAre, RowsInv
  <2>2. \A r \in Snapshot : \A x : /\ [r EXCEPT !.trashed = x].st = r.st /\ [r EXCEPT !.trashed = x].msg = r.msg
                               /\ [r EXCEPT !.folder = x].st = r.st /\ [r EXCEPT !.folder = x].msg = r.msg
                               /\ [r EXCEPT !.name = x].st = r.st /\ [r EXCEPT !.name = x].msg = r.msg
    BY DEF Snapshot
  <2>3. \E x, r : /\ file' = [file EXCEPT ![f] = r]
                  /\ \/ r = [file[f] EXCEPT !.trashed = x]
                     \/ r = [file[f] EXCEPT !.folder = x]
                     \/ r = [file[f] EXCEPT !.name = x]
    <3>1. TrashFile(f) => file' = [file EXCEPT ![f] = [file[f] EXCEPT !.trashed = TRUE]]
      BY <2>1 DEF TrashFile
    <3>2. RestoreFile(f) => file' = [file EXCEPT ![f] = [file[f] EXCEPT !.trashed = FALSE]]
      BY <2>1 DEF RestoreFile
    <3>3. \A d : MoveFile(f, d) => file' = [file EXCEPT ![f] = [file[f] EXCEPT !.folder = d]]
      BY <2>1 DEF MoveFile
    <3>4. \A n : RenameFile(f, n) => file' = [file EXCEPT ![f] = [file[f] EXCEPT !.name = n]]
      BY <2>1 DEF RenameFile
    <3>5. QED
      BY <3>1, <3>2, <3>3, <3>4
  <2>4. PICK r : file' = [file EXCEPT ![f] = r] /\ r.st = file[f].st /\ r.msg = file[f].msg
    <3>1. PICK x, r : /\ file' = [file EXCEPT ![f] = r]
                      /\ \/ r = [file[f] EXCEPT !.trashed = x]
                         \/ r = [file[f] EXCEPT !.folder = x]
                         \/ r = [file[f] EXCEPT !.name = x]
      BY <2>3
    <3>2. file[f] \in Snapshot
      BY <2>1
    <3>3. r.st = file[f].st /\ r.msg = file[f].msg
      BY <3>1, <3>2 DEF Snapshot
    <3>4. QED
      BY <3>1, <3>3
  <2>5. QED
    BY <2>1, <2>4
<1>3. FileRows' = FileRows /\ VersionRows' = VersionRows /\ FileRows \subseteq Files
  BY <1>1, <1>2 DEF FileRows, VersionRows
<1>4. \A u : /\ Sent(u)' = Sent(u) /\ Holds(u)' = Holds(u) /\ Deleting(u)' = Deleting(u)
             /\ Handler(u)' = Handler(u)
  BY <1>1 DEF Sent, Holds, Deleting, Handler, Idle
<1>5. \A g : Doomed(g)' = Doomed(g) /\ Going(g)' = Going(g)
  BY <1>1, <1>3 DEF Doomed, Purging, Going
<1>6. RowsOwned(owner)'
  BY <1>1, <1>2, <1>3 DEF Safe, Owned, RowsOwned, BelongsTo
<1>7. ASSUME NEW u \in Workers PROVE WorkerOwned(owner, u)'
  <2>1. WorkerOwned(owner, u)
    BY DEF Safe, Owned
  <2>2. QED
    BY <1>1, <1>4, <1>5, <2>1 DEF WorkerOwned, BelongsTo
<1>8. Kept'
  BY <1>1, <1>2, <1>3, <1>5 DEF Safe, Kept
<1>9. SentOnce' /\ \A u \in Workers : Handler(u)'
  BY <1>1, <1>4 DEF Safe, SentOnce
<1>10. QED
  BY <1>6, <1>7, <1>8, <1>9 DEF Safe, Owned

\* Facts about the step of a worker w that writes or deletes for the file f: the rest of the
\* library is left alone.
Elsewhere(f) ==
    /\ \A g \in FileRows' : g # f => g \in FileRows /\ file'[g].msg = file[g].msg
    /\ \A v \in VersionRows' : version'[v].file # f => v \in VersionRows /\ version'[v] = version[v]
    /\ \A m \in Messages : channel'[m] = "free" => channel[m] = "free"
    /\ \A g \in Files : file[g].st # "free" => file'[g].st # "free"

\* A request that ends with the deletion of a row.
Removing(w) == rq[w].op = "purge" \/ (rq[w].op = "finish" /\ rq[w].pc = "replace")

\* What is left to show is what the step does to that file and to its own request.
LEMMA SafeElsewhere ==
    ASSUME RowsAre, RowsAre', NEW owner, Safe(owner), UNCHANGED interrupted, NEW w \in Workers, NEW q, rq' = [rq EXCEPT ![w] = q],
           NEW f, Elsewhere(f),
           Removing(w) => rq[w].f = f,
           \A m \in Messages : owner[m] # {f} => channel'[m] = channel[m],
           f \in FileRows' => BelongsTo(owner, file'[f].msg, f),
           \A v \in VersionRows' : version'[v].file = f => BelongsTo(owner, version'[v].msg, f),
           Sent(w)' => Sent(w) /\ rq'[w].new.msg = rq[w].new.msg,
           Going(f)',
           (\A g : Going(g) => Going(g)') => WorkerOwned(owner, w)', Handler(w)'
    PROVE  Safe(owner)'
<1>0. RequestsTyped
  BY DEF RowsAre
<1>1. /\ \A u \in Workers : u # w => /\ rq'[u] = rq[u] /\ Handler(u)' = Handler(u)
                                     /\ Sent(u)' = Sent(u) /\ Holds(u)' = Holds(u)
                                     /\ Deleting(u)' = Deleting(u)
      /\ \A g : g # f => (Doomed(g) => Doomed(g)')
  BY <1>0, OthersWait DEF Removing
<1>2. \A g : Going(g) => Going(g)'
  <2>1. ASSUME NEW g, Going(g), g # f PROVE Going(g)'
    BY <1>1, <2>1 DEF Going, Elsewhere
  <2>2. QED
    BY <2>1
<1>3. \A v \in VersionRows' : version'[v].file \in FileRows'
  BY DEF RowsAre, RowsInv, ReferencesResolve
<1>4. RowsOwned(owner)'
  <2>1. RowsOwned(owner)
    BY DEF Safe, Owned
  <2>2. \A m \in Messages : channel'[m] = "free" => owner[m] = {}
    BY <2>1 DEF RowsOwned, Elsewhere
  <2>3. \A m \in Messages : \A g \in owner[m] : file'[g].st # "free"
    BY <2>1 DEF RowsOwned, Elsewhere
  <2>4. ASSUME NEW g \in FileRows' PROVE BelongsTo(owner, file'[g].msg, g)
    BY <2>1 DEF RowsOwned, Elsewhere
  <2>5. ASSUME NEW v \in VersionRows' PROVE BelongsTo(owner, version'[v].msg, version'[v].file)
    BY <2>1 DEF RowsOwned, Elsewhere
  <2>6. QED
    BY <2>1, <2>2, <2>3, <2>4, <2>5 DEF RowsOwned, BelongsTo
<1>5. ASSUME NEW u \in Workers PROVE WorkerOwned(owner, u)'
  <2>1. CASE u = w
    BY <1>2, <2>1
  <2>2. CASE u # w
    <3>1. WorkerOwned(owner, u)
      BY DEF Safe, Owned
    <3>2. Sent(u) => channel'[rq[u].new.msg] = channel[rq[u].new.msg]
      BY <3>1 DEF WorkerOwned
    <3>3. QED
      BY <1>1, <1>2, <2>2, <3>1, <3>2 DEF WorkerOwned, BelongsTo
  <2>3. QED
    BY <2>1, <2>2
<1>6. Kept'
  <2>1. ASSUME NEW g \in FileRows', ~Doomed(g)' PROVE channel'[file'[g].msg] = "there"
    <3>1. g # f
      BY <2>1 DEF Going
    <3>2. g \in FileRows /\ file'[g].msg = file[g].msg /\ channel[file[g].msg] = "there"
      BY <1>1, <2>1, <3>1 DEF Elsewhere, Safe, Kept
    <3>3. BelongsTo(owner, file[g].msg, g)
      BY <3>2 DEF Safe, Owned, RowsOwned
    <3>4. QED
      BY <3>1, <3>2, <3>3 DEF BelongsTo
  <2>2. ASSUME NEW v \in VersionRows' PROVE Doomed(version[v].file)'
    <3>1. PICK g : g = version'[v].file
      OBVIOUS
    <3>2. CASE g = f
      BY <1>3, <3>1, <3>2 DEF Going
    <3>3. CASE g # f
      <4>1. v \in VersionRows /\ g = version[v].file /\ Doomed(g)
        BY <3>1, <3>3 DEF Elsewhere, Safe, Kept
      <4>2. QED
        BY <1>1, <3>1, <3>3, <4>1
    <3>4. QED
      BY <3>2, <3>3
  <2>3. QED
    BY <2>1, <2>2 DEF Kept
<1>7. SentOnce'
  BY <1>1 DEF Safe, SentOnce
<1>8. \A u \in Workers : Handler(u)'
  BY <1>1 DEF Safe
<1>9. QED
  BY <1>4, <1>5, <1>6, <1>7, <1>8 DEF Safe, Owned

\* DELETE FROM file_versions and DELETE FROM files leave the other files alone.
LEMMA DeletesElsewhere ==
    ASSUME RowsAre, NEW f, channel' = channel,
           (file' = file /\ DeleteVersionsOf({f})) \/ DeleteFiles({f})
    PROVE  /\ Elsewhere(f) /\ \A v \in VersionRows' : version'[v].file # f
           /\ DeleteFiles({f}) => f \notin FileRows'
<1>1. \A v \in Versions : version'[v] = IF v \in VersionRows /\ version[v].file = f
                                        THEN GoneVersion ELSE version[v]
  BY DEF DeleteFiles, DeleteVersionsOf
<1>2. VersionRows' = {v \in VersionRows : version[v].file # f} /\ \A v \in VersionRows' : version'[v] = version[v]
  BY <1>1, NewRecords DEF VersionRows
<1>3. \A g \in Files : file'[g] = file[g] \/ (g = f /\ file'[g] = GoneFile)
  BY DEF DeleteFiles
<1>4. FileRows' \subseteq FileRows
  BY <1>3, NewRecords DEF FileRows
<1>5. DeleteFiles({f}) => f \notin FileRows'
  BY NewRecords DEF DeleteFiles, FileRows
<1>6. \A g \in FileRows' : g # f => file'[g].msg = file[g].msg
  BY <1>3 DEF FileRows
<1>7. \A g \in Files : file[g].st # "free" => file'[g].st # "free"
  BY <1>3, NewRecords
<1>8. QED
  BY <1>2, <1>4, <1>5, <1>6, <1>7 DEF Elsewhere

\* purgeFile, and the deletion of the row an upload replaces.
LEMMA SafePurges ==
    ASSUME RowsAre, RowsAre', NEW owner, Safe(owner), UNCHANGED interrupted, NEW w \in Workers, PurgeStep(w) \/ FinishReplace(w)
    PROVE  Safe(owner)'
<1>f. PICK f : f = rq[w].f
  OBVIOUS
<1>0. RequestsTyped /\ WorkerOwned(owner, w) /\ Handler(w) /\ RowsOwned(owner)
  BY DEF RowsAre, Safe, Owned
<1>1. CASE PurgeMessage(w)
  <2>1. /\ rq[w].op = "purge" /\ rq[w].pc = "message" /\ Goto(w, "versions")
        /\ UNCHANGED <<file, version>> /\ DeleteMessage(rq[w].cur.msg)
    BY <1>1 DEF PurgeMessage
  <2>2. PICK q : /\ rq' = [rq EXCEPT ![w] = q] /\ rq'[w] = q
                 /\ q.op = "purge" /\ q.pc = "versions" /\ q.f = f
    BY <1>0, <1>f, <2>1, Onwards
  <2>3. BelongsTo(owner, rq[w].cur.msg, f)
    BY <1>0, <1>f, <2>1 DEF WorkerOwned, Holds
  <2>4. \A m \in Messages : /\ owner[m] # {f} => channel'[m] = channel[m]
                            /\ channel'[m] = "free" => channel[m] = "free"
    BY <2>1, <2>3 DEF DeleteMessage, BelongsTo, RowsAre, RowsInv
  <2>5. FileRows' = FileRows /\ VersionRows' = VersionRows
    BY <2>1 DEF FileRows, VersionRows
  <2>6. Elsewhere(f)
    BY <2>1, <2>4, <2>5 DEF Elsewhere
  <2>7. ~Sent(w)' /\ WorkerOwned(owner, w)' /\ Handler(w)'
    BY <2>2 DEF Sent, WorkerOwned, Handler, Holds, Deleting, Idle
  <2>8. Going(f)'
    BY <2>2 DEF Doomed, Purging, Going
  <2>9. f \in FileRows' => BelongsTo(owner, file'[f].msg, f)
    BY <1>0, <2>1, <2>5 DEF RowsOwned
  <2>10. \A v \in VersionRows' : version'[v].file = f => BelongsTo(owner, version'[v].msg, f)
    BY <1>0, <2>1, <2>5 DEF RowsOwned
  <2>11. QED
    BY <1>f, <2>2, <2>4, <2>6, <2>7, <2>8, <2>9, <2>10, SafeElsewhere
<1>2. CASE PurgeVersions(w)
  <2>1. /\ rq[w].op = "purge" /\ rq[w].pc = "versions" /\ Goto(w, "row")
        /\ UNCHANGED <<file, channel>> /\ DeleteVersionsOf({f})
    BY <1>2, <1>f DEF PurgeVersions
  <2>2. PICK q : /\ rq' = [rq EXCEPT ![w] = q] /\ rq'[w] = q
                 /\ q.op = "purge" /\ q.pc = "row" /\ q.f = f
    BY <1>0, <1>f, <2>1, Onwards
  <2>3. Elsewhere(f) /\ \A v \in VersionRows' : version'[v].file # f
    BY <2>1, DeletesElsewhere
  <2>4. ~Sent(w)' /\ WorkerOwned(owner, w)' /\ Handler(w)'
    BY <2>2 DEF Sent, WorkerOwned, Handler, Holds, Deleting, Idle
  <2>5. Going(f)'
    BY <2>2 DEF Doomed, Purging, Going
  <2>6. f \in FileRows' => BelongsTo(owner, file'[f].msg, f)
    BY <1>0, <2>1 DEF RowsOwned, FileRows
  <2>7. QED
    BY <1>f, <2>1, <2>2, <2>3, <2>4, <2>5, <2>6, SafeElsewhere
<1>3. CASE PurgeRow(w)
  <2>1. rq[w].op = "purge" /\ rq[w].pc = "row" /\ Done(w) /\ channel' = channel /\ DeleteFiles({f})
    BY <1>3, <1>f DEF PurgeRow
  <2>2. Elsewhere(f) /\ f \notin FileRows' /\ \A v \in VersionRows' : version'[v].file # f
    BY <2>1, DeletesElsewhere
  <2>3. rq' = [rq EXCEPT ![w] = NoRequest] /\ ~Sent(w)' /\ WorkerOwned(owner, w)' /\ Handler(w)'
    BY <1>0, <2>1, Over
  <2>4. Going(f)'
    BY <2>2 DEF Going
  <2>5. QED
    BY <1>f, <2>1, <2>2, <2>3, <2>4, SafeElsewhere
<1>4. CASE FinishReplace(w)
  <2>1. /\ rq[w].op = "finish" /\ rq[w].pc = "replace" /\ Goto(w, "create")
        /\ channel' = channel /\ DeleteFiles({f})
    BY <1>4, <1>f DEF FinishReplace
  <2>2. PICK q : /\ rq' = [rq EXCEPT ![w] = q] /\ rq'[w] = q
                 /\ q.op = "finish" /\ q.pc = "create" /\ q.f = f /\ q.new = rq[w].new
    BY <1>0, <1>f, <2>1, Onwards
  <2>3. Elsewhere(f) /\ f \notin FileRows' /\ \A v \in VersionRows' : version'[v].file # f
    BY <2>1, DeletesElsewhere
  <2>4. Sent(w) /\ rq'[w].new.msg = rq[w].new.msg
    BY <2>1, <2>2 DEF Sent
  <2>5. WorkerOwned(owner, w)' /\ Handler(w)'
    BY <1>0, <2>1, <2>2, <2>4 DEF WorkerOwned, Handler, Holds, Deleting, Idle, BelongsTo
  <2>6. Going(f)'
    BY <2>3 DEF Going
  <2>7. QED
    BY <1>f, <2>1, <2>2, <2>3, <2>4, <2>5, <2>6, SafeElsewhere
<1>5. QED
  BY <1>1, <1>2, <1>3, <1>4 DEF PurgeStep

\* INSERT INTO file_versions: the version that is new is of the file f.
LEMMA ArchivesElsewhere ==
    ASSUME RowsAre, NEW f, NEW r, ArchiveVersion(f, r), file' = file, channel' = channel
    PROVE  \E n \in Versions \ VersionRows :
              /\ VersionRows' = VersionRows \cup {n} /\ version'[n].file = f /\ version'[n].msg = r.msg
              /\ \A v \in VersionRows : version'[v] = version[v]
              /\ Elsewhere(f)
<1>1. PICK n : n = FreeVersion
  OBVIOUS
<1>2. n \in Versions /\ version[n].st = "free" /\ n \notin VersionRows
  BY <1>1 DEF ArchiveVersion, FreeVersion, FreeVersions, VersionRows
<1>3. PICK x : x = [st |-> "row", file |-> f, name |-> r.name, msg |-> r.msg]
  OBVIOUS
<1>4. version' = [version EXCEPT ![n] = x]
  BY <1>1, <1>3 DEF ArchiveVersion
<1>5. version'[n] = x /\ \A v \in Versions : v # n => version'[v] = version[v]
  BY <1>2, <1>4 DEF RowsAre, RowsInv
<1>6. VersionRows' = VersionRows \cup {n}
  BY <1>2, <1>3, <1>5 DEF VersionRows
<1>7. \A v \in VersionRows : v # n /\ version'[v] = version[v]
  BY <1>2, <1>5 DEF VersionRows
<1>8. version'[n].file = f /\ version'[n].msg = r.msg
  BY <1>3, <1>5
<1>9. FileRows' = FileRows
  BY DEF FileRows
<1>10. Elsewhere(f)
  BY <1>6, <1>7, <1>8, <1>9 DEF Elsewhere
<1>11. QED
  BY <1>2, <1>6, <1>7, <1>8, <1>10

\* The row that an upload is about to replace is archived.
LEMMA SafeArchives ==
    ASSUME RowsAre, RowsAre', NEW owner, Safe(owner), UNCHANGED interrupted, NEW w \in Workers, FinishArchive(w)
    PROVE  Safe(owner)'
<1>f. PICK f : f = rq[w].f
  OBVIOUS
<1>0. RequestsTyped /\ WorkerOwned(owner, w) /\ Handler(w) /\ RowsOwned(owner)
  BY DEF RowsAre, Safe, Owned
<1>1. CASE f \notin FileRows
  <2>1. UNCHANGED <<file, version, channel>>
    BY <1>1, <1>f DEF FinishArchive
  <2>2. QED
    BY <1>1, <1>f, <2>1, SafePasses
<1>2. CASE f \in FileRows
  <2>1. /\ rq[w].op = "finish" /\ rq[w].pc = "archive" /\ Goto(w, "replace")
        /\ ArchiveVersion(f, rq[w].cur) /\ UNCHANGED <<file, channel>>
    BY <1>2, <1>f DEF FinishArchive
  <2>2. PICK q : /\ rq' = [rq EXCEPT ![w] = q] /\ rq'[w] = q
                 /\ q.op = "finish" /\ q.pc = "replace" /\ q.f = f /\ q.new = rq[w].new
    BY <1>0, <1>f, <2>1, Onwards
  <2>3. PICK n \in Versions \ VersionRows :
              /\ VersionRows' = VersionRows \cup {n} /\ version'[n].file = f /\ version'[n].msg = rq[w].cur.msg
              /\ \A v \in VersionRows : version'[v] = version[v]
              /\ Elsewhere(f)
    BY <2>1, ArchivesElsewhere
  <2>4. BelongsTo(owner, rq[w].cur.msg, f)
    BY <1>0, <1>f, <2>1 DEF WorkerOwned, Holds
  <2>5. \A v \in VersionRows' : version'[v].file = f => BelongsTo(owner, version'[v].msg, f)
    BY <1>0, <2>3, <2>4 DEF RowsOwned
  <2>6. f \in FileRows' => BelongsTo(owner, file'[f].msg, f)
    BY <1>0, <1>2, <2>1 DEF RowsOwned
  <2>7. Going(f)'
    BY <2>2 DEF Doomed, Purging, Going
  <2>8. Sent(w) /\ rq'[w].new.msg = rq[w].new.msg
    BY <2>1, <2>2 DEF Sent
  <2>9. WorkerOwned(owner, w)' /\ Handler(w)'
    BY <1>0, <2>1, <2>2, <2>8 DEF WorkerOwned, Handler, Holds, Deleting, Idle, BelongsTo
  <2>10. QED
    BY <1>f, <2>1, <2>2, <2>3, <2>5, <2>6, <2>7, <2>8, <2>9, SafeElsewhere DEF Removing
<1>3. QED
  BY <1>1, <1>2

\* A restore that still finds the row: it archives the row, and puts the version in its place.
LEMMA SafeRestores ==
    ASSUME RowsAre, RowsAre', NEW owner, Safe(owner), UNCHANGED interrupted, NEW w \in Workers,
           RestoreVersionArchive(w) \/ RestoreVersionPromote(w)
    PROVE  Safe(owner)'
<1>f. PICK f : f = rq[w].f
  OBVIOUS
<1>0. RequestsTyped /\ WorkerOwned(owner, w) /\ Handler(w) /\ RowsOwned(owner)
  BY DEF RowsAre, Safe, Owned
<1>1. CASE f \notin FileRows
  <2>1. UNCHANGED <<file, version, channel>>
    BY <1>1, <1>f DEF RestoreVersionArchive, RestoreVersionPromote, RowsAre, RowsInv
  <2>2. QED
    BY <1>1, <1>f, <2>1, SafePasses
<1>2. CASE f \in FileRows
  <2>1. rq[w].op = "restorev" /\ channel' = channel /\ \E p \in {"promote", "drop"} : Goto(w, p)
    BY <1>2, <1>f DEF RestoreVersionArchive, RestoreVersionPromote
  <2>2. PICK q : /\ rq' = [rq EXCEPT ![w] = q] /\ rq'[w] = q /\ q.op = "restorev"
                 /\ q.pc \in {"promote", "drop"} /\ q.f = f /\ q.cur = rq[w].cur /\ q.new = rq[w].new
    BY <1>0, <1>f, <2>1, Onwards
  <2>3. BelongsTo(owner, rq[w].cur.msg, f) /\ BelongsTo(owner, rq[w].new.msg, f) /\ Doomed(f)
    BY <1>0, <1>2, <1>f, <2>1 DEF WorkerOwned, Holds, Going
  <2>4. Going(f)'
    BY <1>0, <2>1, <2>2, <2>3, OthersWait DEF Going
  <2>5. ~Sent(w)' /\ Handler(w)'
    BY <2>2 DEF Sent, Handler, Idle
  <2>6. WorkerOwned(owner, w)'
    BY <2>2, <2>3, <2>4, <2>5 DEF WorkerOwned, Holds, Deleting, BelongsTo
  <2>7. CASE RestoreVersionArchive(w)
    <3>1. ArchiveVersion(f, rq[w].cur) /\ UNCHANGED <<file, channel>>
      BY <1>2, <1>f, <2>7 DEF RestoreVersionArchive
    <3>2. PICK n \in Versions \ VersionRows :
              /\ VersionRows' = VersionRows \cup {n} /\ version'[n].file = f /\ version'[n].msg = rq[w].cur.msg
              /\ \A v \in VersionRows : version'[v] = version[v]
              /\ Elsewhere(f)
      BY <3>1, ArchivesElsewhere
    <3>3. \A v \in VersionRows' : version'[v].file = f => BelongsTo(owner, version'[v].msg, f)
      BY <1>0, <2>3, <3>2 DEF RowsOwned
    <3>4. f \in FileRows' => BelongsTo(owner, file'[f].msg, f)
      BY <1>0, <1>2, <3>1 DEF RowsOwned
    <3>5. QED
      BY <2>1, <2>2, <2>4, <2>5, <2>6, <3>2, <3>3, <3>4, SafeElsewhere DEF Removing
  <2>8. CASE RestoreVersionPromote(w)
    <3>1. PICK r : r = [file[f] EXCEPT !.name = rq[w].new.name, !.msg = rq[w].new.msg]
      OBVIOUS
    <3>2. UNCHANGED <<version, channel>> /\ file' = [file EXCEPT ![f] = r]
      BY <1>2, <1>f, <2>8, <3>1 DEF RestoreVersionPromote
    <3>3. f \in Files /\ file[f] \in Snapshot /\ file[f].st = "row"
      BY <1>2 DEF RowsAre, RowsInv, FileRows
    <3>4. r.msg = rq[w].new.msg /\ r.st = "row"
      BY <3>1, <3>3 DEF Snapshot
    <3>5. file'[f] = r /\ \A g \in Files : g # f => file'[g] = file[g]
      BY <3>2, <3>3 DEF RowsAre, RowsInv
    <3>6. FileRows' = FileRows /\ VersionRows' = VersionRows
      BY <3>2, <3>3, <3>4, <3>5 DEF FileRows, VersionRows
    <3>7. Elsewhere(f)
      BY <3>2, <3>3, <3>4, <3>5, <3>6 DEF Elsewhere, FileRows
    <3>8. BelongsTo(owner, file'[f].msg, f)
      BY <2>3, <3>4, <3>5
    <3>9. \A v \in VersionRows' : version'[v].file = f => BelongsTo(owner, version'[v].msg, f)
      BY <1>0, <3>2, <3>6 DEF RowsOwned
    <3>10. QED
      BY <2>1, <2>2, <2>4, <2>5, <2>6, <3>2, <3>7, <3>8, <3>9, SafeElsewhere DEF Removing
  <2>9. QED
    BY <2>7, <2>8
<1>3. QED
  BY <1>1, <1>2

\* A version is deleted: first its message, which is of a file that is going.
LEMMA SafeDeletes ==
    ASSUME RowsAre, RowsAre', NEW owner, Safe(owner), UNCHANGED interrupted, NEW w \in Workers, DeleteVersionMessage(w)
    PROVE  Safe(owner)'
<1>0. RequestsTyped /\ WorkerOwned(owner, w) /\ Handler(w) /\ RowsOwned(owner)
  BY DEF RowsAre, Safe, Owned
<1>1. /\ rq[w].op = "deletev" /\ rq[w].pc = "message" /\ Goto(w, "drop")
      /\ UNCHANGED <<file, version>> /\ DeleteMessage(rq[w].cur.msg)
  BY DEF DeleteVersionMessage
<1>2. PICK f \in Files : BelongsTo(owner, rq[w].cur.msg, f) /\ Going(f)
  BY <1>0, <1>1 DEF WorkerOwned, Deleting
<1>3. PICK q : rq' = [rq EXCEPT ![w] = q] /\ rq'[w] = q /\ q.op = "deletev" /\ q.pc = "drop"
  BY <1>0, <1>1, Onwards
<1>4. \A m \in Messages : /\ owner[m] # {f} => channel'[m] = channel[m]
                          /\ channel'[m] = "free" => channel[m] = "free"
  BY <1>1, <1>2 DEF DeleteMessage, BelongsTo, RowsAre, RowsInv
<1>5. FileRows' = FileRows /\ VersionRows' = VersionRows
  BY <1>1 DEF FileRows, VersionRows
<1>6. Elsewhere(f)
  BY <1>1, <1>4, <1>5 DEF Elsewhere
<1>7. ~Sent(w)' /\ WorkerOwned(owner, w)' /\ Handler(w)'
  BY <1>3 DEF Sent, WorkerOwned, Handler, Holds, Deleting, Idle
<1>8. Going(f)'
  BY <1>0, <1>1, <1>2, <1>3, <1>5, OthersWait DEF Going
<1>9. f \in FileRows' => BelongsTo(owner, file'[f].msg, f)
  BY <1>0, <1>1, <1>5 DEF RowsOwned
<1>10. \A v \in VersionRows' : version'[v].file = f => BelongsTo(owner, version'[v].msg, f)
  BY <1>0, <1>1, <1>5 DEF RowsOwned
<1>11. QED
  BY <1>1, <1>3, <1>4, <1>6, <1>7, <1>8, <1>9, <1>10, SafeElsewhere DEF Removing

\* Then, at the end of both handlers, the row of the version.
LEMMA SafeDrops ==
    ASSUME RowsAre, NEW owner, Safe(owner), UNCHANGED interrupted, NEW w \in Workers, DropVersion(w)
    PROVE  Safe(owner)'
<1>0. RequestsTyped /\ RowsOwned(owner)
  BY DEF RowsAre, Safe, Owned
<1>1. /\ rq[w].op \in {"restorev", "deletev"} /\ rq[w].pc = "drop" /\ Done(w)
      /\ UNCHANGED <<file, channel>> /\ version' = [version EXCEPT ![rq[w].v] = GoneVersion]
  BY DEF DropVersion
<1>2. /\ rq' = [rq EXCEPT ![w] = NoRequest] /\ ~Sent(w)'
      /\ WorkerOwned(owner, w)' /\ Handler(w)'
  BY <1>0, <1>1, Over
<1>3. /\ \A u \in Workers : u # w => /\ rq'[u] = rq[u] /\ Handler(u)' = Handler(u)
                                     /\ Sent(u)' = Sent(u) /\ Holds(u)' = Holds(u)
                                     /\ Deleting(u)' = Deleting(u)
      /\ \A f : Doomed(f) => Doomed(f)'
  BY <1>0, <1>1, <1>2, OthersWait
<1>4. FileRows' = FileRows /\ VersionRows' \subseteq VersionRows /\ \A x \in VersionRows' : version'[x] = version[x]
  <2>1. \A x \in Versions : version'[x] = IF x = rq[w].v THEN GoneVersion ELSE version[x]
    BY <1>1 DEF RowsAre, RowsInv
  <2>2. QED
    BY <1>1, <2>1, NewRecords DEF FileRows, VersionRows
<1>5. \A f : Going(f) => Going(f)'
  BY <1>3, <1>4 DEF Going
<1>6. RowsOwned(owner)'
  BY <1>0, <1>1, <1>4 DEF RowsOwned, BelongsTo
<1>7. ASSUME NEW u \in Workers PROVE WorkerOwned(owner, u)'
  <2>1. CASE u = w
    BY <1>2, <2>1
  <2>2. CASE u # w
    <3>1. WorkerOwned(owner, u)
      BY DEF Safe, Owned
    <3>2. QED
      BY <1>1, <1>3, <1>5, <2>2, <3>1 DEF WorkerOwned, BelongsTo
  <2>3. QED
    BY <2>1, <2>2
<1>8. Kept'
  BY <1>1, <1>3, <1>4 DEF Safe, Kept
<1>9. SentOnce' /\ \A u \in Workers : Handler(u)'
  BY <1>2, <1>3 DEF Safe, SentOnce
<1>10. QED
  BY <1>6, <1>7, <1>8, <1>9 DEF Safe, Owned

\* An upload sends its message: no file has it yet.
LEMMA SafeSends ==
    ASSUME RowsAre, NEW owner, Safe(owner), UNCHANGED interrupted, NEW w \in Workers, NEW m \in Messages, FinishSend(w, m)
    PROVE  Safe(owner)'
<1>0. RequestsTyped /\ RowsOwned(owner) /\ rq[w] \in Request /\ Handler(w)
  BY DEF RowsAre, Safe, Owned, RequestsTyped
<1>1. /\ rq[w].op = "finish" /\ rq[w].pc = "send" /\ channel[m] = "free"
      /\ UNCHANGED <<file, version>> /\ channel' = [channel EXCEPT ![m] = "there"]
      /\ rq' = [rq EXCEPT ![w].pc = "find", ![w].new.msg = m]
  BY DEF FinishSend
<1>2. PICK q : /\ rq' = [rq EXCEPT ![w] = q] /\ rq'[w] = q
               /\ q.op = "finish" /\ q.pc = "find" /\ q.new.msg = m
  <2>1. PICK s : s = [rq[w].new EXCEPT !.msg = m]
    OBVIOUS
  <2>2. PICK q : q = [rq[w] EXCEPT !.pc = "find", !.new = s]
    OBVIOUS
  <2>3. s.msg = m /\ q.op = "finish" /\ q.pc = "find" /\ q.new = s
    BY <1>0, <1>1, <2>1, <2>2 DEF Request, Snapshot
  <2>4. rq' = [rq EXCEPT ![w] = q]
    BY <1>0, <1>1, <2>1, <2>2 DEF RequestsTyped, Request, Snapshot
  <2>5. rq'[w] = q
    BY <1>0, <2>4 DEF RequestsTyped
  <2>6. QED
    BY <2>3, <2>4, <2>5
<1>3. /\ \A u \in Workers : u # w => /\ rq'[u] = rq[u] /\ Handler(u)' = Handler(u)
                                     /\ Sent(u)' = Sent(u) /\ Holds(u)' = Holds(u)
                                     /\ Deleting(u)' = Deleting(u)
      /\ \A g : Doomed(g) => Doomed(g)'
  BY <1>0, <1>1, <1>2, OthersWait
<1>4. FileRows' = FileRows /\ VersionRows' = VersionRows
  BY <1>1 DEF FileRows, VersionRows
<1>5. owner[m] = {} /\ channel'[m] = "there" /\ \A x : x # m => channel'[x] = channel[x]
  BY <1>0, <1>1 DEF RowsOwned, RowsAre, RowsInv
<1>6. \A g : Going(g) => Going(g)'
  BY <1>3, <1>4 DEF Going
<1>7. ~Holds(w)' /\ ~Deleting(w)' /\ Sent(w)'
  BY <1>1, <1>2 DEF Holds, Deleting, Sent
<1>8. RowsOwned(owner)'
  BY <1>0, <1>1, <1>4, <1>5 DEF RowsOwned, BelongsTo
<1>9. ASSUME NEW u \in Workers PROVE WorkerOwned(owner, u)'
  <2>1. CASE u = w
    BY <1>2, <1>5, <1>7, <2>1 DEF WorkerOwned
  <2>2. CASE u # w
    <3>1. WorkerOwned(owner, u)
      BY DEF Safe, Owned
    <3>2. QED
      BY <1>3, <1>5, <1>6, <2>2, <3>1 DEF WorkerOwned, BelongsTo
  <2>3. QED
    BY <2>1, <2>2
<1>10. Kept'
  <2>1. ASSUME NEW g \in FileRows PROVE Doomed(g)' \/ channel'[file[g].msg] = "there"
    <3>1. BelongsTo(owner, file[g].msg, g)
      BY <1>0 DEF RowsOwned
    <3>2. QED
      BY <1>3, <1>5, <3>1 DEF BelongsTo, Safe, Kept
  <2>2. QED
    BY <1>1, <1>3, <1>4, <2>1 DEF Safe, Kept
<1>11. SentOnce'
  <2>1. \A u \in Workers : Sent(u) => channel[rq[u].new.msg] = "there"
    BY DEF Safe, Owned, WorkerOwned
  <2>2. \A u \in Workers : u # w /\ Sent(u)' => rq'[u].new.msg # m
    BY <1>1, <1>3, <2>1
  <2>3. QED
    BY <1>2, <1>3, <2>2 DEF Safe, SentOnce
<1>12. \A u \in Workers : Handler(u)'
  BY <1>0, <1>2, <1>3 DEF Safe, Handler, Idle
<1>13. QED
  BY <1>8, <1>9, <1>10, <1>11, <1>12 DEF Safe, Owned

\* The row of an upload: a message that was nobody's is behind a file from here on.
LEMMA SafeCreates ==
    ASSUME RowsAre, Flat, NEW owner, Safe(owner), UNCHANGED interrupted, NEW w \in Workers, FinishCreate(w)
    PROVE  \E o \in [Messages -> SUBSET Files] : Safe(o)'
<1>m. PICK m : m = rq[w].new.msg
  OBVIOUS
<1>n. PICK n : n = FreeFile
  OBVIOUS
<1>0. /\ RequestsTyped /\ RowsOwned(owner) /\ rq[w] \in Request /\ rq[w].new \in Snapshot
      /\ owner \in [Messages -> SUBSET Files] /\ WorkerOwned(owner, w)
  BY DEF RowsAre, Safe, Owned, RowsOwned, RequestsTyped, Request
<1>1. /\ rq[w].op = "finish" /\ rq[w].pc = "create" /\ InsertFile(rq[w].new) /\ Done(w)
      /\ UNCHANGED <<version, channel>>
  BY DEF FinishCreate
<1>2. Sent(w) /\ m \in Messages /\ owner[m] = {} /\ channel[m] = "there"
  BY <1>0, <1>1, <1>m DEF Sent, WorkerOwned
<1>3. /\ n \in Files /\ file[n].st = "free" /\ n \notin FileRows
      /\ file'[n].st = "row" /\ file'[n].msg = m /\ \A g \in Files : g # n => file'[g] = file[g]
  <2>1. FolderExists(rq[w].new.folder)
    BY DEF Flat, FolderExists, Tree!ParentExists
  <2>2. PICK r : r = [rq[w].new EXCEPT !.st = "row", !.trashed = FALSE]
    OBVIOUS
  <2>3. r.st = "row" /\ r.msg = m
    BY <1>0, <1>m, <2>2 DEF Snapshot
  <2>4. FreeFiles # {} /\ file' = [file EXCEPT ![n] = r]
    BY <1>1, <1>n, <2>1, <2>2 DEF InsertFile
  <2>5. n \in Files /\ file[n].st = "free" /\ n \notin FileRows
    BY <1>n, <2>4 DEF FreeFile, FreeFiles, FileRows
  <2>6. QED
    BY <2>3, <2>4, <2>5 DEF RowsAre, RowsInv
<1>4. FileRows' = FileRows \cup {n} /\ VersionRows' = VersionRows
  BY <1>1, <1>3 DEF FileRows, VersionRows
<1>5. PICK o : o = [owner EXCEPT ![m] = {n}]
  OBVIOUS
<1>6. /\ o \in [Messages -> SUBSET Files] /\ o[m] = {n} /\ \A x \in Messages : x # m => o[x] = owner[x]
  BY <1>0, <1>2, <1>3, <1>5
<1>7. \A x, g : BelongsTo(owner, x, g) => BelongsTo(o, x, g) /\ g # n
  BY <1>0, <1>2, <1>3, <1>6 DEF BelongsTo, RowsOwned
<1>8. /\ rq' = [rq EXCEPT ![w] = NoRequest] /\ rq'[w].op = "none" /\ ~Sent(w)'
      /\ WorkerOwned(o, w)' /\ Handler(w)'
  BY <1>0, <1>1, Over
<1>9. /\ \A u \in Workers : u # w => /\ rq'[u] = rq[u] /\ Handler(u)' = Handler(u)
                                     /\ Sent(u)' = Sent(u) /\ Holds(u)' = Holds(u)
                                     /\ Deleting(u)' = Deleting(u)
      /\ \A g : Doomed(g) => Doomed(g)'
  BY <1>0, <1>1, <1>8, OthersWait
<1>10. \A g : Going(g) /\ g # n => Going(g)'
  BY <1>4, <1>9 DEF Going
<1>12. RowsOwned(o)'
  <2>1. \A x \in Messages : channel'[x] = "free" => o[x] = {}
    BY <1>0, <1>1, <1>2, <1>6 DEF RowsOwned
  <2>2. ASSUME NEW x \in Messages, NEW g \in o[x] PROVE file'[g].st # "free"
    <3>1. CASE x = m
      BY <1>3, <1>6, <2>2, <3>1
    <3>2. CASE x # m
      <4>1. g \in owner[x] /\ g \in Files /\ file[g].st # "free"
        BY <1>0, <1>6, <2>2, <3>2 DEF RowsOwned
      <4>2. QED
        BY <1>3, <4>1
    <3>3. QED
      BY <3>1, <3>2
  <2>3. ASSUME NEW g \in FileRows' PROVE BelongsTo(o, file'[g].msg, g)
    <3>1. CASE g = n
      BY <1>2, <1>3, <1>6, <3>1 DEF BelongsTo
    <3>2. CASE g # n
      <4>1. g \in FileRows /\ file'[g] = file[g]
        BY <1>3, <1>4, <3>2 DEF FileRows
      <4>2. BelongsTo(owner, file[g].msg, g)
        BY <1>0, <4>1 DEF RowsOwned
      <4>3. QED
        BY <1>7, <4>1, <4>2
    <3>3. QED
      BY <3>1, <3>2
  <2>4. ASSUME NEW v \in VersionRows' PROVE BelongsTo(o, version'[v].msg, version'[v].file)
    <3>1. v \in VersionRows /\ version'[v] = version[v]
      BY <1>1, <1>4
    <3>2. BelongsTo(owner, version[v].msg, version[v].file)
      BY <1>0, <3>1 DEF RowsOwned
    <3>3. QED
      BY <1>7, <3>1, <3>2
  <2>5. QED
    BY <1>6, <2>1, <2>2, <2>3, <2>4 DEF RowsOwned, BelongsTo
<1>13. ASSUME NEW u \in Workers PROVE WorkerOwned(o, u)'
  <2>1. CASE u = w
    BY <1>8, <2>1
  <2>2. CASE u # w
    <3>1. WorkerOwned(owner, u)
      BY DEF Safe, Owned
    <3>2. Holds(u) => BelongsTo(o, rq[u].cur.msg, rq[u].f)
      BY <1>7, <3>1 DEF WorkerOwned
    <3>3. rq[u].op = "restorev" => BelongsTo(o, rq[u].new.msg, rq[u].f) /\ Going(rq[u].f)'
      <4>1. PICK f : f = rq[u].f /\ f = rq'[u].f
        BY <1>9, <2>2
      <4>2. rq[u].op = "restorev" => BelongsTo(o, rq[u].new.msg, f) /\ Going(f)'
        BY <1>7, <1>10, <3>1, <4>1 DEF WorkerOwned
      <4>3. QED
        BY <4>1, <4>2
    <3>4. Deleting(u) => \E f \in Files : BelongsTo(o, rq[u].cur.msg, f) /\ Going(f)'
      BY <1>7, <1>10, <3>1 DEF WorkerOwned
    <3>5. Sent(u) => rq[u].new.msg \in Messages /\ o[rq[u].new.msg] = {} /\ channel[rq[u].new.msg] = "there"
      BY <1>2, <1>6, <1>m, <2>2, <3>1 DEF WorkerOwned, Safe, SentOnce
    <3>6. QED
      BY <1>1, <1>9, <2>2, <3>2, <3>3, <3>4, <3>5 DEF WorkerOwned, BelongsTo
  <2>3. QED
    BY <2>1, <2>2
<1>14. Kept'
  <2>1. ASSUME NEW g \in FileRows' PROVE Doomed(g)' \/ channel'[file'[g].msg] = "there"
    BY <1>1, <1>2, <1>3, <1>4, <1>9, <2>1 DEF Safe, Kept, FileRows
  <2>2. QED
    BY <1>1, <1>4, <1>9, <2>1 DEF Safe, Kept
<1>15. SentOnce' /\ \A u \in Workers : Handler(u)'
  BY <1>8, <1>9 DEF Safe, SentOnce
<1>16. Safe(o)'
  BY <1>12, <1>13, <1>14, <1>15 DEF Safe, Owned
<1>17. QED
  BY <1>6, <1>16

\* All steps together.
LEMMA ObjectsStep ==
    ASSUME RowsAre, RowsAre', Flat, Flat', NEW owner \in [Messages -> SUBSET Files], Safe(owner), UNCHANGED interrupted,
           Arrive \/ \E w \in Workers : WorkStep(w)
    PROVE  \E o \in [Messages -> SUBSET Files] : Safe(o)'
<1>w. Uploaders \subseteq Workers /\ Versioners \subseteq Workers
  BY WorkerAssumption
<1>1. CASE Arrive
  <2>1. \A k \in Keepers : ~EmptyStart(k) /\ \A id : ~FolderArrive(k, id)
    <3>1. ASSUME NEW k \in Keepers, NEW q, kp' = [kp EXCEPT ![k] = q] PROVE q.pc = "idle"
      BY <3>1 DEF Flat, RowsAre, TreeTyped, Tree!TypeOK
    <3>2. ASSUME NEW k \in Keepers, NEW op, NEW pc, NEW id, pc \in {"read", "files"}
          PROVE  ~Tree!KeepStart(k, op, id, pc)
      <4>1. PICK q : q = [op |-> op, pc |-> pc, id |-> id, todo |-> {}]
        OBVIOUS
      <4>2. q.pc # "idle"
        BY <3>2, <4>1
      <4>3. QED
        BY <3>1, <4>1, <4>2 DEF Tree!KeepStart
    <3>3. QED
      BY <3>2 DEF EmptyStart, FolderArrive, Tree!EmptyStart, Tree!TrashStart, Tree!RestoreStart, Tree!PurgeStart
  <2>2. ASSUME NEW w \in Workers, NEW f, NEW d, NEW x PROVE ~CopyStart(w, f, d, x)
    <3>1. SUFFICES ASSUME CopyStart(w, f, d, x) PROVE FALSE
      OBVIOUS
    <3>2. PICK q : q = [NoRequest EXCEPT !.op = "copy", !.pc = "insert",
                                  !.new = [file[f] EXCEPT !.folder = d, !.name = x]]
      OBVIOUS
    <3>3. q.op = "copy"
      BY <3>2 DEF NoRequest
    <3>4. rq'[w] = q
      BY <3>1, <3>2 DEF CopyStart, Begin, RowsAre, RequestsTyped
    <3>5. QED
      BY <3>3, <3>4 DEF Flat
  <2>3. ASSUME NEW f \in Files,
               \/ TrashFile(f) \/ RestoreFile(f)
               \/ \E d \in Folders \cup {Root} : MoveFile(f, d)
               \/ \E x \in Names : RenameFile(f, x)
        PROVE  Safe(owner)'
    BY <2>3, SafeMarks
  <2>4. ASSUME NEW w \in Workers, NEW f \in Files, PurgeStart(w, f) PROVE Safe(owner)'
    BY <2>4, SafeBegins
  <2>5. ASSUME NEW w \in Uploaders, NEW d \in Folders \cup {Root}, NEW x \in Names, FinishStart(w, d, x)
        PROVE  Safe(owner)'
    BY <1>w, <2>5, SafeBegins
  <2>6. ASSUME NEW w \in Versioners, NEW v \in Versions, RestoreVersionStart(w, v) \/ DeleteVersionStart(w, v)
        PROVE  Safe(owner)'
    BY <1>w, <2>6, SafeBegins
  <2>7. Safe(owner)'
    BY <1>1, <2>1, <2>2, <2>3, <2>4, <2>5, <2>6 DEF Arrive
  <2>8. QED
    BY <2>7
<1>2. ASSUME NEW w \in Workers, WorkStep(w) PROVE \E o \in [Messages -> SUBSET Files] : Safe(o)'
  <2>1. ~CopyInsert(w)
    BY DEF Flat, CopyInsert
  <2>2. CASE PurgeStep(w) \/ FinishReplace(w)
    <3>1. Safe(owner)'
      BY <2>2, SafePurges
    <3>2. QED
      BY <3>1
  <2>3. CASE FinishFail(w) \/ FinishFind(w)
    <3>1. UNCHANGED <<file, version, channel>>
      BY <2>3 DEF FinishFail, FinishFind
    <3>2. Safe(owner)'
      BY <2>3, <3>1, SafePasses
    <3>3. QED
      BY <3>2
  <2>4. ASSUME NEW m \in Messages, FinishSend(w, m) PROVE \E o \in [Messages -> SUBSET Files] : Safe(o)'
    <3>1. Safe(owner)'
      BY <2>4, SafeSends
    <3>2. QED
      BY <3>1
  <2>5. CASE FinishArchive(w) \/ RestoreVersionArchive(w) \/ RestoreVersionPromote(w)
    <3>1. Safe(owner)'
      BY <2>5, SafeArchives, SafeRestores
    <3>2. QED
      BY <3>1
  <2>6. CASE DeleteVersionMessage(w) \/ DropVersion(w)
    <3>1. Safe(owner)'
      BY <2>6, SafeDeletes, SafeDrops
    <3>2. QED
      BY <3>1
  <2>7. CASE FinishCreate(w)
    BY <2>7, SafeCreates
  <2>8. QED
    BY <1>2, <2>1, <2>2, <2>3, <2>4, <2>5, <2>6, <2>7 DEF WorkStep
<1>3. QED
  BY <1>1, <1>2

LEMMA ObjectsInit == CatalogInit => ObjectsInv
<1> SUFFICES ASSUME CatalogInit PROVE Flat /\ \E owner \in [Messages -> SUBSET Files] : Safe(owner)
  BY DEF ObjectsInv
<1>1. /\ file = [f \in Files |-> NoFile] /\ version = [v \in Versions |-> NoVersion]
      /\ channel = [m \in Messages |-> "free"] /\ rq = [w \in Workers \cup Keepers |-> NoRequest]
      /\ kp = [k \in Keepers |-> Tree!NoKeep]
  BY DEF CatalogInit, Init
<1>2. /\ FileRows = {} /\ VersionRows = {}
      /\ NoRequest.op = "none" /\ NoRequest.pc = "idle" /\ NoRequest.new = NoFile /\ NoFile.folder = Root
      /\ Tree!NoKeep.pc = "idle"
  BY <1>1 DEF FileRows, VersionRows, NoFile, NoVersion, NoRequest, Tree!NoKeep
<1>3. Flat
  BY <1>1, <1>2 DEF Flat, Idle
<1>4. PICK owner : owner = [m \in Messages |-> {}]
  OBVIOUS
<1>5. RowsOwned(owner)
  BY <1>1, <1>2, <1>4 DEF RowsOwned
<1>6. \A w \in Workers : /\ ~Holds(w) /\ ~Sent(w) /\ ~Deleting(w) /\ rq[w].op = "none"
  BY <1>1, <1>2 DEF Holds, Sent, Deleting
<1>7. Owned(owner) /\ SentOnce
  BY <1>5, <1>6 DEF Owned, WorkerOwned, SentOnce
<1>8. \A w \in Workers : Handler(w)
  BY <1>6 DEF Handler
<1>9. Kept
  BY <1>2 DEF Kept
<1>10. Safe(owner) /\ owner \in [Messages -> SUBSET Files]
  BY <1>4, <1>7, <1>8, <1>9 DEF Safe
<1>11. QED
  BY <1>3, <1>10

\* The process dies: what the requests were deleting is counted as lost.
LEMMA SafeCrashes ==
    ASSUME RowsAre, NEW owner, Safe(owner), Crash,
           interrupted' = interrupted \cup {f \in Files : Purging(f)}
    PROVE  Safe(owner)'
<1>1. UNCHANGED <<file, version, channel>> /\ rq' = [w \in Workers \cup Keepers |-> NoRequest]
  BY DEF Crash
<1>2. FileRows' = FileRows /\ VersionRows' = VersionRows /\ FileRows \subseteq Files
  BY <1>1 DEF FileRows, VersionRows
<1>3. \A w \in Workers : /\ ~Sent(w)' /\ ~Holds(w)' /\ ~Deleting(w)'
                         /\ rq'[w].op = "none" /\ Handler(w)'
  BY <1>1 DEF NoRequest, Sent, Holds, Deleting, Handler
<1>4. \A f \in Files : Doomed(f) => Doomed(f)'
  BY DEF Doomed
<1>5. \A v \in VersionRows : version[v].file \in Files
  BY <1>2 DEF RowsAre, RowsInv, ReferencesResolve
<1>6. RowsOwned(owner)'
  BY <1>1, <1>2 DEF Safe, Owned, RowsOwned, BelongsTo
<1>7. Kept'
  BY <1>1, <1>2, <1>4, <1>5 DEF Safe, Kept
<1>8. SentOnce' /\ \A w \in Workers : WorkerOwned(owner, w)'
  BY <1>3 DEF SentOnce, WorkerOwned
<1>9. QED
  BY <1>3, <1>6, <1>7, <1>8 DEF Safe, Owned

\* While purges, uploads over a name and requests on versions interleave, and the process dies
\* between any two of their statements, every live file and every version that can be promoted
\* keeps its message, but for the files that were being purged or replaced when it died
\* (handlers_library.go, handlers_upload.go).
THEOREM MessagesStay == CatalogSpec => []ObjectsStay
<1>1. RowsAre /\ RowsAre' /\ ObjectsInv /\ [CatalogNext]_<<instance, interrupted, vars>> => ObjectsInv'
  <2> SUFFICES ASSUME RowsAre, RowsAre', ObjectsInv, [CatalogNext]_<<instance, interrupted, vars>>,
                      instance' # "whole"
               PROVE  (Flat /\ \E owner \in [Messages -> SUBSET Files] : Safe(owner))'
    BY DEF ObjectsInv
  <2>1. instance # "whole"
    BY DEF CatalogNext
  <2>2. Flat
    BY <2>1 DEF ObjectsInv
  <2>3. PICK owner \in [Messages -> SUBSET Files] : Safe(owner)
    BY <2>1 DEF ObjectsInv
  <2>4. CASE CatalogNext
    <3>1. /\ Flat'
          /\ \/ Requests /\ UNCHANGED interrupted
             \/ Crash /\ interrupted' = interrupted \cup {f \in Files : Purging(f)}
      BY <2>1, <2>4 DEF CatalogNext, WholeNext, BusyNext, CrashingNext
    <3>2. CASE Requests /\ UNCHANGED interrupted
      <4>1. \E o \in [Messages -> SUBSET Files] : Safe(o)'
        BY <2>2, <2>3, <3>1, <3>2, ObjectsStep DEF Requests
      <4>2. QED
        BY <3>1, <4>1
    <3>3. CASE Crash /\ interrupted' = interrupted \cup {f \in Files : Purging(f)}
      <4>1. Safe(owner)'
        BY <2>3, <3>3, SafeCrashes
      <4>2. QED
        BY <2>3, <3>1, <4>1
    <3>4. QED
      BY <3>1, <3>2, <3>3
  <2>5. CASE UNCHANGED <<instance, interrupted, vars>>
    <3>1. UNCHANGED <<kp, file, version, channel, rq, interrupted>>
      BY <2>5 DEF vars
    <3>2. Flat'
      BY <2>2, <3>1 DEF Flat, Idle
    <3>3. Safe(owner)'
      <4>1. FileRows' = FileRows /\ VersionRows' = VersionRows
        BY <3>1 DEF FileRows, VersionRows
      <4>2. \A g : Doomed(g)' = Doomed(g) /\ Going(g)' = Going(g)
        BY <3>1, <4>1 DEF Doomed, Purging, Going
      <4>3. \A u : /\ Sent(u)' = Sent(u) /\ Holds(u)' = Holds(u) /\ Deleting(u)' = Deleting(u)
                   /\ Handler(u)' = Handler(u)
        BY <3>1 DEF Sent, Holds, Deleting, Handler, Idle
      <4>4. RowsOwned(owner)'
        BY <2>3, <3>1, <4>1 DEF Safe, Owned, RowsOwned, BelongsTo
      <4>5. ASSUME NEW u \in Workers PROVE WorkerOwned(owner, u)'
        BY <2>3, <3>1, <4>2, <4>3 DEF Safe, Owned, WorkerOwned, BelongsTo
      <4>6. Kept' /\ SentOnce'
        BY <2>3, <3>1, <4>1, <4>2, <4>3 DEF Safe, Kept, SentOnce
      <4>7. QED
        BY <2>3, <4>3, <4>4, <4>5, <4>6 DEF Safe, Owned
    <3>4. QED
      BY <3>2, <3>3, <2>3
  <2>6. QED
    BY <2>4, <2>5
<1>2. RowsAre /\ ObjectsInv => ObjectsStay
  BY ObjectsKept DEF ObjectsInv, ObjectsStay
<1>3. QED
  BY <1>1, <1>2, ObjectsInit, RowsInvariant, PTL DEF CatalogSpec
=============================================================================
