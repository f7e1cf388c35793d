-------------------------------- MODULE Catalog --------------------------------
(***************************************************************************)
(* The file catalog: tables files and file_versions, the Telegram messages *)
(* they point at, and the HTTP handlers that change them (handlers_drive,  *)
(* handlers_library and the end of an upload in handlers_upload).  The     *)
(* folders are those of FolderTree: every step below is a step of that     *)
(* module together with what it does to the files, or leaves the folders   *)
(* alone.                                                                  *)
(*                                                                         *)
(* A SQL statement is one atomic step and so is a Telegram call.  Handlers *)
(* read a row, act on the copy and write by identifier; no statement       *)
(* checks that the row is still what was read.  Disk files have no         *)
(* message; they are the subject of Upload.                                *)
(***************************************************************************)
EXTENDS Naturals, FiniteSets

CONSTANTS Folders, Root, Movers, Keepers,   \* as in FolderTree
          Files, Versions, Messages,        \* the identifiers an instance may hand out
          Names,                            \* the names users give
          NoName, NoId,                     \* the fields of an unused row
          Workers,                          \* the file requests in flight at once
          Uploaders,                        \* the workers that may finish an upload
          Versioners,                       \* the workers that may touch versions
          Ops                               \* the operations clients use

ASSUME WorkerAssumption == /\ Uploaders \cup Versioners \subseteq Workers
                           /\ Workers \cap Keepers = {}

VARIABLES rows, retired, parent, trashed, mv, kp,
          file,      \* table files, by identifier
          version,   \* table file_versions
          channel,   \* the messages of the storage channel
          rq,        \* the request a worker runs; for a keeper, its purgeFile call
          pg,        \* what a keeper still has to purge
          byHand     \* history: the files put in the trash one by one

treeVars == <<rows, retired, parent, trashed, mv, kp>>
vars == <<rows, retired, parent, trashed, mv, kp, file, version, channel, rq, pg, byHand>>

Tree == INSTANCE FolderTree

NoFile    == [st |-> "free", folder |-> Root, name |-> NoName, msg |-> NoId, trashed |-> FALSE]
NoVersion == [st |-> "free", file |-> NoId, name |-> NoName, msg |-> NoId]
NoRequest == [op |-> "none", pc |-> "idle", f |-> NoId, v |-> NoId,
              cur |-> NoFile, new |-> NoFile]
NoPurge   == [folders |-> {}, files |-> {}, swept |-> FALSE]

FileRows    == {f \in Files : file[f].st = "row"}
LiveFiles   == {f \in FileRows : ~file[f].trashed}
VersionRows == {v \in Versions : version[v].st = "row"}

Idle(w) == rq[w].pc = "idle"

\* A forest that users have built before; every folder is live.
Init == /\ rows = Folders /\ retired = {} /\ trashed = {}
        /\ parent \in {p \in [Folders -> Folders \cup {Root}] :
                         \A S \in SUBSET Folders : S # {} => \E x \in S : p[x] \notin S}
        /\ mv = [m \in Movers |-> Tree!NoMove]
        /\ kp = [k \in Keepers |-> Tree!NoKeep]
        /\ file = [f \in Files |-> NoFile]
        /\ version = [v \in Versions |-> NoVersion]
        /\ channel = [m \in Messages |-> "free"]
        /\ rq = [w \in Workers \cup Keepers |-> NoRequest]
        /\ pg = [k \in Keepers |-> NoPurge]
        /\ byHand = {}

-----------------------------------------------------------------------------
(* Statements. *)

Begin(w, r) == Idle(w) /\ rq' = [rq EXCEPT ![w] = r]
Goto(w, pc) == rq' = [rq EXCEPT ![w].pc = pc]
Done(w)     == rq' = [rq EXCEPT ![w] = NoRequest]

\* INSERT INTO files: a fresh identifier, refused when the folder has no row.
FolderExists(d) == Tree!ParentExists(d)
FreeFiles == {f \in Files : file[f].st = "free"}
FreeFile == CHOOSE f \in FreeFiles : TRUE
InsertFile(new) ==
    IF FolderExists(new.folder)
    THEN /\ FreeFiles # {}
         /\ file' = [file EXCEPT ![FreeFile] = [new EXCEPT !.st = "row", !.trashed = FALSE]]
    ELSE UNCHANGED file

\* INSERT INTO file_versions, refused when the file has no row.
FreeVersions == {v \in Versions : version[v].st = "free"}
FreeVersion == CHOOSE v \in FreeVersions : TRUE
ArchiveVersion(f, r) ==
    /\ FreeVersions # {}
    /\ version' = [version EXCEPT ![FreeVersion] =
                      [st |-> "row", file |-> f, name |-> r.name, msg |-> r.msg]]

GoneFile    == [NoFile EXCEPT !.st = "gone"]
GoneVersion == [NoVersion EXCEPT !.st = "gone"]

\* DELETE FROM file_versions WHERE file_id is in F, and the cascade of the rows of F.
DeleteVersionsOf(F) ==
    version' = [v \in Versions |-> IF v \in VersionRows /\ version[v].file \in F
                                   THEN GoneVersion ELSE version[v]]

\* DELETE FROM files: the versions of the files go with them.
DeleteFiles(F) ==
    /\ file' = [f \in Files |-> IF f \in F \cap FileRows THEN GoneFile ELSE file[f]]
    /\ byHand' = byHand \ F
    /\ DeleteVersionsOf(F)

\* messages.deleteMessages; every caller ignores its error.
DeleteMessage(m) == channel' \in {channel, [channel EXCEPT ![m] = "deleted"]}

\* The bound of an instance: a request starts only when the identifiers it and
\* the requests in flight may still take are left.
InFlight(ops) == Cardinality({w \in Workers : rq[w].op \in ops})
RoomForFile    == Cardinality(FreeFiles) > InFlight({"copy", "finish"})
RoomForVersion == Cardinality(FreeVersions) > InFlight({"finish", "restorev"})
RoomForMessage == Cardinality({m \in Messages : channel[m] = "free"}) > InFlight({"finish"})

-----------------------------------------------------------------------------
(* One-statement handlers, and the same statements in a bulk request.      *)

\* DELETE /api/files/{id}: only a live file is found and marked.
TrashFile(f) ==
    /\ f \in LiveFiles
    /\ file' = [file EXCEPT ![f].trashed = TRUE]
    /\ byHand' = byHand \cup {f}
    /\ UNCHANGED <<treeVars, version, channel, rq, pg>>

RestoreFile(f) ==
    /\ f \in FileRows
    /\ file' = [file EXCEPT ![f].trashed = FALSE]
    /\ byHand' = byHand \ {f}
    /\ UNCHANGED <<treeVars, version, channel, rq, pg>>

\* The UPDATE accepts a file in the trash and a folder in the trash.
MoveFile(f, d) ==
    /\ f \in FileRows /\ FolderExists(d)
    /\ file' = [file EXCEPT ![f].folder = d]
    /\ UNCHANGED <<treeVars, version, channel, rq, pg, byHand>>

RenameFile(f, n) ==
    /\ f \in FileRows
    /\ file' = [file EXCEPT ![f].name = n]
    /\ UNCHANGED <<treeVars, version, channel, rq, pg, byHand>>

-----------------------------------------------------------------------------
(* POST /api/files/{id}/copy: a second row for the same message.           *)

CopyStart(w, f, d, n) ==
    /\ RoomForFile
    /\ f \in LiveFiles
    /\ d \in {Root, file[f].folder} \cup (rows \ trashed)
    /\ Begin(w, [NoRequest EXCEPT !.op = "copy", !.pc = "insert",
                                  !.new = [file[f] EXCEPT !.folder = d, !.name = n]])
    /\ UNCHANGED <<treeVars, file, version, channel, pg, byHand>>

CopyInsert(w) ==
    /\ rq[w].op = "copy" /\ rq[w].pc = "insert"
    /\ InsertFile(rq[w].new)
    /\ Done(w)
    /\ UNCHANGED <<treeVars, version, channel, pg, byHand>>

-----------------------------------------------------------------------------
(* purgeFile: the message, the versions, the row.  The message deleted is  *)
(* the one read first.  The loop that deletes the versions one by one is   *)
(* one step: no property tells the statements of the loop apart.           *)

PurgeRequest(f) == [NoRequest EXCEPT !.op = "purge", !.pc = "message", !.f = f, !.cur = file[f]]

PurgeStart(w, f) ==
    /\ f \in FileRows
    /\ Begin(w, PurgeRequest(f))
    /\ UNCHANGED <<treeVars, file, version, channel, pg, byHand>>

PurgeMessage(w) ==
    /\ rq[w].op = "purge" /\ rq[w].pc = "message"
    /\ DeleteMessage(rq[w].cur.msg)
    /\ Goto(w, "versions")
    /\ UNCHANGED <<treeVars, file, version, pg, byHand>>

PurgeVersions(w) ==
    /\ rq[w].op = "purge" /\ rq[w].pc = "versions"
    /\ DeleteVersionsOf({rq[w].f})
    /\ Goto(w, "row")
    /\ UNCHANGED <<treeVars, file, channel, pg, byHand>>

\* Fault: the row is deleted only while it is still marked.
PurgeRowIfTrashed(w) ==
    /\ rq[w].op = "purge" /\ rq[w].pc = "row"
    /\ DeleteFiles({rq[w].f} \ LiveFiles)
    /\ Done(w)
    /\ UNCHANGED <<treeVars, channel, pg>>

PurgeRow(w) ==
    /\ rq[w].op = "purge" /\ rq[w].pc = "row"
    /\ DeleteFiles({rq[w].f})
    /\ Done(w)
    /\ UNCHANGED <<treeVars, channel, pg>>

-----------------------------------------------------------------------------
(* finishUpload: the message is sent, a live file of the same name in the  *)
(* folder is archived and deleted, the new row is inserted.                *)

FinishStart(w, d, n) ==
    /\ RoomForFile /\ RoomForVersion /\ RoomForMessage
    /\ FolderExists(d)
    /\ Begin(w, [NoRequest EXCEPT !.op = "finish", !.pc = "send",
                                  !.new = [NoFile EXCEPT !.folder = d, !.name = n]])
    /\ UNCHANGED <<treeVars, file, version, channel, pg, byHand>>

\* Telegram numbers its messages: which one comes next is not a choice.
FreeMessage == CHOOSE m \in Messages : channel[m] = "free"

FinishSend(w, m) ==
    /\ rq[w].op = "finish" /\ rq[w].pc = "send"
    /\ channel[m] = "free" /\ m = FreeMessage
    /\ channel' = [channel EXCEPT ![m] = "there"]
    /\ rq' = [rq EXCEPT ![w].pc = "find", ![w].new.msg = m]
    /\ UNCHANGED <<treeVars, file, version, pg, byHand>>

\* CompleteUpload fails: the handler answers with an error.
FinishFail(w) ==
    /\ rq[w].op = "finish" /\ rq[w].pc = "send"
    /\ Done(w)
    /\ UNCHANGED <<treeVars, file, version, channel, pg, byHand>>

\* FindByNameInFolder.
SameName(new) == {f \in LiveFiles : file[f].folder = new.folder /\ file[f].name = new.name}

FinishFind(w) ==
    /\ rq[w].op = "finish" /\ rq[w].pc = "find"
    /\ IF SameName(rq[w].new) = {}
       THEN Goto(w, "create")
       ELSE \E f \in SameName(rq[w].new) :
              rq' = [rq EXCEPT ![w] = [@ EXCEPT !.pc = "archive", !.f = f, !.cur = file[f]]]
    /\ UNCHANGED <<treeVars, file, version, channel, pg, byHand>>

FinishArchive(w) ==
    /\ rq[w].op = "finish" /\ rq[w].pc = "archive"
    /\ IF rq[w].f \in FileRows
       THEN ArchiveVersion(rq[w].f, rq[w].cur) /\ Goto(w, "replace")
       ELSE Goto(w, "create") /\ UNCHANGED version
    /\ UNCHANGED <<treeVars, file, channel, pg, byHand>>

FinishReplace(w) ==
    /\ rq[w].op = "finish" /\ rq[w].pc = "replace"
    /\ DeleteFiles({rq[w].f})
    /\ Goto(w, "create")
    /\ UNCHANGED <<treeVars, channel, pg>>

FinishCreate(w) ==
    /\ rq[w].op = "finish" /\ rq[w].pc = "create"
    /\ InsertFile(rq[w].new)
    /\ Done(w)
    /\ UNCHANGED <<treeVars, version, channel, pg, byHand>>

-----------------------------------------------------------------------------
(* Versions.  Both handlers look the version up, then act on the copy.     *)

RestoreVersionStart(w, v) ==
    /\ RoomForVersion
    /\ v \in VersionRows /\ version[v].file \in LiveFiles
    /\ Begin(w, [NoRequest EXCEPT !.op = "restorev", !.pc = "archive", !.v = v,
                    !.f = version[v].file, !.cur = file[version[v].file],
                    !.new = [NoFile EXCEPT !.name = version[v].name, !.msg = version[v].msg]])
    /\ UNCHANGED <<treeVars, file, version, channel, pg, byHand>>

RestoreVersionArchive(w) ==
    /\ rq[w].op = "restorev" /\ rq[w].pc = "archive"
    /\ IF rq[w].f \in FileRows
       THEN ArchiveVersion(rq[w].f, rq[w].cur) /\ Goto(w, "promote")
       ELSE Done(w) /\ UNCHANGED version
    /\ UNCHANGED <<treeVars, file, channel, pg, byHand>>

\* UpdateFileCoords: no row matches when the file is gone.
RestoreVersionPromote(w) ==
    LET f == rq[w].f IN
    /\ rq[w].op = "restorev" /\ rq[w].pc = "promote"
    /\ file' = [file EXCEPT ![f] = IF f \in FileRows
                                   THEN [@ EXCEPT !.name = rq[w].new.name, !.msg = rq[w].new.msg]
                                   ELSE @]
    /\ Goto(w, "drop")
    /\ UNCHANGED <<treeVars, version, channel, pg, byHand>>

\* The end of both handlers: the promoted or deleted snapshot goes.
DropVersion(w) ==
    /\ rq[w].op \in {"restorev", "deletev"} /\ rq[w].pc = "drop"
    /\ version' = [version EXCEPT ![rq[w].v] = GoneVersion]
    /\ Done(w)
    /\ UNCHANGED <<treeVars, file, channel, pg, byHand>>

DeleteVersionStart(w, v) ==
    /\ v \in VersionRows
    /\ Begin(w, [NoRequest EXCEPT !.op = "deletev", !.pc = "message", !.v = v,
                    !.cur = [NoFile EXCEPT !.msg = version[v].msg]])
    /\ UNCHANGED <<treeVars, file, version, channel, pg, byHand>>

DeleteVersionMessage(w) ==
    /\ rq[w].op = "deletev" /\ rq[w].pc = "message"
    /\ DeleteMessage(rq[w].cur.msg)
    /\ Goto(w, "drop")
    /\ UNCHANGED <<treeVars, file, version, pg, byHand>>

-----------------------------------------------------------------------------
(* Folders: the steps of FolderTree and what they do to the files.         *)

Quiet(k) == Idle(k) /\ pg[k].files = {}

\* Trash and restore: the second UPDATE marks every file whose folder is one of
\* the folders read at the start, whatever its own mark was.
MarkFiles(k) ==
    LET inside == {f \in FileRows : file[f].folder \in kp[k].todo}
        mark == kp[k].op = "trash"
    IN  /\ Tree!MarkFiles(k)
        /\ file' = [f \in Files |-> IF f \in inside THEN [file[f] EXCEPT !.trashed = mark]
                                                    ELSE file[f]]
        /\ UNCHANGED <<version, channel, rq, pg, byHand>>

ReadSubtree(k) ==
    /\ Tree!ReadSubtree(k)
    /\ pg' = [pg EXCEPT ![k] = IF kp[k].op = "purge" THEN [@ EXCEPT !.folders = kp'[k].todo]
                                                     ELSE @]
    /\ UNCHANGED <<file, version, channel, rq, byHand>>

\* ListFiles returns the live files of one folder, and only those.
PurgeListFolder(k, d) ==
    /\ kp[k].op = "purge" /\ kp[k].pc = "files" /\ Quiet(k)
    /\ d \in pg[k].folders
    /\ pg' = [pg EXCEPT ![k].folders = @ \ {d},
                        ![k].files = {f \in LiveFiles : file[f].folder = d}]
    /\ UNCHANGED <<treeVars, file, version, channel, rq, byHand>>

\* The next purgeFile of the list; GetFileAny fails when the row is gone.
PurgeNext(k, f) ==
    /\ f \in pg[k].files /\ Idle(k)
    /\ IF f \in FileRows THEN Begin(k, PurgeRequest(f)) ELSE UNCHANGED rq
    /\ pg' = [pg EXCEPT ![k].files = @ \ {f}]
    /\ UNCHANGED <<treeVars, file, version, channel, byHand>>

\* Fault: the foreign key of files is not enforced.
DetachNothing(D) == UNCHANGED file

\* ON DELETE SET NULL: the files of deleted folders end up at the root.
Detach(D) ==
    file' = [f \in Files |-> IF f \in FileRows /\ file[f].folder \in Tree!Subtree(D)
                             THEN [file[f] EXCEPT !.folder = Root] ELSE file[f]]

PurgeFolder(k) ==
    /\ Quiet(k) /\ pg[k].folders = {}
    /\ Tree!PurgeDelete(k)
    /\ Detach({kp[k].id})
    /\ UNCHANGED <<version, channel, rq, pg, byHand>>

\* DELETE /api/trash: one query lists the trashed files, each of them is purged.
EmptyStart(k) ==
    /\ Tree!EmptyStart(k)
    /\ pg' = [pg EXCEPT ![k].files = FileRows \ LiveFiles]
    /\ UNCHANGED <<file, version, channel, rq, byHand>>

EmptyListFolders(k) ==
    /\ Quiet(k)
    /\ Tree!EmptyList(k)
    /\ UNCHANGED <<file, version, channel, rq, pg, byHand>>

EmptyDeleteFolder(k, d) ==
    /\ Tree!EmptyDelete(k, d)
    /\ Detach({d})
    /\ UNCHANGED <<version, channel, rq, pg, byHand>>

\* DB.EmptyTrash, first statement: the rows still marked, their versions with them.
EmptySweepFiles(k) ==
    /\ kp[k].pc = "delete" /\ kp[k].todo = {} /\ ~pg[k].swept
    /\ DeleteFiles(FileRows \ LiveFiles)
    /\ pg' = [pg EXCEPT ![k].swept = TRUE]
    /\ UNCHANGED <<treeVars, channel, rq>>

\* Second statement: the folders still marked.
EmptySweepFolders(k) ==
    /\ pg[k].swept
    /\ Tree!EmptySweep(k)
    /\ Detach(trashed)
    /\ pg' = [pg EXCEPT ![k] = NoPurge]
    /\ UNCHANGED <<version, channel, rq, byHand>>

\* Statements of FolderTree that touch no file.
FilesUnchanged == UNCHANGED <<file, version, channel, rq, pg, byHand>>

MarkFolders(k) == Tree!MarkFolders(k) /\ FilesUnchanged

FolderArrive(k, id) ==
    /\ \/ "trashFolder" \in Ops /\ Tree!TrashStart(k, id)
       \/ "restoreFolder" \in Ops /\ Tree!RestoreStart(k, id)
       \/ "purgeFolder" \in Ops /\ Tree!PurgeStart(k, id)
    /\ FilesUnchanged

-----------------------------------------------------------------------------
\* The process dies: requests are forgotten, the database and the channel stay.
Crash ==
    /\ "crash" \in Ops
    /\ kp' = [k \in Keepers |-> Tree!NoKeep]
    /\ rq' = [w \in Workers \cup Keepers |-> NoRequest]
    /\ pg' = [k \in Keepers |-> NoPurge]
    /\ UNCHANGED <<rows, retired, parent, trashed, mv, file, version, channel, byHand>>

Arrive ==
    \/ \E f \in Files : \/ "trash" \in Ops /\ TrashFile(f)
                        \/ "restore" \in Ops /\ RestoreFile(f)
                        \/ \E d \in Folders \cup {Root} : "move" \in Ops /\ MoveFile(f, d)
                        \/ \E n \in Names : "rename" \in Ops /\ RenameFile(f, n)
    \/ \E w \in Workers, f \in Files :
         \/ "purge" \in Ops /\ PurgeStart(w, f)
         \/ "copy" \in Ops /\ \E d \in Folders \cup {Root}, n \in Names : CopyStart(w, f, d, n)
    \/ \E w \in Uploaders, d \in Folders \cup {Root}, n \in Names :
         "finish" \in Ops /\ FinishStart(w, d, n)
    \/ \E w \in Versioners, v \in Versions :
         \/ "restoreVersion" \in Ops /\ RestoreVersionStart(w, v)
         \/ "deleteVersion" \in Ops /\ DeleteVersionStart(w, v)
    \/ \E k \in Keepers : \/ "empty" \in Ops /\ EmptyStart(k)
                          \/ \E id \in Tree!Known : FolderArrive(k, id)

PurgeStep(w) == PurgeMessage(w) \/ PurgeVersions(w) \/ PurgeRow(w)

WorkStep(w) ==
    \/ CopyInsert(w) \/ PurgeStep(w)
    \/ (\E m \in Messages : FinishSend(w, m)) \/ FinishFail(w) \/ FinishFind(w)
    \/ FinishArchive(w) \/ FinishReplace(w) \/ FinishCreate(w)
    \/ RestoreVersionArchive(w) \/ RestoreVersionPromote(w)
    \/ DeleteVersionMessage(w) \/ DropVersion(w)

KeepStep(k) ==
    \/ ReadSubtree(k) \/ MarkFolders(k) \/ MarkFiles(k)
    \/ PurgeStep(k)
    \/ (\E d \in Folders : PurgeListFolder(k, d)) \/ (\E f \in Files : PurgeNext(k, f))
    \/ PurgeFolder(k)
    \/ EmptyListFolders(k) \/ (\E d \in Folders : EmptyDeleteFolder(k, d))
    \/ EmptySweepFiles(k) \/ EmptySweepFolders(k)

Next == \/ Arrive
        \/ \E w \in Workers : WorkStep(w)
        \/ \E k \in Keepers : KeepStep(k)
        \/ Crash

Spec == Init /\ [][Next]_vars

-----------------------------------------------------------------------------
Snapshot == [st : {"free", "row", "gone"}, folder : Folders \cup {Root},
             name : Names \cup {NoName}, msg : Messages \cup {NoId}, trashed : BOOLEAN]

TypeOK ==
    /\ Tree!TypeOK
    /\ file \in [Files -> Snapshot]
    /\ version \in [Versions -> [st : {"free", "row", "gone"}, file : Files \cup {NoId},
                                 name : Names \cup {NoName}, msg : Messages \cup {NoId}]]
    /\ channel \in [Messages -> {"free", "there", "deleted"}]
    /\ rq \in [Workers \cup Keepers ->
                 [op : {"none", "copy", "purge", "finish", "restorev", "deletev"},
                  pc : {"idle", "insert", "message", "versions", "row", "send", "find",
                        "archive", "replace", "create", "promote", "drop"},
                  f : Files \cup {NoId}, v : Versions \cup {NoId},
                  cur : Snapshot, new : Snapshot]]
    /\ pg \in [Keepers -> [folders : SUBSET Folders, files : SUBSET Files, swept : BOOLEAN]]
    /\ byHand \subseteq FileRows

\* Whatever is deleted, in whatever order: the folder of a file is a row or the
\* root, and the file of a version is a row.
ReferencesResolve ==
    /\ \A f \in FileRows : file[f].folder \in rows \cup {Root}
    /\ \A v \in VersionRows : version[v].file \in FileRows

Purging(f) == \E w \in Workers \cup Keepers :
    /\ rq[w].f = f
    /\ rq[w].op = "purge" \/ (rq[w].op = "finish" /\ rq[w].pc = "replace")
DeletingVersion(v) == \E w \in Workers : rq[w].op = "deletev" /\ rq[w].v = v

\* The message behind a live file, and behind a version a user can promote, is in
\* the channel unless a request is just deleting that file or version, or the file is
\* given up as lost.  Purges, uploads over the same name, restores and deletions of
\* versions act on copies of the row they read earlier.
ObjectsExistBut(lost) ==
    /\ \A f \in LiveFiles \ lost : Purging(f) \/ channel[file[f].msg] = "there"
    /\ \A v \in VersionRows : \/ version[v].file \in lost
                              \/ Purging(version[v].file) \/ DeletingVersion(v)
                              \/ channel[version[v].msg] = "there"

\* Whatever goes wrong, no live file and no version is without its message.
ObjectsExist == ObjectsExistBut({})

\* An upload over an existing name never forks the listing: two live files of one
\* folder have different names (handlers_upload.go:290-291).
NamesDiffer == \A f, g \in LiveFiles :
    f # g => file[f].folder # file[g].folder \/ file[f].name # file[g].name

\* A copy an upload has replaced is still reachable: a message of the channel is
\* named by a file, by a version, or by the upload that has just sent it.
ReplacedCopyKept == \A m \in Messages : channel[m] = "there" =>
    \/ \E f \in FileRows : file[f].msg = m
    \/ \E v \in VersionRows : version[v].msg = m
    \/ \E w \in Workers : rq[w].op = "finish" /\ rq[w].new.msg = m

\* Purging a folder from the trash purges the trashed files in it: none is left
\* behind when the folder rows go.
FolderPurgeTakesFiles == [][
    \A k \in Keepers : PurgeFolder(k) =>
        \A f \in FileRows \ LiveFiles : file[f].folder \notin Tree!Subtree({kp[k].id})]_vars

\* A file the user put in the trash by itself stays there until the user restores
\* that file: restoring a folder reverses only what trashing the folder did.
HandTrashedStays == \A f \in byHand : file[f].trashed

\* Emptying the trash deletes the rows of trashed files only: not of a file the
\* user has restored since the trash was listed.
EmptyTrashSparesLive == [][
    \A k \in Keepers : kp[k].op = "empty" /\ PurgeRow(k) => rq[k].f \notin LiveFiles]_vars
=============================================================================
