-------------------------------- MODULE Upload --------------------------------
(***************************************************************************)
(* Chunked uploads: the browser's upload manager, the chunk and complete   *)
(* handlers, the ledger of running hashes, the staging files and objects   *)
(* of the disk backend, and the parts Telegram holds for a file.  A chunk  *)
(* handler whose client has stopped waiting goes on, so a chunk that is    *)
(* sent again may overtake its first attempt.                              *)
(*                                                                         *)
(* A file has Size parts, a chunk ChunkParts parts.  All uploads have one  *)
(* name in one folder, so every end of an upload replaces the file before  *)
(* it; what that does to versions and messages is the subject of Catalog.  *)
(* SQL statements succeed unless they find no row.  Telegram is external.  *)
(***************************************************************************)
EXTENDS Naturals, FiniteSets, Sequences

CONSTANTS Sessions,    \* the uploads
          Disk,        \* those opened while the storage setting says "disk"
          Resuming,    \* those of API clients that go on with the session after a failure
          Handlers,    \* the requests in flight at once
          Files,       \* the identifiers of files
          Purgeable,   \* the files users may purge
          Size,        \* parts of a file
          ChunkParts,  \* parts of a full chunk
          MaxFaults,   \* bound: lost answers, refused calls, short writes, restarts
          None

ASSUME UploadAssumption == /\ Disk \subseteq Sessions /\ Resuming \subseteq Sessions
                           /\ Size \in Nat \ {0} /\ ChunkParts \in Nat \ {0}
                           /\ MaxFaults \in Nat
                           /\ None \notin Sessions \cup Handlers \cup Files
                           /\ None \notin Nat /\ None \notin Seq(Nat)

VARIABLES session,    \* table upload_sessions: "none", "open" or "deleted"
          client,     \* the item of the upload manager
          req,        \* what a handler does
          ledger,     \* s.uploadHash: the chunks hashed, as far as they are in order
          staged,     \* the staging file of a session: its parts, or None
          saved,      \* the parts Telegram holds for the file of a session
          file,       \* table files
          object,     \* the objects of the disk backend: objects/<file id>
          faults,     \* number of faults
          overlapped, \* history: the disk uploads with two requests in flight at once
          unfollowed, \* history: the disk uploads whose ledger knows less than their
                      \* staging file: a short write, or an overlap before the entry was lost
                      \* or before an end that is asked for again
          ended,      \* history: the disk uploads whose hash has been taken
          cut         \* history: the files a restart left half created or half deleted

histories == <<overlapped, unfollowed, ended, cut>>
vars == <<session, client, req, ledger, staged, saved, file, object, faults, histories>>

Chunks   == (Size + ChunkParts - 1) \div ChunkParts
PartSet  == 0..(Size - 1)
WholeSeq == [i \in 1..Size |-> i - 1]

\* The parts of chunk k, in order.
PartsOf(k) == SubSeq(WholeSeq, k * ChunkParts + 1,
                     IF (k + 1) * ChunkParts < Size THEN (k + 1) * ChunkParts ELSE Size)

NewItem == [pc |-> "new", next |-> 0, tries |-> 0, h |-> None]
NoReq   == [op |-> "none", pc |-> "idle", s |-> None, k |-> 0, todo |-> <<>>,
            sha |-> "none", parts |-> {}, f |-> None, old |-> None, obj |-> None]
NoFile  == [st |-> "none", s |-> None, path |-> "none", sha |-> "none", parts |-> {}]

Rows == {f \in Files : file[f].st = "row"}

Init == /\ session = [s \in Sessions |-> "none"]
        /\ client = [s \in Sessions |-> NewItem]
        /\ req = [h \in Handlers |-> NoReq]
        /\ ledger = [s \in Sessions |-> None]
        /\ staged = [s \in Sessions |-> None]
        /\ saved = [s \in Sessions |-> {}]
        /\ file = [f \in Files |-> NoFile]
        /\ object = [f \in Files |-> None]
        /\ faults = 0
        /\ overlapped = {} /\ unfollowed = {} /\ ended = {} /\ cut = {}

Fault == faults < MaxFaults /\ faults' = faults + 1
Goto(h, pc) == req' = [req EXCEPT ![h].pc = pc]
InFlight(s) == {h \in Handlers : req[h].s = s}

-----------------------------------------------------------------------------
(* The upload manager of the browser.  It sends a chunk up to three times  *)
(* and "complete" once; a failed item starts over with another session.    *)
(* A client with an API key may go on with the same session.               *)

Stores == <<ledger, staged, saved, file, object>>

OpenSession(s) ==
    /\ client[s].pc = "new"
    /\ session' = [session EXCEPT ![s] = "open"]
    /\ client' = [client EXCEPT ![s].pc = "send"]
    /\ UNCHANGED <<req, Stores, faults, histories>>

\* The handler reads the session row.
Request(s, h, op) ==
    /\ req[h] = NoReq
    /\ req' = [req EXCEPT ![h] = [NoReq EXCEPT
                 !.op = op, !.s = s, !.k = client[s].next,
                 !.pc = IF session[s] # "open" THEN "refused" ELSE "hash"]]
    /\ client' = [client EXCEPT ![s] = [@ EXCEPT !.pc = "wait", !.h = h]]
    /\ overlapped' = IF s \in Disk /\ InFlight(s) # {} THEN overlapped \cup {s} ELSE overlapped
    /\ UNCHANGED <<session, Stores, faults, unfollowed, ended, cut>>

SendChunk(s, h) ==
    /\ client[s].pc = "send" /\ client[s].next < Chunks
    /\ Request(s, h, "chunk")

SendComplete(s, h) ==
    /\ client[s].pc = "send" /\ client[s].next = Chunks
    /\ Request(s, h, "complete")

\* What the item does after an attempt that did not succeed.
TryAgain(c) == IF c.next < Chunks /\ c.tries < 2
               THEN [c EXCEPT !.pc = "send", !.tries = @ + 1, !.h = None]
               ELSE [c EXCEPT !.pc = "failed", !.h = None]

Succeed(c) == IF c.next < Chunks
              THEN [c EXCEPT !.pc = "send", !.next = @ + 1, !.tries = 0, !.h = None]
              ELSE [c EXCEPT !.pc = "done", !.h = None]

Reply(h) ==
    LET s == req[h].s IN
    /\ req[h].pc \in {"ok", "refused", "failed"}
    /\ client' = IF client[s].h # h THEN client
                 ELSE [client EXCEPT ![s] = IF req[h].pc = "ok" THEN Succeed(@) ELSE TryAgain(@)]
    /\ req' = [req EXCEPT ![h] = NoReq]
    /\ UNCHANGED <<session, Stores, faults, histories>>

\* A network error or a timeout of a proxy: the handler goes on.
AnswerLost(s) ==
    /\ client[s].pc = "wait" /\ Fault
    /\ client' = [client EXCEPT ![s] = TryAgain(@)]
    /\ UNCHANGED <<session, req, Stores, histories>>

Retry(s) ==
    /\ client[s].pc = "failed" /\ s \in Resuming
    /\ client' = [client EXCEPT ![s] = [@ EXCEPT !.pc = "send", !.tries = 0]]
    /\ UNCHANGED <<session, req, Stores, faults, histories>>

-----------------------------------------------------------------------------
(* writeUploadChunk. *)

\* The entry counts the chunks hashed in order; Wrong stands for any other hash.
Wrong == Chunks + 1

\* Fault: a chunk that is sent again is not hashed again.
HashedOnce(e, k) == IF e # None /\ k < e THEN e ELSE IF e = k \/ (e = None /\ k = 0) THEN k + 1 ELSE Wrong

Hashed(e, k) == IF e = k \/ (e = None /\ k = 0) THEN k + 1 ELSE Wrong

\* An entry may be older than two hours unless a request for the first chunk, which
\* makes it, is in flight: no request takes that long.
Old(t) == ledger[t] # None /\ \A h \in InFlight(t) : req[h].k # 0

\* A new entry sweeps old ones of other sessions out.
ChunkHash(h) ==
    LET s == req[h].s IN
    /\ req[h].op = "chunk" /\ req[h].pc = "hash"
    /\ \E swept \in SUBSET {t \in Sessions \ {s} : Old(t) /\ ledger[s] = None} :
          /\ ledger' = [t \in Sessions |-> IF t = s THEN Hashed(ledger[s], req[h].k)
                                           ELSE IF t \in swept THEN None ELSE ledger[t]]
          /\ unfollowed' = unfollowed \cup (swept \cap overlapped)
    /\ req' = [req EXCEPT ![h] = [@ EXCEPT !.pc = IF s \in Disk THEN "stat" ELSE "save",
                                           !.todo = PartsOf(req[h].k)]]
    /\ UNCHANGED <<session, client, staged, saved, file, object, faults, overlapped, ended, cut>>

ChunkOnly == UNCHANGED <<client, ledger, file, object>>

\* Fault: a part that is already there is refused.
PartSaveOnce(h) ==
    LET s == req[h].s IN
    /\ req[h].pc = "save" /\ req[h].todo # <<>>
    /\ saved' = [saved EXCEPT ![s] = @ \cup {Head(req[h].todo)}]
    /\ req' = [req EXCEPT ![h] = IF session[s] = "open" /\ Head(req[h].todo) \notin saved[s]
                                 THEN [req[h] EXCEPT !.todo = Tail(@)]
                                 ELSE [@ EXCEPT !.pc = "failed"]]
    /\ UNCHANGED <<session, staged, faults, histories>> /\ ChunkOnly

\* One 512 KB part, then its count in the session row.
PartSave(h) ==
    LET s == req[h].s IN
    /\ req[h].pc = "save" /\ req[h].todo # <<>>
    /\ saved' = [saved EXCEPT ![s] = @ \cup {Head(req[h].todo)}]
    /\ req' = [req EXCEPT ![h] = IF session[s] = "open" THEN [req[h] EXCEPT !.todo = Tail(@)]
                                                        ELSE [@ EXCEPT !.pc = "failed"]]
    /\ UNCHANGED <<session, staged, faults, histories>> /\ ChunkOnly

PartsSaved(h) ==
    /\ req[h].pc = "save" /\ req[h].todo = <<>>
    /\ Goto(h, "ok")
    /\ UNCHANGED <<session, staged, saved, faults, histories>> /\ ChunkOnly

\* Do gives up, or Telegram refuses the part.
SaveFails(h) ==
    /\ req[h].pc = "save" /\ Fault
    /\ Goto(h, "failed")
    /\ UNCHANGED <<session, staged, saved, histories>> /\ ChunkOnly

StagedSize(s) == IF staged[s] = None THEN 0 ELSE Len(staged[s])

\* Fault: the place of the chunk is not compared with the size of the file.
ChunkStatAnyPlace(h) ==
    LET s == req[h].s IN
    /\ req[h].pc = "stat"
    /\ Goto(h, IF StagedSize(s) >= Size THEN "ok" ELSE "append")
    /\ UNCHANGED <<session, staged, saved, faults, histories>> /\ ChunkOnly

ChunkStat(h) ==
    LET s == req[h].s IN
    /\ req[h].pc = "stat"
    /\ Goto(h, IF StagedSize(s) >= Size THEN "ok"
               ELSE IF req[h].k # StagedSize(s) \div ChunkParts THEN "refused"
               ELSE "append")
    /\ UNCHANGED <<session, staged, saved, faults, histories>> /\ ChunkOnly

Appended(s, parts) ==
    staged' = [staged EXCEPT ![s] = (IF @ = None THEN <<>> ELSE @) \o parts]

ChunkAppend(h) ==
    /\ req[h].pc = "append"
    /\ Appended(req[h].s, req[h].todo)
    /\ Goto(h, "ok")
    /\ UNCHANGED <<session, saved, faults, histories>> /\ ChunkOnly

\* The disk is full: a part of the chunk, or none of it, has been written.
ShortWrite(h) ==
    /\ req[h].pc = "append" /\ Fault
    /\ \E n \in 0..(Len(req[h].todo) - 1) : Appended(req[h].s, SubSeq(req[h].todo, 1, n))
    /\ Goto(h, "failed")
    /\ unfollowed' = unfollowed \cup {req[h].s}
    /\ UNCHANGED <<session, saved, overlapped, ended, cut>> /\ ChunkOnly

-----------------------------------------------------------------------------
(* finishUpload and finishDiskUpload. *)

FinishOnly == UNCHANGED <<client, saved, faults, histories>>

\* The hash leaves the ledger, whatever becomes of the upload.
TakeHash(h) ==
    LET s == req[h].s IN
    /\ req[h].op = "complete" /\ req[h].pc = "hash"
    /\ ledger' = [ledger EXCEPT ![s] = None]
    /\ req' = [req EXCEPT ![h] = [@ EXCEPT
                 !.pc = IF s \in Disk THEN "check" ELSE "commit",
                 !.sha = IF ledger[s] = None THEN "none"
                         ELSE IF ledger[s] = Chunks THEN "right" ELSE "wrong"]]
    /\ ended' = ended \cup ({s} \cap Disk)
    /\ unfollowed' = unfollowed \cup ({s} \cap ended \cap overlapped)
    /\ UNCHANGED <<session, client, staged, saved, file, object, faults, overlapped, cut>>

\* CompleteUpload: a message made of the parts Telegram holds.
Commit(h) ==
    /\ req[h].pc = "commit"
    /\ req' = [req EXCEPT ![h] = [@ EXCEPT !.pc = "find", !.parts = saved[req[h].s]]]
    /\ UNCHANGED <<session, ledger, staged, file, object>> /\ FinishOnly

CommitFails(h) ==
    /\ req[h].pc = "commit" /\ Fault
    /\ Goto(h, "failed")
    /\ UNCHANGED <<session, client, Stores, histories>>

CheckStaged(h) ==
    LET s == req[h].s IN
    /\ req[h].pc = "check"
    /\ IF StagedSize(s) = Size
       THEN Goto(h, "find") /\ UNCHANGED staged
       ELSE Goto(h, "failed") /\ staged' = [staged EXCEPT ![s] = None]
    /\ UNCHANGED <<session, ledger, file, object>> /\ FinishOnly

ObjectOf(f) == IF file[f].path = "object" THEN f ELSE None

\* FindByNameInFolder.
Find(h) ==
    /\ req[h].pc = "find"
    /\ \/ /\ Rows = {}
          /\ Goto(h, "create")
       \/ \E f \in Rows :
            req' = [req EXCEPT ![h] = [@ EXCEPT !.old = f, !.obj = ObjectOf(f),
                       !.pc = IF req[h].s \in Disk THEN "drop" ELSE "delete"]]
    /\ UNCHANGED <<session, ledger, staged, file, object>> /\ FinishOnly

\* deleteDiskObject, at the path read before.
DropObject(h) ==
    /\ req[h].pc = "drop"
    /\ object' = [f \in Files |-> IF f = req[h].obj THEN None ELSE object[f]]
    /\ Goto(h, "delete")
    /\ UNCHANGED <<session, ledger, staged, file>> /\ FinishOnly

Deleted(f) == file' = [file EXCEPT ![f] = IF f \in Rows THEN [NoFile EXCEPT !.st = "gone"] ELSE @]

\* DeleteFile: of the file a new one replaces, or the end of a purge.
DeleteOld(h) ==
    /\ req[h].pc = "delete"
    /\ Deleted(req[h].old)
    /\ req' = [req EXCEPT ![h] = IF req[h].op = "purge" THEN NoReq
                                 ELSE [@ EXCEPT !.pc = "create", !.old = None, !.obj = None]]
    /\ UNCHANGED <<session, ledger, staged, object>> /\ FinishOnly

Create(h, f) ==
    LET s == req[h].s IN
    /\ req[h].pc = "create" /\ file[f].st = "none"
    /\ file' = [file EXCEPT ![f] = [st |-> "row", s |-> s, sha |-> req[h].sha, parts |-> req[h].parts,
                                    path |-> IF s \in Disk THEN "staging" ELSE "none"]]
    /\ req' = [req EXCEPT ![h] = [@ EXCEPT !.pc = IF s \in Disk THEN "rename" ELSE "close", !.f = f]]
    /\ UNCHANGED <<session, ledger, staged, object>> /\ FinishOnly

\* The staging file becomes the object of the new file, if it is still there.
Rename(h) ==
    LET s == req[h].s IN
    /\ req[h].pc = "rename"
    /\ IF staged[s] = None
       THEN Goto(h, "undo") /\ UNCHANGED <<staged, object>>
       ELSE /\ Goto(h, "point")
            /\ object' = [object EXCEPT ![req[h].f] = staged[s]]
            /\ staged' = [staged EXCEPT ![s] = None]
    /\ UNCHANGED <<session, ledger, file>> /\ FinishOnly

Undo(h) ==
    /\ req[h].pc = "undo"
    /\ Deleted(req[h].f)
    /\ Goto(h, "failed")
    /\ UNCHANGED <<session, ledger, staged, object>> /\ FinishOnly

\* Fault: SetFileStorage as an upsert.
PointAlways(h) ==
    /\ req[h].pc = "point"
    /\ file' = [file EXCEPT ![req[h].f].path = "object"]
    /\ Goto(h, "close")
    /\ UNCHANGED <<session, ledger, staged, object>> /\ FinishOnly

\* SetFileStorage: no error when the row has gone.
Point(h) ==
    LET f == req[h].f IN
    /\ req[h].pc = "point"
    /\ file' = [file EXCEPT ![f].path = IF f \in Rows THEN "object" ELSE @]
    /\ Goto(h, "close")
    /\ UNCHANGED <<session, ledger, staged, object>> /\ FinishOnly

CloseSession(h) ==
    /\ req[h].pc = "close"
    /\ session' = [session EXCEPT ![req[h].s] = "deleted"]
    /\ Goto(h, "ok")
    /\ UNCHANGED <<ledger, staged, file, object>> /\ FinishOnly

-----------------------------------------------------------------------------
\* purgeFile reads the row and then acts like the replacement of a file.
Purge(h, f) ==
    /\ req[h] = NoReq /\ f \in Rows \cap Purgeable
    /\ req' = [req EXCEPT ![h] = [NoReq EXCEPT !.op = "purge", !.pc = "drop",
                                               !.old = f, !.obj = ObjectOf(f)]]
    /\ UNCHANGED <<session, client, Stores, faults, histories>>

Touched(h) == CASE req[h].pc \in {"rename", "point", "undo"} -> {req[h].f}
                [] req[h].pc \in {"drop", "delete"} -> {req[h].old}
                [] OTHER -> {}

\* The server restarts: the ledger and the requests are gone, and of a chunk that is
\* being appended the first parts are in the file.
Restart ==
    /\ Fault
    /\ req' = [h \in Handlers |-> NoReq]
    /\ ledger' = [s \in Sessions |-> None]
    /\ client' = [s \in Sessions |-> IF client[s].pc = "wait" THEN TryAgain(client[s])
                                                             ELSE client[s]]
    /\ cut' = cut \cup UNION {Touched(h) : h \in Handlers}
    /\ \/ UNCHANGED staged /\ unfollowed' = unfollowed \cup overlapped
       \/ \E h \in Handlers : \E n \in 1..(Len(req[h].todo) - 1) :
            /\ req[h].pc = "append"
            /\ Appended(req[h].s, SubSeq(req[h].todo, 1, n))
            /\ unfollowed' = unfollowed \cup overlapped \cup {req[h].s}
    /\ UNCHANGED <<session, saved, file, object, overlapped, ended>>

Browser(s) == \/ OpenSession(s) \/ AnswerLost(s) \/ Retry(s)
              \/ \E h \in Handlers : SendChunk(s, h) \/ SendComplete(s, h)

Handle(h) == \/ ChunkHash(h) \/ PartSave(h) \/ PartsSaved(h) \/ SaveFails(h)
             \/ ChunkStat(h) \/ ChunkAppend(h) \/ ShortWrite(h)
             \/ TakeHash(h) \/ Commit(h) \/ CommitFails(h) \/ CheckStaged(h) \/ Find(h)
             \/ DropObject(h) \/ DeleteOld(h) \/ (\E f \in Files : Create(h, f))
             \/ Rename(h) \/ Undo(h) \/ Point(h) \/ CloseSession(h) \/ Reply(h)

Next == \/ \E s \in Sessions : Browser(s)
        \/ \E h \in Handlers : Handle(h) \/ (\E f \in Files : Purge(h, f))
        \/ Restart

Spec == Init /\ [][Next]_vars
-----------------------------------------------------------------------------
Parts == UNION {[1..n -> PartSet] : n \in 0..ChunkParts}
Item  == [pc : {"new", "send", "wait", "failed", "done"}, next : 0..Chunks, tries : 0..2,
          h : Handlers \cup {None}]

\* The types; an entry of the ledger and a staging file belong to a session that was
\* opened, and the request a browser waits for is one of its upload.
TypeOK ==
    /\ session \in [Sessions -> {"none", "open", "deleted"}]
    /\ client \in [Sessions -> Item]
    /\ \A h \in Handlers :
         /\ req[h].op \in {"none", "chunk", "complete", "purge"}
         /\ req[h].s \in Sessions \cup {None} /\ req[h].k \in 0..Chunks
         /\ req[h].f \in Files \cup {None} /\ req[h].old \in Files \cup {None}
         /\ req[h].parts \subseteq PartSet /\ req[h].todo \in Parts
    /\ \A s \in Sessions :
         /\ ledger[s] \in 1..Wrong \cup {None}
         /\ staged[s] = None \/ \A i \in 1..Len(staged[s]) : staged[s][i] \in PartSet
         /\ saved[s] \subseteq PartSet
         /\ session[s] = "none" => ledger[s] = None /\ staged[s] = None
         /\ client[s].pc = "wait" => req[client[s].h].s = s
    /\ \A f \in Files : file[f].path = "object" => file[f].s \in Disk
    /\ faults \in 0..MaxFaults

Settled == Rows \ (cut \cup UNION {Touched(h) : h \in Handlers})

Whole(f) == IF file[f].s \in Disk THEN object[f] = WholeSeq ELSE file[f].parts = PartSet

\* A row of a file whose creation and deletion are over has its bytes, all of them and
\* in order, through lost answers, chunks sent again, replacements and restarts.  A
\* disk upload with overlapping or short writes may have others.
RowsWhole == \A f \in Settled :
    Whole(f) \/ (file[f].s \in overlapped \cup unfollowed /\ object[f] # None)

\* A hash that is right vouches for the bytes, also of an upload whose chunks
\* overtook each other ("for duplicate detection and integrity", handlers_upload.go:116).
HashVouches == \A f \in Settled :
    file[f].sha = "right" /\ file[f].s \notin unfollowed => Whole(f)

\* Sending a chunk again is harmless for a Telegram upload: with fewer than three
\* faults the item never fails before its end is asked for.
TelegramResends == \A s \in Sessions \ Disk :
    client[s].pc = "failed" /\ client[s].next < Chunks => faults >= 3

\* "re-sends of finished chunks are no-ops so a lost response cannot duplicate bytes"
\* (handlers_upload.go:113-114): none is refused.
ResendsAccepted == \A h \in Handlers :
    req[h].pc = "refused" /\ req[h].op = "chunk" /\ session[req[h].s] = "open"
      => (req[h].k + 1) * ChunkParts > StagedSize(req[h].s)

\* A stored hash is that of the file, or there is none.
HashRight == \A f \in Rows : file[f].sha \in {"none", "right"}

\* Once an upload has been answered there is a file of the name, but for the time an
\* upload over it takes.
NameKept == (\E s \in Sessions : client[s].pc = "done") =>
    Rows # {} \/ \E h \in Handlers : req[h].pc \in {"create", "rename", "undo"}
=============================================================================
