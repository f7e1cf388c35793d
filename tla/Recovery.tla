------------------------------- MODULE Recovery -------------------------------
(***************************************************************************)
(* What brings a catalog back: the sync of the catalog with the storage    *)
(* channel (the "vault"), and the snapshots of the database file that are  *)
(* kept in the vault and swapped in under the running server.              *)
(*                                                                         *)
(* The worker of the client manager executes one task at a time (Dispatch);*)
(* the sync at the start of a server or of a login does not go through it. *)
(* A call whose client goes away returns while its task goes on.           *)
(*                                                                         *)
(* All uploads have one name in one folder.  A row holds the number of its *)
(* message, not the vault; the vault in a row is that of the document the  *)
(* row's Telegram coordinates name.  No channel is configured by           *)
(* environment.  Telegram is external: it numbers the messages of a vault  *)
(* and posts a service message when a message is pinned.                   *)
(***************************************************************************)
EXTENDS Naturals, FiniteSets, Sequences

CONSTANTS Vaults,      \* the channels of the account that are or may become vaults
          OldVaults,   \* those that may exist at the start
          OldMessages, \* the kinds of the messages they hold then, oldest first
          Uploads, Requests,
          PageSize,    \* messages of a page of history
          Window,      \* messages ListSnapshotsForPeer looks at
          Keep,        \* snapshots PruneSnapshots keeps
          MaxMessages, \* bound: messages of a vault
          MaxEvents,   \* bound: requests but the end of an upload, stops, losses of the
                       \* database, failed calls, full disks, clients gone
          None, Broken, Same

ASSUME RecoveryAssumption == /\ None \notin Vaults \cup Requests
                             /\ OldVaults \subseteq Vaults /\ OldVaults # {}
                             /\ OldMessages \in Seq({"service", "doc", "snap"}) /\ OldMessages # <<>>
                             /\ Len(OldMessages) <= MaxMessages
                             /\ PageSize \in Nat \ {0} /\ Window \in Nat /\ Keep \in Nat \ {0}
                             /\ MaxMessages \in Nat /\ MaxEvents \in Nat

VARIABLES vault,   \* the messages of each vault, by number
          host,    \* "off", "login" (tdocs login) or "server"
          db,      \* the database the server's handle sees
          path,    \* the file at DBPath: Same as db, Broken, or another database
          writer,  \* the request whose upload that file is made from, None if it is a task's: what
                   \* goes to a file that was removed meanwhile does not show at DBPath
          open,    \* the server's handle is open
          stale,   \* the manager's handle is an older one, and closed
          cached,  \* the vault the manager has in memory
          task,    \* what the worker executes
          sync,    \* the syncs: at the start, and by hand
          up,      \* ends of uploads
          purge,   \* a purge
          op,      \* requests that make or restore snapshots
          temp,    \* the temporary file of uploaded snapshots, one per process
          made,    \* identifiers of rows handed out, by the message they were made for
          events,  \* how many of them there have been
          others   \* history: what others have put in the place of the database a request
                   \* restores (another history is sync[p].behind)

vars == <<vault, host, db, path, writer, open, stale, cached, task, sync, up, purge, op, temp,
          made, events, others>>

Syncs    == {"start", "manual"}
Unused   == [rows |-> {}, bound |-> None]
Service  == [kind |-> "service", db |-> None]
Document == [kind |-> "doc", db |-> None]
NoTask   == [kind |-> "none", pc |-> "idle", r |-> None, i |-> 0, db |-> None]
NoSync   == [pc |-> "off", v |-> None, todo |-> {}, top |-> 0, at |-> None, dropped |-> {}, behind |-> {}]
NoUpload == [pc |-> "idle", v |-> None, i |-> 0]
Ended    == [NoUpload EXCEPT !.pc = "done"]
NoPurge  == [pc |-> "idle", id |-> None, i |-> 0]
NoOp     == [kind |-> "none", pc |-> "idle", i |-> 0, want |-> None, from |-> None, ok |-> FALSE]

\* The database that knows the documents among the first n messages of vault v.
OldDb(v, n) == [bound |-> v, rows |-> {[id |-> <<i, 0>>, v |-> v, i |-> i, name |-> "sent"] :
                                         i \in {j \in 1..n : OldMessages[j] = "doc"}}]

\* An installation that has run before, or a fresh volume.
Init == /\ \E old \in SUBSET OldVaults :
             /\ vault = [v \in Vaults |-> IF v \notin old THEN <<>> ELSE
                           [i \in DOMAIN OldMessages |-> [kind |-> OldMessages[i], db |->
                              IF OldMessages[i] = "snap" THEN OldDb(v, i) ELSE None]]]
             /\ db \in {Unused} \cup {OldDb(v, Len(OldMessages)) : v \in old}
        /\ host = "off" /\ path = Same /\ writer = None
        /\ open = FALSE /\ stale = FALSE /\ cached = None
        /\ task = NoTask /\ sync = [p \in Syncs |-> NoSync]
        /\ up = [u \in Uploads |-> NoUpload] /\ purge = NoPurge
        /\ op = [r \in Requests |-> NoOp] /\ temp = None /\ made = [i \in 1..MaxMessages |-> 1]
        /\ events = 0
        /\ others = [r \in Requests |-> {}]

Event == events < MaxEvents /\ events' = events + 1

Memory  == <<cached, task, sync, up, purge, op>>
History == <<made, others>>

-----------------------------------------------------------------------------
(* Messages. *)

Greatest(S) == CHOOSE i \in S : \A j \in S : j <= i
Numbers(v, kinds) == {i \in DOMAIN vault[v] : vault[v][i].kind \in kinds}
Known == {v \in Vaults : vault[v] # <<>>}

\* The place of message i in the history, newest first; deleted messages have none.
Place(ms, i) == Cardinality({j \in DOMAIN ms : j > i /\ ms[j].kind # "gone"})

PageOf(v, i) == Place(vault[v], i) \div PageSize
InPage(v, k, kinds) == {i \in Numbers(v, kinds) : PageOf(v, i) = k}

\* Fault: snapshots are not counted.
GoesOnDocuments(v, k) == Cardinality(InPage(v, k, {"doc"})) = PageSize

\* The scan asks for another page after one that holds PageSize messages; service messages
\* do not count.
GoesOn(v, k) == Cardinality(InPage(v, k, {"doc", "snap"})) = PageSize

\* The documents on the pages it asks for.
Scanned(v) == {i \in Numbers(v, {"doc"}) : \A k \in 0..PageOf(v, i) : k < PageOf(v, i) => GoesOn(v, k)}

\* ListSnapshotsForPeer.
Listed(ms) == {i \in DOMAIN ms : ms[i].kind = "snap" /\ Place(ms, i) < Window}

\* The documents on older pages than the service message of a pinned snapshot.
Behind(v) == {i \in Numbers(v, {"doc"}) : \E j \in Numbers(v, {"service"}) :
                                            j > 1 /\ PageOf(v, j) < PageOf(v, i)}

Gone(ms, S) == [i \in DOMAIN ms |-> IF i \in S THEN [kind |-> "gone", db |-> None] ELSE ms[i]]

\* Fault: keeps one too few.
PrunedMore(ms) == Gone(ms, {i \in Listed(ms) : Cardinality({j \in Listed(ms) : j > i}) >= Keep - 1})

\* PruneSnapshots.
Pruned(ms) == Gone(ms, {i \in Listed(ms) : Cardinality({j \in Listed(ms) : j > i}) >= Keep})

Room(v, n) == Len(vault[v]) + n <= MaxMessages

-----------------------------------------------------------------------------
(* Rows. *)

MgrOpen == open /\ ~stale
Holds(i) == {r \in db.rows : r.i = i}

\* Rows that users take away, or that go with the database: a sync need not have them.
Running == {p \in Syncs : sync[p].pc \in {"look", "insert", "update"}}
Drop(S) == sync' = [p \in Syncs |-> IF p \in Running THEN [sync[p] EXCEPT !.dropped = @ \cup S] ELSE sync[p]]
DropAll == Drop(1..MaxMessages)

Insert(v, i) ==
    /\ db' = [db EXCEPT !.rows = @ \cup {[id |-> <<i, made[i]>>, v |-> v, i |-> i, name |-> "sent"]}]
    /\ made' = [made EXCEPT ![i] = @ + 1]

Delete(rs) == db' = [db EXCEPT !.rows = @ \ rs]

-----------------------------------------------------------------------------
(* The life of the process. *)

\* runServer: opens the database, Run, EnsureStorageChannel.
Start ==
    /\ host = "off" /\ path = Same /\ db.bound # None
    /\ host' = "server" /\ open' = TRUE /\ stale' = FALSE /\ cached' = db.bound
    /\ sync' = [sync EXCEPT !["start"] = [NoSync EXCEPT !.pc = "scan"]]
    /\ UNCHANGED <<vault, db, path, writer, task, up, purge, op, temp, made, events, others>>

\* A shutdown or a crash.
Stop ==
    /\ host' = "off" /\ open' = FALSE /\ stale' = FALSE /\ cached' = None
    /\ db' = IF path \in {Same, Broken} THEN db ELSE path
    /\ path' = IF path = Broken THEN Broken ELSE Same
    /\ writer' = None
    /\ task' = NoTask /\ sync' = [p \in Syncs |-> NoSync] /\ purge' = NoPurge
    /\ up' = [u \in Uploads |-> IF up[u].pc = "idle" THEN NoUpload ELSE Ended]
    /\ op' = [r \in Requests |-> NoOp] /\ temp' = None
    /\ others' = [r \in Requests |-> {}]
    /\ UNCHANGED <<vault, made>>

Crash    == host # "off" /\ Event /\ Stop
LoginEnd == host = "login" /\ sync["start"].pc \in {"done", "failed"} /\ Stop /\ UNCHANGED events

\* A fresh volume, or the operator removes a file that cannot be opened.
Wipe ==
    /\ host = "off" /\ Event
    /\ db' = Unused /\ path' = Same
    /\ UNCHANGED <<vault, host, writer, open, stale, Memory, temp, History>>

\* OnboardStorageChannelInteractive on a new database: connect to a vault, perhaps restore
\* its newest snapshot.  A login on a bound database only syncs, as a start does.
Login(v) ==
    /\ host = "off" /\ path = Same /\ db.bound = None /\ v \in Known
    /\ \E d \in {Unused} \cup IF Listed(vault[v]) = {} THEN {}
                              ELSE {vault[v][Greatest(Listed(vault[v]))].db} :
         db' = [d EXCEPT !.bound = v]
    /\ host' = "login" /\ open' = TRUE /\ cached' = v
    /\ sync' = [sync EXCEPT !["start"] = [NoSync EXCEPT !.pc = "scan"]]
    /\ UNCHANGED <<vault, path, writer, stale, task, up, purge, op, temp, made, events, others>>

\* The same, with a new vault.
LoginNew(v) ==
    /\ host = "off" /\ path = Same /\ db.bound = None /\ v \notin Known
    /\ vault' = [vault EXCEPT ![v] = <<Service>>]
    /\ db' = [db EXCEPT !.bound = v]
    /\ host' = "login" /\ open' = TRUE /\ cached' = v
    /\ sync' = [sync EXCEPT !["start"] = [NoSync EXCEPT !.pc = "scan"]]
    /\ UNCHANGED <<path, writer, stale, task, up, purge, op, temp, made, events, others>>

-----------------------------------------------------------------------------
(* SyncChannelToDB. *)

Run(p) == host = "server" \/ (host = "login" /\ p = "start")
Set(p, rec) == sync' = [sync EXCEPT ![p] = rec]
Release(p) == IF p = "manual" THEN task' = NoTask ELSE UNCHANGED task

\* handleSyncChannel.
SyncByHand ==
    /\ host = "server" /\ task = NoTask /\ Event
    /\ task' = [NoTask EXCEPT !.kind = "sync"]
    /\ Set("manual", [NoSync EXCEPT !.pc = "scan"])
    /\ UNCHANGED <<vault, host, db, path, writer, open, stale, cached, up, purge, op, temp, History>>

\* ScanStorageChannelDocuments.
Scan(p) ==
    /\ sync[p].pc = "scan"
    /\ Set(p, [NoSync EXCEPT !.pc = "look", !.v = cached, !.todo = Scanned(cached),
                             !.top = Len(vault[cached]), !.behind = Behind(cached)])
    /\ UNCHANGED <<vault, host, db, path, writer, open, stale, cached, task, up, purge, op, temp, events, History>>

\* UpsertFileFromChannel looks for a row of the message, newest message first.
Look(p) ==
    /\ sync[p].pc = "look" /\ sync[p].todo # {} /\ MgrOpen
    /\ LET i == Greatest(sync[p].todo) IN
         \/ /\ Holds(i) = {}
            /\ Set(p, [sync[p] EXCEPT !.pc = "insert"])
         \/ \E r \in Holds(i) : Set(p, [sync[p] EXCEPT !.pc = "update", !.at = r.id])
    /\ UNCHANGED <<vault, host, db, path, writer, open, stale, cached, task, up, purge, op, temp, events, History>>

\* Fault: the document stays.
SameDocument(s) == [s EXCEPT !.pc = "look", !.at = None]

NextDocument(s) == [s EXCEPT !.pc = "look", !.todo = @ \ {Greatest(@)}, !.at = None]

InsertRow(p) ==
    /\ sync[p].pc = "insert" /\ MgrOpen
    /\ Insert(sync[p].v, Greatest(sync[p].todo))
    /\ Set(p, NextDocument(sync[p]))
    /\ UNCHANGED <<vault, host, path, writer, open, stale, cached, task, up, purge, op, temp, events, others>>

\* Name, size and coordinates of the row become those of the message.
Refreshed(r, s) == IF r.id = s.at THEN [r EXCEPT !.v = s.v, !.name = "sent"] ELSE r

UpdateRow(p) ==
    /\ sync[p].pc = "update" /\ MgrOpen
    /\ db' = [db EXCEPT !.rows = {Refreshed(r, sync[p]) : r \in @}]
    /\ Set(p, NextDocument(sync[p]))
    /\ UNCHANGED <<vault, host, path, writer, open, stale, cached, task, up, purge, op, temp, events, History>>

\* A statement on a closed handle fails, and the sync with it.
SyncFails(p) ==
    /\ sync[p].pc \in {"look", "insert", "update"} /\ sync[p].todo # {} /\ ~MgrOpen
    /\ Set(p, [NoSync EXCEPT !.pc = "failed"])
    /\ Release(p)
    /\ UNCHANGED <<vault, host, db, path, writer, open, stale, cached, up, purge, op, temp, events, History>>

SyncEnds(p) ==
    /\ sync[p].pc = "look" /\ sync[p].todo = {}
    /\ Set(p, [NoSync EXCEPT !.pc = "done"])
    /\ Release(p)
    /\ UNCHANGED <<vault, host, db, path, writer, open, stale, cached, up, purge, op, temp, events, History>>

-----------------------------------------------------------------------------
(* Users: the end of an upload, rename, purge. *)

\* CompleteUpload, in the worker.
Commit(u) ==
    /\ host = "server" /\ up[u] = NoUpload /\ task = NoTask /\ Room(cached, 1)
    /\ vault' = [vault EXCEPT ![cached] = Append(@, Document)]
    /\ up' = [up EXCEPT ![u] = [pc |-> "replace", v |-> cached, i |-> Len(vault[cached]) + 1]]
    /\ UNCHANGED <<host, db, path, writer, open, stale, cached, task, sync, purge, op, temp, events, History>>

\* A file of that name is archived and its row deleted; the archive goes with the row.
ReplaceOld(u) ==
    /\ up[u].pc = "replace"
    /\ up' = [up EXCEPT ![u].pc = "create"]
    /\ LET old == {r \in db.rows : open /\ r.name = "sent"} IN
         \/ old = {} /\ UNCHANGED <<db, sync>>
         \/ \E r \in old : Delete({r}) /\ Drop({r.i})
    /\ UNCHANGED <<vault, host, path, writer, open, stale, cached, task, purge, op, temp, events, History>>

CreateRow(u) ==
    /\ up[u].pc = "create" /\ open
    /\ Insert(up[u].v, up[u].i)
    /\ up' = [up EXCEPT ![u] = Ended]
    /\ UNCHANGED <<vault, host, path, writer, open, stale, cached, task, sync, purge, op, temp, events, others>>

CreateFails(u) ==
    /\ up[u].pc = "create" /\ ~open
    /\ up' = [up EXCEPT ![u] = Ended]
    /\ UNCHANGED <<vault, host, db, path, writer, open, stale, cached, task, sync, purge, op, temp, events, History>>

Rename(r) ==
    /\ host = "server" /\ open /\ r \in db.rows /\ r.name = "sent" /\ Event
    /\ db' = [db EXCEPT !.rows = (@ \ {r}) \cup {[r EXCEPT !.name = "given"]}]
    /\ UNCHANGED <<vault, host, path, writer, open, stale, Memory, temp, History>>

PurgeLooks(r) ==
    /\ host = "server" /\ open /\ purge = NoPurge /\ r \in db.rows /\ Event
    /\ purge' = [pc |-> "call", id |-> r.id, i |-> r.i]
    /\ UNCHANGED <<vault, host, db, path, writer, open, stale, cached, task, sync, up, op, temp, History>>

PurgeCalls ==
    /\ purge.pc = "call" /\ task = NoTask
    /\ vault' = [vault EXCEPT ![cached] = Gone(@, {purge.i})]
    /\ purge' = [purge EXCEPT !.pc = "delete"]
    /\ UNCHANGED <<host, db, path, writer, open, stale, cached, task, sync, up, op, temp, events, History>>

\* A failed call is printed.
PurgeCallFails ==
    /\ purge.pc = "call" /\ Event
    /\ purge' = [purge EXCEPT !.pc = "delete"]
    /\ UNCHANGED <<vault, host, db, path, writer, open, stale, cached, task, sync, up, op, temp, History>>

PurgeDeletes ==
    /\ purge.pc = "delete"
    /\ purge' = NoPurge
    /\ IF open THEN Delete({r \in db.rows : r.id = purge.id}) /\ Drop({purge.i})
               ELSE UNCHANGED <<db, sync>>
    /\ UNCHANGED <<vault, host, path, writer, open, stale, cached, task, up, op, temp, events, History>>

-----------------------------------------------------------------------------
(* Requests that make a snapshot, restore one from the vault or restore an *)
(* uploaded one.  snapshotMu admits one of them at a time.                 *)

Locked(r) == op[r].pc \in {"call", "wait", "swap", "copy", "reopen"}
Free == \A r \in Requests : ~Locked(r)
SetOp(r, rec) == op' = [op EXCEPT ![r] = rec]
Goto(r, pc) == op' = [op EXCEPT ![r].pc = pc]

\* History: d comes in the place of what the requests of rs restore.
InPlace(rs, d) == others' = [r \in Requests |-> IF r \in rs THEN others[r] \cup {d} ELSE others[r]]

\* handleCreateSnapshot, PerformAutomatedSnapshot: CreateSnapshot copies the database.
BeginCreate(r) ==
    /\ host = "server" /\ op[r] = NoOp /\ Free /\ open /\ Event
    /\ SetOp(r, [NoOp EXCEPT !.kind = "create", !.pc = "call", !.want = db])
    /\ UNCHANGED <<vault, host, db, path, writer, open, stale, cached, task, sync, up, purge, temp, History>>

\* handleRestoreSnapshot of a snapshot of the list, which comes from the bound vault.
BeginRestore(r) ==
    /\ host = "server" /\ op[r] = NoOp /\ Free /\ Event
    /\ \E i \in Listed(vault[db.bound]) :
         SetOp(r, [NoOp EXCEPT !.kind = "restore", !.pc = "call", !.i = i,
                               !.want = vault[db.bound][i].db])
    /\ open' = FALSE
    /\ UNCHANGED <<vault, host, db, path, writer, stale, cached, task, sync, up, purge, temp, History>>

\* handleUploadRestoreSnapshot of a snapshot that was downloaded, or of some other file: to the
\* temporary file first.
Receive(r) ==
    /\ host = "server" /\ op[r] = NoOp /\ Event
    /\ \E d \in {Broken} \cup UNION {{vault[v][i].db : i \in Numbers(v, {"snap"})} : v \in Vaults} :
         /\ temp' = d
         /\ SetOp(r, [NoOp EXCEPT !.kind = "local", !.pc = "lock", !.want = d])
         /\ InPlace({q \in Requests : op[q].pc \in {"lock", "swap"}}, d)
    /\ UNCHANGED <<vault, host, db, path, writer, open, stale, cached, task, sync, up, purge, made>>

LockReceived(r) ==
    /\ op[r].pc = "lock" /\ Free
    /\ Goto(r, "swap") /\ open' = FALSE
    /\ UNCHANGED <<vault, host, db, path, writer, stale, cached, task, sync, up, purge, temp, events, History>>

\* RestoreFromGzip: the old file is removed, then the new one written.
Swap(r) ==
    /\ op[r].pc = "swap" /\ temp \notin {None, Broken}
    /\ SetOp(r, [op[r] EXCEPT !.pc = "copy", !.from = temp])
    /\ path' = Broken /\ writer' = r
    /\ UNCHANGED <<vault, host, db, open, stale, cached, task, sync, up, purge, temp, events, History>>

\* No temporary file any more, or not a compressed one.
SwapFails(r) ==
    /\ op[r].pc = "swap" /\ temp \in {None, Broken}
    /\ Goto(r, "reopen")
    /\ UNCHANGED <<vault, host, db, path, writer, open, stale, cached, task, sync, up, purge, temp, events, History>>

CopyReceived(r) ==
    /\ op[r].pc = "copy"
    /\ SetOp(r, [op[r] EXCEPT !.pc = "reopen", !.ok = TRUE])
    /\ path' = IF writer = r THEN op[r].from ELSE path
    /\ UNCHANGED <<vault, host, db, writer, open, stale, cached, task, sync, up, purge, temp, events, History>>

CopyBreaks(r) ==
    /\ op[r].pc = "copy" /\ Event
    /\ Goto(r, "reopen")
    /\ UNCHANGED <<vault, host, db, path, writer, open, stale, cached, task, sync, up, purge, temp, History>>

\* The manager is given the new handle, but after a failed restore of an uploaded snapshot.
Reopen(r) ==
    /\ op[r].pc = "reopen" /\ path # Broken
    /\ Goto(r, "answer")
    /\ open' = TRUE /\ path' = Same
    /\ stale' = (op[r].kind = "local" /\ ~op[r].ok)
    /\ IF path = Same THEN UNCHANGED <<db, sync>> ELSE db' = path /\ DropAll
    /\ UNCHANGED <<vault, host, writer, cached, task, up, purge, temp, events, History>>

\* The server goes on without a database.
ReopenFails(r) ==
    /\ op[r].pc = "reopen" /\ path = Broken
    /\ SetOp(r, [op[r] EXCEPT !.pc = "answer", !.ok = FALSE])
    /\ UNCHANGED <<vault, host, db, path, writer, open, stale, cached, task, sync, up, purge, temp, events, History>>

Answer(r) ==
    /\ op[r].pc = "answer"
    /\ temp' = IF op[r].kind = "local" THEN None ELSE temp
    /\ SetOp(r, NoOp) /\ others' = [others EXCEPT ![r] = {}]
    /\ UNCHANGED <<vault, host, db, path, writer, open, stale, cached, task, sync, up, purge, events, made>>

\* Do.
Submit(r) ==
    /\ op[r].pc = "call" /\ task = NoTask
    /\ Goto(r, "wait")
    /\ task' = [kind |-> op[r].kind, pc |-> "ensure", r |-> r, i |-> op[r].i, db |-> op[r].want]
    /\ UNCHANGED <<vault, host, db, path, writer, open, stale, cached, sync, up, purge, temp, events, History>>

\* The client goes away: Do returns its context's error, the task goes on.
Abandon(r) ==
    /\ op[r].pc \in {"call", "wait"} /\ Event
    /\ IF op[r].kind = "create" THEN SetOp(r, NoOp) ELSE Goto(r, "reopen")
    /\ UNCHANGED <<vault, host, db, path, writer, open, stale, cached, task, sync, up, purge, temp, History>>

-----------------------------------------------------------------------------
(* Tasks of the worker. *)

\* Health, and handleDeleteSnapshot.
StartTask(kind, i) ==
    /\ host = "server" /\ task = NoTask
    /\ task' = [NoTask EXCEPT !.kind = kind, !.pc = "ensure", !.i = i]
    /\ UNCHANGED <<vault, host, db, path, writer, open, stale, cached, sync, up, purge, op, temp, History>>

\* Health changes nothing when the manager works in the vault it finds in the database.
Health == (MgrOpen => cached # db.bound) /\ StartTask("health", 0) /\ UNCHANGED events
DeleteSnapshot == open /\ Event /\ \E i \in Listed(vault[db.bound]) : StartTask("delete", i)

\* DiscoverStorageChannels: of several vaults, one with the most snapshots.
Best == {v \in Known : \A w \in Known :
             Cardinality(Listed(vault[v])) >= Cardinality(Listed(vault[w]))}

\* EnsureStorageChannel.
Ensure ==
    /\ task.pc = "ensure"
    /\ \E v \in (IF MgrOpen THEN {db.bound} ELSE Best) : cached' = v
    /\ task' = [task EXCEPT !.pc = "act"]
    /\ UNCHANGED <<vault, host, db, path, writer, open, stale, sync, up, purge, op, temp, events, History>>

\* The binding cannot be read and the discovery fails: it makes a vault.
EnsureMakes(v) ==
    /\ task.pc = "ensure" /\ ~MgrOpen /\ v \notin Known /\ Event
    /\ vault' = [vault EXCEPT ![v] = <<Service>>]
    /\ cached' = v
    /\ task' = [task EXCEPT !.pc = "act"]
    /\ UNCHANGED <<host, db, path, writer, open, stale, sync, up, purge, op, temp, History>>

\* Fault: the error of a task is not sent.
FinishSilent(ok) ==
    /\ task' = NoTask
    /\ op' = IF ~ok \/ task.r = None \/ op[task.r].pc # "wait" THEN op
             ELSE [op EXCEPT ![task.r] = [@ EXCEPT
                     !.pc = IF task.kind = "create" THEN "answer" ELSE "reopen", !.ok = ok]]

\* Fault: the error of a task is sent as success.
FinishWell(ok) ==
    /\ task' = NoTask
    /\ op' = IF task.r = None \/ op[task.r].pc # "wait" THEN op
             ELSE [op EXCEPT ![task.r] = [@ EXCEPT
                     !.pc = IF task.kind = "create" THEN "answer" ELSE "reopen", !.ok = TRUE]]

\* The answer reaches the request if it still waits for it.
Finish(ok) ==
    /\ task' = NoTask
    /\ op' = IF task.r = None \/ op[task.r].pc # "wait" THEN op
             ELSE [op EXCEPT ![task.r] = [@ EXCEPT
                     !.pc = IF task.kind = "create" THEN "answer" ELSE "reopen", !.ok = ok]]

Acting(kind) == task.kind = kind /\ task.pc = "act"

\* UploadSnapshot: commit, pin (which posts a service message, or fails), prune (or fails to).
UploadSnapshot ==
    /\ Acting("create") /\ Room(cached, 2)
    /\ \E pin \in {<<>>, <<Service>>} :
         LET ms == vault[cached] \o <<[kind |-> "snap", db |-> task.db]>> \o pin
         IN \E kept \in {ms, Pruned(ms)} : vault' = [vault EXCEPT ![cached] = kept]
    /\ Finish(TRUE)
    /\ UNCHANGED <<host, db, path, writer, open, stale, cached, sync, up, purge, temp, events, History>>

DeleteMessage ==
    /\ Acting("delete")
    /\ vault' = [vault EXCEPT ![cached] = Gone(@, {task.i})]
    /\ Finish(TRUE)
    /\ UNCHANGED <<host, db, path, writer, open, stale, cached, sync, up, purge, temp, events, History>>

\* A call of the task fails.
CallFails ==
    /\ Acting("create") \/ Acting("delete")
    /\ Event
    /\ Finish(FALSE)
    /\ UNCHANGED <<vault, host, db, path, writer, open, stale, cached, sync, up, purge, temp, History>>

HealthEnds ==
    /\ Acting("health") /\ Finish(TRUE)
    /\ UNCHANGED <<vault, host, db, path, writer, open, stale, cached, sync, up, purge, temp, events, History>>

\* RestoreSnapshotByID: the message is fetched by its number; anything but a snapshot fails,
\* at the latest when it is not compressed.
Fetch ==
    /\ Acting("restore") /\ task.i \in Numbers(cached, {"snap"})
    /\ task' = [task EXCEPT !.pc = "replace", !.db = vault[cached][task.i].db]
    /\ InPlace({r \in {task.r} : op[r].pc = "wait" /\ cached # db.bound}, task'.db)
    /\ UNCHANGED <<vault, host, db, path, writer, open, stale, cached, sync, up, purge, op, temp, events, made>>

FetchFails ==
    /\ Acting("restore")
    /\ \/ task.i \notin Numbers(cached, {"snap"}) /\ UNCHANGED events
       \/ Event
    /\ Finish(FALSE)
    /\ UNCHANGED <<vault, host, db, path, writer, open, stale, cached, sync, up, purge, temp, History>>

\* Uploaded snapshots whose file is removed by a task that has lost its client.
Overrun == {r \in Requests : op[r].pc = "copy" \/ (op[r].kind = "local" /\ op[r].pc = "reopen")}

\* RestoreFromGzip again.
Replace ==
    /\ task.pc = "replace"
    /\ task' = [task EXCEPT !.pc = "copy"]
    /\ path' = Broken /\ writer' = None /\ InPlace(Overrun, Broken)
    /\ UNCHANGED <<vault, host, db, open, stale, cached, sync, up, purge, op, temp, made, events>>

Copy ==
    /\ task.pc = "copy"
    /\ IF writer = None THEN path' = task.db /\ InPlace(Overrun, task.db)
                        ELSE UNCHANGED <<path, others>>
    /\ Finish(TRUE)
    /\ UNCHANGED <<vault, host, db, writer, open, stale, cached, sync, up, purge, temp, made, events>>

CopyStops ==
    /\ task.pc = "copy" /\ Event
    /\ Finish(FALSE)
    /\ UNCHANGED <<vault, host, db, path, writer, open, stale, cached, sync, up, purge, temp, History>>

-----------------------------------------------------------------------------
Next ==
    \/ Start \/ Crash \/ LoginEnd \/ Wipe
    \/ \E v \in Vaults : Login(v) \/ LoginNew(v) \/ EnsureMakes(v)
    \/ SyncByHand
    \/ \E p \in Syncs : Scan(p) \/ Look(p) \/ InsertRow(p) \/ UpdateRow(p) \/ SyncFails(p) \/ SyncEnds(p)
    \/ \E u \in Uploads : Commit(u) \/ ReplaceOld(u) \/ CreateRow(u) \/ CreateFails(u)
    \/ \E r \in db.rows : Rename(r) \/ PurgeLooks(r)
    \/ PurgeCalls \/ PurgeCallFails \/ PurgeDeletes
    \/ \E r \in Requests : \/ BeginCreate(r) \/ BeginRestore(r) \/ Receive(r) \/ LockReceived(r)
                           \/ Swap(r) \/ SwapFails(r) \/ CopyReceived(r) \/ CopyBreaks(r)
                           \/ Reopen(r) \/ ReopenFails(r) \/ Answer(r) \/ Submit(r) \/ Abandon(r)
    \/ Health \/ DeleteSnapshot \/ Ensure \/ UploadSnapshot \/ DeleteMessage \/ CallFails \/ HealthEnds
    \/ Fetch \/ FetchFails \/ Replace \/ Copy \/ CopyStops

\* The sync of a start goes on: a goroutine that waits for nothing but Telegram.
Fairness == WF_vars(Scan("start") \/ Look("start") \/ InsertRow("start") \/ UpdateRow("start")
                      \/ SyncFails("start") \/ SyncEnds("start"))

Spec == Init /\ [][Next]_vars
FairSpec == Spec /\ Fairness

-----------------------------------------------------------------------------
Row == [id : (1..MaxMessages) \X Nat, v : Vaults, i : 1..MaxMessages, name : {"sent", "given"}]
IsDb(d) == /\ d.rows \subseteq Row /\ d.bound \in Vaults \cup {None}
           /\ \A r, q \in d.rows : r.id = q.id => r = q

\* Types; identifiers of rows are used once, a running server has a database that is bound,
\* and what the worker and the requests are at fits together.
TypeOK ==
    /\ \A v \in Vaults : /\ Len(vault[v]) <= MaxMessages
                         /\ \A i \in DOMAIN vault[v] :
                              /\ vault[v][i].kind \in {"service", "doc", "snap", "gone"}
                              /\ vault[v][i].kind = "snap" => IsDb(vault[v][i].db)
    /\ host \in {"off", "login", "server"}
    /\ IsDb(db) /\ (host # "off" => db.bound # None)
    /\ path \in {Same, Broken} \/ IsDb(path)
    /\ writer \in Requests \cup {None}
    /\ open \in BOOLEAN /\ stale \in BOOLEAN
    /\ cached \in Vaults \cup {None} /\ (host = "off" <=> cached = None)
    /\ task.kind \in {"none", "sync", "health", "delete", "create", "restore"}
    /\ task.pc \in {"idle", "ensure", "act", "replace", "copy"}
    /\ \A p \in Syncs : /\ sync[p].pc \in {"off", "scan", "look", "insert", "update", "done", "failed"}
                        /\ sync[p].todo \subseteq 1..MaxMessages
    /\ \A u \in Uploads : up[u].pc \in {"idle", "replace", "create", "done"}
    /\ purge.pc \in {"idle", "call", "delete"}
    /\ \A r \in Requests : /\ op[r].pc \in {"idle", "lock", "call", "wait", "swap", "copy", "reopen", "answer"}
                           /\ op[r].pc = "wait" => task.r = r /\ task.kind = op[r].kind
    /\ Cardinality({r \in Requests : Locked(r)}) <= 1
    /\ \A r \in db.rows : r.id[2] < made[r.id[1]]
    /\ DOMAIN others = Requests

HasRow(i) == Holds(i) # {}

\* The documents of vault v that sync p had to see.
Due(p) == {i \in Numbers(sync[p].v, {"doc"}) : i <= sync[p].top /\ i \notin sync[p].dropped}

Ends(p) == sync[p].pc = "look" /\ sync[p].todo = {}

\* A sync that succeeds leaves no document of the vault without a row, unless users have
\* taken the row away since the scan, or the document lay behind the service message of a
\* pinned snapshot, where the scan may have stopped: on an older page of the history
\* (ScanStorageChannelDocuments pages through the vault, of at most 5000 documents).
SyncCovers == \A p \in Syncs : Ends(p) => \A i \in Due(p) \ sync[p].behind : HasRow(i)

\* Every vault, however large, is "fully covered" (channelsync.go:138-140).
FullyCovered == \A p \in Syncs : Ends(p) => \A i \in Due(p) : HasRow(i)

Restores(r) == op[r].pc = "reopen" /\ op[r].ok

\* A restore that succeeds has put the database in place as it was when the selected snapshot
\* was made, or one that others have put in its place: for a snapshot of the list, the snapshot
\* of that number in another vault; for an uploaded one, what was uploaded over it before the
\* swap, or what the task of a departed client has made of the file after it.  It is never the
\* database of before, nor a part of the selected one, however many requests share the worker,
\* the lock and the temporary file.
RestoresSelected == \A r \in Requests : Restores(r) => path \in {op[r].want} \cup others[r]

\* An uploaded snapshot is what is swapped in, however many are uploaded at a time.
RestoresUploaded == \A r \in Requests : Restores(r) /\ op[r].kind = "local" => path = op[r].want

\* A restore is "replacing the live SQLite database with a specific historical Database
\* Snapshot selected from the Snapshot History" (CONTEXT.md:72).
RestoresListed == \A r \in Requests : Restores(r) /\ op[r].kind = "restore" => path = op[r].want

\* Retention never takes one of the newest Keep snapshots of a vault.
NewestKept == [][task.kind = "create" => \A v \in Vaults : \A i \in Numbers(v, {"snap"}) :
                    vault'[v][i].kind = "gone" =>
                      Cardinality({j \in DOMAIN vault'[v] : j > i /\ vault'[v][j].kind = "snap"}) >= Keep]_vars

\* A server and a login start with a sync, which ends or is cut off by a stop: what the vault
\* holds is in the catalog sooner or later (README.md:342).
StartSyncs == sync["start"].pc = "scan" ~> (sync["start"].pc \in {"done", "failed"} \/ host = "off")

\* While a restore replaces the file the server's handle is closed: "hot-swapping under an
\* exclusive read-write lock, closing active SQLite connections, replacing the database file"
\* (docs/adr/0010).
SwappedWhileClosed == task.pc = "copy" => ~open

\* No message has two rows: "repeated runs never duplicate files" (channelsync.go:95-97).
OneRowPerMessage == \A r, q \in db.rows : r.i = q.i => r = q

\* A sync "refreshes its Telegram coordinates" (db/files.go:394-396) and keeps a given name.
NamesKept == [][\A r \in db.rows, q \in db'.rows :
                  r.id = q.id /\ r.name = "given" /\ path' = path => q.name = "given"]_vars

\* The manager works with the vault the database is bound to, unless a task is under way.
WorksInBound == host = "server" /\ MgrOpen /\ task = NoTask => cached = db.bound
=============================================================================
