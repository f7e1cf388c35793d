---------------------------- MODULE BackupPipeline ----------------------------
(***************************************************************************)
(* Copying files from the primary account to backup accounts, as           *)
(* copyFileToBackup does: a download that runs as a task of the primary    *)
(* session writes a pipe, an upload that runs as a task of the backup      *)
(* session reads it.  A session executes one task at a time (Dispatch),    *)
(* every bulk upload holds one mutex (SafeLimiter), and a pipe has no      *)
(* buffer.  Snapshots upload from a task of the primary session.           *)
(*                                                                         *)
(* A job of an account makes its copies one after the other, with a        *)
(* context that never ends; all sessions stay up.  A file is Parts parts.  *)
(***************************************************************************)
EXTENDS Naturals, FiniteSets

CONSTANTS Accounts,   \* the backup accounts with a running job
          Snapshots,  \* the requests and timers that upload a snapshot
          Requests,   \* the other requests that need the primary session
          Parts,      \* parts of a file
          MaxCopies,  \* bound: copies of a job
          Free        \* nobody

ASSUME PipelineAssumption == /\ Parts \in Nat \ {0}
                             /\ MaxCopies \in Nat
                             /\ Free \notin Accounts \cup Snapshots \cup Requests
                             /\ Accounts \cap (Snapshots \cup Requests) = {}
                             /\ Snapshots \cap Requests = {}

VARIABLES primary,   \* who the worker of the primary session executes a task for
          uploadMu,  \* who holds SafeLimiter.uploadMu
          copy,      \* per account: the copy that is being made
          snap,      \* per snapshot
          request,   \* per request
          recorded   \* history: the kinds of content recorded in backup_copies

vars == <<primary, uploadMu, copy, snap, request, recorded>>

\* sent: parts the current download has written; got: parts the upload has read;
\* torn: one of them was read in the place of another.
NoCopy == [dl |-> "none", up |-> "none", sent |-> 0, got |-> 0, torn |-> FALSE, left |-> MaxCopies]

Init == /\ primary = Free /\ uploadMu = Free
        /\ copy = [a \in Accounts |-> NoCopy]
        /\ snap = [s \in Snapshots |-> "idle"]
        /\ request = [r \in Requests |-> "idle"]
        /\ recorded = {}

Downloading(a) == copy[a].dl \in {"first", "again"}

-----------------------------------------------------------------------------
(* The download, a task of the primary session.                            *)

CopyStart(a) ==
    /\ copy[a].up = "none" /\ copy[a].left > 0
    /\ copy' = [copy EXCEPT ![a] = [NoCopy EXCEPT !.dl = "ask", !.up = "lock",
                                                  !.left = copy[a].left - 1]]
    /\ UNCHANGED <<primary, uploadMu, snap, request, recorded>>

\* "again" is the last attempt: the stored coordinates are not tried twice.
DownloadStart(a, attempt) ==
    /\ copy[a].dl = "ask" /\ primary = Free
    /\ primary' = a
    /\ copy' = [copy EXCEPT ![a].dl = attempt]
    /\ UNCHANGED <<uploadMu, snap, request, recorded>>

\* The session is not running, or nothing resolves: the task fails at once.
DownloadRefused(a) ==
    /\ copy[a].dl = "ask"
    /\ copy' = [copy EXCEPT ![a].dl = "failed"]
    /\ UNCHANGED <<primary, uploadMu, snap, request, recorded>>

\* Writer and reader meet: one part goes through the pipe.
Part(a) ==
    LET c == copy[a] IN
    /\ Downloading(a) /\ c.up = "read"
    /\ c.sent < Parts /\ c.got < Parts
    /\ copy' = [copy EXCEPT ![a] = [c EXCEPT !.sent = c.sent + 1, !.got = c.got + 1,
                                             !.torn = c.torn \/ c.sent # c.got]]
    /\ UNCHANGED <<primary, uploadMu, snap, request, recorded>>

\* Fault: the task of the primary session goes on.
DownloadEndHolding(a) ==
    /\ Downloading(a) /\ copy[a].sent = Parts
    /\ copy' = [copy EXCEPT ![a].dl = "ok"]
    /\ UNCHANGED <<primary, uploadMu, snap, request, recorded>>

DownloadEnd(a) ==
    /\ Downloading(a) /\ copy[a].sent = Parts
    /\ copy' = [copy EXCEPT ![a].dl = "ok"]
    /\ primary' = Free
    /\ UNCHANGED <<uploadMu, snap, request, recorded>>

\* A chunk cannot be read from Telegram: the document is resolved again and the
\* download starts over, into the same pipe.
DownloadRetry(a) ==
    /\ copy[a].dl = "first"
    /\ copy' = [copy EXCEPT ![a] = [@ EXCEPT !.dl = "again", !.sent = 0]]
    /\ UNCHANGED <<primary, uploadMu, snap, request, recorded>>

\* A second failure, also of the read that looks for a part behind the last one.
DownloadFails(a) ==
    /\ Downloading(a)
    /\ copy' = [copy EXCEPT ![a].dl = "failed"]
    /\ primary' = Free
    /\ UNCHANGED <<uploadMu, snap, request, recorded>>

\* Fault: the reader is not closed, so that only a finished download returns.
DownloadCutAtEnd(a) ==
    /\ Downloading(a) /\ copy[a].up = "failed" /\ copy[a].sent = Parts
    /\ copy' = [copy EXCEPT ![a].dl = "failed"]
    /\ primary' = Free
    /\ UNCHANGED <<uploadMu, snap, request, recorded>>

\* The reader is closed: this write fails, and the first one of the retry.
DownloadCut(a) ==
    /\ Downloading(a) /\ copy[a].up = "failed"
    /\ copy' = [copy EXCEPT ![a].dl = "failed"]
    /\ primary' = Free
    /\ UNCHANGED <<uploadMu, snap, request, recorded>>

-----------------------------------------------------------------------------
(* The upload, a task of the backup session: UploadFromReader.             *)

UploadLock(a) ==
    /\ copy[a].up = "lock" /\ uploadMu = Free
    /\ uploadMu' = a
    /\ copy' = [copy EXCEPT ![a].up = "read"]
    /\ UNCHANGED <<primary, snap, request, recorded>>

UploadLeave(a, outcome) ==
    /\ copy' = [copy EXCEPT ![a].up = outcome]
    /\ uploadMu' = Free
    /\ UNCHANGED <<primary, snap, request, recorded>>

\* All parts are there and the message is sent.
UploadEnd(a) == copy[a].up = "read" /\ copy[a].got = Parts /\ UploadLeave(a, "ok")

\* The writer was closed with an error.
UploadCut(a) == copy[a].up = "read" /\ copy[a].dl = "failed" /\ copy[a].got < Parts
                /\ UploadLeave(a, "failed")

\* Telegram refuses a part or the message.
UploadFails(a) == copy[a].up = "read" /\ UploadLeave(a, "failed")

\* Fault: the error of the download is not looked at.
CopyEndUnchecked(a) ==
    LET c == copy[a] IN
    /\ c.up \in {"ok", "failed"} /\ c.dl \in {"ok", "failed"}
    /\ recorded' = IF c.up = "ok"
                   THEN recorded \cup {IF c.torn THEN "torn" ELSE "whole"} ELSE recorded
    /\ copy' = [copy EXCEPT ![a] = [NoCopy EXCEPT !.left = c.left]]
    /\ UNCHANGED <<primary, uploadMu, snap, request>>

\* Both ends are waited for; the copy is recorded when both have succeeded.
CopyEnd(a) ==
    LET c == copy[a] IN
    /\ c.up \in {"ok", "failed"} /\ c.dl \in {"ok", "failed"}
    /\ recorded' = IF c.up = "ok" /\ c.dl = "ok"
                   THEN recorded \cup {IF c.torn THEN "torn" ELSE "whole"} ELSE recorded
    /\ copy' = [copy EXCEPT ![a] = [NoCopy EXCEPT !.left = c.left]]
    /\ UNCHANGED <<primary, uploadMu, snap, request>>

-----------------------------------------------------------------------------
(* Snapshots: the mutex is taken inside the task.  snapshotMu lets one of  *)
(* them at a time come this far.                                           *)

SnapStart(s) ==
    /\ snap[s] = "idle" /\ \A t \in Snapshots : snap[t] \in {"idle", "done"}
    /\ snap' = [snap EXCEPT ![s] = "ask"]
    /\ UNCHANGED <<primary, uploadMu, copy, request, recorded>>

SnapTask(s) ==
    /\ snap[s] = "ask" /\ primary = Free
    /\ primary' = s
    /\ snap' = [snap EXCEPT ![s] = "lock"]
    /\ UNCHANGED <<uploadMu, copy, request, recorded>>

SnapLock(s) ==
    /\ snap[s] = "lock" /\ uploadMu = Free
    /\ uploadMu' = s
    /\ snap' = [snap EXCEPT ![s] = "upload"]
    /\ UNCHANGED <<primary, copy, request, recorded>>

\* Uploaded or failed, pinned and pruned.
SnapEnd(s) ==
    /\ snap[s] = "upload"
    /\ primary' = Free /\ uploadMu' = Free
    /\ snap' = [snap EXCEPT ![s] = "done"]
    /\ UNCHANGED <<copy, request, recorded>>

-----------------------------------------------------------------------------
(* Any other request that runs a short task in the primary session: a      *)
(* chunk of an upload, its end, a preview, a purge.                        *)

RequestStart(r) ==
    /\ request[r] = "idle"
    /\ request' = [request EXCEPT ![r] = "ask"]
    /\ UNCHANGED <<primary, uploadMu, copy, snap, recorded>>

RequestTask(r) ==
    /\ request[r] = "ask" /\ primary = Free
    /\ primary' = r
    /\ request' = [request EXCEPT ![r] = "task"]
    /\ UNCHANGED <<uploadMu, copy, snap, recorded>>

RequestEnd(r) ==
    /\ request[r] = "task"
    /\ primary' = Free
    /\ request' = [request EXCEPT ![r] = "idle"]
    /\ UNCHANGED <<uploadMu, copy, snap, recorded>>

-----------------------------------------------------------------------------
DownloadStep(a) == \/ \E attempt \in {"first", "again"} : DownloadStart(a, attempt)
                   \/ DownloadRefused(a) \/ Part(a) \/ DownloadEnd(a)
                   \/ DownloadRetry(a) \/ DownloadFails(a) \/ DownloadCut(a)

UploadStep(a) == UploadLock(a) \/ UploadEnd(a) \/ UploadCut(a) \/ UploadFails(a)

Next == \/ \E a \in Accounts : CopyStart(a) \/ DownloadStep(a) \/ UploadStep(a) \/ CopyEnd(a)
        \/ \E s \in Snapshots : SnapStart(s) \/ SnapTask(s) \/ SnapLock(s) \/ SnapEnd(s)
        \/ \E r \in Requests : RequestStart(r) \/ RequestTask(r) \/ RequestEnd(r)

Spec == Init /\ [][Next]_vars

\* Telegram answers and goroutines that can go on do; a channel and a mutex serve
\* those who wait in turn, so whoever is free again and again is taken.  Nothing
\* makes a request or a snapshot come, or an error.
Fairness ==
    /\ \A a \in Accounts :
         /\ SF_vars(\E attempt \in {"first", "again"} : DownloadStart(a, attempt))
         /\ WF_vars(CopyStart(a)) /\ WF_vars(Part(a) \/ DownloadEnd(a) \/ DownloadCut(a))
         /\ SF_vars(UploadLock(a)) /\ WF_vars(UploadEnd(a) \/ UploadCut(a))
         /\ WF_vars(CopyEnd(a))
    /\ \A s \in Snapshots : SF_vars(SnapTask(s)) /\ SF_vars(SnapLock(s)) /\ WF_vars(SnapEnd(s))
    /\ \A r \in Requests : SF_vars(RequestTask(r)) /\ WF_vars(RequestEnd(r))

FairSpec == Spec /\ Fairness
-----------------------------------------------------------------------------
CopyState == [dl : {"none", "ask", "first", "again", "ok", "failed"},
              up : {"none", "lock", "read", "ok", "failed"},
              sent : 0..Parts, got : 0..Parts, torn : BOOLEAN, left : 0..MaxCopies]

\* The types, and who holds the primary session and the mutex.
TypeOK ==
    /\ copy \in [Accounts -> CopyState]
    /\ snap \in [Snapshots -> {"idle", "ask", "lock", "upload", "done"}]
    /\ request \in [Requests -> {"idle", "ask", "task"}]
    /\ recorded \subseteq {"whole", "torn"}
    /\ primary \in {Free} \cup {a \in Accounts : Downloading(a)}
                   \cup {s \in Snapshots : snap[s] \in {"lock", "upload"}}
                   \cup {r \in Requests : request[r] = "task"}
    /\ uploadMu \in {Free} \cup {a \in Accounts : copy[a].up = "read"}
                    \cup {s \in Snapshots : snap[s] = "upload"}

\* A copy that is recorded in backup_copies has the parts of its file in their
\* places: a download that starts over in the middle writes them a second time
\* into the same pipe, and must not end as a success.
CopiesWhole == "torn" \notin recorded

\* No download starts over with parts in the pipe.
Intact == \A a \in Accounts : Downloading(a) => copy[a].sent = copy[a].got

\* One account copies at a time and nobody uploads a snapshot.
Alone == /\ \A a, b \in Accounts : copy[a].up # "none" /\ copy[b].up # "none" => a = b
         /\ \A s \in Snapshots : snap[s] = "idle"

\* As long as one account copies alone and no download starts over, every request to
\* the primary account is served and every copy ends, whatever fails.
AloneServes == [](Intact /\ Alone) =>
    /\ \A r \in Requests : request[r] = "ask" ~> request[r] = "idle"
    /\ \A a \in Accounts : copy[a].up # "none" ~> copy[a].up = "none"

\* Mirroring "never blocks or fails the upload" (handlers_accounts.go:504-506): the
\* chunks and the end of an upload, tasks of the primary session, are served, even
\* if we leave downloads aside that start over.
UploadsNotBlocked == []Intact => \A r \in Requests : request[r] = "ask" ~> request[r] = "idle"
=============================================================================
