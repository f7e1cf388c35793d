------------------------------ MODULE BackupJobs ------------------------------
(***************************************************************************)
(* The jobs that copy the files of the catalog to one backup account: the  *)
(* button Backup Now, the mirroring of new uploads and the mirror schedule *)
(* all start them.  s.backupJobs holds the account's last job; a trigger   *)
(* that finds it running marks it pending instead of starting another one. *)
(* Jobs of different accounts share nothing here (see BackupPipeline for   *)
(* what they do share).                                                    *)
(*                                                                         *)
(* A job is named after the upload, tick or request that starts it.  SQL   *)
(* statements succeed unless a constraint refuses them; how a copy is made *)
(* and why it fails is the subject of BackupPipeline.                      *)
(***************************************************************************)
EXTENDS Naturals

CONSTANTS Files,       \* the files that may be uploaded
          Disk,        \* those stored on the server's disk
          Ticks,       \* the ticks that find the mirror interval elapsed and the account ready
          Requests,    \* the Backup Now requests
          MaxCrashes,  \* bound: restarts of the server
          All,         \* the file_id of a job for every file
          None

\* What is assumed of the constants.
JobsAssumption == /\ Disk \subseteq Files
                  /\ MaxCrashes \in Nat
                  /\ All \notin Files
                  /\ None \notin Files \cup Ticks \cup Requests
                  /\ Files \cap (Ticks \cup Requests) = {} /\ Ticks \cap Requests = {}

Triggers == Files \cup Ticks \cup Requests

VARIABLES file,       \* table files: the state of a file
          copied,     \* table backup_copies: the files with a row
          awaiting,   \* the uploads whose maybeMirrorNewFile has not run yet
          ticked,     \* the ticks that have come
          request,    \* the local state of a Backup Now request
          job,        \* per trigger: the job it has started
          current,    \* s.backupJobs[account]
          copies,     \* history: the messages made of a file
          owed,       \* history: the job a file's upload started or marked still owes
                      \* it a copy or an error
          overtakes,  \* history: jobs started over a running one
          crashes     \* history: restarts

vars == <<file, copied, awaiting, ticked, request, job, current,
          copies, owed, overtakes, crashes>>
histories == <<overtakes, crashes>>

NoJob == [pc |-> "none", file |-> None, todo |-> {}, cur |-> None, pending |-> FALSE]

Live == {f \in Files : file[f] = "live"}
Rows == {f \in Files : file[f] \in {"live", "trashed"}}
Running(t) == job[t].pc \notin {"none", "over"}
Busy == current # None /\ Running(current)

Init == /\ file = [f \in Files |-> "none"]
        /\ copied = {} /\ awaiting = {} /\ ticked = {}
        /\ request = [r \in Requests |-> "idle"]
        /\ job = [t \in Triggers |-> NoJob]
        /\ current = None
        /\ copies = [f \in Files |-> 0]
        /\ owed = [f \in Files |-> "no"]
        /\ overtakes = 0 /\ crashes = 0

-----------------------------------------------------------------------------
(* The catalog. *)

CatalogOnly == UNCHANGED <<ticked, request, job, current, copies, histories>>

Settle(fs) == owed' = [f \in Files |-> IF f \in fs THEN "no" ELSE owed[f]]

\* The end of an upload; `go s.maybeMirrorNewFile(*file)`.
Uploaded(f) ==
    /\ file[f] = "none"
    /\ file' = [file EXCEPT ![f] = "live"]
    /\ awaiting' = awaiting \cup {f}
    /\ UNCHANGED <<copied, owed>> /\ CatalogOnly

Trash(f) ==
    /\ f \in Live
    /\ file' = [file EXCEPT ![f] = "trashed"]
    /\ Settle({f})
    /\ UNCHANGED <<copied, awaiting>> /\ CatalogOnly

Restore(f) ==
    /\ file[f] = "trashed"
    /\ file' = [file EXCEPT ![f] = "live"]
    /\ UNCHANGED <<copied, awaiting, owed>> /\ CatalogOnly

\* A purge, or an upload over the name.  The row of backup_copies goes with it.
Remove(f) ==
    /\ f \in Rows
    /\ file' = [file EXCEPT ![f] = "gone"]
    /\ copied' = copied \ {f}
    /\ Settle({f})
    /\ UNCHANGED awaiting /\ CatalogOnly

-----------------------------------------------------------------------------
(* Triggers. *)

Begin(t, target) ==
    /\ job' = [job EXCEPT ![t] = [NoJob EXCEPT !.pc = "pass", !.file = target]]
    /\ current' = t

\* Fault: a trigger that finds a job running is dropped.
StartAutoDropping(t, target) ==
    IF Busy THEN UNCHANGED <<job, current>> ELSE Begin(t, target)

\* startBackupJobAuto, under backupMu.
StartAuto(t, target) ==
    IF Busy THEN job' = [job EXCEPT ![current].pending = TRUE] /\ UNCHANGED current
            ELSE Begin(t, target)

\* The switch multi_account_mirror, the pairing of the account and its channel change
\* under other handlers at any time: Mirror may find them wanting.

\* A running job for every file will look at its mark once more.
Heard == job[current].file = All /\ job[current].pc # "finish"

Mirror(f) ==
    /\ f \in awaiting
    /\ awaiting' = awaiting \ {f}
    /\ \/ /\ f \notin Disk
          /\ StartAuto(f, f)
          /\ owed' = IF f \in Live
                     THEN [owed EXCEPT ![f] = IF Busy => Heard THEN "started" ELSE "marked"]
                     ELSE owed
       \/ UNCHANGED <<job, current, owed>>
    /\ UNCHANGED <<file, copied, ticked, request, copies, histories>>

\* runMirrorSchedulePass.
Tick(t) ==
    /\ t \notin ticked
    /\ ticked' = ticked \cup {t}
    /\ StartAuto(t, All)
    /\ UNCHANGED <<file, copied, awaiting, request, copies, owed, histories>>

\* handleTelegramAccountBackup: the look at the running job and the start are two
\* critical sections, up to ten seconds and a Telegram call apart.
RequestOnly == UNCHANGED <<file, copied, awaiting, ticked, copies, owed, crashes>>

RequestCheck(r) ==
    /\ request[r] = "idle"
    /\ request' = [request EXCEPT ![r] = IF Busy THEN "answered" ELSE "checked"]
    /\ UNCHANGED <<job, current, overtakes>> /\ RequestOnly

\* The account does not come up, or has no channel.
RequestFails(r) ==
    /\ request[r] = "checked"
    /\ request' = [request EXCEPT ![r] = "answered"]
    /\ UNCHANGED <<job, current, overtakes>> /\ RequestOnly

RequestStart(r, target) ==
    /\ request[r] = "checked"
    /\ Begin(r, target)
    /\ request' = [request EXCEPT ![r] = "answered"]
    /\ overtakes' = IF Busy THEN overtakes + 1 ELSE overtakes
    /\ RequestOnly

-----------------------------------------------------------------------------
(* runBackupJob. *)

Goto(t, pc) == job' = [job EXCEPT ![t].pc = pc]

JobOnly == UNCHANGED <<file, awaiting, ticked, request, current, histories>>

\* One file that is still live, or every live file; disk files have no message.
PassStart(t) ==
    LET target == IF job[t].file = All THEN Live ELSE {job[t].file} \cap Live
    IN  /\ job[t].pc = "pass"
        /\ job' = [job EXCEPT ![t] = [@ EXCEPT !.pc = "next", !.todo = target \ Disk]]
        /\ Settle({job[t].file} \ target)
        /\ UNCHANGED <<copied, copies>> /\ JobOnly

\* The list of the files cannot be read: LastError.
PassFails(t) ==
    /\ job[t].pc = "pass" /\ job[t].file = All
    /\ Goto(t, "next")
    /\ Settle(Files)
    /\ UNCHANGED <<copied, copies>> /\ JobOnly

\* Fault: HasBackupCopy is not asked.
ConsiderAlways(t, f) ==
    /\ job[t].pc = "next" /\ f \in job[t].todo
    /\ job' = [job EXCEPT ![t] = [@ EXCEPT !.todo = job[t].todo \ {f}, !.pc = "copy", !.cur = f]]
    /\ UNCHANGED <<copied, copies, owed>> /\ JobOnly

\* The order, newest first, is left out.
Consider(t, f) ==
    /\ job[t].pc = "next" /\ f \in job[t].todo
    /\ job' = [job EXCEPT ![t] = IF f \in copied
                                 THEN [@ EXCEPT !.todo = job[t].todo \ {f}]
                                 ELSE [@ EXCEPT !.todo = job[t].todo \ {f}, !.pc = "copy", !.cur = f]]
    /\ UNCHANGED <<copied, copies, owed>> /\ JobOnly

CopyMade(t) ==
    /\ job[t].pc = "copy"
    /\ copies' = [copies EXCEPT ![job[t].cur] = @ + 1]
    /\ Goto(t, "record")
    /\ UNCHANGED <<copied, owed>> /\ JobOnly

CopyFails(t) ==
    /\ job[t].pc = "copy"
    /\ Settle({job[t].cur})
    /\ job' = [job EXCEPT ![t] = [@ EXCEPT !.pc = "next", !.cur = None]]
    /\ UNCHANGED <<copied, copies>> /\ JobOnly

\* RecordBackupCopy: refused, and the refusal ignored, when the file has no row.
Record(t) ==
    /\ job[t].pc = "record"
    /\ copied' = IF job[t].cur \in Rows THEN copied \cup {job[t].cur} ELSE copied
    /\ job' = [job EXCEPT ![t] = [@ EXCEPT !.pc = "next", !.cur = None]]
    /\ UNCHANGED <<copies, owed>> /\ JobOnly

\* The end of a pass.
PendingCheck(t) ==
    /\ job[t].pc = "next" /\ job[t].todo = {}
    /\ job' = [job EXCEPT ![t] = [@ EXCEPT !.pc = IF job[t].pending THEN "pass" ELSE "finish",
                                           !.pending = FALSE]]
    /\ UNCHANGED <<copied, copies, owed>> /\ JobOnly

\* The deferred end: Running is FALSE from here on.
Finish(t) ==
    /\ job[t].pc = "finish"
    /\ job' = [job EXCEPT ![t] = [NoJob EXCEPT !.pc = "over"]]
    /\ UNCHANGED <<copied, copies, owed>> /\ JobOnly

-----------------------------------------------------------------------------
\* The server restarts: jobs, requests and goroutines are gone.
Crash ==
    /\ crashes < MaxCrashes
    /\ crashes' = crashes + 1
    /\ awaiting' = {}
    /\ request' = [r \in Requests |-> IF request[r] = "checked" THEN "answered" ELSE request[r]]
    /\ job' = [t \in Triggers |-> IF Running(t) THEN [NoJob EXCEPT !.pc = "over"] ELSE job[t]]
    /\ current' = None
    /\ Settle(Files)
    /\ UNCHANGED <<file, copied, ticked, copies, overtakes>>

JobStep(t) == \/ PassStart(t) \/ PassFails(t) \/ (\E f \in Files : Consider(t, f))
              \/ CopyMade(t) \/ CopyFails(t) \/ Record(t)
              \/ PendingCheck(t) \/ Finish(t)

Next == \/ \E f \in Files : Uploaded(f) \/ Trash(f) \/ Restore(f) \/ Remove(f) \/ Mirror(f)
        \/ \E t \in Ticks : Tick(t)
        \/ \E r \in Requests : \/ RequestCheck(r) \/ RequestFails(r)
                               \/ \E target \in Rows \cup {All} : RequestStart(r, target)
        \/ \E t \in Triggers : JobStep(t)
        \/ Crash

Spec == Init /\ [][Next]_vars

\* A job goes on: copies come to an end, one way or the other.
Fairness == \A t \in Triggers : WF_vars(JobStep(t))

FairSpec == Spec /\ Fairness
-----------------------------------------------------------------------------
JobState == [pc : {"none", "pass", "next", "copy", "record", "finish", "over"},
             file : Files \cup {All, None}, todo : SUBSET Files,
             cur : Files \cup {None}, pending : BOOLEAN]

\* The types; a job that runs is one that was started, and a recorded copy is one
\* of a file that exists.
TypeOK ==
    /\ file \in [Files -> {"none", "live", "trashed", "gone"}]
    /\ copied \subseteq Rows
    /\ awaiting \subseteq Files /\ ticked \subseteq Ticks
    /\ request \in [Requests -> {"idle", "checked", "answered"}]
    /\ job \in [Triggers -> JobState]
    /\ current \in {None} \cup {t \in Triggers : job[t].pc # "none"}
    /\ copies \in [Files -> Nat]
    /\ owed \in [Files -> {"no", "started", "marked"}]
    /\ overtakes \in Nat /\ crashes \in 0..MaxCrashes

\* A file of the catalog is copied to the account once, whoever asks for it and however often:
\* a second message can only come from a Backup Now that started over a running
\* job, or from a restart between the message and its record.
CopiedOnce == \A f \in Rows : copies[f] <= 1 + overtakes + crashes

\* Every job comes to an end, whatever marks it pending meanwhile; each trigger comes once.
JobsEnd == <>[](\A t \in Triggers : ~Running(t))

Settled(f) == f \in copied \/ owed[f] = "no"

\* A file whose upload started a job, or marked a job for every file before its last
\* look at the mark, is copied, or an error is recorded for it, unless it leaves the
\* live files or the server restarts.
HeardIsMirrored == <>[](\A f \in Files : owed[f] = "started" => Settled(f))

\* "a pending re-run so a file arriving mid-job is not missed"
\* (handlers_accounts.go:472-473), whatever job is running.
MirrorMissesNone == <>[](\A f \in Files : owed[f] = "marked" => Settled(f))
=============================================================================
