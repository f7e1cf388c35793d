-------------------------------- MODULE MCServer --------------------------------
(***************************************************************************)
(* What goes on in the server and the command behind the requests, for     *)
(* TLC: the tasks given to the Telegram session, the storage of the        *)
(* session, the login wizard, the jobs of the mirror, the listeners of the *)
(* custom domain, the update and the look for one, in one run.  Only the   *)
(* part that scenario names takes steps, the others rest in a first state  *)
(* of theirs.                                                              *)
(***************************************************************************)
EXTENDS Dispatch, Sequences

CONSTANTS Server, Logins, None, MaxResaves, Foreign, MaxRemovals,  \* SessionHandoff
          Wizards,                                                 \* Wizard
          Files, Disk, Ticks, Buttons, MaxCrashes, All,            \* BackupJobs
          Saves, Domains, NoDomain,                                \* AutoTLS
          MaxUpdates,                                              \* Update
          Current, Releases, MaxAsked                              \* ReleaseCheck

VARIABLES scenario,
          stored, at, loaded, observed, key, nonces, keys, resaves, removals, lost,
          wiz, wizardAt, seen, step, holder, outcome, signedIn, authorized, cancelled,
          file, copied, awaiting, ticked, asking, job, current, copies, owed, overtakes, crashes,
          setting, tls, tlsErr, owner, serving, shut, saveAt, domain, old, reply,
          kind, sums, exe, tmp, bak, asset, verified, service, serves, captured, before, scripted,
          failed, updateAt, runs,
          published, latest, fresh, flight, lookup, told, asked, wanted

Handoff == INSTANCE SessionHandoff WITH pc <- at
Login == INSTANCE Wizard WITH pc <- wizardAt
Jobs == INSTANCE BackupJobs WITH Requests <- Buttons, request <- asking
Https == INSTANCE AutoTLS WITH pc <- saveAt
Updating == INSTANCE Update WITH MaxRuns <- MaxUpdates, published <- sums, pc <- updateAt
Checking == INSTANCE ReleaseCheck WITH answer <- told

ASSUME ServerParameters ==
    /\ Handoff!SessionAssumption /\ Login!WizardAssumption /\ Jobs!JobsAssumption
    /\ Https!AutoTLSAssumption /\ Updating!UpdateAssumption
    /\ Checking!ReleaseCheckAssumption

\* A version 2.1 and the releases 2.1.0 and 2.10.
Version == <<2, 1>>
Published == << <<2, 1, 0>>, <<2, 10>> >>

handoff == <<stored, at, loaded, observed, key, nonces, keys, resaves, removals, lost>>
login == <<wiz, wizardAt, seen, step, holder, outcome, signedIn, authorized, cancelled>>
jobs == <<file, copied, awaiting, ticked, asking, job, current, copies, owed, overtakes, crashes>>
https == <<setting, tls, tlsErr, owner, serving, shut, saveAt, domain, old, reply>>
updating == <<kind, sums, exe, tmp, bak, asset, verified, service, serves, captured, before,
              scripted, failed, updateAt, runs>>
checking == <<published, latest, fresh, flight, lookup, told, asked, wanted>>

ServerInit ==
    /\ scenario \in {"dispatch", "handoff", "login", "jobs", "https", "updating", "checking"}
    /\ Init /\ Handoff!Init /\ Login!Init /\ Jobs!Init /\ Https!Init /\ Updating!Init /\ Checking!Init
    /\ scenario # "updating" => kind = "package" /\ sums /\ service.active /\ service.enabled

DispatchNext == /\ scenario = "dispatch" /\ Next
                /\ UNCHANGED <<scenario, handoff, login, jobs, https, updating, checking>>
HandoffNext == /\ scenario = "handoff" /\ Handoff!Next
               /\ UNCHANGED <<scenario, vars, login, jobs, https, updating, checking>>
LoginNext == /\ scenario = "login" /\ Login!Next
             /\ UNCHANGED <<scenario, vars, handoff, jobs, https, updating, checking>>
JobsNext == /\ scenario = "jobs" /\ Jobs!Next
            /\ UNCHANGED <<scenario, vars, handoff, login, https, updating, checking>>
HttpsNext == /\ scenario = "https" /\ Https!Next
             /\ UNCHANGED <<scenario, vars, handoff, login, jobs, updating, checking>>
UpdatingNext == /\ scenario = "updating" /\ Updating!Next
                /\ UNCHANGED <<scenario, vars, handoff, login, jobs, https, checking>>
CheckingNext == /\ scenario = "checking" /\ Checking!Next
                /\ UNCHANGED <<scenario, vars, handoff, login, jobs, https, updating>>

ServerNext == \/ DispatchNext \/ HandoffNext \/ LoginNext \/ JobsNext
              \/ HttpsNext \/ UpdatingNext \/ CheckingNext

\* The storage is the one part that has something to do in its first state.
HandoffFairness == /\ WF_handoff(scenario = "handoff" /\ Handoff!Client(Server))
                   /\ WF_handoff(scenario = "handoff" /\ Handoff!Runner)

ServerSpec ==
    /\ ServerInit
    /\ [][ServerNext]_<<scenario, vars, handoff, login, jobs, https, updating, checking>>
    /\ Fairness /\ HandoffFairness /\ Login!Fairness /\ Jobs!Fairness
    /\ Https!Fairness /\ Checking!Fairness

-----------------------------------------------------------------------------
\* The types of the parts.
ServerTypes == /\ TypeOK /\ Handoff!TypeOK /\ Login!TypeOK /\ Jobs!TypeOK
               /\ Https!TypeOK /\ Updating!TypeOK /\ Checking!TypeOK

\* No stored session is replaced by one with another key, and the server ends up on the
\* stored one (SessionHandoff; session.go).
SessionNotClobbered == Handoff!SessionNotClobbered
ServerFollows == Handoff!ServerFollows

\* A wizard that reports success is over and signed in, and what was handed in before it was
\* cancelled is not used (Wizard; web_wizard.go).
HonestSuccess == Login!HonestSuccess
CancelStopsInput == Login!CancelStopsInput

\* A file is copied once, but for a Backup Now that starts over a running job and a restart
\* between the message and its record; and a file whose upload has started a job is copied or
\* an error recorded (BackupJobs; handlers_accounts.go).
CopiedOnce == Jobs!CopiedOnce
HeardIsMirrored == Jobs!HeardIsMirrored

\* Every wizard and every backup job ends, listeners that were shut down give their ports
\* back, and a look for a release makes room for the next (web_wizard.go,
\* handlers_accounts.go, autotls.go, handlers_update.go).
WorkEnds == Login!WizardsEnd /\ Jobs!JobsEnd /\ Https!PortsFreed /\ Checking!LookupsEnd

\* The listeners that are shown hold both ports, and no port is held by nobody's listeners
\* (AutoTLS; autotls.go).
PortsOwned == Https!PortsOwned

\* The installed binary is whole at every moment, but for a package nobody could check, and
\* an update that came to its end leaves the service enabled and running where it was so, or
\* where the package's scripts made it so, and nowhere else; only what a systemctl that
\* failed was to do is excused (Update; ops.go, restart.go).
UpdateSafe == Updating!BinaryRuns /\ Updating!ServiceComesBack
=============================================================================
