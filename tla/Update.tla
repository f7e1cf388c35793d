-------------------------------- MODULE Update --------------------------------
(***************************************************************************)
(* tdocs update: the release is downloaded and checked, the state of the   *)
(* service is captured, the binary is replaced by way of a backup and a    *)
(* temporary file, or the package manager installs the package, and the    *)
(* service is brought back.  The command may be killed between any two     *)
(* steps, a disk may be full, and an operator runs the command again.      *)
(*                                                                         *)
(* GitHub, the package manager and systemd are external.  The scripts of a *)
(* package may stop and disable the service (those before v3.1.4 did), and *)
(* that of a .deb enables and restarts it.                                 *)
(***************************************************************************)
EXTENDS Naturals

CONSTANTS MaxRuns  \* bound: calls of tdocs update

\* What is assumed of the constants.
UpdateAssumption == MaxRuns \in Nat

Kinds == {"tarball", "package"}
Service == [managed : BOOLEAN, active : BOOLEAN, enabled : BOOLEAN]
Unmanaged == [managed |-> FALSE, active |-> FALSE, enabled |-> FALSE]
Whole == {"old", "new"}
Commands == {"install", "enable", "restart"}

VARIABLES kind,      \* what InstallKind tells
          published, \* whether the release has SHA256SUMS
          exe,       \* the installed binary
          tmp,       \* the temporary file beside it
          bak,       \* its backup
          asset,     \* the downloaded asset: the release's, or damaged
          verified,  \* history: its checksum was found and compared
          service,   \* tdocs.service as systemd knows it
          serves,    \* the binary the running service was started from
          captured,  \* what captureServiceState returned
          before,    \* history: the service before the command
          scripted,  \* history: what the package's scripts have switched on
          failed,    \* history: the calls of systemctl and the package manager that failed
          pc, runs

vars == <<kind, published, exe, tmp, bak, asset, verified, service, serves, captured, before, scripted, failed, pc, runs>>
files == <<exe, tmp, bak>>
fixed == <<kind, published>>

Init == /\ kind \in Kinds /\ published \in BOOLEAN
        /\ exe = "old" /\ tmp = "none" /\ bak = "none"
        /\ asset = "none" /\ verified = FALSE
        /\ service \in {s \in Service : s.active \/ s.enabled => s.managed}
        /\ serves = "old"
        /\ captured = Unmanaged /\ before = service
        /\ scripted = {} /\ failed = {}
        /\ pc = "idle" /\ runs = 0

-----------------------------------------------------------------------------
(* The download and its checksum.                                          *)

\* FetchLatestRelease tells a newer release, and its asset is downloaded.
Download ==
    /\ pc = "idle" /\ runs < MaxRuns /\ exe = "old"
    /\ runs' = runs + 1
    /\ asset' \in {"release", "damaged"}
    /\ verified' = FALSE /\ scripted' = {} /\ failed' = {} /\ before' = service
    /\ pc' = "check"
    /\ UNCHANGED <<fixed, files, service, serves, captured>>

\* A tarball needs its checksum; a package is compared when its checksum is found.
Check ==
    /\ pc = "check"
    /\ \E found \in IF published THEN BOOLEAN ELSE {FALSE} :
          /\ verified' = found
          /\ pc' = IF (found /\ asset = "damaged") \/ (~found /\ kind = "tarball") THEN "idle" ELSE "capture"
    /\ UNCHANGED <<fixed, files, asset, service, serves, captured, before, scripted, failed, runs>>

\* Fault: the service is looked at when the package has been installed.
CaptureNothing ==
    /\ pc = "capture"
    /\ captured' = IF kind = "package" THEN [service EXCEPT !.active = FALSE, !.enabled = FALSE] ELSE service
    /\ pc' = IF kind = "package" THEN "install" ELSE "openBackup"
    /\ UNCHANGED <<fixed, files, asset, verified, service, serves, before, scripted, failed, runs>>

Capture ==
    /\ pc = "capture"
    /\ captured' = service
    /\ pc' = IF kind = "package" THEN "install" ELSE "openBackup"
    /\ UNCHANGED <<fixed, files, asset, verified, service, serves, before, scripted, failed, runs>>

-----------------------------------------------------------------------------
(* The package manager.                                                    *)

New == IF asset = "release" THEN "new" ELSE "bad"

\* prerm, that of the old package too: the service is stopped and disabled, or one of the
\* two, or left alone.
Stopped == {s \in Service : /\ s.managed = service.managed
                            /\ s.active => service.active
                            /\ s.enabled => service.enabled}

\* postinst: each of systemctl enable and restart is tried, and may fail unnoticed.
Started(s, on) == [s EXCEPT !.enabled = @ \/ "enabled" \in on, !.active = @ \/ "active" \in on]

\* The package is installed, or not.  Its scripts may have stopped and disabled the
\* service in either case, and they may enable and restart it when all is installed.
Install ==
    /\ pc = "install"
    /\ \E low \in Stopped :
          \/ \E on \in SUBSET {"enabled", "active"} :
                /\ on # {} => service.managed
                /\ exe' = New /\ pc' = "enable"
                /\ service' = Started(low, on) /\ scripted' = on
                /\ serves' = IF "active" \in on THEN New ELSE serves
                /\ UNCHANGED failed
          \/ /\ exe' \in {exe, New} /\ service' = low
             /\ failed' = failed \cup {"install"} /\ pc' = "idle" /\ UNCHANGED <<serves, scripted>>
    /\ UNCHANGED <<fixed, tmp, bak, asset, verified, captured, before, runs>>

-----------------------------------------------------------------------------
(* copyFile: the temporary file is created, written, and renamed.          *)

\* A copy of content from place to next; an error leads to failure.
Open(place, next, failure) ==
    /\ pc = place
    /\ \/ tmp' = "part" /\ pc' = next
       \/ UNCHANGED tmp /\ pc' = failure
    /\ UNCHANGED <<fixed, exe, bak, asset, verified, service, serves, captured, before, scripted, failed, runs>>

Write(place, content, next, failure) ==
    /\ pc = place
    /\ \/ tmp' = content /\ pc' = next
       \/ UNCHANGED tmp /\ pc' = failure
    /\ UNCHANGED <<fixed, exe, bak, asset, verified, service, serves, captured, before, scripted, failed, runs>>

Backup == \/ Open("openBackup", "writeBackup", "idle")
          \/ Write("writeBackup", exe, "renameBackup", "idle")
          \/ /\ pc = "renameBackup"
             /\ bak' = tmp /\ tmp' = "none" /\ pc' = "openNew"
             /\ UNCHANGED <<fixed, exe, asset, verified, service, serves, captured, before, scripted, failed, runs>>

Replace == \/ Open("openNew", "writeNew", "openOld")
           \/ Write("writeNew", New, "renameNew", "openOld")
           \/ /\ pc = "renameNew"
              /\ exe' = tmp /\ tmp' = "none" /\ pc' = "enable"
              /\ UNCHANGED <<fixed, bak, asset, verified, service, serves, captured, before, scripted, failed, runs>>

\* The replacement failed: the backup is copied back, as far as that goes.
RollBack == \/ Open("openOld", "writeOld", "idle")
            \/ Write("writeOld", bak, "renameOld", "idle")
            \/ /\ pc = "renameOld"
               /\ exe' = tmp /\ tmp' = "none" /\ pc' = "idle"
               /\ UNCHANGED <<fixed, bak, asset, verified, service, serves, captured, before, scripted, failed, runs>>

-----------------------------------------------------------------------------
(* restoreServiceAfterUpdate.                                              *)

Enable ==
    /\ pc = "enable"
    /\ \/ /\ captured.enabled
          /\ \/ service' = [service EXCEPT !.enabled = TRUE] /\ UNCHANGED failed
             \/ failed' = failed \cup {"enable"} /\ UNCHANGED service
       \/ ~captured.enabled /\ UNCHANGED <<service, failed>>
    /\ pc' = IF captured.active THEN "restart" ELSE "done"
    /\ UNCHANGED <<fixed, files, asset, verified, serves, captured, before, scripted, runs>>

\* A restart that fails has perhaps stopped the service.
Restart ==
    /\ pc = "restart"
    /\ \/ service' = [service EXCEPT !.active = TRUE] /\ serves' = exe /\ UNCHANGED failed
       \/ /\ service' \in {service, [service EXCEPT !.active = FALSE]}
          /\ failed' = failed \cup {"restart"} /\ UNCHANGED serves
    /\ pc' = "done"
    /\ UNCHANGED <<fixed, files, asset, verified, captured, before, scripted, runs>>

\* The command ends: it is killed, or it has nothing more to do.
Ends ==
    /\ pc # "idle"
    /\ pc' = "idle"
    /\ UNCHANGED <<fixed, files, asset, verified, service, serves, captured, before, scripted, failed, runs>>

-----------------------------------------------------------------------------
Next == \/ Download \/ Check \/ Capture \/ Install \/ Backup \/ Replace \/ RollBack
        \/ Enable \/ Restart \/ Ends

Spec == Init /\ [][Next]_vars
-----------------------------------------------------------------------------
TypeOK ==
    /\ kind \in Kinds /\ published \in BOOLEAN
    /\ exe \in Whole \cup {"bad", "part"}
    /\ tmp \in Whole \cup {"none", "part", "bad"} /\ bak \in Whole \cup {"none"}
    /\ asset \in {"none", "release", "damaged"} /\ verified \in BOOLEAN
    /\ service \in Service /\ captured \in Service /\ before \in Service
    /\ serves \in Whole \cup {"bad"} /\ failed \subseteq Commands
    /\ scripted \subseteq {"enabled", "active"}
    /\ runs \in 0..MaxRuns

\* "verify SHA256, swap binary" (README.md:242): at every moment, killed or out of space,
\* the installed binary is whole, and it is the old one or the release's; only a package
\* whose checksum was not found may have installed a damaged one.  Whoever has got the new
\* binary from a tarball has the old one in the backup.
BinaryRuns == /\ exe \in Whole \/ (kind = "package" /\ exe = "bad" /\ ~verified)
              /\ kind = "tarball" /\ exe = "new" => verified /\ bak = "old"

\* An update that came to its end leaves the service enabled when it was, and only then, or
\* when the package's own scripts have enabled it; and likewise running, on the binary that
\* is installed.  A systemctl that failed excuses what it was called for, no more.  The
\* update by a tarball leaves the service as it was wherever it ends or is killed, but for
\* a restart that failed.
ServiceComesBack ==
    /\ pc = "done" =>
          /\ "enable" \notin failed =>
                (service.enabled <=> before.enabled \/ "enabled" \in scripted)
          /\ "restart" \notin failed =>
                /\ (service.active <=> before.active \/ "active" \in scripted)
                /\ service.active => serves = exe
    /\ kind = "tarball" => service = before \/ "restart" \in failed

\* "verify SHA256, swap binary" (README.md:242), for packages: what was installed
\* had its checksum compared.
PackageVerified == kind = "package" /\ exe # "old" => verified

\* A service that ran before runs whenever no update is under way.
ServiceSurvives == pc = "idle" /\ before.active => service.active

\* "A stopped-but-enabled service is re-enabled but NOT started" (restart.go:44).
StoppedStaysStopped == pc = "done" /\ ~before.active => ~service.active
=============================================================================
