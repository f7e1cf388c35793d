------------------------------- MODULE MCCatalog -------------------------------
(***************************************************************************)
(* Catalog for TLC.  A behaviour is of one of three kinds: every operation *)
(* with folders and crashes, one request at a time on few files; the       *)
(* requests that need a message, several at once on all the files, without *)
(* folders and copies; or the same with crashes, on fewer files.           *)
(***************************************************************************)
EXTENDS Catalog

CONSTANTS FewFiles, FewVersions,      \* bound: how many of them the first kind uses up
          FewMessages, FewWorkers     \* the messages and the workers the first kind uses

VARIABLES instance,
          interrupted  \* history: the files a request was deleting when the process died

\* The first kind: what a few identifiers allow.
Small == /\ \A w \in Workers : Idle(w) \/ (w \in FewWorkers /\ rq[w].op \notin {"restorev", "deletev"})
         /\ Cardinality(Files \ FreeFiles) <= FewFiles
         /\ Cardinality(Versions \ FreeVersions) <= FewVersions
         /\ \A m \in Messages \ FewMessages : channel[m] = "free"

\* The other two: the library of the root, without copies.
Flat == /\ \A k \in Keepers : kp[k].pc = "idle" /\ Idle(k)
        /\ \A w \in Workers : rq[w].op # "copy" /\ rq[w].new.folder = Root
        /\ \A f \in Files : file[f].folder = Root

\* The third: an identifier of each sort stays unused.
Spare == FreeFiles # {} /\ FreeVersions # {} /\ \E m \in Messages : channel[m] = "free"

CatalogInit == Init /\ instance \in {"whole", "busy", "crashing"} /\ interrupted = {}

Requests == Arrive \/ \E w \in Workers : WorkStep(w)

WholeNext == instance = "whole" /\ Next /\ Small' /\ UNCHANGED interrupted
BusyNext == instance = "busy" /\ Requests /\ Flat' /\ UNCHANGED interrupted
CrashingNext ==
    /\ instance = "crashing"
    /\ \/ Requests /\ UNCHANGED interrupted
       \/ Crash /\ interrupted' = interrupted \cup {f \in Files : Purging(f)}
    /\ Flat' /\ Spare'

CatalogNext == (WholeNext \/ BusyNext \/ CrashingNext) /\ UNCHANGED instance

CatalogSpec == CatalogInit /\ [][CatalogNext]_<<instance, interrupted, vars>>

-----------------------------------------------------------------------------
\* The types, and that the folder of a file and the file of a version exist, in all operations
\* together (Catalog; files.go, handlers_library.go).
RowsResolve == TypeOK /\ ReferencesResolve

\* A live file and a version that can be promoted have their message while purges, uploads over
\* a name and version handlers interleave and the process dies between their statements, where
\* a crash costs no more than the files that were just being purged or replaced (Catalog;
\* handlers_library.go, handlers_upload.go).
ObjectsStay == instance # "whole" => ObjectsExistBut(interrupted)
=============================================================================
