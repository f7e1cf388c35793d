------------------------------ MODULE FileRequests ------------------------------
(***************************************************************************)
(* File requests: public links through which anybody uploads into a folder *)
(* of the owner.  The link is validated by every call; an upload session   *)
(* that a link has begun is bound to it by a row of request_sessions,      *)
(* written after the session, and only its own link may go on with it.     *)
(* Folders are trashed and purged meanwhile; a purge sets the folder of    *)
(* the requests and of the sessions to NULL, which is the root.            *)
(*                                                                         *)
(* What a chunk and the end of an upload do to the stored object is module *)
(* Upload; here a session has its bytes or not.                            *)
(***************************************************************************)
EXTENDS Naturals

CONSTANTS Handlers,   \* the goroutines of the requests
          Folders, Root,
          Requests,   \* the links, never reused
          Sessions,   \* upload sessions, never reused
          None

\* What is assumed of the constants.
RequestAssumption == Root \notin Folders /\ None \notin Requests

VARIABLES folder,   \* "live", "trashed" or "purged"
          request,  \* table file_requests
          upload,   \* table upload_sessions
          owner,    \* table request_sessions: the link of a session
          req,      \* per handler: where it is and what it has read
          target,   \* history: the folder a request was made for
          begunBy,  \* history: the link whose call began a session
          landed    \* history: the uploads finished through a link

vars == <<folder, request, upload, owner, req, target, begunBy, landed>>

Places == Folders \cup {Root}

Idle == [pc |-> "idle"]

Init == /\ folder = [f \in Folders |-> "live"]
        /\ request = [r \in Requests |-> [st |-> "none", place |-> Root, expired |-> FALSE]]
        /\ upload = [s \in Sessions |-> [st |-> "none", place |-> Root, whole |-> FALSE]]
        /\ owner = [s \in Sessions |-> None]
        /\ req = [h \in Handlers |-> Idle]
        /\ target = [r \in Requests |-> Root]
        /\ begunBy = [s \in Sessions |-> None]
        /\ landed = {}

Shown(p) == p \in {Root} \cup {f \in Folders : folder[f] = "live"}
Stored(p) == p \in {Root} \cup {f \in Folders : folder[f] # "purged"}

Finish(h) == req' = [req EXCEPT ![h] = Idle]

Goto(h, pc) == req' = [req EXCEPT ![h] = [@ EXCEPT !.pc = pc]]

-----------------------------------------------------------------------------
(* The owner.                                                              *)

CreateRequest(r, p) ==
    /\ request[r].st = "none" /\ Shown(p)
    /\ request' = [request EXCEPT ![r] = [st |-> "on", place |-> p, expired |-> FALSE]]
    /\ target' = [target EXCEPT ![r] = p]
    /\ UNCHANGED <<folder, upload, owner, req, begunBy, landed>>

CloseRequest(r, row) ==
    /\ request[r].st = "on"
    /\ request' = [request EXCEPT ![r] = row]
    /\ UNCHANGED <<folder, upload, owner, req, target, begunBy, landed>>

DeleteRequest(r) == CloseRequest(r, [request[r] EXCEPT !.st = "off"])
Expire(r) == ~request[r].expired /\ CloseRequest(r, [request[r] EXCEPT !.expired = TRUE])

MarkFolder(f, from, to) ==
    /\ folder[f] = from
    /\ folder' = [folder EXCEPT ![f] = to]
    /\ UNCHANGED <<request, upload, owner, req, target, begunBy, landed>>

TrashFolder(f) == MarkFolder(f, "live", "trashed")
RestoreFolder(f) == MarkFolder(f, "trashed", "live")

\* Fault: only one of the tables has the clause.
PurgeFolderRequests(f) ==
    /\ folder[f] = "trashed"
    /\ folder' = [folder EXCEPT ![f] = "purged"]
    /\ request' = [r \in Requests |-> IF request[r].place = f THEN [request[r] EXCEPT !.place = Root] ELSE request[r]]
    /\ UNCHANGED <<upload, owner, req, target, begunBy, landed>>

\* folder_id ... ON DELETE SET NULL, in both tables.
PurgeFolder(f) ==
    LET Moved(row) == IF row.place = f THEN [row EXCEPT !.place = Root] ELSE row
    IN  /\ folder[f] = "trashed"
        /\ folder' = [folder EXCEPT ![f] = "purged"]
        /\ request' = [r \in Requests |-> Moved(request[r])]
        /\ upload' = [s \in Sessions |-> Moved(upload[s])]
        /\ UNCHANGED <<owner, req, target, begunBy, landed>>

\* The owner's own uploads have no row in request_sessions.
DashboardInit(s, p) ==
    /\ upload[s].st = "none" /\ Shown(p)
    /\ upload' = [upload EXCEPT ![s] = [st |-> "on", place |-> p, whole |-> FALSE]]
    /\ UNCHANGED <<folder, request, owner, req, target, begunBy, landed>>

-----------------------------------------------------------------------------
(* The visitor: init, chunk and complete, each validates the link first.   *)

Open(r) == request[r].st = "on" /\ ~request[r].expired

\* The rest of the handler uses the row that was read here.
ValidateInit(h, r) ==
    /\ req[h].pc = "idle" /\ Open(r)
    /\ req' = [req EXCEPT ![h] = [pc |-> "init", r |-> r, s |-> None, place |-> request[r].place]]
    /\ UNCHANGED <<folder, request, upload, owner, target, begunBy, landed>>

ValidateUse(h, r, s, call) ==
    /\ req[h].pc = "idle" /\ Open(r) /\ upload[s].st # "none"
    /\ req' = [req EXCEPT ![h] = [pc |-> call, r |-> r, s |-> s, place |-> Root]]
    /\ UNCHANGED <<folder, request, upload, owner, target, begunBy, landed>>

StartSession(h, s, p) ==
    /\ upload' = [upload EXCEPT ![s] = [st |-> "on", place |-> p, whole |-> FALSE]]
    /\ begunBy' = [begunBy EXCEPT ![s] = req[h].r]
    /\ req' = [req EXCEPT ![h] = [@ EXCEPT !.pc = "link", !.s = s]]

\* newUploadSession refuses a folder that is gone or in the trash: 410.
NewSession(h, s) ==
    /\ req[h].pc = "init" /\ upload[s].st = "none"
    /\ IF Shown(req[h].place)
       THEN StartSession(h, s, req[h].place)
       ELSE Finish(h) /\ UNCHANGED <<upload, begunBy>>
    /\ UNCHANGED <<folder, request, owner, target, landed>>

LinkSession(h) ==
    /\ req[h].pc = "link"
    /\ owner' = [owner EXCEPT ![req[h].s] = req[h].r]
    /\ Finish(h)
    /\ UNCHANGED <<folder, request, upload, target, begunBy, landed>>

\* Fault: a session that belongs to nobody passes.
MayUseUnbound(h) == owner[req[h].s] \in {None, req[h].r}

MayUse(h) == owner[req[h].s] = req[h].r

\* The session is read and must belong to the link; 404 and 403 otherwise.
CheckSession(h, call, next) ==
    LET s == req[h].s
    IN  /\ req[h].pc = call
        /\ IF upload[s].st = "on" /\ MayUse(h)
           THEN req' = [req EXCEPT ![h] = [@ EXCEPT !.pc = next, !.place = upload[s].place]]
           ELSE Finish(h)
        /\ UNCHANGED <<folder, request, upload, owner, target, begunBy, landed>>

CheckChunk(h) == CheckSession(h, "chunk", "write")
CheckComplete(h) == CheckSession(h, "complete", "finish")

WriteChunk(h) ==
    /\ req[h].pc = "write"
    /\ upload' = [upload EXCEPT ![req[h].s] = [@ EXCEPT !.whole = (upload[req[h].s].st = "on")]]
    /\ Finish(h)
    /\ UNCHANGED <<folder, request, owner, target, begunBy, landed>>

\* finishUpload, with the folder the session had; the foreign key refuses one that was purged.
FinishUpload(h) ==
    LET s == req[h].s
    IN  /\ req[h].pc = "finish"
        /\ IF upload[s].whole /\ Stored(req[h].place)
           THEN /\ landed' = landed \cup {[s |-> s, via |-> req[h].r, place |-> req[h].place]}
                /\ upload' = [upload EXCEPT ![s] = [@ EXCEPT !.st = "off", !.whole = FALSE]]
                /\ Goto(h, "unlink")
           ELSE Finish(h) /\ UNCHANGED <<landed, upload>>
        /\ UNCHANGED <<folder, request, owner, target, begunBy>>

UnlinkSession(h) ==
    /\ req[h].pc = "unlink"
    /\ owner' = [owner EXCEPT ![req[h].s] = None]
    /\ Finish(h)
    /\ UNCHANGED <<folder, request, upload, target, begunBy, landed>>

Next == \/ \E r \in Requests : DeleteRequest(r) \/ Expire(r) \/ \E p \in Places : CreateRequest(r, p)
        \/ \E f \in Folders : TrashFolder(f) \/ RestoreFolder(f) \/ PurgeFolder(f)
        \/ \E s \in Sessions, p \in Places : DashboardInit(s, p)
        \/ \E h \in Handlers :
               \/ \E r \in Requests : ValidateInit(h, r)
               \/ \E r \in Requests, s \in Sessions, call \in {"chunk", "complete"} : ValidateUse(h, r, s, call)
               \/ \E s \in Sessions : NewSession(h, s)
               \/ LinkSession(h) \/ CheckChunk(h) \/ CheckComplete(h)
               \/ WriteChunk(h) \/ FinishUpload(h) \/ UnlinkSession(h)

Spec == Init /\ [][Next]_vars

-----------------------------------------------------------------------------

Row == [st : {"none", "on", "off"}, place : Places, expired : BOOLEAN]
Upload == [st : {"none", "on", "off"}, place : Places, whole : BOOLEAN]
Call == [pc : {"init", "link", "chunk", "complete", "write", "finish", "unlink"},
         r : Requests, s : Sessions \cup {None}, place : Places]
Arrival == [s : Sessions, via : Requests, place : Places]

TypeOK == /\ folder \in [Folders -> {"live", "trashed", "purged"}]
          /\ request \in [Requests -> Row] /\ target \in [Requests -> Places]
          /\ upload \in [Sessions -> Upload]
          /\ owner \in [Sessions -> Requests \cup {None}]
          /\ begunBy \in [Sessions -> Requests \cup {None}]
          /\ req \in [Handlers -> Call \cup {Idle}] /\ landed \subseteq Arrival
          /\ \A s \in Sessions : upload[s].place # Root => folder[upload[s].place] # "purged"

\* What arrives through a link is an upload that the same link has begun: neither another link's
\* nor the owner's session can be finished through it (handleRequestUploadChunk and ...Complete).
OwnUploadsOnly == \A x \in landed : begunBy[x.s] = x.via

\* An upload ends up in the folder its request was made for; in the root only once that folder
\* has been purged (newUploadSession, the session pinned at init, ON DELETE SET NULL).
LandsInTarget ==
    \A x \in landed : \/ x.place = target[x.via]
                      \/ x.place = Root /\ folder[target[x.via]] = "purged"

\* What comes in through a link is its own upload, and lands in its folder (handlers_v32.go).
UploadsConfined == OwnUploadsOnly /\ LandsInTarget

\* A request whose folder no longer exists takes nothing more.
PurgedFolderRefuses == \A x \in landed : x.place = target[x.via]

\* An upload ends up in a folder that is shown.
LandsWhereShown == [][\A x \in landed' \ landed : Shown(x.place)]_vars
=============================================================================
