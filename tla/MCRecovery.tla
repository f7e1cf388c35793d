------------------------------ MODULE MCRecovery ------------------------------
(***************************************************************************)
(* Recovery for TLC: a vault with a document and a snapshot made then.     *)
(* "fresh": a new installation, or one that loses its database: it logs in *)
(* to that vault or makes one; snapshots are made, none restored by the    *)
(* server.                                                                 *)
(* "installed": one that has run before, with a single request for         *)
(* snapshots beside all else.                                              *)
(* "restores": two vaults and two requests, and nothing but restores once  *)
(* the server's first sync has ended.                                      *)
(***************************************************************************)
EXTENDS Recovery

CONSTANTS One,        \* the vault of "fresh" and "installed", and the request of the latter
          OneRequest,
          Few         \* bound: their events

VARIABLE instance

KindsOfOldMessages == <<"service", "doc", "snap">>

Single    == events <= Few /\ \A r \in Requests \ {OneRequest} : op[r] = NoOp
Fresh     == Single /\ op[OneRequest].kind \in {"none", "create"}
Unnamed   == \A r \in db.rows : r.name = "sent"
Installed == Single /\ host # "login" /\ Unnamed

\* What users and the worker do beside restores is left out, and so are stops.
Restoring == /\ host # "login" /\ (events > 0 => host = "server" /\ sync["start"].pc = "done")
             /\ task.kind \in {"none", "restore"} /\ sync["manual"] = NoSync
             /\ (\A u \in Uploads : up[u] = NoUpload) /\ purge = NoPurge /\ Unnamed
             /\ \A r \in Requests : op[r].kind # "create"

MCInit == /\ Init
          /\ \/ instance = "fresh" /\ Known = {One} /\ db = Unused
             \/ instance = "installed" /\ Known = {One} /\ db # Unused
             \/ instance = "restores" /\ Known = Vaults /\ db.bound = One
MCNext == /\ Next /\ UNCHANGED instance
          /\ \/ instance = "fresh" /\ Fresh'
             \/ instance = "installed" /\ Installed'
             \/ instance = "restores" /\ Restoring'
MCSpec == MCInit /\ [][MCNext]_<<vars, instance>> /\ Fairness
=============================================================================
