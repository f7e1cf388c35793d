---------------------------- MODULE SessionHandoff ----------------------------
(***************************************************************************)
(* The Telegram session of the primary account: one encrypted row of table *)
(* settings, shared by the running server and by `tdocs login` / `tdocs    *)
(* logout`, which are separate processes on the same database.             *)
(*                                                                         *)
(* EncryptedSessionStorage remembers the ciphertext its process last read  *)
(* or wrote and replaces the row only if it still holds that ciphertext.   *)
(* Every ciphertext is new (AES-GCM draws a nonce), so equal ciphertexts   *)
(* mean that nobody has written in between.  The MTProto client (gotd) is  *)
(* external: it loads the session once when Run starts, makes a new        *)
(* authorisation key when there is none, and saves the session after       *)
(* connecting and at any later reconnect.                                  *)
(***************************************************************************)
EXTENDS Naturals

CONSTANTS Server,        \* the process of `tdocs server`
          Logins,        \* the processes of `tdocs login`
          None,          \* no row, no remembered ciphertext
          MaxResaves,    \* bound: saves of the clients after their first one
          Foreign,       \* the processes started with another secret than the first row's
          MaxRemovals    \* bound: runs of `tdocs login --reset` and `tdocs logout`

Procs == Logins \cup {Server}

\* What is assumed of the constants.
SessionAssumption == /\ Server \notin Logins
                     /\ MaxResaves \in Nat
                     /\ MaxRemovals \in Nat
                     /\ Foreign \subseteq Logins \cup {Server}

VARIABLES stored,    \* the row: a ciphertext or None
          pc,        \* where each process is
          loaded,    \* EncryptedSessionStorage.loaded
          observed,  \* EncryptedSessionStorage.observed
          key,       \* the authorisation key the client of the process uses
          nonces,    \* number of ciphertexts made
          keys,      \* number of authorisation keys made
          resaves,   \* number of saves after a reconnect
          removals,  \* number of resets and logouts
          lost       \* history: the logins that reported success with another key stored

vars == <<stored, pc, loaded, observed, key, nonces, keys, resaves, removals, lost>>

Ciphertext == [key : Nat, n : Nat, foreign : BOOLEAN]

IsForeign(p) == p \in Foreign

Init == /\ stored = [key |-> 0, n |-> 0, foreign |-> FALSE]
        /\ pc = [p \in Procs |-> IF p = Server THEN "load" ELSE "off"]
        /\ loaded = [p \in Procs |-> None]
        /\ observed = [p \in Procs |-> FALSE]
        /\ key = [p \in Procs |-> 0]
        /\ nonces = 0 /\ keys = 0 /\ resaves = 0 /\ removals = 0
        /\ lost = {}

Goto(p, at) == pc' = [pc EXCEPT ![p] = at]

Remember(p, c) == /\ loaded' = [loaded EXCEPT ![p] = c]
                  /\ observed' = [observed EXCEPT ![p] = TRUE]

Forget(p) == /\ loaded' = [loaded EXCEPT ![p] = None]
             /\ observed' = [observed EXCEPT ![p] = FALSE]

\* No row is one that an old version wrote under the default key, which every process opens.
Decrypts(p) == stored.foreign = IsForeign(p)

Replaced(p) == observed[p] /\ stored # loaded[p]

-----------------------------------------------------------------------------
(* LoadSession, called by Run.                                             *)

\* Nothing stored: the client will make a key of its own.
LoadNone(p) ==
    /\ pc[p] = "load" /\ stored = None
    /\ Remember(p, None)
    /\ keys' = keys + 1
    /\ key' = [key EXCEPT ![p] = keys + 1]
    /\ Goto(p, "connect")
    /\ UNCHANGED <<stored, nonces, resaves, removals, lost>>

LoadStored(p) ==
    /\ pc[p] = "load" /\ stored # None /\ Decrypts(p)
    /\ Remember(p, stored)
    /\ key' = [key EXCEPT ![p] = stored.key]
    /\ Goto(p, "connect")
    /\ UNCHANGED <<stored, nonces, keys, resaves, removals, lost>>

\* The row does not decrypt: nothing is remembered and Run returns the error.
LoadFails(p) ==
    /\ pc[p] = "load" /\ stored # None /\ ~Decrypts(p)
    /\ Goto(p, IF p = Server THEN "ended" ELSE "off")
    /\ UNCHANGED <<stored, loaded, observed, key, nonces, keys, resaves, removals, lost>>

-----------------------------------------------------------------------------
(* StoreSession: a read to see whether the row was replaced, then one      *)
(* conditional write.  The mutex is held in between: pc "write".           *)

Resave(p) ==
    /\ pc[p] = "run" /\ resaves < MaxResaves
    /\ resaves' = resaves + 1
    /\ Goto(p, "connect")
    /\ UNCHANGED <<stored, loaded, observed, key, nonces, keys, removals, lost>>

StoreCheck(p) ==
    /\ pc[p] = "connect"
    /\ Goto(p, IF Replaced(p) THEN "run" ELSE "write")
    /\ UNCHANGED <<stored, loaded, observed, key, nonces, keys, resaves, removals, lost>>

\* Fault: an INSERT OR REPLACE when no row was loaded.
MayWriteUpsert(p) == observed[p] /\ loaded[p] # None => stored = loaded[p]

\* INSERT OR IGNORE when no row was loaded, UPDATE ... WHERE value = loaded when one
\* was, a plain upsert when this storage never loaded.
MayWrite(p) == observed[p] => stored = loaded[p]

StoreWrite(p) ==
    LET c == [key |-> key[p], n |-> nonces + 1, foreign |-> IsForeign(p)] IN
    /\ pc[p] = "write"
    /\ nonces' = nonces + 1
    /\ IF MayWrite(p) THEN stored' = c /\ Remember(p, c)
                      ELSE UNCHANGED <<stored, loaded, observed>>
    /\ Goto(p, "run")
    /\ UNCHANGED <<key, keys, resaves, removals, lost>>

-----------------------------------------------------------------------------
(* tdocs login and tdocs logout.                                           *)

LoginStart(p) ==
    /\ p \in Logins /\ pc[p] = "off"
    /\ Goto(p, "load")
    /\ UNCHANGED <<stored, loaded, observed, key, nonces, keys, resaves, removals, lost>>

RemoveRow == /\ removals < MaxRemovals
             /\ removals' = removals + 1
             /\ stored' = None

LoginReset(p) ==
    /\ p \in Logins /\ pc[p] = "off"
    /\ RemoveRow
    /\ Goto(p, "load")
    /\ UNCHANGED <<loaded, observed, key, nonces, keys, resaves, lost>>

\* The user authenticates: "Paired with Telegram".  The process ends.
LoginPaired(p) ==
    /\ p \in Logins /\ pc[p] = "run"
    /\ lost' = IF stored # None /\ stored.key # key[p] THEN lost \cup {p} ELSE lost
    /\ Goto(p, "done")
    /\ UNCHANGED <<stored, loaded, observed, key, nonces, keys, resaves, removals>>

\* The user gives up, or a code is wrong.
LoginFails(p) ==
    /\ p \in Logins /\ pc[p] = "run"
    /\ Goto(p, "done")
    /\ UNCHANGED <<stored, loaded, observed, key, nonces, keys, resaves, removals, lost>>

Logout ==
    /\ RemoveRow
    /\ UNCHANGED <<pc, loaded, observed, key, nonces, keys, resaves, lost>>

-----------------------------------------------------------------------------
(* The runner loop of the server.                                          *)

\* watchSessionChange: a tick finds the row replaced and ends Run.  It waits for
\* the mutex while StoreSession holds it.
WatchTick ==
    /\ pc[Server] \in {"connect", "run"}
    /\ Replaced(Server)
    /\ Goto(Server, "ended")
    /\ UNCHANGED <<stored, loaded, observed, key, nonces, keys, resaves, removals, lost>>

\* Fault: the client is rebuilt without dropping the remembered ciphertext.
ReloadRemembering ==
    /\ pc[Server] = "ended" /\ ~Replaced(Server)
    /\ Goto(Server, "load")
    /\ UNCHANGED <<stored, loaded, observed, key, nonces, keys, resaves, removals, lost>>

\* Run has returned and the row was replaced: forget it and run again.
Reload ==
    /\ pc[Server] = "ended" /\ Replaced(Server)
    /\ Forget(Server)
    /\ Goto(Server, "load")
    /\ UNCHANGED <<stored, key, nonces, keys, resaves, removals, lost>>

\* Run has returned for another reason: the loop ends for good.
RunnerStops ==
    /\ pc[Server] = "ended" /\ ~Replaced(Server)
    /\ Goto(Server, "off")
    /\ UNCHANGED <<stored, loaded, observed, key, nonces, keys, resaves, removals, lost>>

-----------------------------------------------------------------------------
Client(p) == LoadNone(p) \/ LoadStored(p) \/ LoadFails(p) \/ StoreCheck(p) \/ StoreWrite(p)

Runner == WatchTick \/ Reload \/ RunnerStops

Login(p) == LoginStart(p) \/ LoginReset(p) \/ LoginPaired(p) \/ LoginFails(p)

Next == \/ \E p \in Procs : Client(p) \/ Resave(p) \/ Login(p)
        \/ Logout
        \/ Runner

Spec == Init /\ [][Next]_vars

\* The server's goroutines run and its 3 s ticker fires; nobody makes a login or
\* a reconnect happen.
FairSpec == Spec /\ WF_vars(Client(Server)) /\ WF_vars(Runner)

-----------------------------------------------------------------------------
\* The types, and a storage that has observed nothing remembers nothing.
TypeOK ==
    /\ \A p \in Procs : ~observed[p] => loaded[p] = None
    /\ stored \in Ciphertext \cup {None}
    /\ pc \in [Procs -> {"off", "load", "connect", "write", "run", "ended", "done"}]
    /\ loaded \in [Procs -> Ciphertext \cup {None}]
    /\ observed \in [Procs -> BOOLEAN]
    /\ key \in [Procs -> Nat]
    /\ nonces \in Nat /\ keys \in Nat /\ resaves \in Nat /\ removals \in Nat
    /\ lost \subseteq Logins

\* A stored session is never replaced by one with another authorisation key: a
\* process re-saves the key it has loaded, or finds its write refused.  Only a
\* reset or a logout removes a session.  This is what keeps a running server from
\* destroying the session `tdocs login` has just stored (session.go:25-29).
SessionNotClobbered ==
    [][stored # None /\ stored' # None => stored'.key = stored.key]_vars

\* The server ends up on the session that is stored, if its secret opens it, whatever
\* logins, resets and logouts came before: "the server picks it up automatically" (commands.go:258).
ServerFollows == <>[](stored # None /\ Decrypts(Server) =>
                        pc[Server] # "off" /\ key[Server] = stored.key)

\* A login that reports "Paired" (commands.go:115) does so while its own session is
\* stored, or none when the user has logged out meanwhile.
PairedIsStored == lost = {}
=============================================================================
