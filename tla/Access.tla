--------------------------------- MODULE Access ---------------------------------
(***************************************************************************)
(* Who may do what on the dashboard: the web sessions in memory, the users *)
(* and the API tokens in the database, and the two guards every route has  *)
(* (authMiddleware and superuserOnly).                                     *)
(*                                                                         *)
(* A login is four steps: the credentials are checked, a session is put    *)
(* into the store, its role is filled in through the pointer the store     *)
(* returned, and only then the browser learns the cookie.  Nothing sweeps  *)
(* the store on its own: a login sweeps it, a lookup removes what it finds *)
(* expired.  Passwords are right or wrong; the CSRF check and the signed   *)
(* download tickets are left out.                                          *)
(***************************************************************************)
EXTENDS Naturals

CONSTANTS Handlers,   \* the goroutines of the requests
          Tokens,     \* the session tokens, drawn at random and never twice
          Users,      \* dashboard users
          Admin,      \* the login with the admin password
          ApiKeys,    \* API tokens
          Prefix,     \* the first 12 characters of an API token
          TTL,        \* how long a session may be idle
          MaxTime,    \* bound of the clock
          MaxRestarts \* bound

ASSUME AccessAssumption == /\ {TTL, MaxTime, MaxRestarts} \subseteq Nat
                           /\ DOMAIN Prefix = ApiKeys
                           /\ Admin \notin Users
                           /\ Tokens \cap (ApiKeys \cup {"none"}) = {}

Roles == {"admin", "viewer"}

VARIABLES now,       \* the clock
          store,     \* per token: the session object, and whether it is in the map of the store
          held,      \* the tokens a browser was given
          users,     \* table users: the role of a user, or "none"
          keys,      \* table api_tokens: "none", "valid", "revoked"
          req,       \* per handler: where it is and what it has read
          granted,   \* history: the role the credentials of a session's login had
          restarts   \* number of restarts

vars == <<now, store, held, users, keys, req, granted, restarts>>

Idle == [pc |-> "idle", op |-> "none", by |-> "none", user |-> Admin, role |-> "admin"]

Init == /\ now = 0
        /\ store = [t \in Tokens |-> [st |-> "unused", seen |-> 0, user |-> Admin, role |-> "admin"]]
        /\ held = {}
        /\ users = [u \in Users |-> "none"]
        /\ keys = [k \in ApiKeys |-> "none"]
        /\ req = [h \in Handlers |-> Idle]
        /\ granted = [t \in Tokens |-> "admin"]
        /\ restarts = 0

Finish(h) == req' = [req EXCEPT ![h] = Idle]

Expired(s) == now - s.seen > TTL

InMap(t) == store[t].st = "live"

\* Fault: the lookup trusts the sweep.
FoundUnchecked(t) == InMap(t)

Found(t) == InMap(t) /\ ~Expired(store[t])

-----------------------------------------------------------------------------
(* Login and logout.                                                       *)

\* Fault: a user that was deleted meanwhile passes.
LoginCheckAnybody(h) ==
    /\ req[h].pc = "idle"
    /\ \E u \in Users :
          req' = [req EXCEPT ![h] = [Idle EXCEPT !.pc = "create", !.user = u, !.role = users[u]]]
    /\ UNCHANGED <<now, store, held, users, keys, granted, restarts>>

\* The admin password, or the row of the user and its role.
LoginCheck(h) ==
    /\ req[h].pc = "idle"
    /\ \/ req' = [req EXCEPT ![h] = [Idle EXCEPT !.pc = "create"]]
       \/ \E u \in Users :
             /\ users[u] # "none"
             /\ req' = [req EXCEPT ![h] = [Idle EXCEPT !.pc = "create", !.user = u, !.role = users[u]]]
    /\ UNCHANGED <<now, store, held, users, keys, granted, restarts>>

\* The sessions of the map that have expired leave it; the new one has no role, which is an administrator's.
Swept == [t \in Tokens |-> IF InMap(t) /\ Expired(store[t]) THEN [store[t] EXCEPT !.st = "gone"] ELSE store[t]]

CreateSession(h, t) ==
    /\ req[h].pc = "create" /\ store[t].st = "unused"
    /\ store' = [Swept EXCEPT ![t] = [st |-> "live", seen |-> now, user |-> Admin, role |-> "admin"]]
    /\ granted' = [granted EXCEPT ![t] = req[h].role]
    /\ req' = [req EXCEPT ![h] = [@ EXCEPT !.pc = "fill", !.by = t]]
    /\ UNCHANGED <<now, held, users, keys, restarts>>

\* sess.Username and sess.Role, through the pointer: the session may be out of the map already.
FillRole(h, t) ==
    /\ req[h].pc = "fill" /\ req[h].by = t
    /\ store' = [store EXCEPT ![t] = [@ EXCEPT !.user = req[h].user, !.role = req[h].role]]
    /\ req' = [req EXCEPT ![h] = [@ EXCEPT !.pc = "cookie"]]
    /\ UNCHANGED <<now, held, users, keys, granted, restarts>>

\* Fault: the cookie is sent before the role is filled in.
SetCookieEarly(h, t) ==
    /\ req[h].pc \in {"fill", "cookie"} /\ req[h].by = t
    /\ held' = held \cup {t}
    /\ req' = [req EXCEPT ![h] = IF @.pc = "fill" THEN @ ELSE Idle]
    /\ UNCHANGED <<now, store, users, keys, granted, restarts>>

SetCookie(h, t) ==
    /\ req[h].pc = "cookie" /\ req[h].by = t
    /\ held' = held \cup {t}
    /\ Finish(h)
    /\ UNCHANGED <<now, store, users, keys, granted, restarts>>

RemoveSession(t) ==
    store' = [store EXCEPT ![t] = [@ EXCEPT !.st = IF InMap(t) THEN "gone" ELSE store[t].st]]

\* No guard: whoever has the cookie ends the session.
Logout(t) ==
    /\ t \in held /\ InMap(t)
    /\ RemoveSession(t)
    /\ UNCHANGED <<now, held, users, keys, req, granted, restarts>>

-----------------------------------------------------------------------------
(* The guards.  An operation is a read, a change (POST, PUT, DELETE behind *)
(* authMiddleware) or an admin operation (anything behind superuserOnly).  *)

Ops == {"read", "change", "admin"}

MayAct(role, op) == role # "viewer" \/ op = "read"

\* SessionStore.Get slides the idle time of a session and removes one that has expired.
AdmitSession(h, t, op) ==
    /\ req[h].pc = "idle" /\ t \in held /\ Found(t)
    /\ store' = [store EXCEPT ![t] = [@ EXCEPT !.seen = now]]
    /\ req' = [req EXCEPT ![h] = IF MayAct(store[t].role, op)
                                 THEN [Idle EXCEPT !.pc = "run", !.op = op, !.by = t] ELSE Idle]
    /\ UNCHANGED <<now, held, users, keys, granted, restarts>>

RejectExpired(h, t) ==
    /\ req[h].pc = "idle" /\ t \in held /\ InMap(t) /\ Expired(store[t])
    /\ RemoveSession(t)
    /\ UNCHANGED <<now, held, users, keys, req, granted, restarts>>

\* The first row with the prefix decides, and an API token is no superuser.
AdmitKey(h, k, op) ==
    /\ req[h].pc = "idle" /\ op # "admin" /\ keys[k] = "valid"
    /\ \E row \in {r \in ApiKeys : keys[r] = "valid" /\ Prefix[r] = Prefix[k]} :
           req' = [req EXCEPT ![h] = IF row = k THEN [Idle EXCEPT !.pc = "run", !.op = op, !.by = k] ELSE Idle]
    /\ UNCHANGED <<now, store, held, users, keys, granted, restarts>>

-----------------------------------------------------------------------------
(* What an admitted request does.                                          *)

Doing(h, op) == req[h].pc = "run" /\ req[h].op = op

Answer(h) ==
    /\ req[h].pc = "run"
    /\ Finish(h)
    /\ UNCHANGED <<now, store, held, users, keys, granted, restarts>>

\* handleRevokeSession goes by the list, which shows what has not expired.
RevokeSession(h, t) ==
    /\ Doing(h, "change") /\ Found(t)
    /\ RemoveSession(t)
    /\ Finish(h)
    /\ UNCHANGED <<now, held, users, keys, granted, restarts>>

SetKey(h, k, from, to) ==
    /\ Doing(h, "change") /\ keys[k] \in from
    /\ keys' = [keys EXCEPT ![k] = to]
    /\ Finish(h)
    /\ UNCHANGED <<now, store, held, users, granted, restarts>>

CreateKey(h, k) == SetKey(h, k, {"none"}, "valid")
RevokeKey(h, k) == SetKey(h, k, {"valid"}, "revoked")
DeleteKey(h, k) == SetKey(h, k, {"valid", "revoked"}, "none")

SetUser(h, u, from, to) ==
    /\ Doing(h, "admin") /\ users[u] \in from
    /\ users' = [users EXCEPT ![u] = to]
    /\ UNCHANGED <<now, store, held, keys, granted, restarts>>

\* The column username is UNIQUE.
CreateUser(h, u, role) == SetUser(h, u, {"none"}, role) /\ Finish(h)
DeleteUser(h, u) == SetUser(h, u, Roles, "none") /\ Finish(h)

\* The role is written before the new password is looked at; the sessions of the user keep theirs.
UpdateRole(h, u, role) ==
    /\ SetUser(h, u, Roles, role)
    /\ \/ Finish(h)
       \/ req' = [req EXCEPT ![h] = [@ EXCEPT !.op = "password"]]

\* A password that is too short answers 400; the role stays changed.
UpdatePassword(h) ==
    /\ Doing(h, "password")
    /\ Finish(h)
    /\ UNCHANGED <<now, store, held, users, keys, granted, restarts>>

-----------------------------------------------------------------------------

Tick == /\ now < MaxTime
        /\ now' = now + 1
        /\ UNCHANGED <<store, held, users, keys, req, granted, restarts>>

\* The sessions are in memory only.
Restart ==
    /\ restarts < MaxRestarts
    /\ restarts' = restarts + 1
    /\ store' = [t \in Tokens |-> [store[t] EXCEPT !.st = IF @ = "unused" THEN "unused" ELSE "gone"]]
    /\ req' = [h \in Handlers |-> Idle]
    /\ UNCHANGED <<now, held, users, keys, granted>>

LoginSteps(h) == \/ LoginCheck(h)
                 \/ \E t \in Tokens : CreateSession(h, t) \/ FillRole(h, t) \/ SetCookie(h, t)

Served(h) == \/ \E t \in Tokens, op \in Ops : AdmitSession(h, t, op)
             \/ \E t \in Tokens : RejectExpired(h, t) \/ RevokeSession(h, t)
             \/ \E k \in ApiKeys, op \in Ops : AdmitKey(h, k, op)
             \/ \E k \in ApiKeys : CreateKey(h, k) \/ RevokeKey(h, k) \/ DeleteKey(h, k)
             \/ \E u \in Users, role \in Roles : CreateUser(h, u, role) \/ UpdateRole(h, u, role)
             \/ \E u \in Users : DeleteUser(h, u)
             \/ UpdatePassword(h)
             \/ Answer(h)

Next == \/ \E h \in Handlers : LoginSteps(h) \/ Served(h)
        \/ \E t \in Tokens : Logout(t)
        \/ Tick
        \/ Restart

Spec == Init /\ [][Next]_vars

-----------------------------------------------------------------------------

Session == [st : {"unused", "live", "gone"}, seen : Nat, user : Users \cup {Admin}, role : Roles]

Request == [pc : {"idle", "create", "fill", "cookie", "run"},
            op : Ops \cup {"password", "none"},
            by : Tokens \cup ApiKeys \cup {"none"},
            user : Users \cup {Admin}, role : Roles]

TypeOK == /\ now \in Nat /\ restarts \in Nat
          /\ store \in [Tokens -> Session]
          /\ held \subseteq Tokens
          /\ users \in [Users -> Roles \cup {"none"}]
          /\ keys \in [ApiKeys -> {"none", "valid", "revoked"}]
          /\ granted \in [Tokens -> Roles]
          /\ req \in [Handlers -> Request]

\* Whatever is changed on behalf of a cookie is changed for a login whose credentials were not a
\* viewer's: the session is in the store before it has its role, but nobody holds its cookie yet
\* (handleLoginSubmit, authMiddleware and isSuperuser).
ViewersOnlyRead ==
    \A h \in Handlers : req[h].pc = "run" /\ req[h].op # "read" /\ req[h].by \in Tokens =>
        granted[req[h].by] # "viewer"

\* How long a session has been idle, for the browsers.
New == TTL + 1
Over == TTL + 2

IdleOf(t) == IF store[t].st = "unused" THEN New
             ELSE IF InMap(t) /\ ~Expired(store[t]) THEN now - store[t].seen
             ELSE Over

\* The store, swept only by logins and lookups, behaves as sessions that end on time and stay
\* over (SessionStore.Create, Get, Revoke and List, security.go).
Live == INSTANCE LiveSessions WITH idle <- [t \in Tokens |-> IdleOf(t)]

SessionsEndOnTime == Live!Spec

\* A user who was made a viewer, or deleted, stops changing things.
DemotedStops ==
    \A h \in Handlers : req[h].pc = "run" /\ req[h].op # "read" /\ req[h].by \in Tokens =>
        LET u == store[req[h].by].user IN u = Admin \/ users[u] = "admin"

\* A valid API token is accepted: its prefix finds no other row first.
KeysWork == \A k, row \in ApiKeys :
    keys[k] = "valid" /\ keys[row] = "valid" /\ Prefix[row] = Prefix[k] => row = k
=============================================================================
