----------------------------- MODULE Access_proofs -----------------------------
(***************************************************************************)
(* Proofs about Access: types, what a viewer's session may do, and that    *)
(* the store implements sessions that end on time (LiveSessions).          *)
(*                                                                         *)
(* ViewersOnlyRead is not inductive.  A session is made with the role of   *)
(* an administrator and filled in later, so it has to be said that the     *)
(* role is right once a browser may hold the cookie (RoleKnown), and       *)
(* that a token in use is not given out again (TokenSpent).                *)
(***************************************************************************)
EXTENDS Access, TLAPS

\* A token that somebody uses or holds has been given out.
TokenSpent == /\ \A t \in held : store[t].st # "unused"
              /\ \A h \in Handlers : req[h].pc # "idle" /\ req[h].by \in Tokens
                                        => store[req[h].by].st # "unused"

\* Where a role is, and that it is the one of the credentials.
RoleKnown == /\ \A t \in held : store[t].role = granted[t]
             /\ \A h \in Handlers : req[h].pc \in {"fill", "cookie"} =>
                    /\ req[h].by \in Tokens
                    /\ req[h].role = granted[req[h].by]
                    /\ req[h].pc = "cookie" => store[req[h].by].role = granted[req[h].by]

\* No session was seen in the future.
SeenBefore == \A t \in Tokens : store[t].seen <= now

IInv == TypeOK /\ TokenSpent /\ RoleKnown /\ ViewersOnlyRead /\ SeenBefore
-----------------------------------------------------------------------------
\* Of the steps of a request, those that touch neither the sessions nor what was granted, and
\* end the request or go on from the admin operation to the password.
Quiet(h) ==
    /\ req[h].pc = "run"
    /\ UNCHANGED <<now, store, held, granted, restarts>>
    /\ users' \in [Users -> Roles \cup {"none"}]
    /\ keys' \in [ApiKeys -> {"none", "valid", "revoked"}]
    /\ \/ Finish(h)
       \/ req[h].op = "admin" /\ req' = [req EXCEPT ![h] = [@ EXCEPT !.op = "password"]]

\* Everything an admitted request does but revoking a session is quiet.
LEMMA QuietSteps ==
    ASSUME TypeOK, NEW h \in Handlers,
           \/ \E k \in ApiKeys : CreateKey(h, k) \/ RevokeKey(h, k) \/ DeleteKey(h, k)
           \/ \E u \in Users, role \in Roles : CreateUser(h, u, role) \/ UpdateRole(h, u, role)
           \/ \E u \in Users : DeleteUser(h, u)
           \/ UpdatePassword(h)
           \/ Answer(h)
    PROVE  Quiet(h)
<1>1. CASE \E k \in ApiKeys : CreateKey(h, k) \/ RevokeKey(h, k) \/ DeleteKey(h, k)
  BY <1>1 DEF TypeOK, Quiet, CreateKey, RevokeKey, DeleteKey, SetKey, Doing, Finish
<1>2. CASE \E u \in Users, role \in Roles : CreateUser(h, u, role) \/ UpdateRole(h, u, role)
  <2>1. PICK u \in Users, role \in Roles : CreateUser(h, u, role) \/ UpdateRole(h, u, role)
    BY <1>2
  <2>2. users' \in [Users -> Roles \cup {"none"}]
    BY <2>1 DEF TypeOK, CreateUser, UpdateRole, SetUser
  <2>3. QED
    BY <2>1, <2>2 DEF TypeOK, Quiet, CreateUser, UpdateRole, SetUser, Doing, Finish
<1>3. CASE \E u \in Users : DeleteUser(h, u)
  BY <1>3 DEF TypeOK, Quiet, DeleteUser, SetUser, Doing, Finish
<1>4. CASE UpdatePassword(h)
  BY <1>4 DEF TypeOK, Quiet, UpdatePassword, Doing, Finish
<1>5. CASE Answer(h)
  BY <1>5 DEF TypeOK, Quiet, Answer, Finish
<1>6. QED
  BY <1>1, <1>2, <1>3, <1>4, <1>5

LEMMA IdleType == Idle \in Request
  BY DEF Idle, Request, Roles

\* A request with another place, operation or token, and a session with another state, time or
\* role, are requests and sessions.
LEMMA RequestType ==
    ASSUME NEW r \in Request,
           NEW p \in {"idle", "create", "fill", "cookie", "run"},
           NEW o \in Ops \cup {"password", "none"},
           NEW b \in Tokens \cup ApiKeys \cup {"none"}
    PROVE  /\ [r EXCEPT !.pc = p] \in Request
           /\ [r EXCEPT !.op = o] \in Request
           /\ [r EXCEPT !.pc = p, !.by = b] \in Request
           /\ [Idle EXCEPT !.pc = p, !.op = o, !.by = b] \in Request
  BY ZenonT(30) DEF Request, Idle, Roles

LEMMA SessionType ==
    ASSUME NEW s \in Session, NEW p \in {"unused", "live", "gone"}, NEW n \in Nat,
           NEW u \in Users \cup {Admin}, NEW role \in Roles
    PROVE  /\ [s EXCEPT !.st = p] \in Session
           /\ [s EXCEPT !.seen = n] \in Session
           /\ [s EXCEPT !.user = u, !.role = role] \in Session
  BY DEF Session

LEMMA InitInv == Init => IInv
  BY IdleType, AccessAssumption
     DEF Init, Idle, Session, IInv, TypeOK, TokenSpent, RoleKnown, ViewersOnlyRead, SeenBefore, Roles, Ops

\* A quiet step keeps the invariant.
LEMMA QuietInv == ASSUME IInv, NEW h \in Handlers, Quiet(h) PROVE IInv'
<1>1. /\ \A g \in Handlers : g # h => req'[g] = req[g]
      /\ \/ req'[h] = Idle
         \/ req[h].op = "admin" /\ req'[h] = [req[h] EXCEPT !.op = "password"]
      /\ req[h].pc = "run"
      /\ UNCHANGED <<now, store, held, granted, restarts>>
  BY DEF IInv, TypeOK, Quiet, Finish
<1>2. \/ req'[h].pc = "idle"
      \/ /\ req[h].op = "admin" /\ req'[h].pc = "run" /\ req'[h].by = req[h].by
         /\ req[h] \in Request
  BY <1>1 DEF IInv, TypeOK, Request, Idle
<1>3. TypeOK'
  <2>1. CASE Finish(h)
    BY <2>1, IdleType DEF IInv, TypeOK, Quiet, Finish
  <2>2. CASE req' = [req EXCEPT ![h] = [@ EXCEPT !.op = "password"]]
    BY <2>2, RequestType DEF IInv, TypeOK, Quiet
  <2>3. QED
    BY <2>1, <2>2 DEF Quiet
<1>4. TokenSpent'
  BY <1>1, <1>2 DEF IInv, TokenSpent
<1>5. RoleKnown'
  BY <1>1, <1>2 DEF IInv, RoleKnown
<1>6. ViewersOnlyRead'
  BY <1>1, <1>2 DEF IInv, ViewersOnlyRead
<1>7. SeenBefore'
  BY <1>1 DEF IInv, SeenBefore
<1>8. QED
  BY <1>3, <1>4, <1>5, <1>6, <1>7 DEF IInv

\* Removing a session keeps it.
LEMMA RemoveInv ==
    ASSUME IInv, NEW t \in Tokens, RemoveSession(t),
           UNCHANGED <<now, held, users, keys, granted, restarts>>,
           req' = req \/ \E h \in Handlers : Finish(h)
    PROVE  IInv'
<1> DEFINE st == IF InMap(t) THEN "gone" ELSE store[t].st
<1>a. store' = [store EXCEPT ![t] = [@ EXCEPT !.st = st]]
  BY DEF RemoveSession
<1>b. store[t] \in Session
  BY DEF IInv, TypeOK
<1>c. /\ st \in {"unused", "live", "gone"}
      /\ store[t].st # "unused" => st # "unused"
  BY <1>b DEF Session
<1> HIDE DEF st
<1>1. TypeOK'
  <2>1. [store[t] EXCEPT !.st = st] \in Session
    BY <1>b, <1>c DEF Session
  <2>2. QED
    BY <1>a, <2>1, IdleType DEF IInv, TypeOK, Finish
<1>2. \A u \in Tokens : /\ store'[u].role = store[u].role /\ store'[u].seen = store[u].seen
                        /\ store[u].st # "unused" => store'[u].st # "unused"
  <2>1. \A u \in Tokens : u # t => store'[u] = store[u]
    BY <1>a DEF IInv, TypeOK
  <2>2. store'[t] = [store[t] EXCEPT !.st = st]
    BY <1>a DEF IInv, TypeOK
  <2>3. QED
    BY <2>1, <2>2, <1>b, <1>c DEF Session
<1>3. \A h \in Handlers : req'[h] = req[h] \/ req'[h].pc = "idle"
  <2>1. Idle.pc = "idle"
    BY DEF Idle
  <2>2. QED
    BY <2>1 DEF IInv, TypeOK, Finish
<1>4. held \subseteq Tokens
  BY DEF IInv, TypeOK
<1>5. TokenSpent' /\ RoleKnown' /\ ViewersOnlyRead' /\ SeenBefore'
  BY <1>2, <1>3, <1>4 DEF IInv, TokenSpent, RoleKnown, ViewersOnlyRead, SeenBefore
<1>6. QED
  BY <1>1, <1>5 DEF IInv

\* The steps of a login keep it.
LEMMA LoginInv == ASSUME IInv, NEW h \in Handlers, LoginSteps(h) PROVE IInv'
<1>1. CASE LoginCheck(h)
  <2>1. PICK r \in [pc : {"create"}, op : {"none"}, by : {"none"}, user : Users \cup {Admin},
                    role : Roles] :
           req' = [req EXCEPT ![h] = r]
    BY <1>1 DEF LoginCheck, IInv, TypeOK, Idle, Roles
  <2>2. UNCHANGED <<now, store, held, users, keys, granted, restarts>>
    BY <1>1 DEF LoginCheck
  <2>3. TypeOK'
    BY <2>1, <2>2 DEF IInv, TypeOK, Request
  <2>4. TokenSpent' /\ RoleKnown' /\ ViewersOnlyRead' /\ SeenBefore'
    BY <2>1, <2>2, AccessAssumption DEF IInv, TypeOK, TokenSpent, RoleKnown, ViewersOnlyRead, SeenBefore
  <2>5. QED
    BY <2>3, <2>4 DEF IInv
<1>2. ASSUME NEW t \in Tokens, CreateSession(h, t) PROVE IInv'
  <2>1. /\ store[t].st = "unused" /\ held' = held /\ now' = now
        /\ UNCHANGED <<users, keys, restarts>>
        /\ granted' = [granted EXCEPT ![t] = req[h].role]
        /\ \A g \in Handlers : g # h => req'[g] = req[g]
        /\ req'[h].pc = "fill" /\ req'[h].by = t /\ req'[h].role = req[h].role
    BY <1>2 DEF IInv, TypeOK, Request, CreateSession
  <2>2. \A u \in Tokens : u # t => /\ store'[u].role = store[u].role
                                   /\ store'[u].seen = store[u].seen
                                   /\ store[u].st # "unused" => store'[u].st # "unused"
    BY <1>2 DEF IInv, TypeOK, Session, CreateSession, Swept
  <2>3. store'[t].st # "unused" /\ store'[t].seen = now
    BY <1>2 DEF IInv, TypeOK, Session, CreateSession, Swept
  <2>4. TypeOK'
    <3>1. req' \in [Handlers -> Request]
      BY <1>2, RequestType DEF IInv, TypeOK, CreateSession
    <3>2. [st |-> "live", seen |-> now, user |-> Admin, role |-> "admin"] \in Session
      BY DEF IInv, TypeOK, Session, Roles
    <3>3. Swept \in [Tokens -> Session]
      BY SessionType DEF IInv, TypeOK, Swept
    <3>4. req[h].role \in Roles
      BY DEF IInv, TypeOK, Request
    <3>5. QED
      BY <1>2, <3>1, <3>2, <3>3, <3>4 DEF IInv, TypeOK, CreateSession
  <2>5. TokenSpent'
    <3>1. held \subseteq Tokens
      BY DEF IInv, TypeOK
    <3>2. \A u \in held' : store'[u].st # "unused"
      BY <2>1, <2>2, <2>3, <3>1 DEF IInv, TokenSpent
    <3>3. ASSUME NEW g \in Handlers, req'[g].pc # "idle", req'[g].by \in Tokens
          PROVE  store'[req'[g].by].st # "unused"
      <4>1. CASE g = h
        BY <4>1, <2>1, <2>3
      <4>2. CASE g # h
        BY <4>2, <3>3, <2>1, <2>2, <2>3 DEF IInv, TokenSpent
      <4>3. QED
        BY <4>1, <4>2
    <3>4. QED
      BY <3>2, <3>3 DEF TokenSpent
  <2>6. RoleKnown'
    <3>1. held \subseteq Tokens /\ granted \in [Tokens -> Roles]
      BY DEF IInv, TypeOK
    <3>2. \A u \in Tokens : u # t => granted'[u] = granted[u]
      BY <2>1, <3>1
    <3>3. granted'[t] = req[h].role
      BY <2>1, <3>1
    <3>4. QED
      BY <2>1, <2>2, <2>3, <3>1, <3>2, <3>3 DEF IInv, TokenSpent, RoleKnown
  <2>7. ViewersOnlyRead'
    <3>1. granted \in [Tokens -> Roles]
      BY DEF IInv, TypeOK
    <3>2. \A u \in Tokens : u # t => granted'[u] = granted[u]
      BY <2>1, <3>1
    <3>3. QED
      BY <2>1, <2>2, <2>3, <3>2 DEF IInv, TokenSpent, ViewersOnlyRead
  <2>8. SeenBefore'
    <3>1. \A u \in Tokens : store'[u].seen = store[u].seen \/ store'[u].seen = now
      BY <2>2, <2>3
    <3>2. QED
      BY <2>1, <3>1 DEF IInv, TypeOK, SeenBefore
  <2>9. QED
    BY <2>4, <2>5, <2>6, <2>7, <2>8 DEF IInv
<1>3. ASSUME NEW t \in Tokens, FillRole(h, t) PROVE IInv'
  <2>1. TypeOK'
    <3>1. req[h] \in Request /\ req[h].user \in Users \cup {Admin} /\ req[h].role \in Roles
      BY DEF IInv, TypeOK, Request
    <3>2. [store[t] EXCEPT !.user = req[h].user, !.role = req[h].role] \in Session
      BY <3>1, SessionType DEF IInv, TypeOK
    <3>3. [req[h] EXCEPT !.pc = "cookie"] \in Request
      BY <3>1, RequestType
    <3>4. QED
      BY <1>3, <3>2, <3>3 DEF IInv, TypeOK, FillRole
  <2>2. TokenSpent' /\ RoleKnown'
    BY <1>3 DEF IInv, TypeOK, Request, Session, TokenSpent, RoleKnown, FillRole
  <2>3. ViewersOnlyRead' /\ SeenBefore'
    BY <1>3 DEF IInv, TypeOK, ViewersOnlyRead, SeenBefore, FillRole
  <2>4. QED
    BY <2>1, <2>2, <2>3 DEF IInv
<1>4. ASSUME NEW t \in Tokens, SetCookie(h, t) PROVE IInv'
  <2>1. TypeOK'
    BY <1>4, IdleType DEF IInv, TypeOK, SetCookie, Finish
  <2>2. TokenSpent' /\ RoleKnown'
    BY <1>4 DEF IInv, TypeOK, TokenSpent, RoleKnown, SetCookie, Finish, Idle
  <2>3. ViewersOnlyRead' /\ SeenBefore'
    BY <1>4 DEF IInv, TypeOK, ViewersOnlyRead, SeenBefore, SetCookie, Finish, Idle
  <2>4. QED
    BY <2>1, <2>2, <2>3 DEF IInv
<1>5. QED
  BY <1>1, <1>2, <1>3, <1>4 DEF LoginSteps

\* An admitted request, and one that is refused.
LEMMA RequestInv == ASSUME IInv, NEW h \in Handlers, Served(h) PROVE IInv'
<1>1. ASSUME NEW t \in Tokens, NEW op \in Ops, AdmitSession(h, t, op) PROVE IInv'
  <2>1. /\ t \in held /\ held' = held /\ granted' = granted /\ now' = now
        /\ UNCHANGED <<users, keys, restarts>>
        /\ store' = [store EXCEPT ![t] = [@ EXCEPT !.seen = now]]
        /\ \A g \in Handlers : g # h => req'[g] = req[g]
        /\ \/ req'[h].pc = "idle"
           \/ /\ MayAct(store[t].role, op)
              /\ req'[h].pc = "run" /\ req'[h].op = op /\ req'[h].by = t
    BY <1>1 DEF IInv, TypeOK, AdmitSession, Idle
  <2>2. \A u \in Tokens : /\ store'[u].role = store[u].role
                          /\ store'[u].st = store[u].st
                          /\ store'[u].seen \in {store[u].seen, now}
    BY <2>1 DEF IInv, TypeOK, Session
  <2>3. held \subseteq Tokens
    BY DEF IInv, TypeOK
  <2>4. TypeOK'
    <3>1. [Idle EXCEPT !.pc = "run", !.op = op, !.by = t] \in Request
      BY IdleType, RequestType
    <3>2. [store[t] EXCEPT !.seen = now] \in Session
      <4>1. store[t] \in Session /\ now \in Nat
        BY DEF IInv, TypeOK
      <4>2. QED
        BY <4>1 DEF Session
    <3>3. QED
      BY <1>1, <3>1, <3>2, IdleType DEF IInv, TypeOK, AdmitSession
  <2>5. TokenSpent'
    BY <2>1, <2>2, <2>3 DEF IInv, TokenSpent
  <2>6. RoleKnown'
    BY <2>1, <2>2, <2>3 DEF IInv, RoleKnown
  <2>7. ViewersOnlyRead'
    BY <2>1, <2>3 DEF IInv, RoleKnown, ViewersOnlyRead, MayAct
  <2>8. SeenBefore'
    BY <2>1, <2>2 DEF IInv, TypeOK, SeenBefore
  <2>9. QED
    BY <2>4, <2>5, <2>6, <2>7, <2>8 DEF IInv
<1>2. ASSUME NEW t \in Tokens, RejectExpired(h, t) \/ RevokeSession(h, t) PROVE IInv'
  <2>1. /\ RemoveSession(t) /\ UNCHANGED <<now, held, users, keys, granted, restarts>>
        /\ req' = req \/ Finish(h)
    BY <1>2 DEF RejectExpired, RevokeSession
  <2>2. QED
    BY <2>1, RemoveInv
<1>3. ASSUME NEW k \in ApiKeys, NEW op \in Ops, AdmitKey(h, k, op) PROVE IInv'
  <2>1. PICK r \in {Idle, [Idle EXCEPT !.pc = "run", !.op = op, !.by = k]} :
           req' = [req EXCEPT ![h] = r]
    <3>1. PICK row \in ApiKeys :
             req' = [req EXCEPT ![h] = IF row = k THEN [Idle EXCEPT !.pc = "run", !.op = op, !.by = k]
                                       ELSE Idle]
      BY <1>3 DEF AdmitKey
    <3>2. CASE row = k
      BY <3>1, <3>2
    <3>3. CASE row # k
      BY <3>1, <3>3
    <3>4. QED
      BY <3>2, <3>3
  <2>2. UNCHANGED <<now, store, held, users, keys, granted, restarts>>
    BY <1>3 DEF AdmitKey
  <2>3. r \in Request /\ r.pc \in {"idle", "run"} /\ r.by \in {k, "none"}
    <3>1. [Idle EXCEPT !.pc = "run", !.op = op, !.by = k] \in Request
      BY IdleType, RequestType
    <3>2. CASE r = Idle
      BY <3>2, IdleType DEF Idle
    <3>3. CASE r = [Idle EXCEPT !.pc = "run", !.op = op, !.by = k]
      BY <3>1, <3>3 DEF Idle
    <3>4. QED
      BY <3>2, <3>3
  <2>4. r.by \notin Tokens
    BY <2>3, AccessAssumption
  <2>5. TypeOK'
    BY <2>1, <2>2, <2>3 DEF IInv, TypeOK
  <2>6. \A g \in Handlers : g # h => req'[g] = req[g]
    BY <2>1 DEF IInv, TypeOK
  <2>7. req'[h] = r
    BY <2>1 DEF IInv, TypeOK
  <2>8. TokenSpent' /\ RoleKnown' /\ ViewersOnlyRead' /\ SeenBefore'
    BY <2>2, <2>3, <2>4, <2>6, <2>7 DEF IInv, TokenSpent, RoleKnown, ViewersOnlyRead, SeenBefore
  <2>9. QED
    BY <2>5, <2>8 DEF IInv
<1>4. QED
  BY <1>1, <1>2, <1>3, QuietSteps, QuietInv DEF Served, IInv

\* A clock tick and a restart keep it.
LEMMA OutsideInv == ASSUME IInv, Tick \/ Restart PROVE IInv'
<1>1. CASE Tick
  BY <1>1 DEF IInv, TypeOK, Session, TokenSpent, RoleKnown, ViewersOnlyRead, SeenBefore, Tick
<1>2. CASE Restart
  <2>1. \A t \in Tokens : /\ store'[t] \in Session
                          /\ store'[t].role = store[t].role /\ store'[t].seen = store[t].seen
                          /\ store[t].st # "unused" => store'[t].st # "unused"
    BY <1>2, SMTT(20) DEF IInv, TypeOK, Session, Restart
  <2>2. UNCHANGED <<now, held, users, keys, granted>>
    BY <1>2 DEF Restart
  <2>3. TypeOK'
    <3>1. store' \in [Tokens -> Session]
      BY <1>2, <2>1 DEF Restart
    <3>2. req' \in [Handlers -> Request]
      BY <1>2, IdleType DEF Restart
    <3>3. restarts' \in Nat
      BY <1>2 DEF IInv, TypeOK, Restart
    <3>4. QED
      BY <2>2, <3>1, <3>2, <3>3 DEF IInv, TypeOK
  <2>4. \A h \in Handlers : req'[h].pc = "idle"
    BY <1>2 DEF Restart, Idle
  <2>5. held \subseteq Tokens
    BY DEF IInv, TypeOK
  <2>6. TokenSpent' /\ RoleKnown' /\ ViewersOnlyRead' /\ SeenBefore'
    BY <2>1, <2>2, <2>4, <2>5 DEF IInv, TokenSpent, RoleKnown, ViewersOnlyRead, SeenBefore
  <2>7. QED
    BY <2>3, <2>6 DEF IInv
<1>3. QED
  BY <1>1, <1>2

LEMMA NextInv == ASSUME IInv, [Next]_vars PROVE IInv'
<1>1. ASSUME NEW t \in Tokens, Logout(t) PROVE IInv'
  BY <1>1, RemoveInv DEF Logout
<1>2. CASE UNCHANGED vars
  BY <1>2 DEF vars, IInv, TypeOK, TokenSpent, RoleKnown, ViewersOnlyRead, SeenBefore
<1>3. QED
  BY <1>1, <1>2, LoginInv, RequestInv, OutsideInv DEF Next

LEMMA Invariance == Spec => []IInv
  BY InitInv, NextInv, PTL DEF Spec

\* Types (every table and map of the store, security.go and db/).
THEOREM Types == Spec => []TypeOK
<1>1. IInv => TypeOK
  BY DEF IInv
<1>2. QED
  BY <1>1, Invariance, PTL

\* Whatever is changed on behalf of a cookie is changed for a login whose credentials were not a
\* viewer's, for every number of requests, sessions and users (handleLoginSubmit, authMiddleware
\* and isSuperuser).
THEOREM ViewersNeverChange == Spec => []ViewersOnlyRead
<1>1. IInv => ViewersOnlyRead
  BY DEF IInv
<1>2. QED
  BY <1>1, Invariance, PTL
-----------------------------------------------------------------------------
(***************************************************************************)
(* The store implements LiveSessions.                                      *)
(***************************************************************************)

\* How long a session has been idle says what it is.
LEMMA IdleKind ==
    ASSUME TypeOK, SeenBefore, NEW t \in Tokens
    PROVE  /\ IdleOf(t) = New <=> store[t].st = "unused"
           /\ IdleOf(t) \in 0 .. TTL <=> Found(t)
           /\ IdleOf(t) = Over <=> store[t].st # "unused" /\ ~Found(t)
           /\ Found(t) => IdleOf(t) = now - store[t].seen
<1>1. store[t].st \in {"unused", "live", "gone"} /\ store[t].seen \in Nat /\ store[t].seen <= now
  BY DEF TypeOK, Session, SeenBefore
<1>2. TTL \in Nat /\ now \in Nat
  BY AccessAssumption DEF TypeOK
<1>3. QED
  BY <1>1, <1>2 DEF IdleOf, New, Over, Found, InMap, Expired

\* Where the state and the time of no session change, nor does the clock, nothing is seen.
LEMMA SameIdle ==
    ASSUME now' = now, \A t \in Tokens : store'[t].st = store[t].st /\ store'[t].seen = store[t].seen
    PROVE  [t \in Tokens |-> IdleOf(t)]' = [t \in Tokens |-> IdleOf(t)]
  BY DEF IdleOf, InMap, Expired

\* A session that leaves the map was closed, or was over already.
LEMMA RemoveIsClose ==
    ASSUME IInv, NEW t \in Tokens, RemoveSession(t), InMap(t), now' = now
    PROVE  [Live!Next]_([u \in Tokens |-> IdleOf(u)])
<1>1. store' = [store EXCEPT ![t] = [@ EXCEPT !.st = "gone"]] /\ store[t] \in Session
  BY DEF RemoveSession, IInv, TypeOK
<1>2. \A u \in Tokens : u # t => IdleOf(u)' = IdleOf(u)
  BY <1>1 DEF IInv, TypeOK, IdleOf, InMap, Expired
<1>3. IdleOf(t)' = Over
  BY <1>1 DEF IInv, TypeOK, Session, IdleOf, InMap
<1>4. CASE Found(t)
  <2>1. IdleOf(t) \in 0 .. TTL
    BY <1>4, IdleKind DEF IInv
  <2>2. Live!Close(t)
    BY <1>2, <1>3, <2>1 DEF Live!Close, Live!Good
  <2>3. QED
    BY <2>2 DEF Live!Next
<1>5. CASE ~Found(t)
  <2>1. IdleOf(t) = Over
    BY <1>5, IdleKind DEF IInv, InMap
  <2>2. QED
    BY <1>2, <1>3, <2>1
<1>6. QED
  BY <1>4, <1>5

LEMMA InitLive == Init => Live!Init
  BY DEF Init, Live!Init, IdleOf

\* A login opens the session when it puts it into the store.
LEMMA CreateIsOpen ==
    ASSUME IInv, NEW h \in Handlers, NEW t \in Tokens, CreateSession(h, t)
    PROVE  Live!Open(t)
<1>1. store[t].st = "unused" /\ now' = now
  BY DEF CreateSession
<1>2. store' = [Swept EXCEPT ![t] = [st |-> "live", seen |-> now, user |-> Admin, role |-> "admin"]]
  BY DEF CreateSession
<1>3. ASSUME NEW u \in Tokens, u # t PROVE IdleOf(u)' = IdleOf(u)
  <2>1. store'[u] = IF InMap(u) /\ Expired(store[u]) THEN [store[u] EXCEPT !.st = "gone"]
                    ELSE store[u]
    BY <1>2, <1>3 DEF Swept
  <2>2. store[u] \in Session
    BY DEF IInv, TypeOK
  <2>3. QED
    BY <1>1, <2>1, <2>2 DEF IdleOf, InMap, Expired, Session
<1>4. IdleOf(t) = New
  BY <1>1 DEF IdleOf
<1>5. IdleOf(t)' = 0
  <2>1. store'[t] = [st |-> "live", seen |-> now, user |-> Admin, role |-> "admin"]
    BY <1>2 DEF Swept
  <2>2. now \in Nat /\ TTL \in Nat
    BY AccessAssumption DEF IInv, TypeOK
  <2>3. QED
    BY <1>1, <2>1, <2>2 DEF IdleOf, InMap, Expired
<1>6. QED
  BY <1>3, <1>4, <1>5 DEF Live!Open

\* A request with a good session uses it.
LEMMA AdmitIsUse ==
    ASSUME IInv, NEW h \in Handlers, NEW t \in Tokens, NEW op \in Ops, AdmitSession(h, t, op)
    PROVE  Live!Use(t)
<1>1. Found(t) /\ now' = now /\ store' = [store EXCEPT ![t] = [@ EXCEPT !.seen = now]]
  BY DEF AdmitSession
<1>2. store[t] \in Session /\ now \in Nat /\ TTL \in Nat
  BY AccessAssumption DEF IInv, TypeOK
<1>3. \A u \in Tokens : u # t => IdleOf(u)' = IdleOf(u)
  BY <1>1 DEF IInv, TypeOK, IdleOf, InMap, Expired
<1>4. IdleOf(t)' = 0
  BY <1>1, <1>2 DEF IInv, TypeOK, IdleOf, InMap, Expired, Found, Session
<1>5. IdleOf(t) \in 0 .. TTL
  BY <1>1, IdleKind DEF IInv
<1>6. QED
  BY <1>3, <1>4, <1>5 DEF Live!Use, Live!Good

\* The clock passes.
LEMMA TickIsPass == ASSUME IInv, Tick PROVE Live!Pass
<1>1. ASSUME NEW t \in Tokens
      PROVE  IdleOf(t)' = IF ~(IdleOf(t) \in 0 .. TTL) THEN IdleOf(t)
                          ELSE IF IdleOf(t) = TTL THEN Over ELSE IdleOf(t) + 1
  <2>1. /\ store[t].st \in {"unused", "live", "gone"} /\ store[t].seen \in Nat
        /\ store[t].seen <= now
    BY DEF IInv, TypeOK, Session, SeenBefore
  <2>2. TTL \in Nat /\ now \in Nat
    BY AccessAssumption DEF IInv, TypeOK
  <2>3. now' = now + 1 /\ store' = store
    BY DEF Tick
  <2>4. QED
    BY <2>1, <2>2, <2>3 DEF IdleOf, New, Over, InMap, Expired
<1>2. QED
  BY <1>1 DEF Live!Pass, Live!Good

\* The server stops.
LEMMA RestartIsStop == ASSUME IInv, Restart PROVE Live!Stop
<1>1. ASSUME NEW t \in Tokens
      PROVE  IdleOf(t)' = IF IdleOf(t) = New THEN New ELSE Over
  <2>1. store[t] \in Session
    BY DEF IInv, TypeOK
  <2>2. store'[t].st = IF store[t].st = "unused" THEN "unused" ELSE "gone"
    BY <2>1 DEF Restart, Session
  <2>3. IdleOf(t) = New <=> store[t].st = "unused"
    BY IdleKind DEF IInv
  <2>4. QED
    BY <2>2, <2>3 DEF IdleOf, InMap
<1>2. QED
  BY <1>1 DEF Live!Stop

\* Every step of the store is a step of the sessions, or is not seen.
LEMMA NextLive ==
    ASSUME IInv, [Next]_vars PROVE [Live!Next]_([t \in Tokens |-> IdleOf(t)])
<1>1. ASSUME NEW h \in Handlers, LoginSteps(h)
      PROVE  [Live!Next]_([t \in Tokens |-> IdleOf(t)])
  <2>1. CASE LoginCheck(h) \/ \E t \in Tokens : SetCookie(h, t)
    BY <2>1, SameIdle DEF LoginCheck, SetCookie
  <2>2. ASSUME NEW t \in Tokens, FillRole(h, t)
        PROVE  \A u \in Tokens : store'[u].st = store[u].st /\ store'[u].seen = store[u].seen
    BY <2>2 DEF IInv, TypeOK, Session, FillRole
  <2>3. CASE \E t \in Tokens : FillRole(h, t)
    BY <2>2, <2>3, SameIdle DEF FillRole
  <2>4. CASE \E t \in Tokens : CreateSession(h, t)
    BY <2>4, CreateIsOpen DEF Live!Next
  <2>5. QED
    BY <1>1, <2>1, <2>3, <2>4 DEF LoginSteps
<1>2. ASSUME NEW h \in Handlers, Served(h)
      PROVE  [Live!Next]_([t \in Tokens |-> IdleOf(t)])
  <2>1. CASE \E t \in Tokens, op \in Ops : AdmitSession(h, t, op)
    BY <2>1, AdmitIsUse DEF Live!Next
  <2>2. CASE \E t \in Tokens : RejectExpired(h, t) \/ RevokeSession(h, t)
    BY <2>2, RemoveIsClose DEF RejectExpired, RevokeSession, Found
  <2>3. CASE \E k \in ApiKeys, op \in Ops : AdmitKey(h, k, op)
    BY <2>3, SameIdle DEF AdmitKey
  <2>4. CASE Quiet(h)
    BY <2>4, SameIdle DEF Quiet
  <2>5. QED
    BY <1>2, <2>1, <2>2, <2>3, <2>4, QuietSteps DEF Served, IInv
<1>3. ASSUME NEW t \in Tokens, Logout(t)
      PROVE  [Live!Next]_([u \in Tokens |-> IdleOf(u)])
  BY <1>3, RemoveIsClose DEF Logout
<1>4. CASE Tick
  BY <1>4, TickIsPass DEF Live!Next
<1>5. CASE Restart
  BY <1>5, RestartIsStop DEF Live!Next
<1>6. CASE UNCHANGED vars
  BY <1>6, SameIdle DEF vars
<1>7. QED
  BY <1>1, <1>2, <1>3, <1>4, <1>5, <1>6 DEF Next

\* The store, swept only by logins and lookups, behaves as sessions that end on time and stay
\* over: a session is good from its login until it is closed, the server stops, or it has been
\* idle for longer than TTL (SessionStore.Create, Get, Revoke and List, security.go).
THEOREM StoreImplementsSessions == Spec => SessionsEndOnTime
<1>1. IInv /\ [Next]_vars => [Live!Next]_([t \in Tokens |-> IdleOf(t)])
  BY NextLive
<1>2. QED
  BY InitLive, <1>1, Invariance, PTL DEF Spec, SessionsEndOnTime, Live!Spec
=============================================================================
