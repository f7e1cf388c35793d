------------------------------ MODULE Server_proofs ------------------------------
(***************************************************************************)
(* Proofs about what goes on behind the requests: the tasks, the session,  *)
(* the wizards, the jobs of the mirror, the listeners, the update and the  *)
(* look for one, for any number of calls, logins, wizards, files, buttons, *)
(* saves and restarts.  Every part has an inductive invariant of its own;  *)
(* the last section puts them together for the specification the run       *)
(* checks.                                                                 *)
(***************************************************************************)
EXTENDS MCServer, TLAPS, FiniteSetTheorems

-----------------------------------------------------------------------------
(* Dispatch: only a call that nobody has taken offers its task, and the    *)
(* worker that took it is the only one that answers.                       *)

\* Where call c is tells what has become of its function.
CallOf(c) ==
    /\ executed[c] \in {0, 1}
    /\ pc[c] \in {"idle", "send"} => executed[c] = 0
    /\ pc[c] = "wait" => executed[c] = 1
    /\ answer[c] # "none" => executed[c] = 1
    /\ result[c] # "none" => pc[c] = "returned"
    /\ result[c] \in {"ok", "error"} => answer[c] = result[c]
    /\ result[c] = "offline" => executed[c] = 0

\* The worker of run g is alone with the call it executes.
WorkerOf(g) == task[g] # Nobody =>
    /\ executed[task[g]] = 1
    /\ pc[task[g]] \in {"wait", "returned"}
    /\ answer[task[g]] = "none"
    /\ \A h \in Runs : task[h] = task[g] => h = g

\* Before a run connects it has no worker.
Unconnected == \A g \in Runs : /\ session[g] \in {"none", "connecting"} => worker[g] = "none"
                               /\ g > run => session[g] = "none"

DispatchCore == /\ Unconnected
                /\ RunsTyped /\ CallsTyped /\ OneSession
                /\ \A c \in Calls : CallOf(c)
                /\ \A g \in Runs : WorkerOf(g)

DispatchInv == running \in BOOLEAN /\ DispatchCore
-----------------------------------------------------------------------------
\* Before the first run nothing is taken.
LEMMA DispatchInitInv == Init => DispatchInv
<1> SUFFICES ASSUME Init PROVE DispatchInv OBVIOUS
<1>1. running \in BOOLEAN BY DEF Init
<1>2. RunsTyped /\ OneSession /\ Unconnected
  BY DispatchAssumption DEF Init, RunsTyped, OneSession, Unconnected, Runs
<1>3. CallsTyped BY DEF Init, CallsTyped
<1>4. \A c \in Calls : CallOf(c) BY DEF Init, CallOf
<1>5. \A g \in Runs : WorkerOf(g) BY DEF Init, WorkerOf
<1> QED BY <1>1, <1>2, <1>3, <1>4, <1>5 DEF DispatchInv, DispatchCore

\* running stays a truth value.
LEMMA DispatchRunningInv == running \in BOOLEAN /\ [Next]_vars => running' \in BOOLEAN
BY DEF Next, Serve, RunStart, RunReturns, Connected, SessionEnds, Take, Finish, Exit,
       Call, GiveUp, Answered, vars

\* The types, as facts of their own.
LEMMA DispatchTyped ==
    ASSUME DispatchCore
    PROVE  /\ pc \in [Calls -> {"idle", "send", "wait", "returned"}]
           /\ executed \in [Calls -> Nat]
           /\ answer \in [Calls -> {"none", "ok", "error"}]
           /\ result \in [Calls -> {"none", "offline", "context", "ok", "error"}]
           /\ task \in [Runs -> Calls \cup {Nobody}]
BY DEF DispatchCore, RunsTyped, CallsTyped

\* Runs begin, connect, end and return: no call and no worker's task changes.
LEMMA DispatchRunInv ==
    ASSUME DispatchCore,
           RunStart \/ RunReturns \/ (\E g \in Runs : Connected(g) \/ SessionEnds(g) \/ Exit(g))
    PROVE  DispatchCore'
<1>1. UNCHANGED <<task, pc, executed, answer, result>>
  BY DEF RunStart, RunReturns, Connected, SessionEnds, Exit
<1>2. CallsTyped' /\ (\A c \in Calls : CallOf(c)') /\ (\A g \in Runs : WorkerOf(g)')
  BY <1>1 DEF DispatchCore, CallsTyped, CallOf, WorkerOf
<1>3. RunsTyped' /\ OneSession' /\ Unconnected'
  <2> USE DispatchAssumption DEF DispatchCore, RunsTyped, OneSession, Unconnected
  <2>1. CASE RunStart
    <3>1. run + 1 \in Runs /\ run + 1 \in 0..MaxRuns BY <2>1 DEF RunStart, Runs
    <3>2. \A g \in Runs : session[g] \notin {"connecting", "up"} BY <2>1 DEF RunStart
    <3>3. session[run + 1] = "none" /\ worker[run + 1] = "none" BY <3>1 DEF Runs
    <3>4. \A g \in Runs : session'[g] = IF g = run + 1 THEN "connecting" ELSE session[g]
      BY <2>1, <3>1 DEF RunStart
    <3> QED BY <2>1, <3>1, <3>2, <3>3, <3>4 DEF RunStart, Runs
  <2>2. CASE RunReturns BY <2>2 DEF RunReturns
  <2>3. ASSUME NEW g \in Runs, Connected(g) PROVE RunsTyped' /\ OneSession' /\ Unconnected'
    BY <2>3 DEF Connected
  <2>4. ASSUME NEW g \in Runs, SessionEnds(g) PROVE RunsTyped' /\ OneSession' /\ Unconnected'
    BY <2>4 DEF SessionEnds
  <2>5. ASSUME NEW g \in Runs, Exit(g) PROVE RunsTyped' /\ OneSession' /\ Unconnected'
    BY <2>5 DEF Exit
  <2> QED BY <2>1, <2>2, <2>3, <2>4, <2>5
<1> QED BY <1>2, <1>3 DEF DispatchCore

\* A call begins, gives up or takes its answer: its own place and result change.
LEMMA DispatchCallInv ==
    ASSUME DispatchCore, NEW c \in Calls, Call(c) \/ GiveUp(c) \/ Answered(c)
    PROVE  DispatchCore'
<1>0. CallOf(c) BY DEF DispatchCore
<1>1. UNCHANGED <<running, run, session, worker, task, executed, answer>>
  BY DEF Call, GiveUp, Answered
<1>2. PICK p \in {"send", "returned"}, r \in {"none", "offline", "context", "ok", "error"} :
        /\ pc' = [pc EXCEPT ![c] = p] /\ result' = [result EXCEPT ![c] = r]
        /\ r # "none" <=> p = "returned"
        /\ p = "send" => pc[c] = "idle"
        /\ r \in {"ok", "error"} => answer[c] = r
        /\ r = "offline" => pc[c] = "idle"
  <2>1. CASE Call(c) /\ running
    <3>1. result[c] = "none" BY <1>0, <2>1 DEF Call, CallOf
    <3>2. result' = [result EXCEPT ![c] = "none"] BY <2>1, <3>1, DispatchTyped DEF Call
    <3> QED BY <2>1, <3>2 DEF Call
  <2>2. CASE Call(c) /\ ~running BY <2>2 DEF Call, Return
  <2>3. CASE GiveUp(c) BY <2>3 DEF GiveUp, Return
  <2>4. CASE Answered(c)
    <3>1. answer[c] \in {"ok", "error"} BY <2>4, DispatchTyped DEF Answered
    <3> QED BY <2>4, <3>1 DEF Answered, Return
  <2> QED BY <2>1, <2>2, <2>3, <2>4
<1>3. /\ pc'[c] = p /\ result'[c] = r
      /\ \A d \in Calls \ {c} : pc'[d] = pc[d] /\ result'[d] = result[d]
  BY <1>2, DispatchTyped
<1>4. RunsTyped' /\ CallsTyped' /\ OneSession' /\ Unconnected'
  BY <1>1, <1>2 DEF DispatchCore, RunsTyped, CallsTyped, OneSession, Unconnected
<1>5. CallOf(c)' BY <1>0, <1>1, <1>2, <1>3 DEF CallOf
<1>6. \A d \in Calls \ {c} : CallOf(d)' BY <1>1, <1>3 DEF DispatchCore, CallOf
<1>7. \A g \in Runs : WorkerOf(g)'
  <2> TAKE g \in Runs
  <2>1. WorkerOf(g) BY DEF DispatchCore
  <2>2. CASE task[g] = c
    <3>1. c # Nobody BY DispatchAssumption
    <3>2. executed[c] = 1 BY <2>1, <2>2, <3>1 DEF WorkerOf
    <3>3. pc[c] # "idle" BY <1>0, <3>2 DEF CallOf
    <3>4. p = "returned" BY <1>2, <3>3
    <3> QED BY <1>1, <1>3, <2>1, <2>2, <3>4 DEF WorkerOf
  <2>3. CASE task[g] # c BY <1>1, <1>3, <2>1, <2>3, DispatchTyped DEF WorkerOf
  <2> QED BY <2>2, <2>3
<1> QED BY <1>4, <1>5, <1>6, <1>7 DEF DispatchCore

\* A ready worker takes a call: nobody has executed it before.
LEMMA DispatchTakeInv ==
    ASSUME DispatchCore, NEW g \in Runs, NEW c \in Calls, Take(g, c)
    PROVE  DispatchCore'
<1>0. CallOf(c) /\ c # Nobody BY DispatchAssumption DEF DispatchCore
<1>1. executed[c] = 0 /\ answer[c] = "none" /\ result[c] = "none" BY <1>0, DispatchTyped DEF Take,
      CallOf
<1>2. /\ executed'[c] = 1 /\ pc'[c] = "wait" /\ task'[g] = c
      /\ \A d \in Calls \ {c} : executed'[d] = executed[d] /\ pc'[d] = pc[d]
      /\ \A h \in Runs \ {g} : task'[h] = task[h]
      /\ UNCHANGED <<running, run, session, answer, result>>
  BY <1>1, DispatchTyped DEF Take
<1>3. \A h \in Runs : task[h] # c
  BY <1>0, <1>1, DispatchTyped DEF DispatchCore, WorkerOf
<1>4. RunsTyped' /\ CallsTyped' /\ OneSession' /\ Unconnected'
  BY <1>0, <1>1, <1>2 DEF Take, DispatchCore, RunsTyped, CallsTyped, OneSession, Unconnected
<1>5. \A d \in Calls : CallOf(d)' BY <1>0, <1>1, <1>2 DEF DispatchCore, CallOf
<1>6. \A h \in Runs : WorkerOf(h)' BY <1>0, <1>1, <1>2, <1>3, DispatchTyped DEF DispatchCore,
      WorkerOf
<1> QED BY <1>4, <1>5, <1>6 DEF DispatchCore

\* The worker answers the call it has taken, once.
LEMMA DispatchFinishInv ==
    ASSUME DispatchCore, NEW g \in Runs, NEW r \in {"ok", "error"}, Finish(g, r)
    PROVE  DispatchCore'
<1> DEFINE c == task[g]
<1>0. c \in Calls /\ CallOf(c) /\ WorkerOf(g) /\ c # Nobody
  BY DispatchAssumption, DispatchTyped DEF Finish, DispatchCore, RunsTyped, CallsTyped,
                                           OneSession, Unconnected
<1>1. executed[c] = 1 /\ pc[c] \in {"wait", "returned"} /\ answer[c] = "none"
  BY <1>0 DEF WorkerOf
<1>2. result[c] \notin {"ok", "error"} BY <1>0, <1>1 DEF CallOf
<1>3. /\ answer'[c] = r /\ task'[g] = Nobody
      /\ \A d \in Calls \ {c} : answer'[d] = answer[d]
      /\ \A h \in Runs \ {g} : task'[h] = task[h]
      /\ UNCHANGED <<running, run, session, pc, executed, result>>
  BY <1>0, DispatchTyped DEF Finish
<1>4. RunsTyped' /\ CallsTyped' /\ OneSession' /\ Unconnected'
  BY <1>0, <1>3 DEF Finish, DispatchCore, RunsTyped, CallsTyped, OneSession, Unconnected
<1>5. \A d \in Calls : CallOf(d)' BY <1>1, <1>2, <1>3 DEF DispatchCore, CallOf
<1>6. \A h \in Runs \ {g} : task[h] # c BY <1>0 DEF WorkerOf
<1>7. \A h \in Runs : WorkerOf(h)'
  <2> TAKE h \in Runs
  <2>1. CASE h = g BY <2>1, <1>3 DEF WorkerOf
  <2>2. CASE h # g
    <3>1. WorkerOf(h) /\ task[h] # c /\ task'[h] = task[h] BY <2>2, <1>3, <1>6 DEF DispatchCore
    <3> QED BY <3>1, <1>3, DispatchTyped DEF WorkerOf
  <2> QED BY <2>1, <2>2
<1> QED BY <1>4, <1>5, <1>7 DEF DispatchCore

LEMMA DispatchNextInv == ASSUME DispatchInv, [Next]_vars PROVE DispatchInv'
<1>1. running' \in BOOLEAN BY DispatchRunningInv DEF DispatchInv
<1>2. CASE UNCHANGED vars
  BY <1>2 DEF DispatchInv, DispatchCore, RunsTyped, CallsTyped, OneSession, Unconnected, CallOf,
              WorkerOf, vars
<1>3. CASE Next
  BY <1>1, <1>3, DispatchRunInv, DispatchCallInv, DispatchTakeInv, DispatchFinishInv
     DEF DispatchInv, Next, Serve
<1> QED BY <1>2, <1>3

\* The function of a call runs at most once, and what Do returns tells whether it ran.
LEMMA DispatchOnce == DispatchInv => ExecutedOnce
<1> SUFFICES ASSUME DispatchCore, NEW c \in Calls
             PROVE  /\ executed[c] <= 1
                    /\ result[c] \in {"ok", "error"} => executed[c] = 1 /\ answer[c] = result[c]
                    /\ result[c] = "offline" => executed[c] = 0
  BY DEF ExecutedOnce, DispatchInv
<1> QED BY DEF DispatchCore, CallOf

\* No function goes on behind the back of a caller that has its answer.
LEMMA DispatchOver == DispatchInv => AnsweredIsOver
<1> SUFFICES ASSUME DispatchCore, NEW c \in Calls, result[c] \in {"ok", "error"}, NEW g \in Runs
             PROVE  task[g] # c
  BY DEF AnsweredIsOver, Executing, DispatchInv
<1>1. answer[c] # "none" /\ c # Nobody BY DispatchAssumption DEF DispatchCore, CallOf
<1> QED BY <1>1 DEF DispatchCore, WorkerOf

-----------------------------------------------------------------------------
(* SessionHandoff: a write is accepted on the evidence of the remembered   *)
(* ciphertext alone, so what has to be known is that the client that writes*)
(* uses the key of that ciphertext: KeyLoaded.                             *)

HandoffConnected(p) == at[p] \in {"connect", "write", "run"}

\* A connected client has loaded, and uses the key of what its storage remembers.
KeyLoaded == \A p \in Handoff!Procs :
    HandoffConnected(p) => observed[p] /\ (loaded[p] # None => loaded[p].key = key[p])

HandoffInv == Handoff!TypeOK /\ KeyLoaded

\* The step form of SessionNotClobbered.
KeepsKey == stored # None /\ stored' # None => stored'.key = stored.key
-----------------------------------------------------------------------------
\* The first state: no process is connected.
LEMMA HandoffInitInv == ASSUME Handoff!SessionAssumption PROVE Handoff!Init => HandoffInv
<1> SUFFICES ASSUME Handoff!Init PROVE HandoffInv OBVIOUS
<1>1. stored \in Handoff!Ciphertext BY DEF Handoff!Init, Handoff!Ciphertext
<1>2. Server \in Handoff!Procs /\ \A p \in Handoff!Procs : at[p] \in {"load", "off"}
  BY DEF Handoff!Init, Handoff!Procs
<1>3. KeyLoaded BY <1>2 DEF KeyLoaded, HandoffConnected
<1>4. Handoff!TypeOK BY <1>1 DEF Handoff!Init, Handoff!TypeOK
<1> QED BY <1>3, <1>4 DEF HandoffInv

\* Remembering a ciphertext with the key the client uses keeps the invariant.
LEMMA HandoffRememberInv ==
    ASSUME HandoffInv, NEW p \in Handoff!Procs, NEW c \in Handoff!Ciphertext \cup {None},
          NEW k \in Nat,
           NEW place \in {"connect", "run"},
           Handoff!Remember(p, c), key' = [key EXCEPT ![p] = k], Handoff!Goto(p, place),
           c # None => c.key = k
    PROVE  KeyLoaded' /\ loaded' \in [Handoff!Procs -> Handoff!Ciphertext \cup {None}]
           /\ observed' \in [Handoff!Procs -> BOOLEAN] /\ key' \in [Handoff!Procs -> Nat]
           /\ at' \in [Handoff!Procs -> {"off", "load", "connect", "write", "run", "ended", "done"}]
           /\ \A q \in Handoff!Procs : ~observed'[q] => loaded'[q] = None
BY DEF HandoffInv, Handoff!TypeOK, KeyLoaded, HandoffConnected, Handoff!Remember, Handoff!Goto

\* Loading: the client takes the key of the row, or makes one.
LEMMA HandoffLoadInv ==
    ASSUME HandoffInv, NEW p \in Handoff!Procs, Handoff!LoadNone(p) \/ Handoff!LoadStored(p)
    PROVE  HandoffInv'
<1>1. CASE Handoff!LoadNone(p)
  <2>1. keys + 1 \in Nat BY DEF HandoffInv, Handoff!TypeOK
  <2>2. Handoff!Remember(p, None) /\ key' = [key EXCEPT ![p] = keys + 1]
        /\ Handoff!Goto(p, "connect")
    BY <1>1 DEF Handoff!LoadNone
  <2> QED BY <2>1, <2>2, <1>1, HandoffRememberInv DEF HandoffInv, Handoff!TypeOK, Handoff!LoadNone
<1>2. CASE Handoff!LoadStored(p)
  <2>1. stored \in Handoff!Ciphertext /\ stored.key \in Nat
    BY <1>2 DEF Handoff!LoadStored, HandoffInv, Handoff!TypeOK, Handoff!Ciphertext
  <2>2. Handoff!Remember(p, stored) /\ key' = [key EXCEPT ![p] = stored.key]
        /\ Handoff!Goto(p, "connect")
    BY <1>2 DEF Handoff!LoadStored
  <2> QED BY <2>1, <2>2, <1>2, HandoffRememberInv DEF HandoffInv, Handoff!TypeOK, Handoff!LoadStored
<1> QED BY <1>1, <1>2

\* Saving: the new ciphertext holds the key of the client.
LEMMA HandoffStoreInv ==
    ASSUME HandoffInv, NEW p \in Handoff!Procs, Handoff!StoreWrite(p)
    PROVE  HandoffInv'
<1> DEFINE c == [key |-> key[p], n |-> nonces + 1, foreign |-> Handoff!IsForeign(p)]
<1>1. c \in Handoff!Ciphertext /\ c.key = key[p] /\ key[p] \in Nat BY DEF HandoffInv,
      Handoff!TypeOK, Handoff!Ciphertext, Handoff!IsForeign
<1>2. CASE Handoff!MayWrite(p)
  <2>1. stored' = c /\ Handoff!Remember(p, c) /\ Handoff!Goto(p, "run")
        /\ key' = [key EXCEPT ![p] = key[p]]
    BY <1>2 DEF Handoff!StoreWrite, HandoffInv, Handoff!TypeOK
  <2> HIDE DEF c
  <2>2. nonces' \in Nat /\ UNCHANGED <<keys, resaves, removals, lost>>
    BY DEF Handoff!StoreWrite, HandoffInv, Handoff!TypeOK
  <2> QED BY <1>1, <2>1, <2>2, HandoffRememberInv DEF HandoffInv, Handoff!TypeOK
<1>3. CASE ~Handoff!MayWrite(p)
  BY <1>3 DEF HandoffInv, Handoff!TypeOK, KeyLoaded, HandoffConnected, Handoff!StoreWrite,
              Handoff!Goto
<1> QED BY <1>2, <1>3

\* Every other step of a process leaves keys and remembered ciphertexts alone.
LEMMA HandoffOtherInv ==
    ASSUME HandoffInv, NEW p \in Handoff!Procs,
           \/ Handoff!LoadFails(p) \/ Handoff!StoreCheck(p) \/ Handoff!Resave(p)
           \/ Handoff!Login(p) \/ Handoff!Logout
    PROVE  HandoffInv'
<1>1. CASE Handoff!LoadFails(p)
  BY <1>1 DEF HandoffInv, Handoff!TypeOK, KeyLoaded, HandoffConnected, Handoff!LoadFails,
              Handoff!Goto
<1>2. CASE Handoff!StoreCheck(p)
  BY <1>2 DEF HandoffInv, Handoff!TypeOK, KeyLoaded, HandoffConnected, Handoff!StoreCheck,
              Handoff!Goto
<1>3. CASE Handoff!Resave(p)
  BY <1>3 DEF HandoffInv, Handoff!TypeOK, KeyLoaded, HandoffConnected, Handoff!Resave, Handoff!Goto
<1>4. CASE Handoff!LoginStart(p) \/ Handoff!LoginReset(p)
  BY <1>4 DEF HandoffInv, Handoff!TypeOK, KeyLoaded, HandoffConnected, Handoff!LoginStart,
              Handoff!LoginReset, Handoff!RemoveRow, Handoff!Goto
<1>5. CASE Handoff!LoginPaired(p) \/ Handoff!LoginFails(p)
  BY <1>5 DEF HandoffInv, Handoff!TypeOK, KeyLoaded, HandoffConnected, Handoff!LoginPaired,
              Handoff!LoginFails, Handoff!Goto
<1>6. CASE Handoff!Logout
  BY <1>6 DEF HandoffInv, Handoff!TypeOK, KeyLoaded, HandoffConnected, Handoff!Logout,
              Handoff!RemoveRow
<1> QED BY <1>1, <1>2, <1>3, <1>4, <1>5, <1>6 DEF Handoff!Login

\* The runner loop: what is forgotten belongs to a client that has ended.
LEMMA HandoffRunnerInv == ASSUME HandoffInv, Handoff!Runner PROVE HandoffInv'
<1> Server \in Handoff!Procs BY DEF Handoff!Procs
<1>1. CASE Handoff!WatchTick
  BY <1>1 DEF HandoffInv, Handoff!TypeOK, KeyLoaded, HandoffConnected, Handoff!WatchTick,
              Handoff!Goto
<1>2. CASE Handoff!Reload
  BY <1>2 DEF HandoffInv, Handoff!TypeOK, KeyLoaded, HandoffConnected, Handoff!Reload,
              Handoff!Forget, Handoff!Goto
<1>3. CASE Handoff!RunnerStops
  BY <1>3 DEF HandoffInv, Handoff!TypeOK, KeyLoaded, HandoffConnected, Handoff!RunnerStops,
              Handoff!Goto
<1> QED BY <1>1, <1>2, <1>3 DEF Handoff!Runner

LEMMA HandoffNextInv == ASSUME HandoffInv, [Handoff!Next]_(Handoff!vars) PROVE HandoffInv'
<1>1. CASE UNCHANGED Handoff!vars
  BY <1>1 DEF HandoffInv, Handoff!TypeOK, KeyLoaded, HandoffConnected, Handoff!vars
<1>2. CASE Handoff!Next
  BY <1>2, HandoffLoadInv, HandoffStoreInv, HandoffOtherInv, HandoffRunnerInv
     DEF Handoff!Next, Handoff!Client, Handoff!Procs
<1> QED BY <1>1, <1>2

\* A step that writes the row writes the key that was there.
LEMMA StoreKeepsKey ==
    ASSUME HandoffInv, NEW p \in Handoff!Procs, Handoff!StoreWrite(p) PROVE KeepsKey
<1>1. HandoffConnected(p) /\ observed[p] BY DEF HandoffInv, KeyLoaded, HandoffConnected,
                                                Handoff!StoreWrite
<1>2. CASE Handoff!MayWrite(p)
  <2>1. stored = loaded[p] BY <1>1, <1>2 DEF Handoff!MayWrite
  <2>2. stored'.key = key[p] BY <1>2 DEF Handoff!StoreWrite
  <2> QED BY <1>1, <2>1, <2>2 DEF HandoffInv, KeyLoaded, KeepsKey
<1>3. CASE ~Handoff!MayWrite(p) BY <1>3 DEF Handoff!StoreWrite, KeepsKey
<1> QED BY <1>2, <1>3

\* A step of the storage keeps the key of a stored session.
LEMMA HandoffKeeps ==
    ASSUME HandoffInv, [Handoff!Next]_(Handoff!vars) PROVE [KeepsKey]_(Handoff!vars)
<1> SUFFICES ASSUME HandoffInv, Handoff!Next PROVE KeepsKey BY DEF Handoff!vars
<1>1. ASSUME NEW p \in Handoff!Procs,
      Handoff!Client(p) \/ Handoff!Resave(p) \/ Handoff!Login(p) PROVE KeepsKey
  <2>1. CASE Handoff!StoreWrite(p) BY <2>1, StoreKeepsKey
  <2>2. CASE ~Handoff!StoreWrite(p)
    BY <1>1, <2>2 DEF Handoff!Client, Handoff!LoadNone, Handoff!LoadStored, Handoff!LoadFails,
                      Handoff!StoreCheck, Handoff!Resave, Handoff!Login,
       Handoff!LoginStart, Handoff!LoginReset, Handoff!RemoveRow, Handoff!LoginPaired,
             Handoff!LoginFails, KeepsKey
  <2> QED BY <2>1, <2>2
<1>2. CASE Handoff!Logout BY <1>2 DEF Handoff!Logout, Handoff!RemoveRow, KeepsKey
<1>3. CASE Handoff!Runner
  BY <1>3 DEF Handoff!Runner, Handoff!WatchTick, Handoff!Reload, Handoff!RunnerStops, KeepsKey
<1> QED BY <1>1, <1>2, <1>3 DEF Handoff!Next

-----------------------------------------------------------------------------
(* Wizard: HonestSuccess is not inductive, for a callback of a flow that   *)
(* goes on after a time-out writes a phase again.  LoginStage says which   *)
(* flow may run beside which state of the wait, so that there is none      *)
(* beside a success; LoginStopped says where a cancelled wizard may stand. *)

\* A flow begins when the task is taken; a wizard succeeds by a flow that has ended, or without
\* one.
LoginStage(w) ==
    /\ step[w] # "none" => wizardAt[w] \in {"taken", "over"}
    /\ outcome[w] # "none" => step[w] = "ended"
    /\ outcome[w] = "ok" => signedIn
    /\ seen[w] => signedIn
    /\ wiz[w].listed => wizardAt[w] \notin {"idle", "asked"}
    /\ wiz[w].success => /\ wiz[w].done /\ wiz[w].phase = "done" /\ signedIn
                         /\ wizardAt[w] = "over" /\ step[w] \in {"none", "ended"}

\* A cancelled wizard is done for, and holds nothing that was handed in.
LoginStopped(w) ==
    /\ wiz[w].done /\ ~wiz[w].code /\ ~wiz[w].password /\ ~wiz[w].listed
    /\ wizardAt[w] \notin {"idle", "asked"}

LoginInv == /\ Login!TypeOK
            /\ \A w \in Wizards : LoginStage(w)
            /\ \A w \in cancelled : LoginStopped(w)
-----------------------------------------------------------------------------
\* A step of one wizard leaves the states of the others alone, but may take them off the list.
LoginOnly(w) ==
    /\ \A v \in Wizards \ {w} : /\ wiz'[v] = wiz[v] \/ wiz'[v] = [wiz[v] EXCEPT !.listed = FALSE]
                                /\ wizardAt'[v] = wizardAt[v] /\ seen'[v] = seen[v]
                                /\ step'[v] = step[v] /\ outcome'[v] = outcome[v]
    /\ signedIn => signedIn'
    /\ cancelled' \subseteq cancelled \cup {w}

\* It remains to look at the wizard itself.
LEMMA LoginLocal ==
    ASSUME LoginInv, NEW w \in Wizards, LoginOnly(w), Login!TypeOK', LoginStage(w)',
          w \in cancelled' => LoginStopped(w)'
    PROVE  LoginInv'
<1>1. ASSUME NEW v \in Wizards, v # w PROVE LoginStage(v)'
  <2>1. wiz[v] \in Login!State /\ LoginStage(v)
    BY DEF LoginInv, Login!TypeOK
  <2>2. CASE wiz'[v] = wiz[v]
    BY <1>1, <2>1, <2>2 DEF LoginOnly, LoginStage
  <2>3. CASE wiz'[v] = [wiz[v] EXCEPT !.listed = FALSE]
    BY <1>1, <2>1, <2>3 DEF LoginOnly, LoginStage, Login!State
  <2>4. QED
    BY <1>1, <2>2, <2>3 DEF LoginOnly
<1>2. ASSUME NEW v \in cancelled', v # w PROVE LoginStopped(v)'
  <2>1. v \in Wizards /\ wiz[v] \in Login!State /\ LoginStopped(v)
    BY <1>2 DEF LoginInv, Login!TypeOK, LoginOnly
  <2>2. CASE wiz'[v] = wiz[v]
    BY <1>2, <2>1, <2>2 DEF LoginOnly, LoginStopped
  <2>3. CASE wiz'[v] = [wiz[v] EXCEPT !.listed = FALSE]
    BY <1>2, <2>1, <2>3 DEF LoginOnly, LoginStopped, Login!State
  <2>4. QED
    BY <1>2, <2>1, <2>2, <2>3 DEF LoginOnly
<1>3. QED
  BY <1>1, <1>2 DEF LoginInv

LEMMA LoginInitInv == ASSUME Login!WizardAssumption PROVE Login!Init => LoginInv
<1> SUFFICES ASSUME Login!Init PROVE LoginInv
  OBVIOUS
<1>1. Login!Fresh \in Login!State /\ ~Login!Fresh.success /\ ~Login!Fresh.listed
  BY DEF Login!Fresh, Login!State
<1>2. Login!TypeOK
  BY <1>1 DEF Login!WizardAssumption, Login!Init, Login!TypeOK
<1>3. QED
  BY <1>1, <1>2 DEF Login!Init, LoginInv, LoginStage
-----------------------------------------------------------------------------
\* WizardStart and run.
LEMMA LoginStartInv ==
    ASSUME Login!WizardAssumption, LoginInv, NEW w \in Wizards,
           Login!Ask(w) \/ Login!Start(w) \/ Login!Take(w) \/ Login!Finish(w) \/ Login!TimeOut(w)
    PROVE  LoginInv'
<1>1. wiz[w] \in Login!State /\ LoginStage(w) /\ (w \in cancelled => LoginStopped(w))
  BY DEF LoginInv, Login!TypeOK
<1>2. CASE Login!Ask(w)
  <2>1. \A v \in Wizards : wiz'[v] \in {wiz[v], [wiz[v] EXCEPT !.listed = FALSE]}
    BY <1>2 DEF Login!Ask
  <2>2. \A v \in Wizards : wiz'[v] \in Login!State
    <3>1. \A v \in Wizards : wiz[v] \in Login!State
      BY DEF LoginInv, Login!TypeOK
    <3>2. QED
      BY <2>1, <3>1, ZenonT(30) DEF Login!State
  <2>3. Login!TypeOK'
    BY <1>2, <2>2 DEF LoginInv, Login!TypeOK, Login!Ask
  <2>4. LoginOnly(w)
    BY <1>2, <2>1 DEF LoginInv, Login!TypeOK, Login!Ask, LoginOnly
  <2>5. /\ wizardAt[w] = "idle" /\ wizardAt'[w] = "asked"
        /\ step'[w] = step[w] /\ outcome'[w] = outcome[w]
        /\ seen'[w] => signedIn
        /\ signedIn' = signedIn /\ cancelled' = cancelled
    BY <1>2 DEF LoginInv, Login!TypeOK, Login!Ask
  <2>6. ~wiz'[w].listed /\ ~wiz'[w].success
    BY <1>1, <2>1, <2>5 DEF LoginStage, Login!State
  <2>7. LoginStage(w)' /\ (w \in cancelled' => LoginStopped(w)')
    BY <1>1, <2>5, <2>6 DEF LoginStage, LoginStopped
  <2>8. QED
    BY <2>3, <2>4, <2>7, LoginLocal
<1>3. CASE Login!Start(w)
  <2>1. [Login!Fresh EXCEPT !.phase = IF seen[w] THEN "done" ELSE "sending_code",
                      !.done = seen[w], !.success = seen[w], !.listed = TRUE] \in Login!State
    BY DEF LoginInv, Login!TypeOK, Login!State, Login!Fresh
  <2>2. Login!TypeOK'
    BY <1>3, <2>1 DEF LoginInv, Login!TypeOK, Login!Start
  <2>3. LoginOnly(w)
    BY <1>3 DEF LoginInv, Login!TypeOK, Login!Start, LoginOnly
  <2>4. LoginStage(w)' /\ (w \in cancelled' => LoginStopped(w)')
    BY <1>1, <1>3 DEF LoginInv, Login!TypeOK, Login!Start, LoginStage, LoginStopped, Login!Fresh
  <2>5. QED
    BY <2>2, <2>3, <2>4, LoginLocal
<1>4. CASE Login!Take(w)
  <2>1. Login!TypeOK'
    BY <1>4 DEF Login!WizardAssumption, LoginInv, Login!TypeOK, Login!Take
  <2>2. LoginOnly(w)
    BY <1>4 DEF LoginInv, Login!TypeOK, Login!Take, LoginOnly
  <2>3. LoginStage(w)' /\ (w \in cancelled' => LoginStopped(w)')
    BY <1>1, <1>4 DEF LoginInv, Login!TypeOK, Login!Take, LoginStage, LoginStopped
  <2>4. QED
    BY <2>1, <2>2, <2>3, LoginLocal
<1>5. CASE Login!Finish(w)
  <2>1. [wiz[w] EXCEPT !.done = TRUE, !.success = wiz[w].success \/ outcome[w] = "ok",
                       !.phase = IF outcome[w] = "ok" THEN "done" ELSE "error"] \in Login!State
    BY <1>1 DEF Login!State
  <2>2. Login!TypeOK'
    BY <1>5, <2>1 DEF LoginInv, Login!TypeOK, Login!Finish
  <2>3. LoginOnly(w)
    BY <1>5 DEF LoginInv, Login!TypeOK, Login!Finish, LoginOnly
  <2>4. LoginStage(w)' /\ (w \in cancelled' => LoginStopped(w)')
    BY <1>1, <1>5 DEF LoginInv, Login!TypeOK, Login!State, Login!Finish, LoginStage, LoginStopped
  <2>5. QED
    BY <2>2, <2>3, <2>4, LoginLocal
<1>6. CASE Login!TimeOut(w)
  <2>1. [wiz[w] EXCEPT !.done = TRUE, !.phase = "error"] \in Login!State
    BY <1>1 DEF Login!State
  <2>2. Login!TypeOK'
    BY <1>6, <2>1 DEF LoginInv, Login!TypeOK, Login!TimeOut
  <2>3. LoginOnly(w)
    BY <1>6 DEF LoginInv, Login!TypeOK, Login!TimeOut, LoginOnly
  <2>4. LoginStage(w)' /\ (w \in cancelled' => LoginStopped(w)')
    BY <1>1, <1>6 DEF LoginInv, Login!TypeOK, Login!State, Login!TimeOut, LoginStage, LoginStopped
  <2>5. QED
    BY <2>2, <2>3, <2>4, LoginLocal
<1>7. QED
  BY <1>2, <1>3, <1>4, <1>5, <1>6

\* The flow and its callbacks.
LEMMA LoginFlowInv ==
    ASSUME Login!WizardAssumption, LoginInv, NEW w \in Wizards, Login!Flow(w)
    PROVE  LoginInv'
<1>1. wiz[w] \in Login!State /\ LoginStage(w) /\ (w \in cancelled => LoginStopped(w))
  BY DEF LoginInv, Login!TypeOK
<1>2. step[w] \notin {"none", "ended"} /\ UNCHANGED <<wizardAt, seen, authorized, cancelled>>
  BY DEF Login!Flow, Login!CodeSent, Login!PollCode, Login!PasswordNeeded, Login!PollPassword,
         Login!Deadline, Login!SignedIn, Login!Refused
<1>3. PICK r \in Login!State : wiz' = [wiz EXCEPT ![w] = r] /\ r.done = wiz[w].done
                          /\ r.success = wiz[w].success /\ r.listed = wiz[w].listed
                          /\ (~wiz[w].code => ~r.code) /\ (~wiz[w].password => ~r.password)
  <2>1. CASE Login!CodeSent(w)
    <3>1. [wiz[w] EXCEPT !.phase = "waiting_code", !.code = FALSE] \in Login!State
      BY <1>1 DEF Login!State
    <3>2. QED
      BY <1>1, <2>1, <3>1 DEF Login!CodeSent, Login!State
  <2>2. CASE Login!PollCode(w)
    <3>1. [wiz[w] EXCEPT !.code = FALSE] \in Login!State
      BY <1>1 DEF Login!State
    <3>2. QED
      BY <1>1, <2>2, <3>1 DEF Login!PollCode, Login!State
  <2>3. CASE Login!PasswordNeeded(w)
    <3>1. [wiz[w] EXCEPT !.phase = "waiting_password", !.password = FALSE] \in Login!State
      BY <1>1 DEF Login!State
    <3>2. QED
      BY <1>1, <2>3, <3>1 DEF Login!PasswordNeeded, Login!State
  <2>4. CASE Login!PollPassword(w)
    <3>1. [wiz[w] EXCEPT !.password = FALSE] \in Login!State
      BY <1>1 DEF Login!State
    <3>2. QED
      BY <1>1, <2>4, <3>1 DEF Login!PollPassword, Login!State
  <2>5. CASE Login!Deadline(w) \/ Login!SignedIn(w) \/ Login!Refused(w)
    <3>1. wiz' = [wiz EXCEPT ![w] = wiz[w]]
      BY <2>5 DEF Login!Deadline, Login!SignedIn, Login!Refused, LoginInv, Login!TypeOK
    <3>2. QED
      BY <1>1, <3>1
  <2>6. QED
    BY <2>1, <2>2, <2>3, <2>4, <2>5 DEF Login!Flow
<1>4. \/ /\ step' \in {[step EXCEPT ![w] = s] : s \in {"code", "signing", "password", "checking"}}
         /\ UNCHANGED <<holder, outcome, signedIn>>
      \/ /\ Login!EndFlow(w, "error") /\ signedIn' = signedIn
      \/ /\ Login!EndFlow(w, "ok") /\ signedIn' = TRUE
  BY DEF Login!Flow, Login!CodeSent, Login!PollCode, Login!PasswordNeeded, Login!PollPassword,
         Login!Deadline, Login!SignedIn, Login!Refused
<1>5. Login!TypeOK'
  <2>1. wiz' \in [Wizards -> Login!State]
    BY <1>3 DEF LoginInv, Login!TypeOK
  <2>2. \A v \in Wizards : v # w => step'[v] = step[v]
    BY <1>4 DEF LoginInv, Login!TypeOK, Login!EndFlow
  <2>3. holder = w /\ \A v \in Wizards : v # w => step[v] \in {"none", "ended"}
    BY <1>2 DEF LoginInv, Login!TypeOK
  <2>4. \/ step'[w] \notin {"none", "ended"} /\ holder' = holder
        \/ step'[w] = "ended" /\ holder' = Nobody
    BY <1>4 DEF LoginInv, Login!TypeOK, Login!EndFlow
  <2>5. \A v \in Wizards : holder' = v <=> step'[v] \notin {"none", "ended"}
    BY <2>2, <2>3, <2>4 DEF Login!WizardAssumption
  <2>6. /\ step' \in [Wizards -> {"none", "sending", "code", "signing", "password", "checking",
                                  "ended"}]
        /\ outcome' \in [Wizards -> {"none", "ok", "error"}]
        /\ holder' \in Wizards \cup {Nobody}
        /\ signedIn' \in BOOLEAN
    BY <1>4, <2>3, ZenonT(30) DEF LoginInv, Login!TypeOK, Login!EndFlow
  <2>7. QED
    BY <1>2, <2>1, <2>5, <2>6 DEF LoginInv, Login!TypeOK
<1>6. LoginOnly(w)
  BY <1>2, <1>3, <1>4 DEF LoginInv, Login!TypeOK, LoginOnly, Login!EndFlow
<1>7. LoginStage(w)'
  <2>1. wiz'[w] = r
    BY <1>3 DEF LoginInv, Login!TypeOK
  <2>2. /\ step'[w] # "none"
        /\ outcome'[w] # "none" => step'[w] = "ended"
        /\ outcome'[w] = "ok" => signedIn'
        /\ signedIn => signedIn'
    BY <1>1, <1>2, <1>4 DEF LoginInv, Login!TypeOK, Login!EndFlow, LoginStage
  <2>3. QED
    BY <1>1, <1>2, <1>3, <2>1, <2>2 DEF LoginStage
<1>8. w \in cancelled' => LoginStopped(w)'
  <2>1. wiz'[w] = r
    BY <1>3 DEF LoginInv, Login!TypeOK
  <2>2. QED
    BY <1>1, <1>2, <1>3, <2>1 DEF LoginStopped
<1>9. QED
  BY <1>5, <1>6, <1>7, <1>8, LoginLocal

\* The browser.
LEMMA LoginBrowserInv ==
    ASSUME LoginInv, NEW w \in Wizards,
          Login!Submit(w) \/ Login!Cancel(w) \/ Login!Poll(w) \/ Login!Age(w)
    PROVE  LoginInv'
<1>1. wiz[w] \in Login!State /\ LoginStage(w) /\ (w \in cancelled => LoginStopped(w))
  BY DEF LoginInv, Login!TypeOK
<1>2. UNCHANGED Login!browser
  BY DEF Login!Submit, Login!Cancel, Login!Poll, Login!Age
<1>3. PICK r \in Login!State : wiz' = [wiz EXCEPT ![w] = r]
                          /\ (r.listed => wiz[w].listed) /\ r.success = wiz[w].success
                          /\ (wiz[w].success => r.done /\ r.phase = wiz[w].phase)
                          /\ (w \in cancelled' => r.done /\ ~r.code /\ ~r.password /\ ~r.listed
                                                  /\ (w \in cancelled \/ wiz[w].listed))
  <2>1. CASE Login!Submit(w)
    <3>1. /\ [wiz[w] EXCEPT !.code = TRUE] \in Login!State
          /\ [wiz[w] EXCEPT !.password = TRUE] \in Login!State
      BY <1>1 DEF Login!State
    <3>2. w \notin cancelled
      BY <1>1, <2>1 DEF Login!Submit, LoginStopped
    <3>3. QED
      BY <1>1, <2>1, <3>1, <3>2 DEF Login!Submit, LoginStage, Login!State
  <2>2. CASE Login!Cancel(w) /\ wiz[w].done
    <3>1. [wiz[w] EXCEPT !.listed = FALSE] \in Login!State
      BY <1>1 DEF Login!State
    <3>2. QED
      BY <1>1, <2>2, <3>1 DEF Login!Cancel, LoginStopped, Login!State
  <2>3. CASE Login!Cancel(w) /\ ~wiz[w].done
    <3>1. [wiz[w] EXCEPT !.done = TRUE, !.phase = "error", !.listed = FALSE, !.code = FALSE,
                         !.password = FALSE] \in Login!State
      BY <1>1 DEF Login!State
    <3>2. QED
      BY <1>1, <2>3, <3>1 DEF Login!Cancel, LoginStage, Login!State
  <2>4. CASE Login!Poll(w)
    <3>1. [wiz[w] EXCEPT !.listed = FALSE] \in Login!State
      BY <1>1 DEF Login!State
    <3>2. QED
      BY <1>1, <2>4, <3>1 DEF Login!Poll, LoginStage, LoginStopped, Login!State
  <2>5. CASE Login!Age(w)
    <3>1. [wiz[w] EXCEPT !.old = TRUE] \in Login!State
      BY <1>1 DEF Login!State
    <3>2. QED
      BY <1>1, <2>5, <3>1 DEF Login!Age, LoginStage, LoginStopped, Login!State
  <2>6. QED
    BY <2>1, <2>2, <2>3, <2>4, <2>5
<1>4. cancelled' \subseteq cancelled \cup {w}
  BY DEF Login!Submit, Login!Cancel, Login!Poll, Login!Age
<1>5. Login!TypeOK'
  BY <1>2, <1>3, <1>4 DEF Login!browser, LoginInv, Login!TypeOK
<1>6. LoginOnly(w)
  BY <1>2, <1>3, <1>4 DEF Login!browser, LoginInv, Login!TypeOK, LoginOnly
<1>7. wiz'[w] = r
  BY <1>3 DEF LoginInv, Login!TypeOK
<1>8. LoginStage(w)' /\ (w \in cancelled' => LoginStopped(w)')
  BY <1>1, <1>2, <1>3, <1>7 DEF Login!browser, LoginStage, LoginStopped
<1>9. QED
  BY <1>5, <1>6, <1>8, LoginLocal

LEMMA LoginNextInv == ASSUME Login!WizardAssumption, LoginInv,
      [Login!Next]_(Login!vars) PROVE LoginInv'
<1>1. CASE UNCHANGED Login!vars
  BY <1>1 DEF Login!vars, LoginInv, Login!TypeOK, LoginStage, LoginStopped
<1>2. QED
  BY <1>1, LoginStartInv, LoginFlowInv, LoginBrowserInv DEF Login!Next

\* A wizard that reports success is over and signed in.
LEMMA LoginHonest == LoginInv => Login!HonestSuccess
BY DEF LoginInv, LoginStage, Login!HonestSuccess

\* A step that uses a code or a password is one of the flow, not of a cancelled wizard.
LEMMA CancelledUsesNothing ==
    ASSUME Login!WizardAssumption, LoginInv, [Login!Next]_(Login!vars),
          NEW w \in cancelled PROVE ~Login!Uses(w)
<1>1. LoginStopped(w) /\ w \in Wizards
  BY DEF LoginInv, Login!TypeOK
<1>2. SUFFICES ASSUME Login!Uses(w) PROVE FALSE
  OBVIOUS
<1>3. step'[w] # step[w]
  BY <1>2 DEF Login!Uses
<1>4. PICK v \in Wizards : Login!Take(v) \/ Login!Flow(v)
  BY <1>3 DEF Login!Next, Login!vars, Login!browser, Login!Ask, Login!Start, Login!Finish,
              Login!TimeOut, Login!Submit, Login!Cancel, Login!Poll, Login!Age
<1>5. v = w
  <2>1. \A u \in Wizards : u # v => step'[u] = step[u]
    BY <1>4 DEF LoginInv, Login!TypeOK, Login!Take, Login!Flow, Login!CodeSent, Login!PollCode,
                Login!PasswordNeeded, Login!PollPassword,
                Login!Deadline, Login!SignedIn, Login!Refused, Login!EndFlow
  <2>2. QED
    BY <1>1, <1>3, <2>1
<1>6. \/ step[w] = "code" /\ ~wiz[w].done
      \/ step[w] = "password" /\ wiz[w].password
  BY <1>1, <1>2, <1>4, <1>5
     DEF Login!Uses, LoginInv, Login!TypeOK, Login!Take, Login!Flow, Login!CodeSent,
         Login!PollCode, Login!PasswordNeeded, Login!PollPassword,
         Login!Deadline, Login!SignedIn, Login!Refused, Login!EndFlow
<1>7. QED
  BY <1>1, <1>6 DEF LoginStopped

-----------------------------------------------------------------------------
(* AutoTLS: PortsOwned is not inductive, for a shutdown must not take the  *)
(* ports of the listeners that are shown, and a save that has come to      *)
(* publish must still hold what it bound.  HttpsShown and HttpsLeaving say *)
(* that listeners are published once and detached once; HttpsBound says who*)
(* holds the ports.                                                        *)

\* The request of listeners that were published is past it.
HttpsPast(s) == saveAt[s] \in {"reply", "over"}

\* The listeners shown hold both ports, and nobody is shutting them down.
HttpsShown == tls # Nobody => /\ HttpsPast(tls) /\ tls \notin shut
                              /\ \A p \in Https!Ports : owner[p] = tls
                              /\ \A s \in Saves : saveAt[s] = "shut" => old[s] # tls

\* What is shut down was published before.
HttpsLeaving == /\ \A s \in Saves : saveAt[s] = "shut" /\ old[s] # Nobody => HttpsPast(old[s])
                /\ \A s \in shut : HttpsPast(s)

\* A save binds port 80, then port 443, and holds what it has bound until it publishes or fails.
HttpsBound == \A s \in Saves :
    /\ Https!Starting(s) => owner[80] = s
    /\ saveAt[s] = "publish" => owner[443] = s
    /\ saveAt[s] \in {"idle", "stop", "shut", "listen80", "listen443"} => owner[443] # s

HttpsInv == Https!TypeOK /\ HttpsShown /\ HttpsLeaving /\ HttpsBound /\ Https!PortsOwned
-----------------------------------------------------------------------------
LEMMA HttpsInitInv == ASSUME Https!AutoTLSAssumption, Https!Init PROVE HttpsInv
<1>1. Https!TypeOK
  BY DEF Https!Init, Https!TypeOK
<1>2. \A s \in Saves : saveAt[s] = "idle"
  BY DEF Https!Init
<1>3. tls = Nobody /\ shut = {} /\ \A p \in Https!Ports : owner[p] = Nobody
  BY DEF Https!Init
<1>4. HttpsShown /\ HttpsLeaving /\ HttpsBound /\ Https!PortsOwned
  BY <1>2, <1>3 DEF Https!AutoTLSAssumption, Https!Ports, HttpsShown, HttpsLeaving, HttpsBound,
                    Https!Starting, Https!PortsOwned
<1>5. QED
  BY <1>1, <1>4 DEF HttpsInv

\* A request begins.
LEMMA HttpsSaveInv == ASSUME HttpsInv, NEW s \in Saves,
      Https!Save(s) \/ Https!Retry(s) PROVE HttpsInv'
<1>1. /\ saveAt[s] = "idle" /\ saveAt' = [saveAt EXCEPT ![s] = "stop"]
      /\ UNCHANGED <<tls, owner, shut, old>>
  BY DEF Https!Save, Https!Retry, Https!Goto
<1>2. Https!TypeOK'
  BY DEF HttpsInv, Https!TypeOK, Https!Save, Https!Retry, Https!Goto
<1>3. HttpsShown' /\ HttpsLeaving' /\ HttpsBound'
  BY <1>1 DEF HttpsInv, Https!TypeOK, HttpsShown, HttpsLeaving, HttpsBound, HttpsPast,
              Https!Starting
<1>4. Https!PortsOwned'
  BY <1>1 DEF HttpsInv, Https!TypeOK, Https!Starting, Https!PortsOwned
<1>5. QED
  BY <1>2, <1>3, <1>4 DEF HttpsInv

LEMMA HttpsStopInv ==
    ASSUME Https!AutoTLSAssumption, HttpsInv, NEW s \in Saves,
          Https!Detach(s) \/ Https!Shutdown(s) PROVE HttpsInv'
<1>1. CASE Https!Detach(s)
  <2>1. Https!TypeOK'
    BY <1>1 DEF HttpsInv, Https!TypeOK, Https!Detach, Https!Goto
  <2>2. HttpsShown' /\ HttpsLeaving' /\ HttpsBound'
    BY <1>1 DEF HttpsInv, Https!TypeOK, HttpsShown, HttpsLeaving, HttpsBound, HttpsPast,
                Https!Starting, Https!Detach, Https!Goto
  <2>3. Https!PortsOwned'
    BY <1>1 DEF HttpsInv, Https!TypeOK, Https!Starting, Https!PortsOwned, Https!Detach, Https!Goto
  <2>4. QED
    BY <2>1, <2>2, <2>3 DEF HttpsInv
<1>2. CASE Https!Shutdown(s)
  <2>1. /\ saveAt[s] = "shut" /\ tls' = tls /\ old' = old
        /\ shut' = shut \cup ({old[s]} \ {Nobody})
        /\ \A p \in Https!Ports :
              owner'[p] = IF owner[p] = old[s] /\ serving[p] THEN Nobody ELSE owner[p]
        /\ \E place \in {"reply", "listen80"} : saveAt' = [saveAt EXCEPT ![s] = place]
    BY <1>2 DEF Https!Shutdown, Https!Goto
  <2>2. Https!TypeOK'
    BY <1>2 DEF HttpsInv, Https!TypeOK, Https!Shutdown, Https!Goto
  <2>3. \A r \in Saves : HttpsPast(r) => HttpsPast(r)'
    BY <2>1 DEF HttpsInv, Https!TypeOK, HttpsPast
  <2>4. HttpsShown'
    BY <2>1, <2>3 DEF HttpsInv, Https!TypeOK, HttpsShown
  <2>5. HttpsLeaving'
    BY <2>1, <2>3 DEF HttpsInv, Https!TypeOK, HttpsLeaving
  <2>6. HttpsBound'
    <3>1. \A r \in Saves : Https!Starting(r)'
             => Https!Starting(r) /\ (saveAt'[r] = "publish" => saveAt[r] = "publish")
      BY <2>1 DEF HttpsInv, Https!TypeOK, Https!Starting
    <3>2. \A r \in Saves : Https!Starting(r) => old[s] # r
      BY <2>1 DEF Https!AutoTLSAssumption, HttpsInv, Https!TypeOK, HttpsLeaving, HttpsPast,
                  Https!Starting
    <3>3. 80 \in Https!Ports /\ 443 \in Https!Ports
      BY DEF Https!Ports
    <3>4. \A r \in Saves : Https!Starting(r)' =>
             owner'[80] = r /\ (saveAt'[r] = "publish" => owner'[443] = r)
      BY <2>1, <3>1, <3>2, <3>3 DEF HttpsInv, HttpsBound, Https!Starting
    <3>5. ASSUME NEW r \in Saves, saveAt'[r] \in {"idle", "stop", "shut", "listen80", "listen443"}
          PROVE  owner'[443] # r
      <4>1. saveAt[r] \in {"idle", "stop", "shut", "listen80", "listen443"}
        BY <2>1, <3>5 DEF HttpsInv, Https!TypeOK
      <4>2. owner[443] # r /\ r # Nobody
        BY <4>1 DEF Https!AutoTLSAssumption, HttpsInv, HttpsBound
      <4>3. owner'[443] \in {Nobody, owner[443]}
        BY <2>1, <3>3
      <4>4. QED
        BY <4>2, <4>3
    <3>6. QED
      BY <3>4, <3>5 DEF HttpsBound, Https!Starting
  <2>7. Https!PortsOwned'
    <3>1. tls' # Nobody => \A p \in Https!Ports : owner'[p] = tls'
      BY <2>1 DEF HttpsInv, HttpsShown
    <3>2. ASSUME NEW p \in Https!Ports, owner'[p] # Nobody
          PROVE  \/ owner'[p] = tls' \/ Https!Starting(owner[p])' \/ owner'[p] \in shut'
                 \/ \E r \in Saves : saveAt'[r] = "shut" /\ old'[r] = owner'[p]
      <4>1. owner'[p] = owner[p] /\ owner[p] \in Saves
        BY <2>1, <3>2 DEF HttpsInv, Https!TypeOK
      <4>2. CASE owner[p] = old[s]
        BY <2>1, <3>2, <4>1, <4>2
      <4>3. CASE owner[p] # old[s]
        BY <2>1, <3>2, <4>1, <4>3 DEF HttpsInv, Https!TypeOK, Https!PortsOwned, Https!Starting
      <4>4. QED
        BY <4>2, <4>3
    <3>3. QED
      BY <2>1, <3>1, <3>2 DEF Https!PortsOwned, Https!Starting
  <2>8. QED
    BY <2>2, <2>4, <2>5, <2>6, <2>7 DEF HttpsInv
<1>3. QED
  BY <1>1, <1>2

\* A port is bound, or given back when the other one cannot be.
LEMMA HttpsListenInv ==
    ASSUME Https!AutoTLSAssumption, HttpsInv, NEW s \in Saves,
          Https!Listen80(s) \/ Https!Listen443(s) PROVE HttpsInv'
<1>1. /\ UNCHANGED <<setting, tls, serving, shut, domain, old, reply>> /\ s # Nobody
      /\ 80 \in Https!Ports /\ 443 \in Https!Ports /\ \A p \in Https!Ports : p \in {80, 443}
  BY DEF Https!AutoTLSAssumption, Https!Listen80, Https!Listen443, Https!Ports
<1>2. tls # Nobody => owner[80] = tls /\ owner[443] = tls /\ tls # s
  BY <1>1 DEF HttpsInv, HttpsShown, HttpsPast, Https!Listen80, Https!Listen443
\* What a port bound by s, or a failure, leaves of the invariant.
<1>3. ASSUME NEW p \in Https!Ports, owner[p] = Nobody, owner' = [owner EXCEPT ![p] = s],
             tlsErr' = tlsErr, saveAt[s] \in {"listen80", "listen443"},
             p = 443 => saveAt[s] = "listen443",
             saveAt' = [saveAt EXCEPT ![s] = IF p = 80 THEN "listen443" ELSE "publish"]
      PROVE  HttpsInv'
  <2>1. Https!TypeOK'
    BY <1>1, <1>3 DEF HttpsInv, Https!TypeOK
  <2>2. tls = Nobody
    BY <1>1, <1>2, <1>3
  <2>3. HttpsShown' /\ HttpsLeaving'
    BY <1>1, <1>3, <2>2 DEF HttpsInv, Https!TypeOK, HttpsShown, HttpsLeaving, HttpsPast
  <2>4. HttpsBound'
    <3>1. \A r \in Saves : r # s => saveAt'[r] = saveAt[r]
      BY <1>3 DEF HttpsInv, Https!TypeOK
    <3>2. \A r \in Saves : Https!Starting(r) => r # Nobody /\ owner[80] = r
      BY DEF Https!AutoTLSAssumption, HttpsInv, HttpsBound
    <3>3. CASE p = 80
      BY <1>1, <1>3, <3>1, <3>2, <3>3 DEF HttpsInv, Https!TypeOK, HttpsBound, Https!Starting
    <3>4. CASE p = 443
      BY <1>1, <1>3, <3>1, <3>2, <3>4 DEF HttpsInv, Https!TypeOK, HttpsBound, Https!Starting
    <3>5. QED
      BY <1>1, <3>3, <3>4
  <2>5. Https!PortsOwned'
    BY <1>1, <1>3, <2>2 DEF HttpsInv, Https!TypeOK, Https!PortsOwned, Https!Starting
  <2>6. QED
    BY <2>1, <2>3, <2>4, <2>5 DEF HttpsInv
<1>4. ASSUME tlsErr' = TRUE, saveAt' = [saveAt EXCEPT ![s] = "reply"],
             \/ saveAt[s] = "listen80" /\ owner' = owner
             \/ saveAt[s] = "listen443" /\ owner' = [owner EXCEPT ![80] = Nobody]
      PROVE  HttpsInv'
  <2>1. Https!TypeOK'
    BY <1>1, <1>4 DEF HttpsInv, Https!TypeOK
  <2>2. CASE saveAt[s] = "listen80" /\ owner' = owner
    BY <1>1, <1>4, <2>1, <2>2 DEF HttpsInv, Https!TypeOK, HttpsShown, HttpsLeaving, HttpsPast,
                                  HttpsBound, Https!Starting, Https!PortsOwned
  <2>3. CASE saveAt[s] = "listen443" /\ owner' = [owner EXCEPT ![80] = Nobody]
    <3>1. owner[80] = s
      BY <2>3 DEF HttpsInv, HttpsBound, Https!Starting
    <3>2. tls = Nobody
      BY <1>2, <3>1
    <3>3. HttpsShown' /\ HttpsLeaving'
      BY <1>1, <1>4, <3>2 DEF HttpsInv, Https!TypeOK, HttpsShown, HttpsLeaving, HttpsPast
    <3>4. HttpsBound'
      BY <1>1, <1>4, <2>3, <3>1 DEF HttpsInv, Https!TypeOK, HttpsBound, Https!Starting
    <3>5. owner[443] # s
      BY <2>3 DEF HttpsInv, HttpsBound
    <3>6. Https!PortsOwned'
      BY <1>1, <1>4, <2>3, <3>2, <3>5 DEF HttpsInv, Https!TypeOK, Https!PortsOwned, Https!Starting
    <3>7. QED
      BY <2>1, <3>3, <3>4, <3>6 DEF HttpsInv
  <2>4. QED
    BY <1>4, <2>2, <2>3
<1>5. CASE Https!Listen80(s)
  <2>1. CASE /\ owner[80] = Nobody /\ owner' = [owner EXCEPT ![80] = s]
             /\ Https!Goto(s, "listen443") /\ UNCHANGED tlsErr
    <3>1. PICK p \in Https!Ports : p = 80
      BY <1>1
    <3>2. /\ owner[p] = Nobody /\ owner' = [owner EXCEPT ![p] = s] /\ tlsErr' = tlsErr
          /\ saveAt[s] = "listen80" /\ saveAt' = [saveAt EXCEPT ![s] = "listen443"]
      BY <1>5, <2>1, <3>1 DEF Https!Listen80, Https!Goto
    <3>3. saveAt' = [saveAt EXCEPT ![s] = IF p = 80 THEN "listen443" ELSE "publish"]
          /\ (p = 443 => saveAt[s] = "listen443")
      BY <3>1, <3>2
    <3>4. QED
      BY <1>3, <3>2, <3>3
  <2>2. CASE Https!Fail(s) /\ UNCHANGED owner
    BY <1>4, <1>5, <2>2 DEF Https!Listen80, Https!Fail, Https!Goto
  <2>3. QED
    BY <1>5, <2>1, <2>2 DEF Https!Listen80
<1>6. CASE Https!Listen443(s)
  <2>1. CASE /\ owner[443] = Nobody /\ owner' = [owner EXCEPT ![443] = s]
             /\ Https!Goto(s, "publish") /\ UNCHANGED tlsErr
    <3>1. PICK p \in Https!Ports : p = 443
      BY <1>1
    <3>2. /\ owner[p] = Nobody /\ owner' = [owner EXCEPT ![p] = s] /\ tlsErr' = tlsErr
          /\ saveAt[s] = "listen443" /\ saveAt' = [saveAt EXCEPT ![s] = "publish"]
      BY <1>6, <2>1, <3>1 DEF Https!Listen443, Https!Goto
    <3>3. saveAt' = [saveAt EXCEPT ![s] = IF p = 80 THEN "listen443" ELSE "publish"]
          /\ (p = 443 => saveAt[s] = "listen443")
      BY <3>1, <3>2
    <3>4. QED
      BY <1>3, <3>2, <3>3
  <2>2. CASE Https!Fail(s) /\ owner' = [owner EXCEPT ![80] = Nobody]
    BY <1>4, <1>6, <2>2 DEF Https!Listen443, Https!Fail, Https!Goto
  <2>3. QED
    BY <1>6, <2>1, <2>2 DEF Https!Listen443
<1>7. QED
  BY <1>5, <1>6

LEMMA HttpsPublishInv ==
    ASSUME Https!AutoTLSAssumption, HttpsInv, NEW s \in Saves,
          Https!Publish(s) \/ Https!Reply(s) PROVE HttpsInv'
<1>1. UNCHANGED <<owner, shut, old>> /\ s # Nobody
  BY DEF Https!AutoTLSAssumption, Https!Publish, Https!Reply
<1>2. Https!TypeOK'
  BY DEF HttpsInv, Https!TypeOK, Https!Publish, Https!Reply, Https!Goto
<1>3. CASE Https!Publish(s)
  <2>1. owner[80] = s /\ owner[443] = s /\ \A p \in Https!Ports : owner[p] = s
    BY <1>3 DEF HttpsInv, HttpsBound, Https!Starting, Https!Ports, Https!Publish
  <2>2. s \notin shut /\ \A r \in Saves : saveAt[r] = "shut" => old[r] # s
    BY <1>1, <1>3 DEF HttpsInv, HttpsLeaving, HttpsPast, Https!Publish
  <2>3. HttpsShown'
    BY <1>1, <1>3, <2>1, <2>2 DEF HttpsInv, Https!TypeOK, HttpsShown, HttpsPast, Https!Publish,
                                  Https!Goto
  <2>4. HttpsLeaving' /\ HttpsBound'
    BY <1>1, <1>3 DEF HttpsInv, Https!TypeOK, HttpsLeaving, HttpsPast, HttpsBound, Https!Starting,
                      Https!Publish, Https!Goto
  <2>5. Https!PortsOwned'
    BY <1>1, <1>3, <2>1 DEF Https!PortsOwned, Https!Publish
  <2>6. QED
    BY <1>2, <2>3, <2>4, <2>5 DEF HttpsInv
<1>4. CASE Https!Reply(s)
  <2>1. HttpsShown' /\ HttpsLeaving' /\ HttpsBound'
    BY <1>1, <1>4 DEF HttpsInv, Https!TypeOK, HttpsShown, HttpsLeaving, HttpsPast, HttpsBound,
                      Https!Starting, Https!Reply, Https!Goto
  <2>2. Https!PortsOwned'
    BY <1>1, <1>4 DEF HttpsInv, Https!TypeOK, Https!PortsOwned, Https!Starting, Https!Reply,
                      Https!Goto
  <2>3. QED
    BY <1>2, <2>1, <2>2 DEF HttpsInv
<1>5. QED
  BY <1>3, <1>4

\* The goroutine of a listener.
LEMMA HttpsServeInv == ASSUME Https!AutoTLSAssumption, HttpsInv, NEW p \in Https!Ports,
      Https!Serve(p) PROVE HttpsInv'
<1>1. /\ UNCHANGED <<tls, shut, saveAt, old>>
      /\ \/ owner' = owner
         \/ owner[p] \in shut /\ owner' = [owner EXCEPT ![p] = Nobody]
  BY DEF Https!Serve
<1>2. Https!TypeOK'
  BY DEF HttpsInv, Https!TypeOK, Https!Serve
<1>3. CASE owner' = owner
  BY <1>1, <1>2, <1>3 DEF HttpsInv, HttpsShown, HttpsLeaving, HttpsPast, HttpsBound,
                          Https!Starting, Https!PortsOwned
<1>4. CASE owner[p] \in shut /\ owner' = [owner EXCEPT ![p] = Nobody]
  <2>1. HttpsPast(owner[p]) /\ owner[p] # tls
    BY <1>4 DEF Https!AutoTLSAssumption, HttpsInv, Https!TypeOK, HttpsLeaving, HttpsShown
  <2>2. tls = Nobody
    BY <2>1 DEF HttpsInv, HttpsShown
  <2>3. HttpsShown' /\ HttpsLeaving'
    BY <1>1, <2>2 DEF HttpsInv, HttpsShown, HttpsLeaving, HttpsPast
  <2>4. HttpsBound'
    <3>1. \A r \in Saves, q \in Https!Ports :
             r # Nobody /\ (owner'[q] = owner[q] \/ owner'[q] = Nobody)
      BY <1>4 DEF Https!AutoTLSAssumption, HttpsInv, Https!TypeOK
    <3>2. \A r \in Saves : Https!Starting(r) => r # owner[p]
      BY <2>1 DEF HttpsPast, Https!Starting
    <3>3. \A q \in Https!Ports : owner[q] # owner[p] => owner'[q] = owner[q]
      BY <1>4 DEF HttpsInv, Https!TypeOK
    <3>4. 80 \in Https!Ports /\ 443 \in Https!Ports
      BY DEF Https!Ports
    <3>5. QED
      BY <1>1, <3>1, <3>2, <3>3, <3>4 DEF HttpsInv, HttpsBound, Https!Starting
  <2>5. Https!PortsOwned'
    BY <1>1, <1>4, <2>2 DEF HttpsInv, Https!TypeOK, Https!PortsOwned, Https!Starting
  <2>6. QED
    BY <1>2, <2>3, <2>4, <2>5 DEF HttpsInv
<1>5. QED
  BY <1>1, <1>3, <1>4

LEMMA HttpsNextInv == ASSUME Https!AutoTLSAssumption, HttpsInv,
      [Https!Next]_(Https!vars) PROVE HttpsInv'
<1>1. CASE UNCHANGED Https!vars
  BY <1>1 DEF Https!vars, HttpsInv, Https!TypeOK, HttpsShown, HttpsLeaving, HttpsPast, HttpsBound,
              Https!Starting, Https!PortsOwned
<1>2. QED
  BY <1>1, HttpsSaveInv, HttpsStopInv, HttpsListenInv, HttpsPublishInv,
        HttpsServeInv DEF Https!Next, Https!Restart

-----------------------------------------------------------------------------
(* Update: what a step of the command has in its hands, and how far the    *)
(* service has been put back.                                              *)

\* What a step of the command has in its hands.  A tarball that has come past its check is the
\* release, a package that is damaged was not checked; the backup is whole before the binary is
\* touched; what is renamed over the binary was written out whole.
UpdateHolds ==
    /\ exe # "part" /\ (updateAt # "idle" => asset # "none")
    /\ exe = "old" \/ updateAt \in {"idle", "enable", "restart", "done"}
    /\ exe = "bad" => kind = "package" /\ ~verified
    /\ kind = "tarball" => /\ exe \in Updating!Whole
                           /\ exe = "new" => verified /\ bak = "old"
                           /\ updateAt \notin {"idle", "check"} => asset = "release" /\ verified
                           /\ updateAt # "install"
    /\ kind = "package" => /\ updateAt \in {"idle", "check", "capture", "install", "enable",
                                            "restart", "done"}
                           /\ updateAt \notin {"idle", "check"} /\ asset = "damaged" => ~verified
    /\ updateAt = "renameBackup" => tmp = "old"
    /\ updateAt \in {"openNew", "writeNew", "renameNew", "openOld", "writeOld", "renameOld"}
          => bak = "old"
    /\ updateAt = "renameNew" => tmp = "new"
    /\ updateAt = "renameOld" => tmp = "old"

\* Where the service is enabled and running: nowhere but where it was so before the command or
\* where the scripts made it so, and as far as it has been put back, everywhere there.
EnabledOnly == service.enabled => before.enabled \/ "enabled" \in scripted
ActiveOnly == service.active => before.active \/ "active" \in scripted
EnabledAgain == before.enabled \/ "enabled" \in scripted => service.enabled
ActiveAgain == /\ before.active \/ "active" \in scripted => service.active
               /\ service.active => serves = exe

\* How far the service has been put back.
ServiceHolds ==
    /\ updateAt \in {"check", "capture", "install"} => service = before
    /\ updateAt \notin {"idle", "check", "capture"} => captured = before
    /\ kind = "tarball" => scripted = {} /\ (service = before \/ "restart" \in failed)
    /\ updateAt \notin {"idle", "done"} => "restart" \notin failed
    /\ updateAt \notin {"idle", "restart", "done"} => "enable" \notin failed
    /\ updateAt \in {"enable", "restart", "done"} => EnabledOnly /\ ActiveOnly
    /\ updateAt \in {"enable", "restart"} =>
          /\ "enabled" \in scripted => service.enabled
          /\ "active" \in scripted => service.active /\ serves = exe
    /\ updateAt = "restart" => before.active
    /\ updateAt \in {"restart", "done"} => "enable" \in failed \/ EnabledAgain
    /\ updateAt = "done" => "restart" \in failed \/ ActiveAgain

UpdatingInv ==
    /\ Updating!TypeOK /\ UpdateHolds /\ ServiceHolds
    /\ updateAt \in {"idle", "check", "capture", "install", "openBackup", "writeBackup",
                     "renameBackup", "openNew", "writeNew", "renameNew", "openOld", "writeOld",
                     "renameOld", "enable", "restart", "done"}

LEMMA UpdatingInitInv == Updating!UpdateAssumption /\ Updating!Init => UpdatingInv
<1> SUFFICES ASSUME Updating!UpdateAssumption, Updating!Init PROVE UpdatingInv
  OBVIOUS
<1>1. service \in Updating!Service /\ Updating!Unmanaged \in Updating!Service
  BY DEF Updating!Init, Updating!Service, Updating!Unmanaged
<1>2. runs \in 0..MaxUpdates
  BY DEF Updating!Init, Updating!UpdateAssumption
<1>3. Updating!TypeOK
  BY <1>1, <1>2 DEF Updating!Init, Updating!TypeOK, Updating!Whole
<1>4. QED
  BY <1>3 DEF Updating!Init, Updating!Kinds, Updating!Whole, UpdatingInv, UpdateHolds, ServiceHolds,
              EnabledOnly, ActiveOnly, EnabledAgain, ActiveAgain

\* The service is changed in its fields only.
LEMMA ServiceFields ==
    ASSUME service \in Updating!Service
    PROVE  /\ [service EXCEPT !.enabled = TRUE] \in Updating!Service
           /\ [service EXCEPT !.enabled = TRUE].enabled
           /\ [service EXCEPT !.enabled = TRUE].active = service.active
           /\ [service EXCEPT !.active = TRUE] \in Updating!Service
           /\ [service EXCEPT !.active = TRUE].active
           /\ [service EXCEPT !.active = TRUE].enabled = service.enabled
           /\ [service EXCEPT !.active = FALSE] \in Updating!Service
           /\ ~[service EXCEPT !.active = FALSE].active
           /\ [service EXCEPT !.active = FALSE].enabled = service.enabled
BY DEF Updating!Service

\* The release is downloaded and checked, and the service looked at.
LEMMA FetchInv ==
    ASSUME UpdatingInv, Updating!UpdateAssumption,
           Updating!Download \/ Updating!Check \/ Updating!Capture
    PROVE  UpdatingInv'
<1>1. CASE Updating!Download
  <2>1. runs' \in 0..MaxUpdates
    BY <1>1 DEF Updating!Download, Updating!UpdateAssumption, UpdatingInv, Updating!TypeOK
  <2>2. QED
    BY <1>1, <2>1 DEF Updating!Download, Updating!fixed, Updating!files, Updating!Whole,
                      UpdatingInv, Updating!TypeOK, UpdateHolds, ServiceHolds
<1>2. CASE Updating!Check
  <2>1. updateAt' = "idle" \/ (updateAt' = "capture" /\ (kind = "tarball" => asset # "damaged"))
    BY <1>2 DEF Updating!Check
  <2>2. verified' \in BOOLEAN
    BY <1>2 DEF Updating!Check, UpdatingInv, Updating!TypeOK
  <2>3. /\ updateAt' = "capture" /\ kind = "tarball" => asset = "release" /\ verified'
        /\ updateAt' = "capture" /\ asset = "damaged" => ~verified'
        /\ updateAt = "check" /\ exe = "old"
    BY <1>2, <2>1 DEF Updating!Check, UpdatingInv, Updating!TypeOK, UpdateHolds
  <2>4. QED
    BY <1>2, <2>1, <2>2, <2>3
       DEF Updating!Check, Updating!fixed, Updating!files, UpdatingInv, Updating!TypeOK,
           UpdateHolds, ServiceHolds
<1>3. CASE Updating!Capture
  BY <1>3 DEF Updating!Capture, Updating!fixed, Updating!files, UpdatingInv, Updating!TypeOK,
              Updating!Kinds, UpdateHolds, ServiceHolds
<1>4. QED
  BY <1>1, <1>2, <1>3

\* The scripts of a package leave a service lowered, and switch on what they have switched on.
LEMMA ScriptsServe ==
    ASSUME service \in Updating!Service, NEW low \in Updating!Stopped, NEW on
    PROVE  /\ low \in Updating!Service
           /\ low.enabled => service.enabled
           /\ low.active => service.active
           /\ Updating!Started(low, on) \in Updating!Service
           /\ Updating!Started(low, on).enabled <=> low.enabled \/ "enabled" \in on
           /\ Updating!Started(low, on).active <=> low.active \/ "active" \in on
BY DEF Updating!Stopped, Updating!Service, Updating!Started

\* The package manager.
LEMMA InstallInv == ASSUME UpdatingInv, Updating!Install PROVE UpdatingInv'
<1>1. PICK low \in Updating!Stopped :
         \/ \E on \in SUBSET {"enabled", "active"} :
               /\ exe' = Updating!New /\ updateAt' = "enable"
               /\ service' = Updating!Started(low, on) /\ scripted' = on
               /\ serves' = IF "active" \in on THEN Updating!New ELSE serves
               /\ UNCHANGED failed
         \/ /\ exe' \in {exe, Updating!New} /\ service' = low
            /\ failed' = failed \cup {"install"} /\ updateAt' = "idle"
            /\ UNCHANGED <<serves, scripted>>
  BY DEF Updating!Install
<1>2. /\ Updating!New \in {"new", "bad"}
      /\ Updating!New = "bad" => asset # "release"
  BY DEF Updating!New
<1>3. /\ updateAt = "install" /\ kind = "package" /\ captured = before
      /\ asset \in {"release", "damaged"} /\ (asset = "damaged" => ~verified)
      /\ "restart" \notin failed /\ "enable" \notin failed
  BY DEF Updating!Install, UpdatingInv, Updating!TypeOK, Updating!Kinds, UpdateHolds, ServiceHolds
<1>4. UNCHANGED <<kind, sums, tmp, bak, asset, verified, captured, before, runs>>
  BY DEF Updating!Install, Updating!fixed
<1>5. low \in Updating!Service
  BY ScriptsServe DEF UpdatingInv, Updating!TypeOK
<1>6. CASE /\ exe' \in {exe, Updating!New} /\ service' = low
           /\ failed' = failed \cup {"install"} /\ updateAt' = "idle"
           /\ UNCHANGED <<serves, scripted>>
  BY <1>2, <1>3, <1>4, <1>5, <1>6
     DEF UpdatingInv, Updating!TypeOK, Updating!Whole, Updating!Commands, UpdateHolds, ServiceHolds,
         EnabledOnly, ActiveOnly, EnabledAgain, ActiveAgain
<1>7. CASE \E on \in SUBSET {"enabled", "active"} :
              /\ exe' = Updating!New /\ updateAt' = "enable"
              /\ service' = Updating!Started(low, on) /\ scripted' = on
              /\ serves' = IF "active" \in on THEN Updating!New ELSE serves
              /\ UNCHANGED failed
  <2>1. PICK on \in SUBSET {"enabled", "active"} :
              /\ exe' = Updating!New /\ updateAt' = "enable"
              /\ service' = Updating!Started(low, on) /\ scripted' = on
              /\ serves' = IF "active" \in on THEN Updating!New ELSE serves
              /\ UNCHANGED failed
    BY <1>7
  <2>2. /\ service' \in Updating!Service
        /\ service'.enabled <=> low.enabled \/ "enabled" \in on
        /\ service'.active <=> low.active \/ "active" \in on
    BY <2>1, ScriptsServe DEF UpdatingInv, Updating!TypeOK
  <2>3. (low.enabled => service.enabled) /\ (low.active => service.active)
    BY ScriptsServe DEF UpdatingInv, Updating!TypeOK
  <2>4. service = before
    BY <1>3 DEF UpdatingInv, ServiceHolds
  <2>5. Updating!TypeOK'
    BY <1>2, <1>4, <2>1, <2>2 DEF UpdatingInv, Updating!TypeOK, Updating!Whole
  <2>6. UpdateHolds'
    BY <1>2, <1>3, <1>4, <2>1 DEF UpdatingInv, UpdateHolds
  <2>7. ServiceHolds'
    BY <1>3, <1>4, <2>1, <2>2, <2>3, <2>4
       DEF UpdatingInv, ServiceHolds, EnabledOnly, ActiveOnly
  <2>8. QED
    BY <2>1, <2>5, <2>6, <2>7 DEF UpdatingInv
<1>8. QED
  BY <1>1, <1>6, <1>7

\* The copies of a tarball.
LEMMA CopyInv ==
    ASSUME UpdatingInv, Updating!Backup \/ Updating!Replace \/ Updating!RollBack
    PROVE  UpdatingInv'
<1> USE DEF Updating!Open, Updating!Write, Updating!fixed, UpdatingInv
<1>1. /\ updateAt \in {"openBackup", "writeBackup", "renameBackup", "openNew", "writeNew",
                       "renameNew", "openOld", "writeOld", "renameOld"}
      /\ UNCHANGED <<kind, sums, asset, verified, service, serves, captured, before, scripted,
                     failed, runs>>
  BY DEF Updating!Backup, Updating!Replace, Updating!RollBack
<1>2. /\ kind = "tarball" /\ asset = "release" /\ verified /\ exe = "old"
      /\ service = before /\ captured = before /\ scripted = {}
      /\ "restart" \notin failed /\ "enable" \notin failed
  BY <1>1 DEF Updating!TypeOK, Updating!Kinds, UpdateHolds, ServiceHolds
<1>3. updateAt' \in {"openBackup", "writeBackup", "renameBackup", "openNew", "writeNew",
                     "renameNew", "openOld", "writeOld", "renameOld", "enable", "idle"}
  BY DEF Updating!Backup, Updating!Replace, Updating!RollBack
<1>4. ServiceHolds'
  BY <1>1, <1>2, <1>3 DEF ServiceHolds, EnabledOnly, ActiveOnly
<1>5. Updating!TypeOK' /\ UpdateHolds'
  <2>1. CASE Updating!Backup
    BY <2>1, <1>1, <1>2 DEF Updating!Backup, Updating!TypeOK, Updating!Whole, UpdateHolds
  <2>2. CASE Updating!Replace
    BY <2>2, <1>1, <1>2 DEF Updating!Replace, Updating!New, Updating!TypeOK, Updating!Whole,
                            UpdateHolds
  <2>3. CASE Updating!RollBack
    BY <2>3, <1>1, <1>2 DEF Updating!RollBack, Updating!TypeOK, Updating!Whole, UpdateHolds
  <2>4. QED
    BY <2>1, <2>2, <2>3
<1>6. QED
  BY <1>3, <1>4, <1>5

\* restoreServiceAfterUpdate, and the end of the command.
LEMMA RestoreInv ==
    ASSUME UpdatingInv, Updating!Enable \/ Updating!Restart \/ Updating!Ends
    PROVE  UpdatingInv'
<1>0. /\ service \in Updating!Service /\ failed \subseteq Updating!Commands
      /\ UpdateHolds /\ ServiceHolds
  BY DEF UpdatingInv, Updating!TypeOK
<1>1. CASE Updating!Enable
  <2>0. /\ [service EXCEPT !.enabled = TRUE] \in Updating!Service
        /\ [service EXCEPT !.enabled = TRUE].enabled
        /\ [service EXCEPT !.enabled = TRUE].active = service.active
    BY <1>0, ServiceFields
  <2>1. \/ service' = service
        \/ /\ service' \in Updating!Service /\ captured.enabled
           /\ service'.enabled /\ service'.active = service.active
           /\ service' = [service EXCEPT !.enabled = TRUE]
    BY <1>1, <2>0 DEF Updating!Enable
  <2>2. /\ updateAt' = IF captured.active THEN "restart" ELSE "done"
        /\ failed' \in {failed, failed \cup {"enable"}}
        /\ "enable" \notin failed' /\ captured.enabled => service'.enabled
    BY <1>1, <2>0 DEF Updating!Enable
  <2>3. captured = before /\ updateAt = "enable" /\ "restart" \notin failed
    BY <1>0, <1>1 DEF Updating!Enable, ServiceHolds
  <2>4. UNCHANGED <<kind, sums, exe, tmp, bak, asset, verified, serves, captured, before, scripted,
                    runs>>
    BY <1>1 DEF Updating!Enable, Updating!fixed, Updating!files
  <2>5. kind = "tarball" => service' = before
    <3>1. kind = "tarball" => service = before
      BY <2>3 DEF UpdatingInv, ServiceHolds
    <3>2. service.enabled => [service EXCEPT !.enabled = TRUE] = service
      BY DEF UpdatingInv, Updating!TypeOK, Updating!Service
    <3>3. QED
      BY <2>1, <2>3, <3>1, <3>2
  <2>6. Updating!TypeOK' /\ UpdateHolds'
    BY <2>1, <2>2, <2>3, <2>4
       DEF UpdatingInv, Updating!TypeOK, Updating!Commands, Updating!Kinds, UpdateHolds
  <2>7. ServiceHolds'
    BY <2>1, <2>2, <2>3, <2>4, <2>5
       DEF UpdatingInv, ServiceHolds, EnabledOnly, ActiveOnly, EnabledAgain, ActiveAgain
  <2>8. QED
    BY <2>2, <2>6, <2>7 DEF UpdatingInv
<1>2. CASE Updating!Restart
  <2>0. /\ [service EXCEPT !.active = TRUE] \in Updating!Service
        /\ [service EXCEPT !.active = TRUE].active
        /\ [service EXCEPT !.active = TRUE].enabled = service.enabled
        /\ [service EXCEPT !.active = FALSE] \in Updating!Service
        /\ ~[service EXCEPT !.active = FALSE].active
        /\ [service EXCEPT !.active = FALSE].enabled = service.enabled
    BY <1>0, ServiceFields
  <2>1. \/ /\ failed' = failed \cup {"restart"} /\ service' \in Updating!Service
           /\ service'.enabled = service.enabled /\ (service'.active => service.active)
           /\ serves' = serves
        \/ /\ service' \in Updating!Service /\ service'.active
           /\ service'.enabled = service.enabled /\ serves' = exe /\ failed' = failed
           /\ service' = [service EXCEPT !.active = TRUE]
    BY <1>0, <1>2, <2>0 DEF Updating!Restart
  <2>2. exe \in Updating!Whole \cup {"bad"}
    BY <1>2 DEF Updating!Restart, UpdatingInv, Updating!TypeOK, UpdateHolds
  <2>3. /\ updateAt = "restart" /\ updateAt' = "done"
        /\ UNCHANGED <<kind, sums, exe, tmp, bak, asset, verified, captured, before, scripted, runs>>
    BY <1>2 DEF Updating!Restart, Updating!fixed, Updating!files
  <2>4. kind = "tarball" => service' = before \/ "restart" \in failed'
    <3>1. before.active /\ (kind = "tarball" => service = before)
      BY <2>3 DEF UpdatingInv, ServiceHolds
    <3>2. service.active => [service EXCEPT !.active = TRUE] = service
      BY DEF UpdatingInv, Updating!TypeOK, Updating!Service
    <3>3. QED
      BY <2>1, <3>1, <3>2
  <2>5. Updating!TypeOK' /\ UpdateHolds'
    BY <2>1, <2>2, <2>3
       DEF UpdatingInv, Updating!TypeOK, Updating!Commands, Updating!Kinds, UpdateHolds
  <2>6. ServiceHolds'
    BY <2>1, <2>3, <2>4
       DEF UpdatingInv, ServiceHolds, EnabledOnly, ActiveOnly, EnabledAgain, ActiveAgain
  <2>7. QED
    BY <2>3, <2>5, <2>6 DEF UpdatingInv
<1>3. CASE Updating!Ends
  BY <1>3 DEF Updating!Ends, Updating!fixed, Updating!files, UpdatingInv, Updating!TypeOK,
              UpdateHolds, ServiceHolds
<1>4. QED
  BY <1>1, <1>2, <1>3

LEMMA UpdatingNextInv ==
    ASSUME Updating!UpdateAssumption, UpdatingInv, [Updating!Next]_(Updating!vars)
    PROVE  UpdatingInv'
<1>1. CASE UNCHANGED Updating!vars
  BY <1>1 DEF Updating!vars, UpdatingInv, Updating!TypeOK, UpdateHolds, ServiceHolds,
              EnabledOnly, ActiveOnly, EnabledAgain, ActiveAgain
<1>2. QED
  BY <1>1, FetchInv, InstallInv, CopyInv, RestoreInv DEF Updating!Next

\* At every moment of an update, killed or out of space, the installed binary is whole, but for a
\* package nobody could check; and one that came to its end has brought the service back, and
\* brought up nothing else (ops.go, restart.go).
LEMMA UpdatingIsSafe == UpdatingInv => Updating!BinaryRuns /\ Updating!ServiceComesBack
<1> SUFFICES ASSUME UpdatingInv PROVE Updating!BinaryRuns /\ Updating!ServiceComesBack
  OBVIOUS
<1>1. Updating!BinaryRuns
  BY DEF UpdatingInv, Updating!TypeOK, UpdateHolds, Updating!Whole, Updating!BinaryRuns
<1>2. Updating!ServiceComesBack
  BY DEF UpdatingInv, ServiceHolds, EnabledOnly, ActiveOnly, EnabledAgain, ActiveAgain,
         Updating!ServiceComesBack
<1>3. QED
  BY <1>1, <1>2

-----------------------------------------------------------------------------
(* ReleaseCheck: its types are inductive.                                  *)

\* The numbers and the flags of the look for a release.
LookNumbers == /\ published \in 1..Len(Releases) /\ latest \in 0..published
               /\ wanted \in 0..published /\ told \in 0..published /\ asked \in 0..MaxAsked
LookFlags == /\ fresh \in BOOLEAN /\ flight \in BOOLEAN
             /\ lookup \in {"none", "asking", "told", "stored"}
             /\ flight <=> lookup # "none"
             /\ fresh => latest # 0

LEMMA CheckingParts == Checking!TypeOK <=> LookNumbers /\ LookFlags
BY DEF Checking!TypeOK, Checking!Known, LookNumbers, LookFlags

LEMMA CheckingInitInv ==
    Checking!ReleaseCheckAssumption /\ Checking!Init => Checking!TypeOK
<1> SUFFICES ASSUME Checking!ReleaseCheckAssumption, Checking!Init PROVE Checking!TypeOK
  OBVIOUS
<1>1. Len(Releases) \in Nat /\ Len(Releases) > 0 /\ MaxAsked \in Nat
  BY DEF Checking!ReleaseCheckAssumption
<1>2. LookNumbers
  BY <1>1 DEF Checking!Init, LookNumbers
<1>3. LookFlags
  BY DEF Checking!Init, LookFlags
<1>4. QED
  BY <1>2, <1>3, CheckingParts

\* What is known, asked and wanted never runs ahead of what is published, and a lookup is in
\* flight exactly while one is somewhere between its question and its end.
LEMMA CheckingNextInv ==
    ASSUME Checking!ReleaseCheckAssumption, Checking!TypeOK, [Checking!Next]_(Checking!vars)
    PROVE  Checking!TypeOK'
<1>1. Len(Releases) \in Nat /\ MaxAsked \in Nat /\ LookNumbers /\ LookFlags
  BY CheckingParts DEF Checking!ReleaseCheckAssumption
<1>2. CASE Checking!Forget
  <2>1. LookNumbers'
    BY <1>1, <1>2 DEF Checking!Forget, LookNumbers, LookFlags
  <2>2. LookFlags'
    BY <1>1, <1>2 DEF Checking!Forget, LookFlags
  <2>3. QED
    BY <2>1, <2>2, CheckingParts DEF Checking!TypeOK, Checking!Known, LookNumbers, LookFlags
<1>3. CASE Checking!Look
  <2>1. LookNumbers'
    BY <1>1, <1>3 DEF Checking!Look, LookNumbers, LookFlags
  <2>2. LookFlags'
    BY <1>1, <1>3 DEF Checking!Look, LookFlags
  <2>3. QED
    BY <2>1, <2>2, CheckingParts DEF Checking!TypeOK, Checking!Known, LookNumbers, LookFlags
<1>4. CASE Checking!Expire
  <2>1. LookNumbers'
    BY <1>1, <1>4 DEF Checking!Expire, LookNumbers, LookFlags
  <2>2. LookFlags'
    BY <1>1, <1>4 DEF Checking!Expire, LookFlags
  <2>3. QED
    BY <2>1, <2>2, CheckingParts DEF Checking!TypeOK, Checking!Known, LookNumbers, LookFlags
<1>5. CASE Checking!Release
  <2>1. LookNumbers'
    BY <1>1, <1>5 DEF Checking!Release, LookNumbers, LookFlags
  <2>2. LookFlags'
    BY <1>1, <1>5 DEF Checking!Release, LookFlags
  <2>3. QED
    BY <2>1, <2>2, CheckingParts DEF Checking!TypeOK, Checking!Known, LookNumbers, LookFlags
<1>6. CASE Checking!Refresh
  <2>1. LookNumbers'
    BY <1>1, <1>6 DEF Checking!Refresh, LookNumbers, LookFlags
  <2>2. LookFlags'
    BY <1>1, <1>6 DEF Checking!Refresh, LookFlags
  <2>3. QED
    BY <2>1, <2>2, CheckingParts DEF Checking!TypeOK, Checking!Known, LookNumbers, LookFlags
<1>7. CASE Checking!Told
  <2>1. LookNumbers'
    BY <1>1, <1>7 DEF Checking!Told, LookNumbers, LookFlags
  <2>2. LookFlags'
    BY <1>1, <1>7 DEF Checking!Told, LookFlags
  <2>3. QED
    BY <2>1, <2>2, CheckingParts DEF Checking!TypeOK, Checking!Known, LookNumbers, LookFlags
<1>8. CASE Checking!Store
  <2>1. LookNumbers'
    BY <1>1, <1>8 DEF Checking!Store, LookNumbers, LookFlags
  <2>2. LookFlags'
    BY <1>1, <1>8 DEF Checking!Store, LookFlags
  <2>3. QED
    BY <2>1, <2>2, CheckingParts DEF Checking!TypeOK, Checking!Known, LookNumbers, LookFlags
<1>9. CASE Checking!Landed
  <2>1. LookNumbers'
    BY <1>1, <1>9 DEF Checking!Landed, LookNumbers, LookFlags
  <2>2. LookFlags'
    BY <1>1, <1>9 DEF Checking!Landed, LookFlags
  <2>3. QED
    BY <2>1, <2>2, CheckingParts DEF Checking!TypeOK, Checking!Known, LookNumbers, LookFlags
<1>10. CASE UNCHANGED Checking!vars
  <2>1. LookNumbers'
    BY <1>1, <1>10 DEF Checking!vars, LookNumbers, LookFlags
  <2>2. LookFlags'
    BY <1>1, <1>10 DEF Checking!vars, LookFlags
  <2>3. QED
    BY <2>1, <2>2, CheckingParts DEF Checking!TypeOK, Checking!Known, LookNumbers, LookFlags
<1>11. QED
  BY <1>2, <1>3, <1>4, <1>5, <1>6, <1>7, <1>8, <1>9, <1>10 DEF Checking!Next

-----------------------------------------------------------------------------
(* BackupJobs: CopiedOnce counts the messages of a file, which more than   *)
(* one job can make.  CopiesCounted says which: one for each job that runs *)
(* behind the account's, and one for each restart between a message and its*)
(* record.                                                                 *)

Underway == {t \in Jobs!Triggers : Jobs!Running(t)}
Behind == Underway \ {current}
Copying(f) == {t \in Jobs!Triggers : job[t].pc = "copy" /\ job[t].cur = f}
Recording(f) == {t \in Jobs!Triggers : job[t].pc = "record" /\ job[t].cur = f}

\* A trigger that has not come has started nothing.
TriggersFresh ==
    /\ \A f \in Files : file[f] = "none" => job[f].pc = "none" /\ f \notin awaiting
    /\ \A f \in awaiting : job[f].pc = "none"
    /\ \A t \in Ticks \ ticked : job[t].pc = "none"
    /\ \A r \in Buttons : asking[r] # "answered" => job[r].pc = "none"

\* A job handles files that were uploaded, and a file that was not has no message.
JobsHandle ==
    /\ \A t \in Jobs!Triggers : /\ \A f \in job[t].todo : file[f] # "none"
                                /\ job[t].pc \in {"copy", "record"} => job[t].cur \in Files
                                /\ job[t].cur \in Files => file[job[t].cur] # "none"
    /\ \A f \in Files : file[f] = "none" => copies[f] = 0

\* The messages of a file that has no record yet are about to be recorded or were lost in a
\* crash, and a job that runs behind the account's has overtaken one; a file that has its
\* record is copied by those only that had looked before.
CopiesCounted ==
    /\ Cardinality(Behind) <= overtakes
    /\ \A f \in Jobs!Rows \ copied :
          copies[f] + Cardinality(Behind) <= overtakes + crashes + Cardinality(Recording(f))
    /\ \A f \in copied : copies[f] + Cardinality(Copying(f)) <= 1 + overtakes + crashes

JobsInv == Jobs!TypeOK /\ IsFiniteSet(Underway) /\ TriggersFresh /\ JobsHandle /\ CopiesCounted

\* What a finite set counts when it gains or loses an element.
LEMMA CountOne ==
    ASSUME NEW S, IsFiniteSet(S), NEW x
    PROVE  /\ IsFiniteSet(S \cup {x}) /\ IsFiniteSet(S \ {x}) /\ Cardinality(S) \in Nat
           /\ Cardinality(S \cup {x}) = IF x \in S THEN Cardinality(S) ELSE Cardinality(S) + 1
           /\ Cardinality(S \ {x}) = IF x \in S THEN Cardinality(S) - 1 ELSE Cardinality(S)
BY FS_AddElement, FS_RemoveElement, FS_CardinalityType

\* The jobs on a file, copying it or recording its copy, are all but one behind the current.
LEMMA JobsOnFile ==
    ASSUME IsFiniteSet(Underway), NEW f
    PROVE  /\ IsFiniteSet(Behind) /\ IsFiniteSet(Copying(f)) /\ IsFiniteSet(Recording(f))
           /\ Cardinality(Behind) \in Nat
           /\ Cardinality(Copying(f)) \in Nat /\ Cardinality(Recording(f)) \in Nat
           /\ Cardinality(Copying(f)) + Cardinality(Recording(f)) <= Cardinality(Behind) + 1
<1>1. Copying(f) \subseteq Underway /\ Recording(f) \subseteq Underway
      /\ Copying(f) \cap Recording(f) = {}
  BY DEF Copying, Recording, Underway, Jobs!Running
<1>2. /\ IsFiniteSet(Behind) /\ Cardinality(Behind) \in Nat
      /\ Cardinality(Underway) \in Nat /\ Cardinality(Underway) <= Cardinality(Behind) + 1
  BY CountOne, FS_CardinalityType DEF Behind
<1>3. /\ IsFiniteSet(Copying(f)) /\ IsFiniteSet(Recording(f))
      /\ Cardinality(Copying(f)) \in Nat /\ Cardinality(Recording(f)) \in Nat
  BY <1>1, FS_Subset, FS_CardinalityType
<1>4. Cardinality(Copying(f) \cup Recording(f))
        = Cardinality(Copying(f)) + Cardinality(Recording(f))
  <2>1. Cardinality(Copying(f) \cap Recording(f)) = 0
    BY <1>1, FS_EmptySet
  <2>2. Cardinality(Copying(f) \cup Recording(f))
            = Cardinality(Copying(f)) + Cardinality(Recording(f))
              - Cardinality(Copying(f) \cap Recording(f))
    BY <1>3, FS_Union
  <2>3. QED
    BY <1>3, <2>1, <2>2
<1>5. Cardinality(Copying(f) \cup Recording(f)) <= Cardinality(Underway)
  BY <1>1, FS_Subset
<1>6. QED
  BY <1>2, <1>3, <1>4, <1>5

\* What changes when one job does.
LEMMA OneJob ==
    ASSUME job \in [Jobs!Triggers -> Jobs!JobState], NEW t \in Jobs!Triggers,
           NEW n \in Jobs!JobState, job' = [job EXCEPT ![t] = n]
    PROVE  /\ job' \in [Jobs!Triggers -> Jobs!JobState]
           /\ job'[t] = n /\ \A s \in Jobs!Triggers \ {t} : job'[s] = job[s]
           /\ Underway' = IF n.pc \in {"none", "over"} THEN Underway \ {t} ELSE Underway \cup {t}
           /\ \A f : Copying(f)' = IF n.pc = "copy" /\ n.cur = f THEN Copying(f) \cup {t}
                                                                 ELSE Copying(f) \ {t}
           /\ \A f : Recording(f)' = IF n.pc = "record" /\ n.cur = f THEN Recording(f) \cup {t}
                                                                     ELSE Recording(f) \ {t}
<1>1. /\ job' \in [Jobs!Triggers -> Jobs!JobState]
      /\ job'[t] = n /\ \A s \in Jobs!Triggers \ {t} : job'[s] = job[s]
  OBVIOUS
<1>2. Underway' = IF n.pc \in {"none", "over"} THEN Underway \ {t} ELSE Underway \cup {t}
  BY <1>1 DEF Underway, Jobs!Running, Jobs!Triggers
<1>3. ASSUME NEW f
      PROVE  /\ Copying(f)' = IF n.pc = "copy" /\ n.cur = f THEN Copying(f) \cup {t}
                                                            ELSE Copying(f) \ {t}
             /\ Recording(f)' = IF n.pc = "record" /\ n.cur = f THEN Recording(f) \cup {t}
                                                                ELSE Recording(f) \ {t}
  BY <1>1 DEF Copying, Recording, Jobs!Triggers
<1>4. QED
  BY <1>1, <1>2, <1>3

\* A step that makes no message and starts no copy leaves the counts in order: no job falls
\* behind, the copies being recorded are the same, and a file that comes to the catalog has
\* no message.
LEMMA CountsKept ==
    ASSUME JobsInv, UNCHANGED <<copies, overtakes, crashes>>,
           Behind' \subseteq Behind, copied' \subseteq copied,
           \A f \in Jobs!Rows' \ copied' :
              f \in Jobs!Rows \ copied \/ (f \in Files /\ copies[f] = 0),
           \A f \in Files : Copying(f)' \subseteq Copying(f) /\ Recording(f)' = Recording(f)
    PROVE  CopiesCounted'
<1>1. /\ overtakes \in Nat /\ crashes \in Nat /\ copies \in [Files -> Nat]
      /\ copied \subseteq Jobs!Rows /\ Jobs!Rows \subseteq Files /\ IsFiniteSet(Underway)
  BY DEF JobsInv, Jobs!TypeOK, Jobs!Rows
<1>2. Cardinality(Behind') \in Nat /\ Cardinality(Behind') <= Cardinality(Behind)
      /\ Cardinality(Behind) \in Nat
  BY <1>1, JobsOnFile, FS_Subset, FS_CardinalityType
<1>3. ASSUME NEW f \in Files
      PROVE  /\ Cardinality(Copying(f)') \in Nat /\ Cardinality(Recording(f)) \in Nat
             /\ Cardinality(Copying(f)') <= Cardinality(Copying(f))
             /\ Cardinality(Recording(f)') = Cardinality(Recording(f))
             /\ Cardinality(Copying(f)) \in Nat /\ copies[f] \in Nat
  BY <1>1, JobsOnFile, FS_Subset, FS_CardinalityType
<1>4. Cardinality(Behind)' <= overtakes'
  BY <1>1, <1>2 DEF JobsInv, CopiesCounted
<1>5. ASSUME NEW f \in Jobs!Rows' \ copied'
      PROVE  copies'[f] + Cardinality(Behind)' <= overtakes' + crashes' + Cardinality(Recording(f))'
  <2>1. CASE f \in Jobs!Rows \ copied
    BY <1>1, <1>2, <1>3, <2>1 DEF JobsInv, CopiesCounted
  <2>2. CASE f \in Files /\ copies[f] = 0
    BY <1>1, <1>2, <1>3, <1>4, <2>2
  <2>3. QED
    BY <2>1, <2>2
<1>6. ASSUME NEW f \in copied'
      PROVE  copies'[f] + Cardinality(Copying(f))' <= 1 + overtakes' + crashes'
  BY <1>1, <1>3 DEF JobsInv, CopiesCounted
<1>7. QED
  BY <1>4, <1>5, <1>6 DEF CopiesCounted

\* A file of the catalog is copied once (CopiedOnce; handlers_accounts.go).
LEMMA CountedOnce == JobsInv => Jobs!CopiedOnce
<1> SUFFICES ASSUME JobsInv, NEW f \in Jobs!Rows PROVE copies[f] <= 1 + overtakes + crashes
  BY DEF Jobs!CopiedOnce
<1>1. /\ overtakes \in Nat /\ crashes \in Nat /\ copies[f] \in Nat /\ IsFiniteSet(Underway)
  BY DEF JobsInv, Jobs!TypeOK, Jobs!Rows
<1>2. QED
  BY <1>1, JobsOnFile DEF JobsInv, CopiesCounted

LEMMA JobsInitInv == Jobs!JobsAssumption /\ Jobs!Init => JobsInv
<1> SUFFICES ASSUME Jobs!JobsAssumption, Jobs!Init PROVE JobsInv
  OBVIOUS
<1>1. job \in [Jobs!Triggers -> Jobs!JobState] /\ \A t \in Jobs!Triggers : job[t] = Jobs!NoJob
  BY DEF Jobs!Init, Jobs!JobState, Jobs!NoJob
<1>2. Underway = {}
  BY <1>1 DEF Underway, Jobs!Running, Jobs!NoJob
<1>3. IsFiniteSet(Underway) /\ Cardinality(Behind) = 0
  BY <1>2, FS_EmptySet DEF Behind
<1>4. Jobs!Rows = {} /\ copied = {}
  BY DEF Jobs!Init, Jobs!Rows
<1>5. Jobs!TypeOK
  BY <1>1, <1>4 DEF Jobs!Init, Jobs!TypeOK, Jobs!JobsAssumption
<1>6. TriggersFresh
  BY <1>1 DEF Jobs!Init, TriggersFresh, Jobs!Triggers, Jobs!NoJob
<1>7. JobsHandle
  BY <1>1 DEF Jobs!Init, JobsHandle, Jobs!NoJob, Jobs!JobsAssumption
<1>8. CopiesCounted
  BY <1>3, <1>4 DEF Jobs!Init, CopiesCounted
<1>9. QED
  BY <1>3, <1>5, <1>6, <1>7, <1>8 DEF JobsInv

\* The record of a job is n after a step of its own.
JobBecomes(t, n) ==
    /\ n \in Jobs!JobState /\ n.pc # "none" /\ job' = [job EXCEPT ![t] = n]
    /\ \A f \in n.todo : file[f] # "none"
    /\ n.pc \in {"copy", "record"} => n.cur \in Files
    /\ n.cur \in Files => file[n.cur] # "none"
    /\ UNCHANGED <<file, awaiting, ticked, asking, current, overtakes, crashes>>

LEMMA JobSets ==
    ASSUME JobsInv, NEW t \in Jobs!Triggers, NEW n, JobBecomes(t, n)
    PROVE  /\ job' \in [Jobs!Triggers -> Jobs!JobState]
           /\ job'[t] = n /\ \A s \in Jobs!Triggers \ {t} : job'[s] = job[s]
           /\ Underway' = IF n.pc = "over" THEN Underway \ {t} ELSE Underway \cup {t}
           /\ \A f : Copying(f)' = IF n.pc = "copy" /\ n.cur = f THEN Copying(f) \cup {t}
                                                                 ELSE Copying(f) \ {t}
           /\ \A f : Recording(f)' = IF n.pc = "record" /\ n.cur = f THEN Recording(f) \cup {t}
                                                                     ELSE Recording(f) \ {t}
           /\ IsFiniteSet(Underway')
<1>1. /\ job \in [Jobs!Triggers -> Jobs!JobState] /\ IsFiniteSet(Underway)
      /\ n \in Jobs!JobState /\ job' = [job EXCEPT ![t] = n] /\ n.pc # "none"
  BY DEF JobsInv, Jobs!TypeOK, JobBecomes
<1>2. IsFiniteSet(Underway \ {t}) /\ IsFiniteSet(Underway \cup {t})
  BY <1>1, CountOne
<1>3. Underway' = IF n.pc = "over" THEN Underway \ {t} ELSE Underway \cup {t}
  BY <1>1, OneJob
<1>4. QED
  BY <1>1, <1>2, <1>3, OneJob, ZenonT(30)

\* All but the counts, for a step of a job.
LEMMA JobStepInv ==
    ASSUME JobsInv, NEW t \in Jobs!Triggers, Jobs!Running(t), NEW n, JobBecomes(t, n),
           copies' \in [Files -> Nat], copied' \subseteq Jobs!Rows,
           owed' \in [Files -> {"no", "started", "marked"}],
           \A f \in Files : file[f] = "none" => copies'[f] = 0
    PROVE  Jobs!TypeOK' /\ IsFiniteSet(Underway)' /\ TriggersFresh' /\ JobsHandle'
<1>1. /\ job' \in [Jobs!Triggers -> Jobs!JobState]
      /\ job'[t] = n /\ \A s \in Jobs!Triggers \ {t} : job'[s] = job[s]
      /\ IsFiniteSet(Underway')
  BY JobSets
<1>2. Jobs!TypeOK'
  <2>1. \A s \in Jobs!Triggers : job[s].pc # "none" => job'[s].pc # "none"
    BY <1>1 DEF JobBecomes
  <2>2. QED
    BY <1>1, <2>1 DEF JobsInv, Jobs!TypeOK, Jobs!Rows, JobBecomes
<1>3. TriggersFresh'
  <2>1. \A s \in Jobs!Triggers : job[s].pc = "none" => job'[s].pc = "none"
    BY <1>1 DEF Jobs!Running
  <2>2. QED
    BY <2>1 DEF JobsInv, TriggersFresh, Jobs!TypeOK, Jobs!Triggers, JobBecomes
<1>4. JobsHandle'
  BY <1>1 DEF JobsInv, JobsHandle, JobBecomes
<1>5. QED
  BY <1>1, <1>2, <1>3, <1>4

\* A step of a job that starts no copy and makes no message.
LEMMA QuietStepInv ==
    ASSUME JobsInv, NEW t \in Jobs!Triggers, Jobs!Running(t), NEW n, JobBecomes(t, n),
           job[t].pc # "record", n.pc \notin {"copy", "record"}, UNCHANGED <<copies, copied>>,
           owed' \in [Files -> {"no", "started", "marked"}]
    PROVE  JobsInv'
<1>1. Jobs!TypeOK' /\ IsFiniteSet(Underway)' /\ TriggersFresh' /\ JobsHandle'
  BY JobStepInv DEF JobsInv, Jobs!TypeOK, JobsHandle
<1>2. /\ Underway' = IF n.pc = "over" THEN Underway \ {t} ELSE Underway \cup {t}
      /\ \A f : Copying(f)' = Copying(f) \ {t} /\ Recording(f)' = Recording(f) \ {t}
  BY JobSets
<1>3. t \in Underway /\ \A f : t \notin Recording(f)
  BY DEF Underway, Recording
<1>4. CopiesCounted'
  <2>1. Behind' \subseteq Behind
    BY <1>2, <1>3 DEF Behind, JobBecomes
  <2>2. Jobs!Rows' = Jobs!Rows
    BY DEF Jobs!Rows, JobBecomes
  <2>3. \A f \in Files : Copying(f)' \subseteq Copying(f) /\ Recording(f)' = Recording(f)
    BY <1>2, <1>3
  <2>4. QED
    BY <2>1, <2>2, <2>3, CountsKept DEF JobBecomes
<1>5. QED
  BY <1>1, <1>4 DEF JobsInv

LEMMA SettleType ==
    ASSUME JobsInv, NEW fs, Jobs!Settle(fs) PROVE owed' \in [Files -> {"no", "started", "marked"}]
BY DEF Jobs!Settle, JobsInv, Jobs!TypeOK

\* The pass over the files, and the end of a job.
LEMMA PassInv ==
    ASSUME JobsInv, NEW t \in Jobs!Triggers,
           Jobs!PassStart(t) \/ Jobs!PassFails(t) \/ Jobs!CopyFails(t)
           \/ Jobs!PendingCheck(t) \/ Jobs!Finish(t)
    PROVE  JobsInv'
<1>1. job[t] \in Jobs!JobState /\ job \in [Jobs!Triggers -> Jobs!JobState]
      /\ owed \in [Files -> {"no", "started", "marked"}]
  BY DEF JobsInv, Jobs!TypeOK
<1>2. /\ \A f \in job[t].todo : file[f] # "none"
      /\ job[t].cur \in Files => file[job[t].cur] # "none"
  BY DEF JobsInv, JobsHandle
<1>3. None \notin Files
  BY ServerParameters DEF Jobs!JobsAssumption
<1>4. CASE Jobs!PassStart(t)
  <2> DEFINE n == [job[t] EXCEPT !.pc = "next",
                                 !.todo = (IF job[t].file = All THEN Jobs!Live
                                           ELSE {job[t].file} \cap Jobs!Live) \ Disk]
  <2>1. n \in Jobs!JobState /\ n.pc = "next" /\ n.cur = job[t].cur /\ n.todo \subseteq Jobs!Live
    BY <1>1 DEF Jobs!JobState, Jobs!Live
  <2>2. \A f \in n.todo : file[f] # "none"
    BY <2>1 DEF Jobs!Live
  <2>3. job' = [job EXCEPT ![t] = n] /\ job[t].pc = "pass"
    BY <1>4 DEF Jobs!PassStart
  <2> HIDE DEF n
  <2>4. JobBecomes(t, n)
    BY <1>2, <1>4, <2>1, <2>2, <2>3 DEF Jobs!PassStart, Jobs!JobOnly, Jobs!histories, JobBecomes
  <2>5. owed' \in [Files -> {"no", "started", "marked"}]
    BY <1>4, SettleType DEF Jobs!PassStart
  <2>6. QED
    BY <1>4, <2>1, <2>3, <2>4, <2>5, QuietStepInv DEF Jobs!PassStart, Jobs!Running
<1>5. CASE Jobs!PassFails(t)
  <2> DEFINE n == [job[t] EXCEPT !.pc = "next"]
  <2>1. n \in Jobs!JobState /\ n.pc = "next" /\ n.cur = job[t].cur /\ n.todo = job[t].todo
    BY <1>1 DEF Jobs!JobState
  <2>2. job' = [job EXCEPT ![t] = n] /\ job[t].pc = "pass"
    BY <1>1, <1>5 DEF Jobs!PassFails, Jobs!Goto
  <2> HIDE DEF n
  <2>3. JobBecomes(t, n)
    BY <1>2, <1>5, <2>1, <2>2 DEF Jobs!PassFails, Jobs!JobOnly, Jobs!histories, JobBecomes
  <2>4. owed' \in [Files -> {"no", "started", "marked"}]
    BY <1>5, SettleType DEF Jobs!PassFails
  <2>5. QED
    BY <1>5, <2>1, <2>2, <2>3, <2>4, QuietStepInv DEF Jobs!PassFails, Jobs!Running
<1>6. CASE Jobs!CopyFails(t)
  <2> DEFINE n == [job[t] EXCEPT !.pc = "next", !.cur = None]
  <2>1. n \in Jobs!JobState /\ n.pc = "next" /\ n.cur = None /\ n.todo = job[t].todo
    BY <1>1 DEF Jobs!JobState
  <2>2. job' = [job EXCEPT ![t] = n] /\ job[t].pc = "copy"
    BY <1>6 DEF Jobs!CopyFails
  <2> HIDE DEF n
  <2>3. JobBecomes(t, n)
    BY <1>2, <1>3, <1>6, <2>1, <2>2
       DEF Jobs!CopyFails, Jobs!JobOnly, Jobs!histories, JobBecomes
  <2>4. owed' \in [Files -> {"no", "started", "marked"}]
    BY <1>6, SettleType DEF Jobs!CopyFails
  <2>5. QED
    BY <1>6, <2>1, <2>2, <2>3, <2>4, QuietStepInv DEF Jobs!CopyFails, Jobs!Running
<1>7. CASE Jobs!PendingCheck(t)
  <2> DEFINE n == [job[t] EXCEPT !.pc = IF job[t].pending THEN "pass" ELSE "finish",
                                 !.pending = FALSE]
  <2>1. n \in Jobs!JobState /\ n.pc \in {"pass", "finish"} /\ n.cur = job[t].cur
        /\ n.todo = job[t].todo
    BY <1>1 DEF Jobs!JobState
  <2>2. job' = [job EXCEPT ![t] = n] /\ job[t].pc = "next"
    BY <1>7 DEF Jobs!PendingCheck
  <2> HIDE DEF n
  <2>3. JobBecomes(t, n)
    BY <1>2, <1>7, <2>1, <2>2 DEF Jobs!PendingCheck, Jobs!JobOnly, Jobs!histories, JobBecomes
  <2>4. QED
    BY <1>1, <1>7, <2>1, <2>2, <2>3, QuietStepInv DEF Jobs!PendingCheck, Jobs!Running
<1>8. CASE Jobs!Finish(t)
  <2> DEFINE n == [Jobs!NoJob EXCEPT !.pc = "over"]
  <2>1. n \in Jobs!JobState /\ n.pc = "over" /\ n.cur = None /\ n.todo = {}
    BY DEF Jobs!JobState, Jobs!NoJob
  <2>2. job' = [job EXCEPT ![t] = n] /\ job[t].pc = "finish"
    BY <1>8 DEF Jobs!Finish
  <2> HIDE DEF n
  <2>3. JobBecomes(t, n)
    BY <1>3, <1>8, <2>1, <2>2 DEF Jobs!Finish, Jobs!JobOnly, Jobs!histories, JobBecomes
  <2>4. QED
    BY <1>1, <1>8, <2>1, <2>2, <2>3, QuietStepInv DEF Jobs!Finish, Jobs!Running
<1>9. QED
  BY <1>4, <1>5, <1>6, <1>7, <1>8

\* A job looks for the record of a file, and goes on to copy it when there is none.
LEMMA ConsiderInv ==
    ASSUME JobsInv, NEW t \in Jobs!Triggers, NEW f \in Files, Jobs!Consider(t, f)
    PROVE  JobsInv'
<1>1. job[t] \in Jobs!JobState /\ job \in [Jobs!Triggers -> Jobs!JobState]
      /\ owed \in [Files -> {"no", "started", "marked"}] /\ copies \in [Files -> Nat]
      /\ overtakes \in Nat /\ crashes \in Nat /\ copied \subseteq Jobs!Rows
  BY DEF JobsInv, Jobs!TypeOK
<1>2. /\ \A g \in job[t].todo : file[g] # "none"
      /\ job[t].cur \in Files => file[job[t].cur] # "none"
      /\ job[t].pc = "next" /\ f \in job[t].todo
  BY DEF JobsInv, JobsHandle, Jobs!Consider
<1>3. UNCHANGED <<file, awaiting, ticked, asking, current, overtakes, crashes, copied, copies,
                  owed>>
  BY DEF Jobs!Consider, Jobs!JobOnly, Jobs!histories
<1>4. CASE f \in copied
  <2> DEFINE n == [job[t] EXCEPT !.todo = job[t].todo \ {f}]
  <2>1. n \in Jobs!JobState /\ n.pc = "next" /\ n.cur = job[t].cur /\ n.todo \subseteq job[t].todo
    BY <1>1, <1>2 DEF Jobs!JobState
  <2>2. job' = [job EXCEPT ![t] = n]
    BY <1>4 DEF Jobs!Consider
  <2> HIDE DEF n
  <2>3. JobBecomes(t, n)
    BY <1>2, <1>3, <2>1, <2>2 DEF JobBecomes
  <2>4. QED
    BY <1>1, <1>2, <1>3, <2>1, <2>3, QuietStepInv DEF Jobs!Running
<1>5. CASE f \notin copied
  <2> DEFINE n == [job[t] EXCEPT !.todo = job[t].todo \ {f}, !.pc = "copy", !.cur = f]
  <2>1. n \in Jobs!JobState /\ n.pc = "copy" /\ n.cur = f /\ n.todo \subseteq job[t].todo
    BY <1>1 DEF Jobs!JobState
  <2>2. job' = [job EXCEPT ![t] = n]
    BY <1>5 DEF Jobs!Consider
  <2> HIDE DEF n
  <2>3. JobBecomes(t, n)
    BY <1>2, <1>3, <2>1, <2>2 DEF JobBecomes
  <2>4. Jobs!TypeOK' /\ IsFiniteSet(Underway)' /\ TriggersFresh' /\ JobsHandle'
    BY <1>1, <1>2, <1>3, <2>3, JobStepInv DEF Jobs!Running, JobsInv, JobsHandle
  <2>5. /\ Underway' = Underway \cup {t} /\ t \in Underway
        /\ \A g : Recording(g)' = Recording(g)
        /\ \A g \in copied : Copying(g)' \subseteq Copying(g)
    <3>1. t \in Underway /\ \A g : t \notin Recording(g)
      BY <1>2 DEF Underway, Recording, Jobs!Running
    <3>2. Underway' = IF n.pc = "over" THEN Underway \ {t} ELSE Underway \cup {t}
      BY <2>3, JobSets
    <3>3. \A g : Copying(g)' = IF n.pc = "copy" /\ n.cur = g THEN Copying(g) \cup {t}
                                                           ELSE Copying(g) \ {t}
      BY <2>3, JobSets
    <3>4. \A g : Recording(g)' = IF n.pc = "record" /\ n.cur = g THEN Recording(g) \cup {t}
                                                               ELSE Recording(g) \ {t}
      BY <2>3, JobSets
    <3>5. QED
      BY <1>5, <2>1, <3>1, <3>2, <3>3, <3>4
  <2>6. Behind' = Behind /\ Jobs!Rows' = Jobs!Rows /\ IsFiniteSet(Underway)
    BY <1>3, <2>5 DEF Behind, Jobs!Rows, JobsInv
  <2>7. ASSUME NEW g \in copied
        PROVE  copies'[g] + Cardinality(Copying(g))' <= 1 + overtakes' + crashes'
    <3>1. copies[g] + Cardinality(Copying(g)) <= 1 + overtakes + crashes
      BY DEF JobsInv, CopiesCounted
    <3>2. Cardinality(Copying(g)') <= Cardinality(Copying(g)) /\ Cardinality(Copying(g)) \in Nat
          /\ Cardinality(Copying(g)') \in Nat /\ copies[g] \in Nat
      BY <1>1, <2>5, <2>6, JobsOnFile, FS_Subset, FS_CardinalityType DEF Jobs!Rows
    <3>3. QED
      BY <1>1, <1>3, <3>1, <3>2
  <2>8. CopiesCounted'
    BY <1>3, <2>5, <2>6, <2>7 DEF JobsInv, CopiesCounted
  <2>9. QED
    BY <2>4, <2>8 DEF JobsInv
<1>6. QED
  BY <1>4, <1>5

\* A message is made: it is one of the copies that wait to be recorded.
LEMMA CopyMadeInv == ASSUME JobsInv, NEW t \in Jobs!Triggers, Jobs!CopyMade(t) PROVE JobsInv'
<1>1. job[t] \in Jobs!JobState /\ job \in [Jobs!Triggers -> Jobs!JobState]
      /\ owed \in [Files -> {"no", "started", "marked"}] /\ copies \in [Files -> Nat]
      /\ overtakes \in Nat /\ crashes \in Nat /\ copied \subseteq Jobs!Rows
  BY DEF JobsInv, Jobs!TypeOK
<1> PICK c : c = job[t].cur
  OBVIOUS
<1> DEFINE n == [job[t] EXCEPT !.pc = "record"]
<1>2. /\ \A g \in job[t].todo : file[g] # "none"
      /\ c \in Files /\ file[c] # "none" /\ job[t].pc = "copy"
  BY DEF JobsInv, JobsHandle, Jobs!CopyMade
<1>3. UNCHANGED <<file, awaiting, ticked, asking, current, overtakes, crashes, copied, owed>>
      /\ copies' = [copies EXCEPT ![c] = @ + 1] /\ job' = [job EXCEPT ![t] = n]
  BY <1>1 DEF Jobs!CopyMade, Jobs!JobOnly, Jobs!histories, Jobs!Goto
<1>4. n \in Jobs!JobState /\ n.pc = "record" /\ n.cur = c /\ n.todo = job[t].todo
  BY <1>1 DEF Jobs!JobState
<1> HIDE DEF n
<1>5. Jobs!TypeOK' /\ IsFiniteSet(Underway)' /\ TriggersFresh' /\ JobsHandle'
  <2>1. JobBecomes(t, n)
    BY <1>2, <1>3, <1>4 DEF JobBecomes
  <2>2. copies' \in [Files -> Nat] /\ \A f \in Files : file[f] = "none" => copies'[f] = 0
    BY <1>1, <1>2, <1>3 DEF JobsInv, JobsHandle
  <2>3. QED
    BY <1>1, <1>2, <1>3, <2>1, <2>2, JobStepInv DEF Jobs!Running
<1>6. /\ t \in Underway /\ t \in Copying(c) /\ t \notin Recording(c)
      /\ \A g : g # c => t \notin Copying(g) /\ t \notin Recording(g)
  BY <1>2 DEF Underway, Copying, Recording, Jobs!Running
<1>7. /\ Underway' = Underway \cup {t}
      /\ Copying(c)' = Copying(c) \ {t} /\ Recording(c)' = Recording(c) \cup {t}
      /\ \A g : g # c => Copying(g)' = Copying(g) /\ Recording(g)' = Recording(g)
  <2>1. JobBecomes(t, n)
    BY <1>2, <1>3, <1>4 DEF JobBecomes
  <2>2. Underway' = IF n.pc = "over" THEN Underway \ {t} ELSE Underway \cup {t}
    BY <2>1, JobSets
  <2>3. \A f : Copying(f)' = IF n.pc = "copy" /\ n.cur = f THEN Copying(f) \cup {t}
                                                         ELSE Copying(f) \ {t}
    BY <2>1, JobSets
  <2>4. \A f : Recording(f)' = IF n.pc = "record" /\ n.cur = f THEN Recording(f) \cup {t}
                                                             ELSE Recording(f) \ {t}
    BY <2>1, JobSets
  <2>5. QED
    BY <1>4, <1>6, <2>2, <2>3, <2>4
<1>8. Behind' = Behind /\ Jobs!Rows' = Jobs!Rows /\ IsFiniteSet(Underway)
  BY <1>3, <1>6, <1>7 DEF Behind, Jobs!Rows, JobsInv
<1>9. /\ Cardinality(Copying(c)') = Cardinality(Copying(c)) - 1
      /\ Cardinality(Recording(c)') = Cardinality(Recording(c)) + 1
      /\ Cardinality(Copying(c)) \in Nat /\ Cardinality(Recording(c)) \in Nat
      /\ Cardinality(Behind) \in Nat
  BY <1>6, <1>7, <1>8, JobsOnFile, CountOne
<1>10. ASSUME NEW g \in Jobs!Rows \ copied
       PROVE  copies'[g] + Cardinality(Behind)'
                 <= overtakes' + crashes' + Cardinality(Recording(g))'
  <2>1. copies[g] + Cardinality(Behind) <= overtakes + crashes + Cardinality(Recording(g))
        /\ g \in Files
    BY DEF JobsInv, CopiesCounted, Jobs!Rows
  <2>2. CASE g = c
    BY <1>1, <1>3, <1>8, <1>9, <2>1, <2>2
  <2>3. CASE g # c
    BY <1>1, <1>3, <1>7, <1>8, <2>1, <2>3
  <2>4. QED
    BY <2>2, <2>3
<1>11. ASSUME NEW g \in copied
       PROVE  copies'[g] + Cardinality(Copying(g))' <= 1 + overtakes' + crashes'
  <2>1. copies[g] + Cardinality(Copying(g)) <= 1 + overtakes + crashes /\ g \in Files
    BY <1>1 DEF JobsInv, CopiesCounted, Jobs!Rows
  <2>2. CASE g = c
    BY <1>1, <1>3, <1>9, <2>1, <2>2
  <2>3. CASE g # c
    BY <1>1, <1>3, <1>7, <2>1, <2>3
  <2>4. QED
    BY <2>2, <2>3
<1>12. CopiesCounted'
  BY <1>3, <1>8, <1>10, <1>11 DEF JobsInv, CopiesCounted
<1>13. QED
  BY <1>5, <1>12 DEF JobsInv

\* The record of a copy: the jobs that copy the file and those that record it are all but one
\* behind the current.
LEMMA RecordInv == ASSUME JobsInv, NEW t \in Jobs!Triggers, Jobs!Record(t) PROVE JobsInv'
<1>1. job[t] \in Jobs!JobState /\ job \in [Jobs!Triggers -> Jobs!JobState]
      /\ owed \in [Files -> {"no", "started", "marked"}] /\ copies \in [Files -> Nat]
      /\ overtakes \in Nat /\ crashes \in Nat /\ copied \subseteq Jobs!Rows
      /\ None \notin Files
  BY ServerParameters DEF JobsInv, Jobs!TypeOK, Jobs!JobsAssumption
<1> DEFINE c == job[t].cur
           n == [job[t] EXCEPT !.pc = "next", !.cur = None]
<1>2. /\ \A g \in job[t].todo : file[g] # "none"
      /\ c \in Files /\ file[c] # "none" /\ job[t].pc = "record"
  BY DEF JobsInv, JobsHandle, Jobs!Record
<1>3. UNCHANGED <<file, awaiting, ticked, asking, current, overtakes, crashes, copies, owed>>
      /\ copied' = (IF c \in Jobs!Rows THEN copied \cup {c} ELSE copied)
      /\ job' = [job EXCEPT ![t] = n]
  BY <1>1 DEF Jobs!Record, Jobs!JobOnly, Jobs!histories
<1>4. n \in Jobs!JobState /\ n.pc = "next" /\ n.cur = None /\ n.todo = job[t].todo
  BY <1>1 DEF Jobs!JobState
<1> HIDE DEF n
<1>5. Jobs!TypeOK' /\ IsFiniteSet(Underway)' /\ TriggersFresh' /\ JobsHandle'
  <2>1. JobBecomes(t, n)
    BY <1>1, <1>2, <1>3, <1>4 DEF JobBecomes
  <2>2. QED
    BY <1>1, <1>2, <1>3, <2>1, JobStepInv DEF Jobs!Running, JobsInv, JobsHandle
<1>6. /\ t \in Underway /\ \A g : t \notin Copying(g)
      /\ \A g : g # c => t \notin Recording(g)
  BY <1>2 DEF Underway, Copying, Recording, Jobs!Running
<1>7. /\ Underway' = Underway
      /\ \A g : Copying(g)' = Copying(g) /\ (g # c => Recording(g)' = Recording(g))
  <2>1. JobBecomes(t, n)
    BY <1>1, <1>2, <1>3, <1>4 DEF JobBecomes
  <2>2. Underway' = IF n.pc = "over" THEN Underway \ {t} ELSE Underway \cup {t}
    BY <2>1, JobSets
  <2>3. \A f : Copying(f)' = IF n.pc = "copy" /\ n.cur = f THEN Copying(f) \cup {t}
                                                         ELSE Copying(f) \ {t}
    BY <2>1, JobSets
  <2>4. \A f : Recording(f)' = IF n.pc = "record" /\ n.cur = f THEN Recording(f) \cup {t}
                                                             ELSE Recording(f) \ {t}
    BY <2>1, JobSets
  <2>5. QED
    BY <1>4, <1>6, <2>2, <2>3, <2>4
<1>8. Behind' = Behind /\ Jobs!Rows' = Jobs!Rows /\ IsFiniteSet(Underway)
  BY <1>3, <1>7 DEF Behind, Jobs!Rows, JobsInv
<1>9. ASSUME NEW g \in Jobs!Rows \ copied'
      PROVE  copies'[g] + Cardinality(Behind)' <= overtakes' + crashes' + Cardinality(Recording(g))'
  <2>1. g # c /\ g \in Jobs!Rows \ copied
    BY <1>3
  <2>2. QED
    BY <1>3, <1>7, <1>8, <2>1 DEF JobsInv, CopiesCounted
<1>10. ASSUME NEW g \in copied'
       PROVE  copies'[g] + Cardinality(Copying(g))' <= 1 + overtakes' + crashes'
  <2>1. CASE g \in copied
    BY <1>3, <1>7, <2>1 DEF JobsInv, CopiesCounted
  <2>2. CASE g \notin copied
    <3>1. g \in Jobs!Rows \ copied /\ g \in Files
      BY <1>2, <1>3, <2>2
    <3>2. copies[g] + Cardinality(Behind) <= overtakes + crashes + Cardinality(Recording(g))
      BY <3>1 DEF JobsInv, CopiesCounted
    <3>3. /\ Cardinality(Copying(g)) + Cardinality(Recording(g)) <= Cardinality(Behind) + 1
          /\ Cardinality(Copying(g)) \in Nat /\ Cardinality(Recording(g)) \in Nat
          /\ Cardinality(Behind) \in Nat
      BY <1>8, JobsOnFile
    <3>4. QED
      BY <1>1, <1>3, <1>7, <3>1, <3>2, <3>3
  <2>3. QED
    BY <2>1, <2>2
<1>11. CopiesCounted'
  BY <1>3, <1>8, <1>9, <1>10 DEF JobsInv, CopiesCounted
<1>12. QED
  BY <1>5, <1>11 DEF JobsInv

\* A step that leaves the jobs alone.
LEMMA CatalogInv ==
    ASSUME JobsInv, NEW f \in Files,
           Jobs!Uploaded(f) \/ Jobs!Trash(f) \/ Jobs!Restore(f) \/ Jobs!Remove(f)
    PROVE  JobsInv'
<1>1. UNCHANGED <<ticked, asking, job, current, copies, overtakes, crashes>>
  BY DEF Jobs!Uploaded, Jobs!Trash, Jobs!Restore, Jobs!Remove, Jobs!CatalogOnly, Jobs!histories
<1>2. owed' \in [Files -> {"no", "started", "marked"}]
  <2>1. owed \in [Files -> {"no", "started", "marked"}]
    BY DEF JobsInv, Jobs!TypeOK
  <2>2. QED
    BY <2>1, SettleType DEF Jobs!Uploaded, Jobs!Trash, Jobs!Restore, Jobs!Remove
<1>3. /\ file' \in [Files -> {"none", "live", "trashed", "gone"}]
      /\ \A g \in Files : file'[g] = "none" => file[g] = "none"
      /\ awaiting' \subseteq awaiting \cup {f} /\ file'[f] # "none"
      /\ \A g \in Files : file'[g] = "none" => g \notin awaiting'
  BY DEF JobsInv, Jobs!TypeOK, TriggersFresh, Jobs!Live, Jobs!Rows,
         Jobs!Uploaded, Jobs!Trash, Jobs!Restore, Jobs!Remove
<1>4. /\ copied' \subseteq copied /\ copied' \subseteq Jobs!Rows'
      /\ \A g \in Jobs!Rows' \ copied' :
            g \in Jobs!Rows \ copied \/ (g \in Files /\ copies[g] = 0)
  BY DEF JobsInv, Jobs!TypeOK, JobsHandle, Jobs!Live, Jobs!Rows,
         Jobs!Uploaded, Jobs!Trash, Jobs!Restore, Jobs!Remove
<1>5. /\ Underway' = Underway /\ Behind' = Behind
      /\ \A g : Copying(g)' = Copying(g) /\ Recording(g)' = Recording(g)
  BY <1>1 DEF Underway, Behind, Copying, Recording, Jobs!Running
<1>6. Jobs!TypeOK'
  BY <1>1, <1>2, <1>3, <1>4 DEF JobsInv, Jobs!TypeOK
<1>7. TriggersFresh'
  <2>1. \A g \in awaiting' : job[g].pc = "none"
    BY <1>3 DEF JobsInv, TriggersFresh, Jobs!Uploaded, Jobs!Trash, Jobs!Restore, Jobs!Remove
  <2>2. QED
    BY <1>1, <1>3, <2>1 DEF JobsInv, TriggersFresh
<1>8. JobsHandle'
  BY <1>1, <1>3 DEF JobsInv, Jobs!TypeOK, Jobs!JobState, JobsHandle
<1>9. CopiesCounted'
  BY <1>1, <1>4, <1>5, CountsKept
<1>10. QED
  BY <1>5, <1>6, <1>7, <1>8, <1>9 DEF JobsInv

\* A trigger starts its job.  It has not done so before.
LEMMA BeginInv ==
    ASSUME JobsInv, NEW t \in Jobs!Triggers, NEW target \in Files \cup {All},
           job[t].pc = "none", Jobs!Begin(t, target)
    PROVE  /\ job' \in [Jobs!Triggers -> Jobs!JobState] /\ current' = t
           /\ job'[t].pc = "pass" /\ job'[t].todo = {} /\ job'[t].cur = None
           /\ \A s \in Jobs!Triggers \ {t} : job'[s] = job[s]
           /\ IsFiniteSet(Underway') /\ Behind' = Underway
           /\ \A f : Copying(f)' = Copying(f) /\ Recording(f)' = Recording(f)
<1> DEFINE n == [Jobs!NoJob EXCEPT !.pc = "pass", !.file = target]
<1>1. /\ n \in Jobs!JobState /\ n.pc = "pass" /\ n.todo = {} /\ n.cur = None
      /\ job' = [job EXCEPT ![t] = n] /\ current' = t
  BY DEF Jobs!JobState, Jobs!NoJob, Jobs!Begin
<1> HIDE DEF n
<1>2. job \in [Jobs!Triggers -> Jobs!JobState] /\ IsFiniteSet(Underway)
  BY DEF JobsInv, Jobs!TypeOK
<1>3. /\ job' \in [Jobs!Triggers -> Jobs!JobState]
      /\ job'[t] = n /\ \A s \in Jobs!Triggers \ {t} : job'[s] = job[s]
  BY <1>1, <1>2
<1>4. /\ Underway' = Underway \cup {t} /\ t \notin Underway
      /\ \A f : Copying(f)' = Copying(f) /\ Recording(f)' = Recording(f)
  BY <1>1, <1>3 DEF Underway, Copying, Recording, Jobs!Running
<1>5. IsFiniteSet(Underway')
  BY <1>2, <1>4, CountOne
<1>6. QED
  BY <1>1, <1>3, <1>4, <1>5 DEF Behind

\* A trigger that starts its job while none runs, or marks the job that does.
LEMMA AutoInv ==
    ASSUME JobsInv, NEW t \in Jobs!Triggers, NEW target \in Files \cup {All},
           job[t].pc = "none", Jobs!StartAuto(t, target)
    PROVE  /\ job' \in [Jobs!Triggers -> Jobs!JobState]
           /\ current' \in {None} \cup {s \in Jobs!Triggers : job'[s].pc # "none"}
           /\ \A s \in Jobs!Triggers \ {t} :
                 /\ job'[s].pc = job[s].pc /\ job'[s].cur = job[s].cur
                 /\ job'[s].todo = job[s].todo
           /\ (job'[t].pc \in {"none", "pass"} /\ job'[t].todo = {}) \/ job'[t] = job[t]
           /\ job'[t].cur \in {job[t].cur, None}
           /\ IsFiniteSet(Underway') /\ Behind' \subseteq Behind
           /\ \A f : Copying(f)' = Copying(f) /\ Recording(f)' = Recording(f)
<1>1. /\ job \in [Jobs!Triggers -> Jobs!JobState] /\ IsFiniteSet(Underway)
      /\ current \in {None} \cup {s \in Jobs!Triggers : job[s].pc # "none"}
      /\ None \notin Jobs!Triggers
  BY ServerParameters DEF JobsInv, Jobs!TypeOK, Jobs!JobsAssumption, Jobs!Triggers
<1>2. CASE Jobs!Busy
  <2>1. current \in Jobs!Triggers /\ job' = [job EXCEPT ![current].pending = TRUE]
        /\ current' = current
    BY <1>1, <1>2 DEF Jobs!StartAuto, Jobs!Busy
  <2>2. /\ job' \in [Jobs!Triggers -> Jobs!JobState]
        /\ \A s \in Jobs!Triggers : /\ job'[s].pc = job[s].pc /\ job'[s].cur = job[s].cur
                                    /\ job'[s].todo = job[s].todo
    BY <1>1, <2>1 DEF Jobs!JobState
  <2>3. /\ Underway' = Underway /\ current # t
        /\ \A f : Copying(f)' = Copying(f) /\ Recording(f)' = Recording(f)
    BY <1>1, <2>1, <2>2 DEF Underway, Copying, Recording, Jobs!Running, Jobs!Triggers
  <2>4. job'[t] = job[t]
    BY <1>1, <2>1, <2>3
  <2>5. QED
    BY <1>1, <2>1, <2>2, <2>3, <2>4 DEF Behind
<1>3. CASE ~Jobs!Busy
  <2>1. Jobs!Begin(t, target)
    BY <1>3 DEF Jobs!StartAuto
  <2>2. Underway \subseteq Behind
    BY <1>1, <1>3 DEF Jobs!Busy, Underway, Behind
  <2>3. QED
    BY <2>1, <2>2, BeginInv
<1>4. QED
  BY <1>2, <1>3

\* The mirroring of an upload, and a tick of the schedule.
LEMMA StartedInv ==
    ASSUME JobsInv, (\E f \in Files : Jobs!Mirror(f)) \/ (\E k \in Ticks : Jobs!Tick(k))
    PROVE  JobsInv'
<1>1. PICK t \in Jobs!Triggers :
         /\ job[t].pc = "none"
         /\ \/ \E target \in Files \cup {All} : Jobs!StartAuto(t, target)
            \/ UNCHANGED <<job, current>>
         /\ UNCHANGED <<file, copied, asking, copies, overtakes, crashes>>
         /\ owed' \in [Files -> {"no", "started", "marked"}]
         /\ awaiting' \subseteq awaiting /\ ticked \subseteq ticked' /\ ticked' \subseteq Ticks
         /\ t \notin awaiting' /\ (t \in Ticks => t \in ticked') /\ t \notin Buttons
         /\ t \in Files => file[t] # "none"
  <2>1. CASE \E f \in Files : Jobs!Mirror(f)
    <3>1. PICK f \in Files : Jobs!Mirror(f)
      BY <2>1
    <3>2. f \in Jobs!Triggers /\ f \notin Buttons /\ f \notin Ticks
      BY ServerParameters DEF Jobs!JobsAssumption, Jobs!Triggers
    <3>3. job[f].pc = "none" /\ file[f] # "none"
      BY <3>1 DEF Jobs!Mirror, JobsInv, TriggersFresh
    <3>4. owed' \in [Files -> {"no", "started", "marked"}]
      BY <3>1 DEF Jobs!Mirror, JobsInv, Jobs!TypeOK
    <3>5. QED
      BY <3>1, <3>2, <3>3, <3>4 DEF Jobs!Mirror, JobsInv, Jobs!TypeOK, Jobs!histories
  <2>2. CASE \E k \in Ticks : Jobs!Tick(k)
    <3>1. PICK k \in Ticks : Jobs!Tick(k)
      BY <2>2
    <3>2. k \in Jobs!Triggers /\ k \notin Buttons /\ k \notin Files /\ k \notin awaiting
      BY ServerParameters DEF Jobs!JobsAssumption, Jobs!Triggers, JobsInv, Jobs!TypeOK
    <3>3. job[k].pc = "none"
      BY <3>1 DEF Jobs!Tick, JobsInv, TriggersFresh
    <3>4. QED
      BY <3>1, <3>2, <3>3 DEF Jobs!Tick, JobsInv, Jobs!TypeOK, Jobs!histories
  <2>3. QED
    BY <2>1, <2>2
<1>2. job \in [Jobs!Triggers -> Jobs!JobState]
      /\ current \in {None} \cup {s \in Jobs!Triggers : job[s].pc # "none"}
      /\ None \notin Files
  BY ServerParameters DEF JobsInv, Jobs!TypeOK, Jobs!JobsAssumption
<1>3. /\ job' \in [Jobs!Triggers -> Jobs!JobState]
      /\ current' \in {None} \cup {s \in Jobs!Triggers : job'[s].pc # "none"}
      /\ \A s \in Jobs!Triggers \ {t} :
            /\ job'[s].pc = job[s].pc /\ job'[s].cur = job[s].cur /\ job'[s].todo = job[s].todo
      /\ (job'[t].pc \in {"none", "pass"} /\ job'[t].todo = {}) \/ job'[t] = job[t]
      /\ job'[t].cur \in {job[t].cur, None}
      /\ IsFiniteSet(Underway') /\ Behind' \subseteq Behind
      /\ \A f : Copying(f)' = Copying(f) /\ Recording(f)' = Recording(f)
  <2>1. CASE \E target \in Files \cup {All} : Jobs!StartAuto(t, target)
    BY <1>1, <2>1, AutoInv
  <2>2. CASE UNCHANGED <<job, current>>
    BY <1>2, <2>2 DEF JobsInv, Underway, Behind, Copying, Recording, Jobs!Running
  <2>3. QED
    BY <1>1, <2>1, <2>2
<1>4. Jobs!TypeOK'
  BY <1>1, <1>3 DEF JobsInv, Jobs!TypeOK, Jobs!Rows
<1>5. TriggersFresh'
  BY <1>1, <1>3 DEF JobsInv, Jobs!TypeOK, TriggersFresh, Jobs!Triggers
<1>6. JobsHandle'
  BY <1>1, <1>2, <1>3 DEF JobsInv, JobsHandle
<1>7. CopiesCounted'
  <2>1. Jobs!Rows' = Jobs!Rows
    BY <1>1 DEF Jobs!Rows
  <2>2. QED
    BY <1>1, <1>3, <2>1, CountsKept
<1>8. QED
  BY <1>3, <1>4, <1>5, <1>6, <1>7 DEF JobsInv

\* The button: its look at the running job, and its start, over that job if need be.
LEMMA ButtonInv ==
    ASSUME JobsInv, NEW r \in Buttons,
           \/ Jobs!RequestCheck(r) \/ Jobs!RequestFails(r)
           \/ \E target \in Jobs!Rows \cup {All} : Jobs!RequestStart(r, target)
    PROVE  JobsInv'
<1>1. /\ UNCHANGED <<file, copied, awaiting, ticked, copies, owed, crashes>>
      /\ \E a \in {"checked", "answered"} : asking' = [asking EXCEPT ![r] = a]
      /\ asking[r] \in {"idle", "checked"}
  BY DEF Jobs!RequestCheck, Jobs!RequestFails, Jobs!RequestStart, Jobs!RequestOnly
<1>2. /\ job \in [Jobs!Triggers -> Jobs!JobState]
      /\ asking \in [Buttons -> {"idle", "checked", "answered"}]
      /\ overtakes \in Nat /\ crashes \in Nat
      /\ copies \in [Files -> Nat] /\ copied \subseteq Jobs!Rows
      /\ Jobs!Rows \subseteq Files /\ IsFiniteSet(Underway)
  BY DEF JobsInv, Jobs!TypeOK, Jobs!Rows
<1>3. /\ r \in Jobs!Triggers /\ r \notin Files /\ r \notin Ticks /\ r \notin awaiting
      /\ job[r].pc = "none" /\ None \notin Files
  BY <1>1, ServerParameters
     DEF JobsInv, Jobs!TypeOK, TriggersFresh, Jobs!Triggers, Jobs!JobsAssumption
<1>4. asking' \in [Buttons -> {"idle", "checked", "answered"}]
      /\ \A s \in Buttons \ {r} : asking'[s] = asking[s]
  BY <1>1, <1>2
<1>5. Jobs!Rows' = Jobs!Rows
  BY <1>1 DEF Jobs!Rows
<1>6. CASE UNCHANGED <<job, current, overtakes>>
  <2>1. /\ Underway' = Underway /\ Behind' = Behind
        /\ \A f : Copying(f)' = Copying(f) /\ Recording(f)' = Recording(f)
    BY <1>6 DEF Underway, Behind, Copying, Recording, Jobs!Running
  <2>2. Jobs!TypeOK' /\ JobsHandle'
    BY <1>1, <1>4, <1>5, <1>6 DEF JobsInv, Jobs!TypeOK, JobsHandle
  <2>3. TriggersFresh'
    BY <1>1, <1>3, <1>4, <1>6 DEF JobsInv, TriggersFresh
  <2>4. CopiesCounted'
    BY <1>1, <1>2, <1>5, <1>6, <2>1, CountsKept
  <2>5. QED
    BY <2>1, <2>2, <2>3, <2>4 DEF JobsInv
<1>7. CASE \E target \in Jobs!Rows \cup {All} : Jobs!RequestStart(r, target)
  <2>1. PICK target \in Files \cup {All} : Jobs!RequestStart(r, target)
    BY <1>2, <1>7
  <2>2. Jobs!Begin(r, target) /\ asking'[r] = "answered"
        /\ overtakes' = IF Jobs!Busy THEN overtakes + 1 ELSE overtakes
    BY <1>2, <2>1 DEF Jobs!RequestStart
  <2>3. /\ job' \in [Jobs!Triggers -> Jobs!JobState] /\ current' = r
        /\ job'[r].pc = "pass" /\ job'[r].todo = {} /\ job'[r].cur = None
        /\ \A s \in Jobs!Triggers \ {r} : job'[s] = job[s]
        /\ IsFiniteSet(Underway') /\ Behind' = Underway
        /\ \A f : Copying(f)' = Copying(f) /\ Recording(f)' = Recording(f)
    BY <1>3, <2>2, BeginInv
  <2>4. Jobs!TypeOK'
    BY <1>1, <1>2, <1>3, <1>4, <1>5, <2>2, <2>3 DEF JobsInv, Jobs!TypeOK
  <2>5. TriggersFresh'
    BY <1>1, <1>3, <1>4, <2>2, <2>3 DEF JobsInv, TriggersFresh, Jobs!TypeOK, Jobs!Triggers
  <2>6. JobsHandle'
    BY <1>1, <1>3, <2>3 DEF JobsInv, JobsHandle
  <2>7. CopiesCounted'
    <3>1. CASE ~Jobs!Busy
      <4>1. Underway \subseteq Behind
        BY <3>1, ServerParameters
           DEF Jobs!Busy, Underway, Behind, Jobs!Triggers, Jobs!JobsAssumption
      <4>2. QED
        BY <1>1, <1>2, <1>5, <2>2, <2>3, <3>1, <4>1, CountsKept
    <3>2. CASE Jobs!Busy
      <4>1. /\ Cardinality(Behind') \in Nat /\ Cardinality(Behind) \in Nat
            /\ Cardinality(Behind') <= Cardinality(Behind) + 1
        <5>1. /\ Cardinality(Underway) \in Nat
              /\ Cardinality(Underway \ {current})
                    \in {Cardinality(Underway), Cardinality(Underway) - 1}
              /\ IsFiniteSet(Underway \ {current})
          BY <1>2, CountOne
        <5>2. Cardinality(Underway \ {current}) \in Nat
          BY <5>1, FS_CardinalityType
        <5>3. Cardinality(Underway) <= Cardinality(Underway \ {current}) + 1
          BY <5>1, <5>2
        <5>4. QED
          BY <2>3, <5>1, <5>2, <5>3, Zenon DEF Behind
      <4>2. overtakes' = overtakes + 1
        BY <2>2, <3>2
      <4>3. \A f \in Files : copies[f] \in Nat /\ Cardinality(Recording(f)) \in Nat
                             /\ Cardinality(Copying(f)) \in Nat
        BY <1>2, JobsOnFile
      <4>4. Cardinality(Behind)' <= overtakes'
        BY <1>2, <4>1, <4>2 DEF JobsInv, CopiesCounted
      <4>5. ASSUME NEW f \in Jobs!Rows \ copied
            PROVE  copies[f] + Cardinality(Behind)'
                      <= overtakes' + crashes + Cardinality(Recording(f))
        BY <1>2, <4>1, <4>2, <4>3 DEF JobsInv, CopiesCounted
      <4>6. ASSUME NEW f \in copied
            PROVE  copies[f] + Cardinality(Copying(f)) <= 1 + overtakes' + crashes
        BY <1>2, <4>2, <4>3 DEF JobsInv, CopiesCounted
      <4>7. QED
        BY <1>1, <1>5, <2>3, <4>4, <4>5, <4>6 DEF CopiesCounted
    <3>3. QED
      BY <3>1, <3>2
  <2>8. QED
    BY <2>3, <2>4, <2>5, <2>6, <2>7 DEF JobsInv
<1>8. QED
  BY <1>6, <1>7 DEF Jobs!RequestCheck, Jobs!RequestFails

\* A restart loses the jobs, and with each of them at most one record to be made.
LEMMA JobsCrashInv == ASSUME JobsInv, Jobs!Crash PROVE JobsInv'
<1> DEFINE over == [Jobs!NoJob EXCEPT !.pc = "over"]
<1>1. /\ crashes' = crashes + 1 /\ awaiting' = {} /\ current' = None
      /\ UNCHANGED <<file, copied, ticked, copies, overtakes>>
      /\ asking' = [r \in Buttons |-> IF asking[r] = "checked" THEN "answered" ELSE asking[r]]
      /\ job' = [t \in Jobs!Triggers |-> IF Jobs!Running(t) THEN over ELSE job[t]]
      /\ crashes \in 0..MaxCrashes /\ crashes < MaxCrashes
  BY DEF Jobs!Crash, JobsInv, Jobs!TypeOK
<1>2. /\ job \in [Jobs!Triggers -> Jobs!JobState] /\ overtakes \in Nat /\ crashes \in Nat
      /\ copies \in [Files -> Nat] /\ copied \subseteq Jobs!Rows /\ Jobs!Rows \subseteq Files
      /\ IsFiniteSet(Underway) /\ None \notin Files /\ MaxCrashes \in Nat
  BY ServerParameters DEF JobsInv, Jobs!TypeOK, Jobs!Rows, Jobs!JobsAssumption
<1>3. \A t \in Jobs!Triggers : \/ job'[t] = over
                               \/ job'[t] = job[t] /\ job[t].pc \in {"none", "over"}
  BY <1>1 DEF Jobs!Running
<1>4. over \in Jobs!JobState /\ over.pc = "over" /\ over.cur = None /\ over.todo = {}
  BY DEF Jobs!NoJob, Jobs!JobState
<1> HIDE DEF over
<1>5. job' \in [Jobs!Triggers -> Jobs!JobState]
  BY <1>1, <1>2, <1>4
<1>6. \A t \in Jobs!Triggers : /\ job'[t].pc \in {"none", "over"}
                               /\ job[t].pc = "none" => job'[t].pc = "none"
                               /\ job'[t].cur \in {None, job[t].cur}
                               /\ job'[t].todo \subseteq job[t].todo
  BY <1>1, <1>3, <1>4 DEF Jobs!Running
<1>7. Jobs!TypeOK'
  <2>1. owed' \in [Files -> {"no", "started", "marked"}]
    BY SettleType DEF Jobs!Crash
  <2>2. crashes' \in 0..MaxCrashes /\ copied' \subseteq Jobs!Rows'
    BY <1>1, <1>2 DEF Jobs!Rows
  <2>3. QED
    BY <1>1, <1>5, <2>1, <2>2 DEF JobsInv, Jobs!TypeOK
<1>8. TriggersFresh'
  BY <1>1, <1>6 DEF JobsInv, Jobs!TypeOK, TriggersFresh, Jobs!Triggers
<1>9. JobsHandle'
  BY <1>1, <1>2, <1>6 DEF JobsInv, JobsHandle
<1>10. /\ Underway' = {} /\ Behind' = {} /\ Jobs!Rows' = Jobs!Rows
       /\ \A f : Copying(f)' = {} /\ Recording(f)' = {}
  BY <1>1, <1>6 DEF Underway, Behind, Copying, Recording, Jobs!Running, Jobs!Rows, Jobs!Triggers
<1>11. IsFiniteSet(Underway') /\ Cardinality(Behind') = 0
       /\ \A f : Cardinality(Copying(f)') = 0 /\ Cardinality(Recording(f)') = 0
  BY <1>10, FS_EmptySet
<1>12. ASSUME NEW f \in Files
       PROVE  /\ copies[f] \in Nat
              /\ Cardinality(Copying(f)) \in Nat /\ Cardinality(Recording(f)) \in Nat
              /\ Cardinality(Behind) \in Nat
              /\ Cardinality(Recording(f)) <= Cardinality(Behind) + 1
  <2>1. Cardinality(Copying(f)) + Cardinality(Recording(f)) <= Cardinality(Behind) + 1
        /\ Cardinality(Copying(f)) \in Nat /\ Cardinality(Recording(f)) \in Nat
        /\ Cardinality(Behind) \in Nat
    BY <1>2, JobsOnFile
  <2>2. QED
    BY <1>2, <2>1
<1>13. CopiesCounted'
  <2>1. Cardinality(Behind)' <= overtakes'
    BY <1>1, <1>2, <1>11
  <2>2. ASSUME NEW f \in Jobs!Rows \ copied
        PROVE  copies[f] + 0 <= overtakes + (crashes + 1) + 0
    BY <1>2, <1>12 DEF JobsInv, CopiesCounted
  <2>3. ASSUME NEW f \in copied PROVE copies[f] + 0 <= 1 + overtakes + (crashes + 1)
    BY <1>2, <1>12 DEF JobsInv, CopiesCounted
  <2>4. QED
    BY <1>1, <1>10, <1>11, <2>1, <2>2, <2>3 DEF CopiesCounted
<1>14. QED
  BY <1>7, <1>8, <1>9, <1>11, <1>13 DEF JobsInv

LEMMA JobsNextInv == ASSUME JobsInv, [Jobs!Next]_(Jobs!vars) PROVE JobsInv'
<1>1. CASE \E f \in Files : Jobs!Uploaded(f) \/ Jobs!Trash(f) \/ Jobs!Restore(f) \/ Jobs!Remove(f)
  BY <1>1, CatalogInv
<1>2. CASE (\E f \in Files : Jobs!Mirror(f)) \/ (\E k \in Ticks : Jobs!Tick(k))
  BY <1>2, StartedInv
<1>3. CASE \E r \in Buttons : \/ Jobs!RequestCheck(r) \/ Jobs!RequestFails(r)
                              \/ \E target \in Jobs!Rows \cup {All} : Jobs!RequestStart(r, target)
  BY <1>3, ButtonInv
<1>4. CASE \E t \in Jobs!Triggers : Jobs!JobStep(t)
  BY <1>4, PassInv, ConsiderInv, CopyMadeInv, RecordInv DEF Jobs!JobStep
<1>5. CASE Jobs!Crash
  BY <1>5, JobsCrashInv
<1>6. CASE UNCHANGED Jobs!vars
  <2>1. UNCHANGED <<file, copied, awaiting, ticked, asking, job, current, copies, owed, overtakes,
                    crashes>>
    BY <1>6 DEF Jobs!vars
  <2>2. /\ Underway' = Underway /\ Behind' = Behind /\ Jobs!Rows' = Jobs!Rows
        /\ \A f : Copying(f)' = Copying(f) /\ Recording(f)' = Recording(f)
    BY <2>1 DEF Underway, Behind, Copying, Recording, Jobs!Running, Jobs!Rows
  <2>3. Jobs!TypeOK' /\ TriggersFresh' /\ JobsHandle'
    BY <2>1, <2>2 DEF JobsInv, Jobs!TypeOK, TriggersFresh, JobsHandle
  <2>4. CopiesCounted'
    BY <2>1, <2>2 DEF JobsInv, CopiesCounted
  <2>5. QED
    BY <2>2, <2>3, <2>4 DEF JobsInv
<1>7. QED
  BY <1>1, <1>2, <1>3, <1>4, <1>5, <1>6 DEF Jobs!Next

-----------------------------------------------------------------------------
(* The parts together: one of them takes steps, the others rest.           *)

ServerVars == <<scenario, vars, handoff, login, jobs, https, updating, checking>>

\* A step of the server is a step of every part, or leaves it alone.
LEMMA ServerParts ==
    ASSUME [ServerNext]_ServerVars
    PROVE  /\ [Next]_vars /\ [Handoff!Next]_(Handoff!vars) /\ [Login!Next]_(Login!vars)
           /\ [Jobs!Next]_(Jobs!vars) /\ [Https!Next]_(Https!vars)
           /\ [Updating!Next]_(Updating!vars) /\ [Checking!Next]_(Checking!vars)
<1>1. /\ [Next]_vars /\ (Handoff!Next \/ UNCHANGED handoff) /\ (Login!Next \/ UNCHANGED login)
      /\ (Jobs!Next \/ UNCHANGED jobs) /\ (Https!Next \/ UNCHANGED https)
      /\ (Updating!Next \/ UNCHANGED updating) /\ (Checking!Next \/ UNCHANGED checking)
  BY DEF ServerVars, ServerNext, DispatchNext, HandoffNext, LoginNext, JobsNext, HttpsNext,
         UpdatingNext, CheckingNext
<1>2. /\ UNCHANGED handoff => UNCHANGED Handoff!vars
      /\ UNCHANGED login => UNCHANGED Login!vars
      /\ UNCHANGED jobs => UNCHANGED Jobs!vars
      /\ UNCHANGED https => UNCHANGED Https!vars
      /\ UNCHANGED updating => UNCHANGED Updating!vars
      /\ UNCHANGED checking => UNCHANGED Checking!vars
  BY DEF handoff, login, jobs, https, updating, checking, Handoff!vars, Login!vars, Jobs!vars,
         Https!vars, Updating!vars, Checking!vars
<1>3. QED
  BY <1>1, <1>2

\* The inductive invariant of the server.
ServerInv == /\ DispatchInv /\ HandoffInv /\ LoginInv /\ JobsInv
             /\ HttpsInv /\ UpdatingInv /\ Checking!TypeOK

LEMMA ServerInitInv == ServerInit => ServerInv
BY ServerParameters, DispatchInitInv, HandoffInitInv, LoginInitInv, JobsInitInv, HttpsInitInv,
   UpdatingInitInv, CheckingInitInv
   DEF ServerInit, ServerInv

LEMMA ServerNextInv == ASSUME ServerInv, [ServerNext]_ServerVars PROVE ServerInv'
<1>1. DispatchInv' /\ HandoffInv' /\ LoginInv'
  BY ServerParts, ServerParameters, DispatchNextInv, HandoffNextInv, LoginNextInv DEF ServerInv
<1>2. JobsInv' /\ HttpsInv'
  BY ServerParts, ServerParameters, JobsNextInv, HttpsNextInv DEF ServerInv
<1>3. UpdatingInv' /\ Checking!TypeOK'
  BY ServerParts, ServerParameters, UpdatingNextInv, CheckingNextInv DEF ServerInv
<1>4. QED
  BY <1>1, <1>2, <1>3 DEF ServerInv

\* The invariants of the parts hold in every reachable state.
THEOREM ServerInvariance == ServerSpec => []ServerInv
<1>1. ServerInv /\ [ServerNext]_ServerVars => ServerInv'
  BY ServerNextInv
<1>2. QED
  BY <1>1, ServerInitInv, PTL DEF ServerSpec, ServerVars

\* The types of every part, and there is one session of the Telegram client at a time
\* (client.go, session.go, web_wizard.go, handlers_accounts.go, autotls.go, ops.go).
THEOREM ServerTyped == ServerSpec => []ServerTypes
<1>1. ServerInv => ServerTypes
  BY DEF ServerInv, ServerTypes, DispatchInv, DispatchCore, TypeOK, HandoffInv, LoginInv,
         JobsInv, HttpsInv, UpdatingInv
<1>2. QED
  BY <1>1, ServerInvariance, PTL

\* The function of a call runs at most once, and what Do returns tells whether it ran, for
\* any number of calls and of runs of the session (client.go).
THEOREM AtMostOnce == ServerSpec => []ExecutedOnce
<1>1. ServerInv => ExecutedOnce
  BY DispatchOnce DEF ServerInv
<1>2. QED
  BY <1>1, ServerInvariance, PTL

\* No function goes on behind the back of a caller that has its answer (client.go).
THEOREM NothingGoesOn == ServerSpec => []AnsweredIsOver
<1>1. ServerInv => AnsweredIsOver
  BY DispatchOver DEF ServerInv
<1>2. QED
  BY <1>1, ServerInvariance, PTL

\* A running server never destroys the session a login has just stored, and a login never
\* replaces another login's: only resets and logouts remove a session (session.go).
THEOREM NotClobbered == ServerSpec => SessionNotClobbered
<1>1. ServerInv /\ [ServerNext]_ServerVars => [KeepsKey]_(Handoff!vars)
  BY ServerParts, HandoffKeeps DEF ServerInv
<1>2. QED
  BY <1>1, ServerInvariance, PTL
     DEF ServerSpec, ServerVars, SessionNotClobbered, Handoff!SessionNotClobbered, KeepsKey

\* A wizard that reports success has finished, and Telegram holds the session for signed in: no
\* time-out, cancellation or callback of a flow that went on changes the answer, for any number
\* of wizards (web_wizard.go).
THEOREM SuccessIsHonest == ServerSpec => []HonestSuccess
<1>1. ServerInv => HonestSuccess
  BY LoginHonest DEF ServerInv, HonestSuccess
<1>2. QED
  BY <1>1, ServerInvariance, PTL

\* What was handed in before a wizard in flight was cancelled is not used after it
\* (WizardCancel and the callbacks Code and Password, web_wizard.go).
THEOREM CancelledInputUnused == ServerSpec => CancelStopsInput
<1>1. ServerInv /\ [ServerNext]_ServerVars
         => [\A w \in cancelled : ~Login!Uses(w)]_(Login!vars)
  BY ServerParts, ServerParameters, CancelledUsesNothing DEF ServerInv
<1>2. QED
  BY <1>1, ServerInvariance, PTL
     DEF ServerSpec, ServerVars, CancelStopsInput, Login!CancelStopsInput

\* A file of the catalog has one message in the backup account, but for one more for each
\* Backup Now that starts over a running job and for each restart: for any number of files,
\* uploads, ticks and buttons (runBackupJob, startBackupJobAuto; handlers_accounts.go).
THEOREM FilesCopiedOnce == ServerSpec => []CopiedOnce
<1>1. ServerInv => CopiedOnce
  BY CountedOnce DEF ServerInv, CopiedOnce
<1>2. QED
  BY <1>1, ServerInvariance, PTL

\* "Active" is shown only while both ports are bound by the listeners that are shown, and no order
\* of saves leaves a port that nothing can free, for any number of them (autotls.go).
THEOREM PortsAreOwned == ServerSpec => []PortsOwned
<1>1. ServerInv => PortsOwned
  BY DEF ServerInv, HttpsInv, PortsOwned
<1>2. QED
  BY <1>1, ServerInvariance, PTL

\* At every moment of an update, killed or out of space, the installed binary is whole, unless it
\* is of a package whose checksum was not found, and a tarball's has the old one as its backup.
\* An update that came to its end leaves the service enabled, or running and on the installed
\* binary, exactly where it was before the command or where the package's scripts switched it
\* on, but for what a systemctl that failed was to do; an update by a tarball leaves it so
\* wherever it ends, but for a restart that failed (ops.go, restart.go).
THEOREM UpdatesAreSafe == ServerSpec => []UpdateSafe
<1>1. ServerInv => UpdateSafe
  BY UpdatingIsSafe DEF ServerInv, UpdateSafe
<1>2. QED
  BY <1>1, ServerInvariance, PTL
=============================================================================
