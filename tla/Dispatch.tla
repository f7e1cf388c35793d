------------------------------- MODULE Dispatch -------------------------------
(***************************************************************************)
(* ClientManager: one long-lived MTProto session per account, and Do, with *)
(* which request handlers and background jobs run a function inside it.    *)
(* A call hands its function to serveTasks over an unbuffered channel and  *)
(* waits for the answer on a channel of its own with room for one value.   *)
(*                                                                         *)
(* The runner may call Run again when it has returned: every run has a     *)
(* context and a serveTasks goroutine of its own, which nobody waits for.  *)
(* The MTProto client (gotd) is external: it connects, calls back, and     *)
(* ends when its context or the connection does.                           *)
(***************************************************************************)
EXTENDS Naturals

CONSTANTS Calls,       \* the calls of Do
          Background,  \* the calls whose context never ends
          MaxRuns,     \* bound: calls of Run
          Nobody       \* no task

ASSUME DispatchAssumption == /\ Background \subseteq Calls
                             /\ MaxRuns \in Nat
                             /\ Nobody \notin Calls

Runs == 1..MaxRuns

VARIABLES running,    \* ClientManager.running
          run,        \* the number of the last Run, 0 before the first one
          session,    \* of a run: its session
          worker,     \* of a run: its serveTasks goroutine
          task,       \* of a run: the call whose function the worker executes
          pc,         \* where a call is
          executed,   \* history: how often the function of a call was started
          answer,     \* the buffered channel of a call
          result      \* what a call has returned

vars == <<running, run, session, worker, task, pc, executed, answer, result>>

Init == /\ running = FALSE /\ run = 0
        /\ session = [g \in Runs |-> "none"]
        /\ worker = [g \in Runs |-> "none"]
        /\ task = [g \in Runs |-> Nobody]
        /\ pc = [c \in Calls |-> "idle"]
        /\ executed = [c \in Calls |-> 0]
        /\ answer = [c \in Calls |-> "none"]
        /\ result = [c \in Calls |-> "none"]

-----------------------------------------------------------------------------
(* Run.                                                                    *)

\* Fault: the flag is not looked at.
RunStartAgain ==
    /\ run < MaxRuns
    /\ running' = TRUE
    /\ run' = run + 1
    /\ session' = [session EXCEPT ![run + 1] = "connecting"]
    /\ UNCHANGED <<worker, task, pc, executed, answer, result>>

RunStart ==
    /\ ~running /\ run < MaxRuns
    /\ running' = TRUE
    /\ run' = run + 1
    /\ session' = [session EXCEPT ![run + 1] = "connecting"]
    /\ UNCHANGED <<worker, task, pc, executed, answer, result>>

\* gotd is connected and calls back: the callback starts the worker.
Connected(g) ==
    /\ session[g] = "connecting"
    /\ session' = [session EXCEPT ![g] = "up"]
    /\ worker' = [worker EXCEPT ![g] = "ready"]
    /\ UNCHANGED <<running, run, task, pc, executed, answer, result>>

\* The context of the run is cancelled, or the connection is lost.
SessionEnds(g) ==
    /\ session[g] \in {"connecting", "up"}
    /\ session' = [session EXCEPT ![g] = "ended"]
    /\ UNCHANGED <<running, run, worker, task, pc, executed, answer, result>>

RunReturns ==
    /\ running /\ session[run] = "ended"
    /\ running' = FALSE
    /\ UNCHANGED <<run, session, worker, task, pc, executed, answer, result>>

-----------------------------------------------------------------------------
(* Do.                                                                     *)

Return(c, r) == /\ pc' = [pc EXCEPT ![c] = "returned"]
                /\ result' = [result EXCEPT ![c] = r]

Call(c) ==
    /\ pc[c] = "idle"
    /\ IF running THEN pc' = [pc EXCEPT ![c] = "send"] /\ UNCHANGED result
                  ELSE Return(c, "offline")
    /\ UNCHANGED <<running, run, session, worker, task, executed, answer>>

\* The context of the caller ends: the task is withdrawn, or goes on without it.
GiveUp(c) ==
    /\ pc[c] \in {"send", "wait"} /\ c \notin Background
    /\ Return(c, "context")
    /\ UNCHANGED <<running, run, session, worker, task, executed, answer>>

Answered(c) ==
    /\ pc[c] = "wait" /\ answer[c] # "none"
    /\ Return(c, answer[c])
    /\ UNCHANGED <<running, run, session, worker, task, executed, answer>>

-----------------------------------------------------------------------------
(* serveTasks.  When its context has ended and a call is waiting too, the  *)
(* select takes either of them.                                            *)

\* Fault: the call goes on offering its task.
TakeAgain(g, c) ==
    /\ worker[g] = "ready" /\ pc[c] = "send"
    /\ worker' = [worker EXCEPT ![g] = "busy"]
    /\ task' = [task EXCEPT ![g] = c]
    /\ executed' = [executed EXCEPT ![c] = @ + 1]
    /\ pc' = [pc EXCEPT ![c] = IF executed[c] = 0 THEN "send" ELSE "wait"]
    /\ UNCHANGED <<running, run, session, answer, result>>

Take(g, c) ==
    /\ worker[g] = "ready" /\ pc[c] = "send"
    /\ worker' = [worker EXCEPT ![g] = "busy"]
    /\ task' = [task EXCEPT ![g] = c]
    /\ executed' = [executed EXCEPT ![c] = @ + 1]
    /\ pc' = [pc EXCEPT ![c] = "wait"]
    /\ UNCHANGED <<running, run, session, answer, result>>

\* Fault: the answer channel has no buffer, so the worker waits for the caller.
FinishUnbuffered(g, r) ==
    /\ worker[g] = "busy" /\ pc[task[g]] = "wait"
    /\ answer' = [answer EXCEPT ![task[g]] = r]
    /\ worker' = [worker EXCEPT ![g] = "ready"]
    /\ task' = [task EXCEPT ![g] = Nobody]
    /\ UNCHANGED <<running, run, session, pc, executed, result>>

\* The function has returned, failed or panicked.
Finish(g, r) ==
    /\ worker[g] = "busy"
    /\ answer' = [answer EXCEPT ![task[g]] = r]
    /\ worker' = [worker EXCEPT ![g] = "ready"]
    /\ task' = [task EXCEPT ![g] = Nobody]
    /\ UNCHANGED <<running, run, session, pc, executed, result>>

Exit(g) ==
    /\ worker[g] = "ready" /\ session[g] = "ended"
    /\ worker' = [worker EXCEPT ![g] = "gone"]
    /\ UNCHANGED <<running, run, session, task, pc, executed, answer, result>>

-----------------------------------------------------------------------------
Serve(g) == \/ \E c \in Calls : Take(g, c)
            \/ \E r \in {"ok", "error"} : Finish(g, r)
            \/ Exit(g)

Next == \/ RunStart \/ RunReturns
        \/ \E g \in Runs : Connected(g) \/ SessionEnds(g) \/ Serve(g)
        \/ \E c \in Calls : Call(c) \/ GiveUp(c) \/ Answered(c)

Spec == Init /\ [][Next]_vars

\* Goroutines that can go on do, and functions come to an end.  Nothing makes a
\* run start, connect or end, a caller call, or a context end.
Fairness == /\ WF_vars(RunReturns)
            /\ \A g \in Runs : WF_vars(Serve(g))
            /\ \A c \in Calls : WF_vars(Answered(c))

FairSpec == Spec /\ Fairness
-----------------------------------------------------------------------------
RunsTyped ==
    /\ run \in 0..MaxRuns
    /\ session \in [Runs -> {"none", "connecting", "up", "ended"}]
    /\ worker \in [Runs -> {"none", "ready", "busy", "gone"}]
    /\ task \in [Runs -> Calls \cup {Nobody}]
    /\ \A g \in Runs : worker[g] = "busy" <=> task[g] # Nobody

CallsTyped ==
    /\ pc \in [Calls -> {"idle", "send", "wait", "returned"}]
    /\ executed \in [Calls -> Nat]
    /\ answer \in [Calls -> {"none", "ok", "error"}]
    /\ result \in [Calls -> {"none", "offline", "context", "ok", "error"}]

\* No session of an earlier run is left when the next one begins.
OneSession == \A g \in Runs : session[g] \in {"connecting", "up"} => running /\ g = run

\* The types, and the one session.
TypeOK == running \in BOOLEAN /\ RunsTyped /\ CallsTyped /\ OneSession

\* A call executes its function at most once, whatever runs end and begin around
\* it; what it returns tells: once when it returns the function's outcome, never
\* when it reports that no session is running.
ExecutedOnce == \A c \in Calls :
    /\ executed[c] <= 1
    /\ result[c] \in {"ok", "error"} => executed[c] = 1 /\ answer[c] = result[c]
    /\ result[c] = "offline" => executed[c] = 0

Executing(c) == \E g \in Runs : task[g] = c

\* A caller that has its answer shares nothing with a running function any more:
\* the variables the function captured are the caller's alone.
AnsweredIsOver == \A c \in Calls : result[c] \in {"ok", "error"} => ~Executing(c)

\* When the last session stays up every call comes back in the end, also behind calls
\* that have given up and workers of earlier runs.
SessionServes ==
    <>[](run > 0 /\ session[run] = "up") =>
        <>[](\A c \in Calls : pc[c] \in {"idle", "returned"})

\* Do comes back: "It returns an error when the session is not running (never
\* logged in) or when fn fails" (client.go:214-215).
DoReturns == \A c \in Calls : pc[c] = "send" ~> pc[c] \in {"wait", "returned"}

\* "Each task runs inside runCtx, which is the sole active gotd session context"
\* (client.go:183-184).
SoleSession == \A g \in Runs : worker[g] = "busy" =>
    \A h \in Runs \ {g} : session[h] # "up"
=============================================================================
