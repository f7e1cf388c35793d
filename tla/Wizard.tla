-------------------------------- MODULE Wizard --------------------------------
(***************************************************************************)
(* The login wizard of the dashboard: the browser starts it, polls it,     *)
(* hands in a code and perhaps a password, or cancels it.  The flow itself *)
(* runs as one task of the session (Dispatch), so the flows of two wizards *)
(* run one after the other; the goroutine that waits for it has five       *)
(* minutes and goes on without it when they are over.                      *)
(*                                                                         *)
(* The flow of gotd is external: it asks Telegram for a code, calls Code,  *)
(* signs in, and calls Password when the account has one.                  *)
(***************************************************************************)
EXTENDS Naturals

CONSTANTS Wizards,  \* the wizards the browsers start
          Nobody    \* no wizard

\* What is assumed of the constants.
WizardAssumption == Nobody \notin Wizards

VARIABLES wiz,         \* webWizardState of a wizard, and whether webWizards has it
          pc,          \* where WizardStart and run are
          seen,        \* what CheckAuthorized was told
          step,        \* where the flow of a wizard is
          holder,      \* the wizard whose flow the session executes
          outcome,     \* what the flow has returned
          signedIn,    \* whether Telegram holds the session for signed in
          authorized,  \* ClientManager.authorized and its setting
          cancelled    \* history: the wizards that were cancelled before they were over

vars == <<wiz, pc, seen, step, holder, outcome, signedIn, authorized, cancelled>>

Fresh == [phase |-> "none", done |-> FALSE, success |-> FALSE, code |-> FALSE,
          password |-> FALSE, listed |-> FALSE, old |-> FALSE]

Init == /\ wiz = [w \in Wizards |-> Fresh]
        /\ pc = [w \in Wizards |-> "idle"]
        /\ seen = [w \in Wizards |-> FALSE]
        /\ step = [w \in Wizards |-> "none"]
        /\ holder = Nobody
        /\ outcome = [w \in Wizards |-> "none"]
        /\ signedIn = FALSE /\ authorized = FALSE
        /\ cancelled = {}

browser == <<pc, seen, step, holder, outcome, signedIn, authorized>>
-----------------------------------------------------------------------------
(* WizardStart and run.                                                    *)

\* sweepWizards, and Telegram answers CheckAuthorized; a failure counts as no.
Ask(w) ==
    /\ pc[w] = "idle"
    /\ pc' = [pc EXCEPT ![w] = "asked"]
    /\ seen' \in {[seen EXCEPT ![w] = FALSE], [seen EXCEPT ![w] = signedIn]}
    /\ wiz' = [v \in Wizards |->
                  IF wiz[v].done /\ wiz[v].old THEN [wiz[v] EXCEPT !.listed = FALSE] ELSE wiz[v]]
    /\ UNCHANGED <<step, holder, outcome, signedIn, authorized, cancelled>>

\* The answer is recorded, and a wizard is made: finished, or about to run.
Start(w) ==
    /\ pc[w] = "asked"
    /\ authorized' = seen[w]
    /\ wiz' = [wiz EXCEPT ![w] = [Fresh EXCEPT !.phase = IF seen[w] THEN "done" ELSE "sending_code",
                                               !.done = seen[w], !.success = seen[w], !.listed = TRUE]]
    /\ pc' = [pc EXCEPT ![w] = IF seen[w] THEN "over" ELSE "queued"]
    /\ UNCHANGED <<seen, step, holder, outcome, signedIn, cancelled>>

\* The session takes the task.
Take(w) ==
    /\ pc[w] = "queued" /\ holder = Nobody
    /\ holder' = w
    /\ pc' = [pc EXCEPT ![w] = "taken"]
    /\ step' = [step EXCEPT ![w] = "sending"]
    /\ UNCHANGED <<wiz, seen, outcome, signedIn, authorized, cancelled>>

\* Fault: success is recorded for whatever ended the wait.
FinishSuccess(w) ==
    /\ pc[w] = "taken" /\ outcome[w] # "none"
    /\ wiz' = [wiz EXCEPT ![w] = [@ EXCEPT !.done = TRUE, !.success = TRUE,
                                           !.phase = IF outcome[w] = "ok" THEN "done" ELSE "error"]]
    /\ authorized' = TRUE
    /\ pc' = [pc EXCEPT ![w] = "over"]
    /\ UNCHANGED <<seen, step, holder, outcome, signedIn, cancelled>>

\* The flow has returned in time.
Finish(w) ==
    /\ pc[w] = "taken" /\ outcome[w] # "none"
    /\ wiz' = [wiz EXCEPT ![w] = [@ EXCEPT !.done = TRUE,
                                           !.success = wiz[w].success \/ outcome[w] = "ok",
                                           !.phase = IF outcome[w] = "ok" THEN "done" ELSE "error"]]
    /\ authorized' = (authorized \/ outcome[w] = "ok")
    /\ pc' = [pc EXCEPT ![w] = "over"]
    /\ UNCHANGED <<seen, step, holder, outcome, signedIn, cancelled>>

\* Fault: an expired wait returns at once.
TimeOutSilently(w) ==
    /\ pc[w] \in {"queued", "taken"}
    /\ pc' = [pc EXCEPT ![w] = "over"]
    /\ UNCHANGED <<wiz, seen, step, holder, outcome, signedIn, authorized, cancelled>>

\* The five minutes are over: the wait ends, a flow that was taken goes on.
TimeOut(w) ==
    /\ pc[w] \in {"queued", "taken"}
    /\ wiz' = [wiz EXCEPT ![w] = [@ EXCEPT !.done = TRUE, !.phase = "error"]]
    /\ pc' = [pc EXCEPT ![w] = "over"]
    /\ UNCHANGED <<seen, step, holder, outcome, signedIn, authorized, cancelled>>

-----------------------------------------------------------------------------
(* The flow, and the callbacks Code and Password.                          *)

EndFlow(w, r) == /\ step' = [step EXCEPT ![w] = "ended"]
                 /\ outcome' = [outcome EXCEPT ![w] = r]
                 /\ holder' = Nobody

\* Telegram has sent a code, and Code begins to wait for it.
CodeSent(w) ==
    /\ step[w] = "sending"
    /\ step' = [step EXCEPT ![w] = "code"]
    /\ wiz' = [wiz EXCEPT ![w] = [@ EXCEPT !.phase = "waiting_code", !.code = FALSE]]
    /\ UNCHANGED <<pc, seen, holder, outcome, signedIn, authorized, cancelled>>

\* A tick of Code.  It looks at done first.
PollCode(w) ==
    /\ step[w] = "code" /\ (wiz[w].done \/ wiz[w].code)
    /\ wiz' = [wiz EXCEPT ![w] = [@ EXCEPT !.code = FALSE]]
    /\ IF wiz[w].done
          THEN EndFlow(w, "error")
          ELSE step' = [step EXCEPT ![w] = "signing"] /\ UNCHANGED <<holder, outcome>>
    /\ UNCHANGED <<pc, seen, signedIn, authorized, cancelled>>

\* The account has a password, and Password begins to wait for it.
PasswordNeeded(w) ==
    /\ step[w] = "signing"
    /\ step' = [step EXCEPT ![w] = "password"]
    /\ wiz' = [wiz EXCEPT ![w] = [@ EXCEPT !.phase = "waiting_password", !.password = FALSE]]
    /\ UNCHANGED <<pc, seen, holder, outcome, signedIn, authorized, cancelled>>

\* A tick of Password.  It looks at the password first.
PollPassword(w) ==
    /\ step[w] = "password" /\ (wiz[w].done \/ wiz[w].password)
    /\ wiz' = [wiz EXCEPT ![w] = [@ EXCEPT !.password = FALSE]]
    /\ IF wiz[w].password
          THEN step' = [step EXCEPT ![w] = "checking"] /\ UNCHANGED <<holder, outcome>>
          ELSE EndFlow(w, "error")
    /\ UNCHANGED <<pc, seen, signedIn, authorized, cancelled>>

\* Nothing was handed in for three minutes.
Deadline(w) ==
    /\ step[w] \in {"code", "password"}
    /\ EndFlow(w, "error")
    /\ UNCHANGED <<wiz, pc, seen, signedIn, authorized, cancelled>>

SignedIn(w) ==
    /\ step[w] \in {"signing", "checking"}
    /\ signedIn' = TRUE
    /\ EndFlow(w, "ok")
    /\ UNCHANGED <<wiz, pc, seen, authorized, cancelled>>

\* Telegram refuses, or the session ends.
Refused(w) ==
    /\ step[w] \in {"sending", "signing", "checking"}
    /\ EndFlow(w, "error")
    /\ UNCHANGED <<wiz, pc, seen, signedIn, authorized, cancelled>>

-----------------------------------------------------------------------------
(* The browser.                                                            *)

Submit(w) ==
    /\ wiz[w].listed /\ ~wiz[w].done
    /\ \/ wiz[w].phase = "waiting_code" /\ wiz' = [wiz EXCEPT ![w] = [@ EXCEPT !.code = TRUE]]
       \/ wiz[w].phase = "waiting_password" /\ wiz' = [wiz EXCEPT ![w] = [@ EXCEPT !.password = TRUE]]
    /\ UNCHANGED <<browser, cancelled>>

\* Fault: what was handed in is left where it is.
CancelKeepsInput(w) ==
    /\ wiz[w].listed
    /\ wiz' = [wiz EXCEPT ![w] = IF wiz[w].done THEN [@ EXCEPT !.listed = FALSE]
                                 ELSE [@ EXCEPT !.done = TRUE, !.phase = "error", !.listed = FALSE]]
    /\ cancelled' = IF wiz[w].done THEN cancelled ELSE cancelled \cup {w}
    /\ UNCHANGED browser

Cancel(w) ==
    /\ wiz[w].listed
    /\ wiz' = [wiz EXCEPT ![w] = IF wiz[w].done THEN [@ EXCEPT !.listed = FALSE]
                                 ELSE [@ EXCEPT !.done = TRUE, !.phase = "error", !.listed = FALSE,
                                                !.code = FALSE, !.password = FALSE]]
    /\ cancelled' = IF wiz[w].done THEN cancelled ELSE cancelled \cup {w}
    /\ UNCHANGED browser

\* A poll that is answered with a final phase discards the wizard.
Poll(w) ==
    /\ wiz[w].listed /\ wiz[w].phase \in {"done", "error"} /\ wiz[w].done /\ wiz[w].old
    /\ wiz' = [wiz EXCEPT ![w] = [@ EXCEPT !.listed = FALSE]]
    /\ UNCHANGED <<browser, cancelled>>

\* Ten minutes after the start, long after the waits are over.
Age(w) ==
    /\ wiz[w].done /\ ~wiz[w].old /\ pc[w] = "over" /\ step[w] \in {"none", "ended"}
    /\ wiz' = [wiz EXCEPT ![w] = [@ EXCEPT !.old = TRUE]]
    /\ UNCHANGED <<browser, cancelled>>

-----------------------------------------------------------------------------
Flow(w) == \/ CodeSent(w) \/ PollCode(w) \/ PasswordNeeded(w) \/ PollPassword(w)
           \/ Deadline(w) \/ SignedIn(w) \/ Refused(w)

Next == \E w \in Wizards : \/ Ask(w) \/ Start(w) \/ Take(w) \/ Finish(w) \/ TimeOut(w)
                           \/ Flow(w)
                           \/ Submit(w) \/ Cancel(w) \/ Poll(w) \/ Age(w)

\* Goroutines and timers go on, Telegram answers or the session ends; nothing
\* makes a browser come back.
Fairness == \A w \in Wizards : /\ WF_vars(Start(w)) /\ WF_vars(Flow(w))
                               /\ WF_vars(Finish(w)) /\ WF_vars(TimeOut(w))

Spec == Init /\ [][Next]_vars /\ Fairness
-----------------------------------------------------------------------------
State == [phase : {"none", "sending_code", "waiting_code", "waiting_password", "done", "error"},
          done : BOOLEAN, success : BOOLEAN, code : BOOLEAN, password : BOOLEAN,
          listed : BOOLEAN, old : BOOLEAN]

TypeOK ==
    /\ wiz \in [Wizards -> State]
    /\ pc \in [Wizards -> {"idle", "asked", "queued", "taken", "over"}]
    /\ seen \in [Wizards -> BOOLEAN]
    /\ step \in [Wizards -> {"none", "sending", "code", "signing", "password", "checking", "ended"}]
    /\ holder \in Wizards \cup {Nobody}
    /\ outcome \in [Wizards -> {"none", "ok", "error"}]
    /\ signedIn \in BOOLEAN /\ authorized \in BOOLEAN
    /\ cancelled \subseteq Wizards
    /\ \A w \in Wizards : holder = w <=> step[w] \notin {"none", "ended"}

\* A wizard that reports success has finished, Telegram holds the session for
\* signed in, and no time-out, cancellation or callback of a flow that went on
\* changes the answer.
HonestSuccess == \A w \in Wizards :
    wiz[w].success => wiz[w].done /\ wiz[w].phase = "done" /\ signedIn

\* The flow uses a code or a password: a callback returns it.
Uses(w) == \/ step[w] = "code" /\ step'[w] = "signing"
           \/ step[w] = "password" /\ step'[w] = "checking"

\* What was handed in before a wizard in flight is cancelled is not used after it,
\* although Password looks at the password before it looks at done.  (After a
\* time-out it may be: the cancellation finds the wizard done and clears nothing.)
CancelStopsInput == [][\A w \in cancelled : ~Uses(w)]_vars

\* Every wizard that was begun ends, also one that nobody looks at any more and one that
\* waits behind the flow of another; and no flow keeps the session of the account for itself.
WizardsEnd == <>[](/\ holder = Nobody
                   /\ \A w \in Wizards : pc[w] # "idle" => pc[w] = "over" /\ wiz[w].done)

\* A wizard that is over says so: its final phase stays.
FinalPhaseStays == \A w \in Wizards : wiz[w].done => wiz[w].phase \in {"done", "error"}

\* "WizardCancel abandons an in-flight wizard" (web_wizard.go:339): no code is sent
\* for a wizard that was cancelled before its flow began.
CancelledSendsNothing == [][\A w \in cancelled : ~(step[w] = "none" /\ step'[w] = "sending")]_vars

\* The marker "records the outcome for health gates" (auth.go:76-78): once every
\* wizard is over, a session that is signed in is marked.
MarkerTells == signedIn /\ (\A w \in Wizards : pc[w] \in {"idle", "over"}) /\ holder = Nobody
                  => authorized
=============================================================================
