------------------------------- MODULE Accounts -------------------------------
(***************************************************************************)
(* The additional Telegram accounts: their list, kept as one setting that  *)
(* every change reads and writes back; the settings of each account; and   *)
(* AccountRegistry, with a manager and a Run loop per account.             *)
(*                                                                         *)
(* The admin's requests add and delete accounts, start a wizard or a       *)
(* backup, and refresh the recorded channel.  Each lock of the registry    *)
(* and each access to the settings is a step.  What the session of a       *)
(* manager does is gotd's and Telegram's: external.                        *)
(***************************************************************************)
EXTENDS Naturals, FiniteSets

CONSTANTS Accounts,  \* the account ids
          Registered, \* the accounts registered before, none of them paired
          Requests,  \* the requests of the admin
          MaxLoops,  \* bound: run loops started
          MaxManagers, \* bound: managers made
          None       \* no account

\* What is assumed of the constants.
AccountsAssumption == /\ None \notin Accounts
                      /\ Registered \subseteq Accounts
                      /\ MaxLoops \in Nat /\ MaxManagers \in Nat

\* Run loops and managers are numbered as they are made; 0 stands for none.
Loops == 1..MaxLoops
Managers == 1..MaxManagers

VARIABLES list,      \* the setting telegram_accounts: the accounts it names
          recorded,  \* the accounts whose entry in the list has a channel
          session,   \* the accounts with a setting telegram_session_<id>
          channel,   \* the accounts with the settings of a channel
          vaults,    \* the number of storage channels an account has at Telegram
          managers,  \* AccountRegistry.managers
          made,      \* the number of managers made
          running,   \* AccountRegistry.running
          cancels,   \* AccountRegistry.cancels: the loop a cancel function is for
          loop,      \* a loop: its account, its manager and where it is
          ended,     \* the loops whose context was cancelled
          told,      \* history: the loops of an account at a Stop of it
          req,       \* a request: its kind, account, place, what it has read and holds
          deleted    \* history: the accounts DeleteTelegramAccount has removed

settings == <<list, recorded, session, channel, vaults, deleted>>
registry == <<managers, made, running, cancels>>
loops == <<loop, ended, told>>
vars == <<settings, registry, loops, req>>

NoLoop == [acct |-> None, mgr |-> 0, at |-> "none"]
NoRequest == [kind |-> "none", acct |-> None, pc |-> "idle", names |-> {}, channels |-> {},
              loop |-> 0, mgr |-> 0]

\* The server has just started, and StartAll found no session.
Init == /\ list = Registered
        /\ recorded = {} /\ channel = {} /\ deleted = {}
        /\ session = {} /\ vaults = [a \in Accounts |-> 0]
        /\ managers = [a \in Accounts |-> 0] /\ made = 0
        /\ running = {} /\ cancels = [a \in Accounts |-> 0]
        /\ loop = [l \in Loops |-> NoLoop]
        /\ ended = {} /\ told = {}
        /\ req = [r \in Requests |-> NoRequest]

Live(l) == loop[l].at \notin {"none", "exited"}
Connected(m) == \E l \in Loops : loop[l].mgr = m /\ loop[l].at \in {"up", "looking", "serving"}
Up(m) == Connected(m) \/ \E l \in Loops : loop[l].mgr = m /\ loop[l].at = "connecting"

Goto(r, place) == req' = [req EXCEPT ![r].pc = place]
Answer(r) == req' = [req EXCEPT ![r] = [@ EXCEPT !.pc = "over", !.names = {}, !.channels = {}, !.loop = 0]]
-----------------------------------------------------------------------------
(* The run loop.                                                           *)

Connect(l) ==
    /\ loop[l].at = "connecting"
    /\ loop' = [loop EXCEPT ![l].at = "up"]
    /\ UNCHANGED <<settings, registry, ended, told, req>>

\* CheckAuthorized, then EnsureStorageChannel: bound already, found, or not there.
LoopLooks(l) == LET a == loop[l].acct IN
    /\ loop[l].at = "up"
    /\ IF a \notin session \/ a \in channel
          THEN loop' = [loop EXCEPT ![l].at = "serving"] /\ UNCHANGED channel
          ELSE IF vaults[a] > 0
             THEN loop' = [loop EXCEPT ![l].at = "serving"] /\ channel' = channel \cup {a}
             ELSE loop' = [loop EXCEPT ![l].at = "looking"] /\ UNCHANGED channel
    /\ UNCHANGED <<list, recorded, session, vaults, deleted, registry, ended, told, req>>

LoopCreates(l) == LET a == loop[l].acct IN
    /\ loop[l].at = "looking"
    /\ vaults' = [vaults EXCEPT ![a] = @ + 1]
    /\ channel' = channel \cup {a}
    /\ loop' = [loop EXCEPT ![l].at = "serving"]
    /\ UNCHANGED <<list, recorded, session, deleted, registry, ended, told, req>>

\* The context is cancelled, or the connection fails for good: Run returns.
RunReturns(l) ==
    /\ loop[l].at \in {"connecting", "up", "looking", "serving"}
    /\ l \in ended \/ loop[l].at = "connecting"
    /\ loop' = [loop EXCEPT ![l].at = "returned"]
    /\ UNCHANGED <<settings, registry, ended, told, req>>

\* The deferred function of the goroutine.
Exit(l) == LET a == loop[l].acct IN
    /\ loop[l].at = "returned"
    /\ loop' = [loop EXCEPT ![l].at = "exited"]
    /\ running' = running \ {a}
    /\ cancels' = [cancels EXCEPT ![a] = 0]
    /\ UNCHANGED <<settings, managers, made, ended, told, req>>

-----------------------------------------------------------------------------
(* Start, in two parts, and Stop.                                          *)

Claim(r) == \E l \in Loops : LET a == req[r].acct IN
    /\ req[r].pc = "start" /\ a \notin running
    /\ loop[l].at = "none" /\ \A k \in 1..(l - 1) : loop[k].at # "none"
    /\ running' = running \cup {a}
    /\ cancels' = [cancels EXCEPT ![a] = l]
    /\ loop' = [loop EXCEPT ![l] = [acct |-> a, mgr |-> 0, at |-> "claimed"]]
    /\ req' = [req EXCEPT ![r] = [@ EXCEPT !.pc = "launch", !.loop = l]]
    /\ UNCHANGED <<settings, managers, made, ended, told>>

AlreadyRunning(r) ==
    /\ req[r].pc = "start" /\ req[r].acct \in running
    /\ Goto(r, "manager")
    /\ UNCHANGED <<settings, registry, loops>>

\* The account's manager; the next number when it has none.
ManagerFor(a) == IF managers[a] # 0 THEN {managers[a]}
                 ELSE {made + 1} \cap Managers

\* ManagerFor, then go mgr.Run, which fails at once when the manager runs already.
Launch(r) == LET a == req[r].acct  l == req[r].loop IN
    /\ req[r].pc = "launch"
    /\ \E m \in ManagerFor(a) :
          /\ managers' = [managers EXCEPT ![a] = m]
          /\ made' = IF m > made THEN m ELSE made
          /\ loop' = [loop EXCEPT ![l] = [@ EXCEPT !.mgr = m,
                                                   !.at = IF Up(m) THEN "returned" ELSE "connecting"]]
    /\ Goto(r, "manager")
    /\ UNCHANGED <<settings, running, cancels, ended, told>>

\* The handler's own ManagerFor.
Manage(r) == LET a == req[r].acct IN
    /\ req[r].pc = "manager"
    /\ \E m \in ManagerFor(a) :
          /\ managers' = [managers EXCEPT ![a] = m]
          /\ made' = IF m > made THEN m ELSE made
          /\ req' = [req EXCEPT ![r] = [@ EXCEPT !.pc = "wait", !.mgr = m]]
    /\ UNCHANGED <<settings, running, cancels, loops>>

\* Fault: Stop forgets the loop it cancels.
StopForgets(r) == LET a == req[r].acct IN
    /\ req[r].pc = "stop"
    /\ ended' = ended \cup ({cancels[a]} \ {0})
    /\ told' = told \cup {l \in Loops : loop[l].acct = a /\ Live(l)}
    /\ running' = running \ {a}
    /\ cancels' = [cancels EXCEPT ![a] = 0]
    /\ Goto(r, "remove")
    /\ UNCHANGED <<settings, managers, made, loop>>

Stop(r) == LET a == req[r].acct IN
    /\ req[r].pc = "stop"
    /\ ended' = ended \cup ({cancels[a]} \ {0})
    /\ told' = told \cup {l \in Loops : loop[l].acct = a /\ Live(l)}
    /\ Goto(r, "remove")
    /\ UNCHANGED <<settings, registry, loop>>

Remove(r) ==
    /\ req[r].pc = "remove"
    /\ managers' = [managers EXCEPT ![req[r].acct] = 0]
    /\ Goto(r, "load")
    /\ UNCHANGED <<settings, made, running, cancels, loops>>

-----------------------------------------------------------------------------
(* The handlers.                                                           *)

\* An account is added: its id is new.
Add(r, a) ==
    /\ req[r].pc = "idle"
    /\ a \notin list \cup deleted /\ \A q \in Requests : req[q].acct # a
    /\ req' = [req EXCEPT ![r] = [NoRequest EXCEPT !.kind = "add", !.acct = a, !.pc = "load"]]
    /\ UNCHANGED <<settings, registry, loops>>

\* The other handlers look the account up first.
Find(r, a, kind) ==
    /\ req[r].pc = "idle" /\ a \in list
    /\ kind = "backup" => a \in session
    /\ req' = [req EXCEPT ![r] = [NoRequest EXCEPT !.kind = kind, !.acct = a,
                  !.pc = CASE kind = "delete" -> "stop"
                           [] kind = "refresh" -> IF a \in channel THEN "load" ELSE "over"
                           [] OTHER -> "start"]]
    /\ UNCHANGED <<settings, registry, loops>>

\* waitAccountRunning.  WizardStart begins a flow; a backup binds the channel first.
Running(r) ==
    /\ req[r].pc = "wait" /\ Up(req[r].mgr)
    /\ Goto(r, IF req[r].kind = "wizard" THEN "flow" ELSE "look")
    /\ UNCHANGED <<settings, registry, loops>>

NotRunning(r) ==
    /\ req[r].pc = "wait" /\ ~Up(req[r].mgr)
    /\ Answer(r)
    /\ UNCHANGED <<settings, registry, loops>>

\* The task of a backup is at work in the session of m.
Creating(m) == \E q \in Requests : req[q].kind = "backup" /\ req[q].mgr = m /\ req[q].pc = "create"

\* With the channel bound a wizard is done, and a backup records it.
Bound(r) == IF req[r].kind = "wizard" THEN Answer(r) ELSE Goto(r, "load")

\* The flow of the wizard signs the account in and gotd stores its session, or it
\* fails; run goes on to EnsureStorageChannel, outside the queue of tasks.
Flow(r) ==
    /\ req[r].pc = "flow"
    /\ \/ Answer(r) /\ UNCHANGED session
       \/ /\ Connected(req[r].mgr) /\ ~Creating(req[r].mgr)
          /\ session' = session \cup {req[r].acct}
          /\ Goto(r, "look")
    /\ UNCHANGED <<list, recorded, channel, vaults, deleted, registry, loops>>

\* EnsureStorageChannel: bound or found, or it must be created.  The one of a
\* backup is a task of the session, and tasks run one after the other.
Look(r) == LET a == req[r].acct IN
    /\ req[r].pc = "look"
    /\ req[r].kind = "backup" => ~Creating(req[r].mgr)
    /\ \/ ~Up(req[r].mgr) /\ Answer(r) /\ UNCHANGED channel
       \/ Connected(req[r].mgr) /\ IF a \in channel \/ vaults[a] > 0
             THEN channel' = channel \cup {a} /\ Bound(r)
             ELSE Goto(r, "create") /\ UNCHANGED channel
    /\ UNCHANGED <<list, recorded, session, vaults, deleted, registry, loops>>

Create(r) == LET a == req[r].acct IN
    /\ req[r].pc = "create"
    /\ vaults' = [vaults EXCEPT ![a] = @ + 1]
    /\ channel' = channel \cup {a}
    /\ Bound(r)
    /\ UNCHANGED <<list, recorded, session, deleted, registry, loops>>

\* Every change of the list begins with LoadTelegramAccounts.
Load(r) ==
    /\ req[r].pc = "load"
    /\ req' = [req EXCEPT ![r] = [@ EXCEPT !.names = list, !.channels = recorded,
                  !.pc = IF req[r].kind = "add" \/ req[r].acct \in list THEN "save" ELSE "over"]]
    /\ UNCHANGED <<settings, registry, loops>>

\* The setting as a request writes it back.
Written(r) == CASE req[r].kind = "add"    -> [names |-> req[r].names \cup {req[r].acct}, channels |-> req[r].channels]
                [] req[r].kind = "delete" -> [names |-> req[r].names \ {req[r].acct}, channels |-> req[r].channels \ {req[r].acct}]
                [] OTHER                  -> [names |-> req[r].names, channels |-> req[r].channels \cup {req[r].acct}]

Save(r) ==
    /\ req[r].pc = "save"
    /\ list' = Written(r).names /\ recorded' = Written(r).channels
    /\ IF req[r].kind = "delete" THEN Goto(r, "keys") ELSE Answer(r)
    /\ UNCHANGED <<session, channel, vaults, deleted, registry, loops>>

\* The settings of the deleted account.
DeleteKeys(r) ==
    /\ req[r].pc = "keys"
    /\ session' = session \ {req[r].acct}
    /\ channel' = channel \ {req[r].acct}
    /\ deleted' = deleted \cup {req[r].acct}
    /\ Answer(r)
    /\ UNCHANGED <<list, recorded, vaults, registry, loops>>

-----------------------------------------------------------------------------
Handle(r) == \/ \E a \in Accounts : Add(r, a) \/ \E k \in {"delete", "wizard", "refresh", "backup"} : Find(r, a, k)
             \/ Claim(r) \/ AlreadyRunning(r) \/ Launch(r) \/ Manage(r) \/ Running(r) \/ NotRunning(r)
             \/ Stop(r) \/ Remove(r) \/ Flow(r) \/ Look(r) \/ Create(r) \/ Load(r) \/ Save(r) \/ DeleteKeys(r)

Turn(l) == Connect(l) \/ LoopLooks(l) \/ LoopCreates(l) \/ RunReturns(l) \/ Exit(l)

Next == \/ \E r \in Requests : Handle(r)
        \/ \E l \in Loops : Turn(l)

\* A cancelled loop returns and its goroutine ends; a claimed loop is launched by
\* the handler that claimed it.  Nothing else need happen.
Fairness == /\ \A l \in Loops : WF_vars(RunReturns(l) \/ Exit(l))
            /\ \A r \in Requests : WF_vars(Launch(r))

Spec == Init /\ [][Next]_vars /\ Fairness
-----------------------------------------------------------------------------
TypeOK ==
    /\ list \subseteq Accounts /\ recorded \subseteq Accounts /\ deleted \subseteq Accounts
    /\ session \subseteq Accounts /\ channel \subseteq Accounts /\ vaults \in [Accounts -> Nat]
    /\ made \in 0..MaxManagers
    /\ managers \in [Accounts -> Managers \cup {0}]
    /\ running \subseteq Accounts
    /\ cancels \in [Accounts -> Loops \cup {0}]
    /\ loop \in [Loops -> [acct : Accounts \cup {None}, mgr : Managers \cup {0},
                           at : {"none", "claimed", "connecting", "up", "looking", "serving",
                                 "returned", "exited"}]]
    /\ ended \subseteq Loops /\ told \subseteq Loops
    /\ req \in [Requests -> [kind : {"none", "add", "delete", "wizard", "refresh", "backup"},
                             acct : Accounts \cup {None},
                             pc : {"idle", "start", "launch", "manager", "wait", "flow", "look", "create",
                                   "stop", "remove", "load", "save", "keys", "over"},
                             names : SUBSET Accounts, channels : SUBSET Accounts,
                             loop : Loops \cup {0}, mgr : Managers \cup {0}]]

\* The registry knows its loops: an account is marked running exactly while it has
\* a loop, it has one only, and the cancel function kept for it is that loop's.  So a
\* deletion cancels every loop it meets, whatever wizard or backup is starting it.
LoopsKnown == \A l \in Loops :
    /\ Live(l) => loop[l].acct \in running /\ cancels[loop[l].acct] = l
    /\ l \in told => l \in ended

\* A loop that a deletion has cancelled ends.
StopEndsLoops == <>[](\A l \in told : loop[l].at = "exited")

\* Once no request is under way, every account that was added and not deleted is
\* in the list.
Quiet == \A r \in Requests : req[r].pc \in {"idle", "over"}
AccountsKept == Quiet => \A r \in Requests :
    req[r].kind = "add" /\ req[r].pc = "over" /\ req[r].acct \notin deleted => req[r].acct \in list

\* "DeleteTelegramAccount removes the account record and its session, authorization
\* flag and channel keys" (accounts.go:121-122): a deleted account is gone for good.
DeletedIsGone == Quiet => deleted \cap (list \cup session \cup channel) = {}

\* "a deleted account is dropped from the map" (accounts.go:232): no loop and no
\* manager of it is left once its loops have ended.
NoGhosts == Quiet /\ (\A l \in ended : loop[l].at = "exited") =>
    \A a \in deleted : a \notin running /\ managers[a] = 0

\* "its own tDocs Vault channel" (accounts.go:28): an account has one.
OneVault == \A a \in Accounts : vaults[a] <= 1
=============================================================================
