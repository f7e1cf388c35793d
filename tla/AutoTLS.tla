-------------------------------- MODULE AutoTLS --------------------------------
(***************************************************************************)
(* The custom domain of the dashboard: a save writes the setting, stops    *)
(* the listeners of ports 80 and 443 that run, and starts new ones; a      *)
(* retry does it with the setting as it is.  The lock (tlsMu) is held for  *)
(* single assignments only, so two saves interleave, and each listener is  *)
(* served by a goroutine of its own that may not have begun when it is     *)
(* shut down.                                                              *)
(*                                                                         *)
(* Ports and certificates are external: a port may be held by another      *)
(* program, and certificates are issued on the first visit.                *)
(***************************************************************************)
EXTENDS Naturals

CONSTANTS Saves,    \* the requests: the number of a save names its listeners too
          Domains,  \* the domains that are saved
          NoDomain, \* the empty domain: plain HTTP
          Nobody    \* no save

\* What is assumed of the constants.
AutoTLSAssumption == NoDomain \notin Domains /\ Nobody \notin Saves

Ports == {80, 443}

VARIABLES setting,  \* the setting public_domain
          tls,      \* Server.tls: the save whose listeners are published
          tlsErr,   \* Server.tlsErr: there is an error to show
          owner,    \* the save whose listener holds a port
          serving,  \* of a port: its goroutine has begun to serve it
          shut,     \* the saves whose servers were shut down
          pc,       \* where a request is
          domain,   \* the domain of a request
          old,      \* the listeners a request has to shut down
          reply     \* what a request answered

vars == <<setting, tls, tlsErr, owner, serving, shut, pc, domain, old, reply>>

Init == /\ setting = NoDomain
        /\ tls = Nobody /\ tlsErr = FALSE
        /\ owner = [p \in Ports |-> Nobody]
        /\ serving = [p \in Ports |-> FALSE]
        /\ shut = {}
        /\ pc = [s \in Saves |-> "idle"]
        /\ domain = [s \in Saves |-> NoDomain]
        /\ old = [s \in Saves |-> Nobody]
        /\ reply = [s \in Saves |-> "none"]

Goto(s, place) == pc' = [pc EXCEPT ![s] = place]
-----------------------------------------------------------------------------
(* handleDomainSave and handleDomainRetry, applyAutoTLS.                   *)

Save(s) == \E d \in Domains \cup {NoDomain} :
    /\ pc[s] = "idle"
    /\ setting' = d
    /\ domain' = [domain EXCEPT ![s] = d]
    /\ Goto(s, "stop")
    /\ UNCHANGED <<tls, tlsErr, owner, serving, shut, old, reply>>

\* A retry with no domain stops the listeners that run.
Retry(s) ==
    /\ pc[s] = "idle"
    /\ domain' = [domain EXCEPT ![s] = setting]
    /\ Goto(s, "stop")
    /\ UNCHANGED <<setting, tls, tlsErr, owner, serving, shut, old, reply>>

-----------------------------------------------------------------------------
(* stopAutoTLS.                                                            *)

\* Fault: the listeners are forgotten when they have been shut down.
DetachLate(s) ==
    /\ pc[s] = "stop"
    /\ old' = [old EXCEPT ![s] = tls]
    /\ Goto(s, "shut")
    /\ UNCHANGED <<setting, tls, tlsErr, owner, serving, shut, domain, reply>>

Detach(s) ==
    /\ pc[s] = "stop"
    /\ old' = [old EXCEPT ![s] = tls]
    /\ tls' = Nobody
    /\ Goto(s, "shut")
    /\ UNCHANGED <<setting, tlsErr, owner, serving, shut, domain, reply>>

\* Shutdown closes the listeners that are being served.  A listener whose
\* goroutine has not begun is closed by it.  Without a domain that is all: an
\* error shown before stays.
Shutdown(s) ==
    /\ pc[s] = "shut"
    /\ shut' = shut \cup ({old[s]} \ {Nobody})
    /\ owner' = [p \in Ports |-> IF owner[p] = old[s] /\ serving[p] THEN Nobody ELSE owner[p]]
    /\ serving' = [p \in Ports |-> serving[p] /\ owner[p] # old[s]]
    /\ Goto(s, IF domain[s] = NoDomain THEN "reply" ELSE "listen80")
    /\ UNCHANGED <<setting, tls, tlsErr, domain, old, reply>>

-----------------------------------------------------------------------------
(* restartAutoTLS.                                                         *)

Fail(s) == /\ tlsErr' = TRUE
           /\ Goto(s, "reply")

\* The cache directory is made and port 80 is bound, or one of them fails.
Listen80(s) ==
    /\ pc[s] = "listen80"
    /\ \/ /\ owner[80] = Nobody
          /\ owner' = [owner EXCEPT ![80] = s]
          /\ Goto(s, "listen443") /\ UNCHANGED tlsErr
       \/ Fail(s) /\ UNCHANGED owner
    /\ UNCHANGED <<setting, tls, serving, shut, domain, old, reply>>

Listen443(s) ==
    /\ pc[s] = "listen443"
    /\ \/ /\ owner[443] = Nobody
          /\ owner' = [owner EXCEPT ![443] = s]
          /\ Goto(s, "publish") /\ UNCHANGED tlsErr
       \/ Fail(s) /\ owner' = [owner EXCEPT ![80] = Nobody]
    /\ UNCHANGED <<setting, tls, serving, shut, domain, old, reply>>

Publish(s) ==
    /\ pc[s] = "publish"
    /\ tls' = s /\ tlsErr' = FALSE
    /\ Goto(s, "reply")
    /\ UNCHANGED <<setting, owner, serving, shut, domain, old, reply>>

\* The goroutine of a listener serves it, or closes it when it was shut down first.
Serve(p) ==
    /\ owner[p] # Nobody /\ ~serving[p]
    /\ owner[p] \in shut \/ pc[owner[p]] \in {"reply", "over"}
    /\ IF owner[p] \in shut
          THEN owner' = [owner EXCEPT ![p] = Nobody] /\ UNCHANGED serving
          ELSE serving' = [serving EXCEPT ![p] = TRUE] /\ UNCHANGED owner
    /\ UNCHANGED <<setting, tls, tlsErr, shut, pc, domain, old, reply>>

\* autoTLSError, read after the restart.
Reply(s) ==
    /\ pc[s] = "reply"
    /\ reply' = [reply EXCEPT ![s] = IF tlsErr THEN "error" ELSE "ok"]
    /\ Goto(s, "over")
    /\ UNCHANGED <<setting, tls, tlsErr, owner, serving, shut, domain, old>>

-----------------------------------------------------------------------------
Restart(s) == Detach(s) \/ Shutdown(s) \/ Listen80(s) \/ Listen443(s) \/ Publish(s) \/ Reply(s)

Next == \/ \E s \in Saves : Save(s) \/ Retry(s) \/ Restart(s)
        \/ \E p \in Ports : Serve(p)

\* A request that has begun goes on, and so do the goroutines of the listeners.
Fairness == /\ \A s \in Saves : WF_vars(Restart(s))
            /\ \A p \in Ports : WF_vars(Serve(p))

Spec == Init /\ [][Next]_vars /\ Fairness
-----------------------------------------------------------------------------
TypeOK ==
    /\ setting \in Domains \cup {NoDomain}
    /\ tls \in Saves \cup {Nobody} /\ tlsErr \in BOOLEAN
    /\ owner \in [Ports -> Saves \cup {Nobody}]
    /\ serving \in [Ports -> BOOLEAN]
    /\ shut \subseteq Saves
    /\ pc \in [Saves -> {"idle", "stop", "shut", "listen80", "listen443", "publish", "reply", "over"}]
    /\ domain \in [Saves -> Domains \cup {NoDomain}]
    /\ old \in [Saves -> Saves \cup {Nobody}]
    /\ reply \in [Saves -> {"none", "ok", "error"}]

\* The listeners of a save that is at work hold the port only they may hold.
Starting(s) == pc[s] \in {"listen443", "publish"}

\* The ports and the published listeners agree: "active" is shown only while both
\* ports are bound by the listeners that are shown (autotls.go:143-145), and a port
\* is held by those, by a save at work, or by listeners on their way out.  So no
\* order of saves leaves a port that nothing can free.
PortsOwned == /\ tls # Nobody => \A p \in Ports : owner[p] = tls
              /\ \A p \in Ports : owner[p] # Nobody =>
                    \/ owner[p] = tls \/ Starting(owner[p]) \/ owner[p] \in shut
                    \/ \E s \in Saves : pc[s] = "shut" /\ old[s] = owner[p]

\* Listeners that were shut down give their ports back.
PortsFreed == <>[](\A s \in shut, p \in Ports : owner[p] # s)

\* With no request at work, the domain that is served is the one that is saved.
DomainServed == (\A s \in Saves : pc[s] \in {"idle", "over"}) /\ tls # Nobody
                   => domain[tls] = setting

\* "An empty domain stops them, returning the appliance to plain HTTP"
\* (autotls.go:159): a save of the empty domain does not answer with an error.
ClearingSucceeds == \A s \in Saves : domain[s] = NoDomain => reply[s] # "error"
=============================================================================
