------------------------------ MODULE RateLimiter ------------------------------
(***************************************************************************)
(* The sliding-window limiter of the dashboard: a log of the accepted      *)
(* calls of each key.  It guards /api and /cdn (600 a minute for an        *)
(* address), the wrong passwords of the login form (15 a minute) and the   *)
(* unlocking of a share (5 a minute).                                      *)
(*                                                                         *)
(* Allow reads the clock BEFORE it takes the mutex, so calls enter the     *)
(* critical section out of the order of their stamps; and the call that    *)
(* finds too many keys drops those that look quiet from its own stamp,     *)
(* judging each by its last entry only.                                    *)
(***************************************************************************)
EXTENDS Integers, Sequences, FiniteSets, Functions

CONSTANTS Callers,   \* the goroutines of the requests
          Clients,   \* the keys, "login:<address>" and the like
          Limit,     \* calls a key may make in a window
          Window,    \* length of the window
          MaxKeys,   \* keys above which quiet ones are dropped (10000)
          Lag,       \* bound: the longest wait for the mutex
          MaxTime    \* bound of the clock

\* What is assumed of the constants.
LimiterAssumption == /\ Limit \in Nat \ {0}
                     /\ Window \in Nat \ {0}
                     /\ {MaxKeys, Lag, MaxTime} \subseteq Nat

VARIABLES now,      \* the clock
          hits,     \* RateLimiter.hits: the entries of a key, numbered in the order they were made;
                    \* a key that is absent has none
          call,     \* per goroutine: idle, or waiting with the key and the stamp it read
          granted   \* history: when the last Limit + 1 calls of a key since its last Reset were accepted

vars == <<now, hits, call, granted>>

Idle == [pc |-> "idle"]

NoLog == [n \in {} |-> 0]

Init == /\ now = 0
        /\ hits = [k \in Clients |-> NoLog]
        /\ call = [c \in Callers |-> Idle]
        /\ granted = [k \in Clients |-> << >>]

Empty(log) == DOMAIN log = {}

Keys(h) == {k \in Clients : ~Empty(h[k])}

\* Fault: the window is closed at its far end, one entry less.
FreshFromStart(log, stamp) == Restrict(log, {n \in DOMAIN log : log[n] > stamp - Window + 1})

Fresh(log, stamp) == Restrict(log, {n \in DOMAIN log : log[n] > stamp - Window})

Newest(log) == CHOOSE n \in DOMAIN log : \A m \in DOMAIN log : m <= n

\* The entry that comes after the others.
Appended(log, stamp) ==
    LET next == IF Empty(log) THEN 1 ELSE Newest(log) + 1
    IN  [n \in DOMAIN log \cup {next} |-> IF n = next THEN stamp ELSE log[n]]

\* A key whose last entry lies before the window of this call.
Quiet(log, stamp) == ~Empty(log) /\ log[Newest(log)] < stamp - Window

\* The quiet keys are dropped when there are too many.
Pruned(h, stamp) ==
    IF Cardinality(Keys(h)) <= MaxKeys THEN h
    ELSE [k \in Clients |-> IF Quiet(h[k], stamp) THEN NoLog ELSE h[k]]

\* The clock is read outside the mutex.
Call(c, k) ==
    /\ call[c].pc = "idle"
    /\ call' = [call EXCEPT ![c] = [pc |-> "enter", key |-> k, stamp |-> now]]
    /\ UNCHANGED <<now, hits, granted>>

Entering(c, k) == call[c].pc = "enter" /\ call[c].key = k

\* A refused call leaves no entry.
LogAfterRefusal(log, stamp) == Fresh(log, stamp)

Grant(c, k) ==
    LET stamp == call[c].stamp
        kept == Fresh(hits[k], stamp)
    IN  /\ Entering(c, k)
        /\ Cardinality(DOMAIN kept) < Limit
        /\ hits' = Pruned([hits EXCEPT ![k] = Appended(kept, stamp)], stamp)
        /\ granted' = [granted EXCEPT ![k] = Append(IF Len(@) > Limit THEN Tail(@) ELSE @, now)]
        /\ call' = [call EXCEPT ![c] = Idle]
        /\ UNCHANGED now

Refuse(c, k) ==
    LET stamp == call[c].stamp
    IN  /\ Entering(c, k)
        /\ Cardinality(DOMAIN Fresh(hits[k], stamp)) >= Limit
        /\ hits' = [hits EXCEPT ![k] = LogAfterRefusal(@, stamp)]
        /\ call' = [call EXCEPT ![c] = Idle]
        /\ UNCHANGED <<now, granted>>

\* A right password clears what the wrong ones have left.
Reset(k) ==
    /\ ~Empty(hits[k])
    /\ hits' = [hits EXCEPT ![k] = NoLog]
    /\ granted' = [granted EXCEPT ![k] = << >>]
    /\ UNCHANGED <<now, call>>

Tick == /\ now < MaxTime
        /\ \A c \in Callers : call[c].pc = "enter" => now - call[c].stamp < Lag
        /\ now' = now + 1
        /\ UNCHANGED <<hits, call, granted>>

Next == \/ \E c \in Callers, k \in Clients : Call(c, k) \/ Grant(c, k) \/ Refuse(c, k)
        \/ \E k \in Clients : Reset(k)
        \/ Tick

Spec == Init /\ [][Next]_vars

-----------------------------------------------------------------------------

TypeOK == /\ now \in 0 .. MaxTime
          /\ \A k \in Clients : \A n \in DOMAIN hits[k] : hits[k][n] \in 0 .. now
          /\ \A c \in Callers : call[c].pc = "enter" => call[c].key \in Clients /\ call[c].stamp <= now

\* Between resets, Limit + 1 calls of a key are accepted over no less than a window, less the
\* longest wait for the mutex (Allow, security.go): neither calls that enter out of order nor
\* the dropping of quiet keys lets more through.
WindowBound ==
    \A k \in Clients : Len(granted[k]) > Limit =>
        granted[k][Limit + 1] - granted[k][1] >= Window - Lag

\* A call is refused only when Limit calls of the same key were accepted in the last window and
\* one wait for the mutex: refusals and the calls of other keys cost a client nothing, and a
\* right password wipes the slate (handleLoginSubmit, server.go).
RefusalsEarned ==
    [][\A c \in Callers, k \in Clients : Refuse(c, k) =>
        Cardinality({i \in DOMAIN granted[k] : granted[k][i] > now - Window - Lag}) >= Limit]_vars
=============================================================================
