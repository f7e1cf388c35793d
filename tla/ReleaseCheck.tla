----------------------------- MODULE ReleaseCheck -----------------------------
(***************************************************************************)
(* The update banner: the server keeps the latest release it has seen for  *)
(* a day and looks it up in the background, one lookup at a time.  Every   *)
(* request for the status may start a lookup; one with refresh=1 forgets   *)
(* the release first.  GitHub is external.                                 *)
(***************************************************************************)
EXTENDS Naturals, Sequences

CONSTANTS Current,   \* the version of the server: its numbers, or << >> for dev
          Releases,  \* the releases in the order of their publication
          MaxAsked   \* bound: goroutines on their way to refreshUpdateCache

\* What is assumed of the constants.
ReleaseCheckAssumption == /\ Current \in Seq(Nat)
                          /\ Releases \in Seq(Seq(Nat)) /\ Len(Releases) > 0
                          /\ MaxAsked \in Nat

Known == 1..Len(Releases)

VARIABLES published, \* the release GitHub tells
          latest,    \* updateLatest, 0 when there is none
          fresh,     \* updateCheckedAt is less than a day ago
          flight,    \* updateFlight
          lookup,    \* where the lookup is
          answer,    \* the release it was told
          asked,     \* goroutines that have not looked at updateFlight yet
          wanted     \* history: the release GitHub told when refresh=1 was last asked

vars == <<published, latest, fresh, flight, lookup, answer, asked, wanted>>

Init == /\ published = 1
        /\ latest = 0 /\ fresh = FALSE
        /\ flight = FALSE /\ lookup = "none" /\ answer = 0
        /\ asked = 0 /\ wanted = 0

-----------------------------------------------------------------------------
(* CompareVersions.  A version that has no numbers is below all others; a  *)
(* missing number counts as 0.                                             *)

Number(v, i) == IF i <= Len(v) THEN v[i] ELSE 0

IsNewer(current, tag) ==
    \/ current = << >> /\ tag # << >>
    \/ /\ current # << >> /\ tag # << >>
       /\ \E i \in 1..Len(current \o tag) :
             /\ Number(current, i) < Number(tag, i)
             /\ \A j \in 1..(i - 1) : Number(current, j) = Number(tag, j)

Advertised == latest # 0 /\ IsNewer(Current, Releases[latest])
-----------------------------------------------------------------------------
(* handleUpdateStatus and updateSnapshot.                                  *)

Forget ==
    /\ latest' = 0 /\ fresh' = FALSE
    /\ wanted' = published
    /\ UNCHANGED <<published, flight, lookup, answer, asked>>

Look ==
    /\ ~fresh \/ (latest = 0 /\ ~flight)
    /\ asked < MaxAsked
    /\ asked' = asked + 1
    /\ UNCHANGED <<published, latest, fresh, flight, lookup, answer, wanted>>

\* A day has passed.
Expire ==
    /\ fresh /\ fresh' = FALSE
    /\ UNCHANGED <<published, latest, flight, lookup, answer, asked, wanted>>

Release ==
    /\ published < Len(Releases)
    /\ published' = published + 1
    /\ UNCHANGED <<latest, fresh, flight, lookup, answer, asked, wanted>>

-----------------------------------------------------------------------------
(* refreshUpdateCache.                                                     *)

Refresh ==
    /\ asked > 0
    /\ asked' = asked - 1
    /\ IF flight THEN UNCHANGED <<flight, lookup>>
                 ELSE flight' = TRUE /\ lookup' = "asking"
    /\ UNCHANGED <<published, latest, fresh, answer, wanted>>

Told ==
    /\ lookup = "asking"
    /\ lookup' = "told" /\ answer' \in {published, 0}
    /\ UNCHANGED <<published, latest, fresh, flight, asked, wanted>>

\* A lookup that failed leaves what was known.
Store ==
    /\ lookup = "told"
    /\ lookup' = "stored"
    /\ IF answer = 0 THEN UNCHANGED <<latest, fresh>>
                     ELSE latest' = answer /\ fresh' = TRUE
    /\ UNCHANGED <<published, flight, answer, asked, wanted>>

\* The deferred function, under a lock of its own.
Landed ==
    /\ lookup = "stored"
    /\ flight' = FALSE /\ lookup' = "none" /\ answer' = 0
    /\ UNCHANGED <<published, latest, fresh, asked, wanted>>

-----------------------------------------------------------------------------
Next == Forget \/ Look \/ Expire \/ Release \/ Refresh \/ Told \/ Store \/ Landed

\* A lookup has a time limit, and its goroutine goes on.
Fairness == WF_vars(Told \/ Store \/ Landed)

Spec == Init /\ [][Next]_vars /\ Fairness
-----------------------------------------------------------------------------
TypeOK ==
    /\ published \in Known /\ latest \in 0..published /\ wanted \in 0..published
    /\ fresh \in BOOLEAN /\ flight \in BOOLEAN
    /\ lookup \in {"none", "asking", "told", "stored"}
    /\ flight <=> lookup # "none"
    /\ answer \in 0..published
    /\ asked \in 0..MaxAsked
    /\ fresh => latest # 0

\* A lookup ends and makes room for the next.
LookupsEnd == []<>~flight

\* "The server checks GitHub at most once per 24h" (handlers_update.go:17): a lookup
\* begins only when none has succeeded within the day.
OncePerDay == [][~flight /\ flight' => ~fresh]_vars

\* Once refresh=1 was asked, a fresh answer is at least as recent as the question.
RefreshIsRecent == fresh => latest >= wanted
=============================================================================
