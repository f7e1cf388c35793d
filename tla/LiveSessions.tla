------------------------------ MODULE LiveSessions ------------------------------
(***************************************************************************)
(* What the session store promises: a session is good from its login until *)
(* it is closed, the server stops, or it has been idle for more than TTL,  *)
(* and once it is over it is over for good.                                *)
(***************************************************************************)
EXTENDS Naturals

CONSTANTS Tokens, TTL,
          New,   \* the token has not been given out
          Over   \* the session has ended

\* What is assumed of the constants.
LiveAssumption == TTL \in Nat /\ {New, Over} \cap (0 .. TTL) = {} /\ New # Over

VARIABLE idle    \* per token: New, Over, or for how long the session has been idle

Good(t) == idle[t] \in 0 .. TTL

Init == idle = [t \in Tokens |-> New]

Open(t) == idle[t] = New /\ idle' = [idle EXCEPT ![t] = 0]

Use(t) == Good(t) /\ idle' = [idle EXCEPT ![t] = 0]

Close(t) == Good(t) /\ idle' = [idle EXCEPT ![t] = Over]

Pass == idle' = [t \in Tokens |-> IF ~Good(t) THEN idle[t]
                                  ELSE IF idle[t] = TTL THEN Over ELSE idle[t] + 1]

Stop == idle' = [t \in Tokens |-> IF idle[t] = New THEN New ELSE Over]

Next == \/ \E t \in Tokens : Open(t) \/ Use(t) \/ Close(t)
        \/ Pass
        \/ Stop

Spec == Init /\ [][Next]_idle
=============================================================================
