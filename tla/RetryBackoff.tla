------------------------------ MODULE RetryBackoff ------------------------------
(***************************************************************************)
(* nextBackoff (internal/agent/controller.go): base * 2^(attempt-1), capped *)
(* at max, computed by repeated doubling that stops at the cap.            *)
(***************************************************************************)
EXTENDS Naturals

\* The value of d after i - 1 turns of the doubling loop.
Doubled(base, max) ==
    LET d[i \in Nat \ {0}] ==
            IF i = 1 THEN base
            ELSE IF d[i-1] * 2 >= max THEN max ELSE d[i-1] * 2
    IN  d

NextBackoff(attempt, base, max) ==
    IF attempt <= 1
    THEN IF base > max THEN max ELSE base
    ELSE Doubled(base, max)[attempt]
=============================================================================
