--------------------------- MODULE CircuitBreaker ---------------------------
(***************************************************************************)
(* The circuit breaker of apps/api (app/utils/resilience.py) as functions  *)
(* from breaker to breaker, each of them one critical section of its lock. *)
(*                                                                         *)
(* Time is not modelled: whether recovery_timeout has passed since the last *)
(* failure is a choice of whoever asks.                                    *)
(***************************************************************************)
EXTENDS Naturals

CONSTANT Threshold   \* failure_threshold

ASSUME ThresholdAssumption == Threshold \in Nat \ {0}

\* Counts above the threshold are not told apart.
Breaker == [state : {"closed", "open", "half_open"}, count : 0 .. Threshold]

NewBreaker == [state |-> "closed", count |-> 0]

\* _check_state: an open breaker rejects calls before recovery_timeout ...
MayReject(b) == b.state = "open"

\* ... and is half open for the first one after it; other calls go through.
Admitted(b) == [b EXCEPT !.state = IF @ = "open" THEN "half_open" ELSE @]

\* Mutant of Succeeded: the count survives a success.
SucceededKeepsCount(b) == [b EXCEPT !.state = IF @ = "half_open" THEN "closed" ELSE @]

\* _on_success: any success, also of a call let through long before.
Succeeded(b) == [state |-> IF b.state = "half_open" THEN "closed" ELSE b.state, count |-> 0]

\* _on_failure: a failure counts in every state, and opens a breaker that is
\* half open or has counted enough.
Failed(b) ==
    LET reached == b.count + 1 >= Threshold
    IN  [state |-> IF b.state = "half_open" \/ reached THEN "open" ELSE b.state,
         count |-> IF reached THEN Threshold ELSE b.count + 1]
=============================================================================
