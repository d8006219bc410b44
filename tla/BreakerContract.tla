--------------------------- MODULE BreakerContract ---------------------------
(***************************************************************************)
(* What the docstring of pwbs/connectors/resilience.py promises, without   *)
(* callers, retries or sleeps: three states, a streak of consecutive       *)
(* failures, and a recovery timer that restarts whenever the circuit opens.*)
(***************************************************************************)
EXTENDS Naturals

CONSTANT Threshold

VARIABLES status, streak, due

contract == <<status, streak, due>>

Start == status = "closed" /\ streak = 0 /\ ~due

Success ==
    /\ status \in {"closed", "half_open"}
    /\ status' = "closed" /\ streak' = 0 /\ due' = due

\* A failure short of the threshold only lengthens the streak.
Failure ==
    /\ status = "closed" /\ streak + 1 < Threshold
    /\ streak' = streak + 1 /\ UNCHANGED <<status, due>>

\* The failure that completes the streak opens the circuit.
Trip ==
    /\ status = "closed" /\ streak + 1 = Threshold
    /\ status' = "open" /\ streak' = Threshold /\ due' = FALSE

TimerExpires == status = "open" /\ due' = TRUE /\ UNCHANGED <<status, streak>>

AdmitProbe ==
    /\ status = "open" /\ due
    /\ status' = "half_open" /\ UNCHANGED <<streak, due>>

ProbeFailure ==
    /\ status = "half_open"
    /\ status' = "open" /\ due' = FALSE /\ UNCHANGED streak

Step == Success \/ Failure \/ Trip \/ TimerExpires \/ AdmitProbe \/ ProbeFailure

Contract == Start /\ [][Step]_contract
=============================================================================
