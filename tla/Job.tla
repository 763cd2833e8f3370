-------------------------------- MODULE Job --------------------------------
(***************************************************************************)
(* What an invocation promises its callers: it is worked on in numbered    *)
(* attempts, one at a time, never more than max_attempts of them; it can   *)
(* come to rest between two attempts; and once closed it stays closed.     *)
(***************************************************************************)
EXTENDS Naturals

CONSTANTS
    Jobs,
    Limit     \* max_attempts

VARIABLES
    phase,    \* "none", "resting", "working" or "closed", for each job
    attempt   \* the attempts begun so far, for each job

jobVars == <<phase, attempt>>

Init ==
    /\ phase = [j \in Jobs |-> "none"]
    /\ attempt = [j \in Jobs |-> 0]

Move(j, from, to) == phase[j] = from /\ phase'[j] = to

Submit(j) == Move(j, "none", "resting") /\ attempt'[j] = attempt[j]

BeginAttempt(j) ==
    /\ Move(j, "resting", "working")
    /\ attempt[j] < Limit
    /\ attempt'[j] = attempt[j] + 1

\* The attempt is over; the job rests only if it may be tried again.
EndAttempt(j) ==
    /\ \/ Move(j, "working", "closed")
       \/ Move(j, "working", "resting") /\ attempt[j] < Limit
    /\ attempt'[j] = attempt[j]

\* Given up before the first attempt.
Withdraw(j) ==
    /\ Move(j, "resting", "closed")
    /\ attempt[j] = 0
    /\ attempt'[j] = 0

Idle(j) == phase'[j] = phase[j] /\ attempt'[j] = attempt[j]

\* Several jobs may move in one step.
Next ==
    \A j \in Jobs :
        Submit(j) \/ BeginAttempt(j) \/ EndAttempt(j) \/ Withdraw(j) \/ Idle(j)

Spec == Init /\ [][Next]_jobVars
=============================================================================
