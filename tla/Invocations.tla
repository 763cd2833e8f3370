---------------------------- MODULE Invocations ----------------------------
(***************************************************************************)
(* Invocations of a service: created, started, completed and cancelled by  *)
(* callers, and timed out by the deadline enforcer.  Receipts models what  *)
(* precedes the INSERT.  A start, cancel or complete request is one step:  *)
(* it locks the row first (FOR UPDATE) and touches nothing else but the    *)
(* outbox.  Ownership checks and the rate limiter only refuse.             *)
(***************************************************************************)
EXTENDS Naturals, FiniteSets

CONSTANTS
    MaxMade,      \* bound: invocations created
    MaxTime,      \* bound: last instant of the clock
    MaxAttempts,  \* retry_policy.max_attempts
    Timeout,      \* timeout_ms
    BatchSize     \* cfg.sweeperBatchSize

ASSUME InvocationAssumption ==
    /\ {MaxMade, MaxTime} \subseteq Nat
    /\ MaxAttempts \in Nat \ {0}
    /\ Timeout \in Nat \ {0}
    /\ BatchSize \in Nat \ {0}

VARIABLES
    now,      \* the database clock
    inv,      \* agent_invocations
    outbox    \* <<event, invocation, attempt>>: the dedupe keys of the outbox

vars == <<now, inv, outbox>>

Made == 1..MaxMade

Status == {"absent", "pending", "running", "cancel_requested", "succeeded",
           "failed", "canceled", "timed_out"}

Invocation == [status : Status, attempts : 0..MaxAttempts, deadline : Nat]

Outcome == {"succeeded", "failed", "timed_out"}

TypeOK ==
    /\ now \in 0..MaxTime
    /\ inv \in [Made -> Invocation]
    /\ outbox \subseteq (Status \cup {"created", "started"}) \X Made
                        \X (0..MaxAttempts)

Init ==
    /\ now = 0
    /\ inv = [i \in Made |->
                [status |-> "absent", attempts |-> 0, deadline |-> 0]]
    /\ outbox = {}

\* Mutant: the key names the invocation alone.
EventKeyPerInvocation(event, i, attempt) == <<event, i, 0>>

\* The outbox row of an event: ON CONFLICT DO NOTHING.
EventKey(event, i, attempt) == <<event, i, attempt>>

Enqueue(event, i, attempt) == outbox' = outbox \cup {EventKey(event, i, attempt)}

----------------------------------------------------------------------------
\* POST /invocations, the one time its receipt is new (see Receipts).
Create(i) ==
    /\ inv[i].status = "absent"
    /\ inv' = [inv EXCEPT ![i].status = "pending"]
    /\ Enqueue("created", i, 0)
    /\ UNCHANGED now

\* Mutant: any invocation that is not closed can be started.
StartWhileOpen(i) ==
    /\ inv[i].status \in {"pending", "failed", "cancel_requested"}
    /\ inv[i].attempts < MaxAttempts
    /\ inv' = [inv EXCEPT ![i] = [status   |-> "running",
                                  attempts |-> inv[i].attempts + 1,
                                  deadline |-> now + Timeout]]
    /\ Enqueue("started", i, inv[i].attempts + 1)
    /\ UNCHANGED now

\* PATCH /invocations/:id/start
Start(i) ==
    /\ inv[i].status \in {"pending", "failed"}
    /\ inv[i].attempts < MaxAttempts
    /\ inv' = [inv EXCEPT ![i] = [status   |-> "running",
                                  attempts |-> inv[i].attempts + 1,
                                  deadline |-> now + Timeout]]
    /\ Enqueue("started", i, inv[i].attempts + 1)
    /\ UNCHANGED now

\* Mutant: the WHERE clause excludes final states only by name of success.
CancelFailedToo(i) ==
    /\ inv[i].status \notin {"absent", "succeeded", "canceled", "timed_out"}
    /\ inv' = [inv EXCEPT ![i].status =
                 IF @ \in {"pending", "failed"} THEN "canceled"
                 ELSE "cancel_requested"]
    /\ Enqueue("cancel_requested", i, inv[i].attempts)
    /\ UNCHANGED now

\* PATCH /invocations/:id/cancel
Cancel(i) ==
    /\ inv[i].status \notin {"absent", "succeeded", "canceled", "timed_out",
                             "failed"}
    /\ inv' = [inv EXCEPT ![i].status =
                 IF @ \in {"pending", "failed"} THEN "canceled"
                 ELSE "cancel_requested"]
    /\ Enqueue("cancel_requested", i, inv[i].attempts)
    /\ UNCHANGED now

\* Mutant: a late completion overwrites what the enforcer recorded.
CompleteLate(i, result) ==
    /\ inv[i].status \in {"running", "cancel_requested", "failed", "timed_out"}
    /\ inv' = [inv EXCEPT ![i].status = result]
    /\ Enqueue(result, i, inv[i].attempts)
    /\ UNCHANGED now

\* PATCH /invocations/:id/complete
Complete(i, result) ==
    /\ inv[i].status \in {"running", "cancel_requested"}
    /\ inv' = [inv EXCEPT ![i].status = result]
    /\ Enqueue(result, i, inv[i].attempts)
    /\ UNCHANGED now

Overdue == {i \in Made : inv[i].status = "running" /\ inv[i].deadline < now}

\* Mutant: the sweep looks only for rows that can be tried again.
IsBatchOfRetryable(B) ==
    /\ B # {} /\ B \subseteq {i \in Overdue : inv[i].attempts < MaxAttempts}
    /\ Cardinality(B) <= BatchSize

\* The rows one sweep takes, at most BatchSize: the earliest deadlines of those
\* that no request has locked at the time, so any of them.
IsBatch(B) ==
    /\ B # {} /\ B \subseteq Overdue
    /\ Cardinality(B) <= BatchSize

Expired(i) == IF inv[i].attempts < MaxAttempts THEN "failed" ELSE "timed_out"

\* runDeadlineSweep
DeadlineSweep(B) ==
    /\ IsBatch(B)
    /\ inv' = [i \in Made |->
                 IF i \in B THEN [inv[i] EXCEPT !.status = Expired(i)] ELSE inv[i]]
    /\ outbox' = outbox \cup
                 {EventKey(Expired(i), i, inv[i].attempts) : i \in B}
    /\ UNCHANGED now

Tick ==
    /\ now < MaxTime
    /\ now' = now + 1
    /\ UNCHANGED <<inv, outbox>>

Next ==
    \/ \E i \in Made :
          \/ Create(i)
          \/ Start(i)
          \/ Cancel(i)
          \/ \E result \in {"succeeded", "failed"} : Complete(i, result)
    \/ \E B \in SUBSET Made : DeadlineSweep(B)
    \/ Tick

Spec == Init /\ [][Next]_vars

\* The clock runs and the enforcer's interval job comes round again.
Fairness ==
    /\ WF_vars(Tick)
    /\ WF_vars(\E B \in SUBSET Made : DeadlineSweep(B))

FairSpec == Spec /\ Fairness

----------------------------------------------------------------------------
\* A result is recorded for each attempt at most once: the executor's
\* completion, a cancellation and the enforcer race for the row, and the
\* loser's answer is refused.
OneOutcomePerAttempt ==
    \A i \in Made, n \in 0..MaxAttempts, o, p \in Outcome :
        <<o, i, n>> \in outbox /\ <<p, i, n>> \in outbox => o = p

\* No event is lost to the outbox's duplicate check: whenever an invocation
\* changes its status, a row is added that was not there.
NoEventSwallowed ==
    [][\A i \in Made :
          inv'[i].status # inv[i].status =>
              \E key \in outbox' \ outbox : key[2] = i]_vars

\* The subscriber can rebuild the row from the events: the invocation's newest
\* attempt has a result in the outbox exactly when it is over.
EventsTellStatus ==
    \A i \in Made : inv[i].attempts > 0 =>
        /\ <<"started", i, inv[i].attempts>> \in outbox
        /\ inv[i].status \in {"running", "cancel_requested"} \/
              <<inv[i].status, i, inv[i].attempts>> \in outbox
        /\ inv[i].status \in {"running", "cancel_requested"} =>
              \A o \in Outcome : <<o, i, inv[i].attempts>> \notin outbox

\* An attempt that outlives its deadline is taken off the running list.
OverdueEnds ==
    \A i \in Made : i \in Overdue ~> i \notin Overdue

Phase(i) ==
    CASE inv[i].status = "absent" -> "none"
      [] inv[i].status = "pending" -> "resting"
      [] inv[i].status \in {"running", "cancel_requested"} -> "working"
      [] inv[i].status = "failed" /\ inv[i].attempts < MaxAttempts -> "resting"
      [] OTHER -> "closed"

J == INSTANCE Job WITH
        Jobs    <- Made,
        Limit   <- MaxAttempts,
        phase   <- [i \in Made |-> Phase(i)],
        attempt <- [i \in Made |-> inv[i].attempts]

\* Invocations are Jobs: attempts are begun one at a time and at most
\* max_attempts of them, and what is closed stays closed, whichever of the
\* executor, the canceller and the enforcer gets to the row first.
IsJob == J!Spec
=============================================================================
