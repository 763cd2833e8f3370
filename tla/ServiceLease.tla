---------------------------- MODULE ServiceLease ----------------------------
(***************************************************************************)
(* The fenced lease of one service session: the processes that start,      *)
(* attach to, renew and close it through the SDK's session handle, and the *)
(* coordinator routes and the sweeper that act on its row.                 *)
(*                                                                         *)
(* A call is sent, begins its transaction (Postgres now() and the joined   *)
(* authority record are read then, although the advisory lock may be       *)
(* waited for long after), is served under the lock with the session row   *)
(* as it is at that time, and is answered.  The caller may time out, or    *)
(* die, at any point of it; the call may then still be served.             *)
(* The TTL sweeper has no action here: it selects lifecycle <> 'service'.  *)
(***************************************************************************)
EXTENDS Naturals, FiniteSets

CONSTANTS
    Process,        \* processes of the application
    Lease,          \* cfg.serviceSessionLeaseSeconds
    MaxGeneration,  \* bound: no process attaches from this generation on
    MaxLosses,      \* bound: calls that time out or lose their caller
    MaxClock,       \* bound: last instant of the clock
    None

\* What a lease, heartbeat or terminate call is answered.
Answers == {"ok", "suspended", "not_live", "not_found", "fenced", "lease_expired",
            "subject_inactive"}

ASSUME LeaseAssumption ==
    /\ None \notin Process \cup Nat \cup Answers
    /\ {Lease, MaxGeneration, MaxLosses, MaxClock} \subseteq Nat
    /\ MaxGeneration > 0

VARIABLES
    clock,       \* the database clock
    status,      \* sessions.status
    generation,  \* sessions.lease_generation
    deadline,    \* sessions.heartbeat_deadline_at
    anchor,      \* the subject's authority record is active
    byAdmin,     \* an administrator terminated the session
    picked,      \* the lease sweeper's SELECT returned the session
    handle,      \* what each process holds
    calls,       \* requests and answers under way
    losses       \* calls that timed out or lost their caller

leaseVars == <<clock, status, generation, deadline, anchor, byAdmin, picked, handle,
               calls, losses>>
row == <<status, generation, deadline>>

\* leaseHandle's variables; lost counts the calls of onLeaseLost.
Handle == [state   : {"none", "starting", "retiring", "attaching", "open"},
           gen     : Nat,
           stopped : BOOLEAN,
           closing : BOOLEAN,
           lost    : {0, 1}]

NoHandle == [state |-> "none", gen |-> 0, stopped |-> FALSE, closing |-> FALSE,
             lost |-> 0]

\* A call; from is None once its caller has given it up, at is None before its
\* transaction begins and after it ended.
Call == [op     : {"lease", "heartbeat", "terminate"},
         from   : Process \cup {None},
         gen    : Nat,
         at     : Nat \cup {None},
         anchor : BOOLEAN,
         answer : Answers \cup {None}]

\* One process has created the session and runs its onSessionStart hook.
LeaseInit ==
    /\ clock = 0
    /\ status = "active"
    /\ generation = 1
    /\ deadline = Lease
    /\ anchor = TRUE
    /\ byAdmin = FALSE
    /\ picked = FALSE
    /\ \E p \in Process :
          handle = [q \in Process |->
              IF q = p THEN [NoHandle EXCEPT !.state = "starting", !.gen = 1]
              ELSE NoHandle]
    /\ calls = {}
    /\ losses = 0

-----------------------------------------------------------------------------
(* The SDK *)

Pending(p) == {c \in calls : c.from = p}

Send(p, op, gen) ==
    calls' = calls \cup {[op |-> op, from |-> p, gen |-> gen, at |-> None,
                          anchor |-> TRUE, answer |-> None]}

\* startSession after its hook: a handle, or on an exception one attempt to
\* terminate (retireAfterFailure).
Started(p) ==
    /\ handle[p].state = "starting"
    /\ handle' = [handle EXCEPT ![p].state = "open"]
    /\ UNCHANGED <<clock, row, anchor, byAdmin, picked, calls, losses>>

StartHookFails(p) ==
    /\ handle[p].state = "starting"
    /\ handle' = [handle EXCEPT ![p].state = "retiring"]
    /\ Send(p, "terminate", handle[p].gen)
    /\ UNCHANGED <<clock, row, anchor, byAdmin, picked, losses>>

\* attachSession, in a process that holds nothing.
AttachSession(p) ==
    /\ handle[p].state = "none"
    /\ generation < MaxGeneration
    /\ handle' = [handle EXCEPT ![p].state = "attaching"]
    /\ Send(p, "lease", 0)
    /\ UNCHANGED <<clock, row, anchor, byAdmin, picked, losses>>

\* A turn of the automatic heartbeat.  The next one is scheduled only when
\* this one was answered.
Beat(p) ==
    /\ handle[p].state = "open"
    /\ ~handle[p].stopped
    /\ Pending(p) = {}
    /\ Send(p, "heartbeat", handle[p].gen)
    /\ UNCHANGED <<clock, row, anchor, byAdmin, picked, handle, losses>>

\* close(): the second call returns the first one's promise.
Close(p) ==
    /\ handle[p].state = "open"
    /\ ~handle[p].closing
    /\ handle' = [handle EXCEPT ![p].closing = TRUE, ![p].stopped = TRUE]
    /\ Send(p, "terminate", handle[p].gen)
    /\ UNCHANGED <<clock, row, anchor, byAdmin, picked, losses>>

\* Mutant: an answer that can be recovered from counts as the end.
IsGoneAlsoExpired(answer) ==
    answer \in {"not_found", "not_live", "fenced", "subject_inactive", "lease_expired"}

IsGone(answer) == answer \in {"not_found", "not_live", "fenced", "subject_inactive"}

\* Mutant: a fenced heartbeat is retried like a failed one.
OnHeartbeatRetriesFenced(h, c) ==
    IF IsGone(c.answer) /\ c.answer # "fenced"
    THEN [h EXCEPT !.stopped = TRUE, !.lost = IF h.closing THEN @ ELSE @ + 1]
    ELSE [h EXCEPT !.stopped = h.stopped \/ c.answer = "suspended"]

\* run() after heartbeat(): a beat that finds the session gone while close is
\* under way is an ordinary shutdown; a suspended session stops the loop.
OnHeartbeat(h, c) ==
    IF IsGone(c.answer)
    THEN [h EXCEPT !.stopped = TRUE, !.lost = IF h.closing THEN @ ELSE @ + 1]
    ELSE [h EXCEPT !.stopped = h.stopped \/ c.answer = "suspended"]

\* What the caller does with an answer.
OnAnswer(h, c) ==
    CASE c.op = "heartbeat" -> OnHeartbeat(h, c)
      [] c.op = "lease" -> IF c.answer = "ok"
                           THEN [NoHandle EXCEPT !.state = "open", !.gen = c.gen]
                           ELSE NoHandle
      [] c.op = "terminate" -> IF h.state = "retiring" THEN NoHandle ELSE h

Deliver(c) ==
    /\ c \in calls /\ c.from # None
    /\ c.answer # None
    /\ handle' = [handle EXCEPT ![c.from] = OnAnswer(@, c)]
    /\ calls' = calls \ {c}
    /\ UNCHANGED <<clock, row, anchor, byAdmin, picked, losses>>

\* Those of calls their callers gave up, as the coordinator still sees them.
Abandoned(given) == {[c EXCEPT !.from = None] : c \in {d \in given : d.answer = None}}

\* A timeout or a lost connection: an error no handler takes for the end, so
\* the heartbeat loop goes on, and a terminate or lease call is not repeated.
TimeOut(c) ==
    /\ c \in calls /\ c.from # None
    /\ losses < MaxLosses
    /\ handle' = [handle EXCEPT ![c.from] =
           IF c.op = "heartbeat" THEN @ ELSE OnAnswer(@, [c EXCEPT !.answer = None])]
    /\ calls' = (calls \ {c}) \cup Abandoned({c})
    /\ losses' = losses + 1
    /\ UNCHANGED <<clock, row, anchor, byAdmin, picked>>

\* The process dies; whoever restarts it knows the session id only.
Crash(p) ==
    /\ handle[p].state # "none"
    /\ losses + Cardinality(Pending(p)) <= MaxLosses
    /\ handle' = [handle EXCEPT ![p] = NoHandle]
    /\ calls' = (calls \ Pending(p)) \cup Abandoned(Pending(p))
    /\ losses' = losses + Cardinality(Pending(p))
    /\ UNCHANGED <<clock, row, anchor, byAdmin, picked>>

-----------------------------------------------------------------------------
(* The coordinator *)

\* BEGIN and the start of the first statement.  A terminate call reads neither
\* the clock nor the record.
Begin(c) ==
    /\ c \in calls
    /\ c.op # "terminate"
    /\ c.at = None /\ c.answer = None
    /\ calls' = (calls \ {c}) \cup {[c EXCEPT !.at = clock, !.anchor = anchor]}
    /\ UNCHANGED <<clock, row, anchor, byAdmin, picked, handle, losses>>

Answer(c, answer, gen) ==
    calls' = (calls \ {c}) \cup
             IF c.from = None THEN {}
             ELSE {[op |-> c.op, from |-> c.from, gen |-> gen, at |-> None,
                    anchor |-> TRUE, answer |-> answer]}

Refuse(c, answer) == Answer(c, answer, 0) /\ UNCHANGED row

SetStatus(c, to, answer) ==
    /\ status' = to
    /\ Answer(c, answer, 0)
    /\ UNCHANGED <<generation, deadline>>

\* POST /agents/:id/lease.  A suspended session is refused like an ended one:
\* attachSession throws either way and the caller holds nothing.
ServeLease(c) ==
    \/ status # "active" /\ Refuse(c, "not_live")
    \/ /\ status = "active"
       /\ \/ ~c.anchor /\ SetStatus(c, "terminated", "subject_inactive")
          \/ c.anchor /\ deadline <= c.at /\ SetStatus(c, "suspended", "lease_expired")
          \/ /\ c.anchor /\ deadline > c.at
             /\ generation' = generation + 1
             /\ deadline' = c.at + Lease
             /\ Answer(c, "ok", generation + 1)
             /\ UNCHANGED status

\* POST /agents/:id/heartbeat.
ServeHeartbeat(c) ==
    \/ status = "terminated" /\ Refuse(c, "not_live")
    \/ /\ status # "terminated"
       /\ \/ ~c.anchor /\ SetStatus(c, "terminated", "subject_inactive")
          \/ c.anchor /\ c.gen # generation /\ Refuse(c, "fenced")
          \/ /\ c.anchor /\ c.gen = generation
             /\ IF status = "active" /\ deadline <= c.at
                THEN SetStatus(c, "suspended", "lease_expired")
                ELSE /\ deadline' = c.at + Lease
                     /\ Answer(c, IF status = "suspended" THEN "suspended" ELSE "ok",
                               generation)
                     /\ UNCHANGED <<status, generation>>

\* Mutant: whoever owns the application may terminate.
ServeTerminateUnfenced(c) ==
    \/ status = "terminated" /\ Refuse(c, "not_found")
    \/ status # "terminated" /\ SetStatus(c, "terminated", "ok")

\* DELETE /agents/:id by the application.
ServeTerminate(c) ==
    \/ c.gen # generation /\ Refuse(c, "fenced")
    \/ c.gen = generation /\ status = "terminated" /\ Refuse(c, "not_found")
    \/ c.gen = generation /\ status # "terminated" /\ SetStatus(c, "terminated", "ok")

Serve(c) ==
    /\ c \in calls
    /\ c.at # None \/ c.op = "terminate"
    /\ c.answer = None
    /\ \/ c.op = "lease" /\ ServeLease(c)
       \/ c.op = "heartbeat" /\ ServeHeartbeat(c)
       \/ c.op = "terminate" /\ ServeTerminate(c)
    /\ UNCHANGED <<clock, anchor, byAdmin, picked, handle, losses>>

\* DELETE, suspend and resume by an administrator.
AdminTerminate ==
    /\ status # "terminated"
    /\ status' = "terminated"
    /\ byAdmin' = TRUE
    /\ UNCHANGED <<clock, generation, deadline, anchor, picked, handle, calls, losses>>

Suspend ==
    /\ status = "active"
    /\ status' = "suspended"
    /\ UNCHANGED <<clock, generation, deadline, anchor, byAdmin, picked, handle, calls,
                   losses>>

Resume ==
    /\ status = "suspended"
    /\ status' = "active"
    /\ deadline' = clock + Lease
    /\ UNCHANGED <<clock, generation, anchor, byAdmin, picked, handle, calls, losses>>

\* The user's authority record is revoked or expires.
AnchorEnds ==
    /\ anchor
    /\ anchor' = FALSE
    /\ UNCHANGED <<clock, row, byAdmin, picked, handle, calls, losses>>

\* runServiceLeaseSweep selects before it takes the zone's session lock, and
\* then suspends what it selected if it is active.
SweepSelect ==
    /\ ~picked
    /\ status = "active" /\ deadline < clock
    /\ picked' = TRUE
    /\ UNCHANGED <<clock, row, anchor, byAdmin, handle, calls, losses>>

SweepSuspend ==
    /\ picked
    /\ picked' = FALSE
    /\ status' = IF status = "active" THEN "suspended" ELSE status
    /\ UNCHANGED <<clock, generation, deadline, anchor, byAdmin, handle, calls, losses>>

ClockTicks ==
    /\ clock < MaxClock
    /\ clock' = clock + 1
    /\ UNCHANGED <<row, anchor, byAdmin, picked, handle, calls, losses>>

LeaseNext ==
    \/ \E p \in Process : \/ Started(p) \/ StartHookFails(p) \/ AttachSession(p)
                          \/ Beat(p) \/ Close(p) \/ Crash(p)
    \/ \E c \in calls : Begin(c) \/ Serve(c) \/ Deliver(c) \/ TimeOut(c)
    \/ AdminTerminate
    \/ Suspend
    \/ Resume
    \/ AnchorEnds
    \/ SweepSelect
    \/ SweepSuspend
    \/ ClockTicks

LeaseSpec == LeaseInit /\ [][LeaseNext]_leaseVars

\* Timers fire, the coordinator serves what it received, answers arrive, and
\* the sweeper's interval job runs; callers and administrators owe nothing.
LeaseFairness ==
    /\ \A p \in Process :
          /\ WF_leaseVars(Beat(p))
          /\ WF_leaseVars(\E c \in Pending(p) : Begin(c) \/ Serve(c) \/ Deliver(c))
    /\ WF_leaseVars(SweepSelect)
    /\ WF_leaseVars(SweepSuspend)
    /\ WF_leaseVars(ClockTicks)

LeaseFairSpec == LeaseSpec /\ LeaseFairness

-----------------------------------------------------------------------------
(* Properties *)

Holds(p) == handle[p].state = "open"

\* Handles and calls have their shapes; onLeaseLost is called at most once.
LeaseTypeOK ==
    /\ clock \in 0..MaxClock
    /\ status \in {"active", "suspended", "terminated"}
    /\ generation \in 0..(MaxGeneration + MaxLosses + Cardinality(Process))
    /\ deadline \in 0..(MaxClock + Lease)
    /\ {anchor, byAdmin, picked} \subseteq BOOLEAN
    /\ handle \in [Process -> Handle]
    /\ calls \subseteq Call
    /\ losses \in 0..MaxLosses

\* "A stale process that lost a takeover can never tear down its successor":
\* while a process holds the current generation and has not closed it, and the
\* user's record is active, only an administrator ends the session, however
\* late a terminate call of an earlier holder or of a failed start is served.
SuccessorSurvives ==
    \A p \in Process :
        Holds(p) /\ handle[p].gen = generation /\ ~handle[p].closing /\ anchor /\ ~byAdmin
            => status # "terminated"

\* onLeaseLost "remains reserved for terminal loss": a holder that was told
\* has been fenced by a later generation, or the session has ended, for good.
LostMeansLost ==
    \A p \in Process :
        handle[p].lost > 0 => handle[p].gen # generation \/ status = "terminated"

\* A holder whose lease was taken over, or whose session ended or was
\* suspended, stops renewing: its loop never spins on a lease it cannot have.
HolderResigns ==
    \A p \in Process :
        (Holds(p) /\ (handle[p].gen # generation \/ status # "active"))
            ~> (~Holds(p) \/ handle[p].stopped
                \/ (handle[p].gen = generation /\ status = "active"))
=============================================================================
