--------------------------- MODULE ServiceProofs ----------------------------
(***************************************************************************)
(* Proofs about what a service session does. Invocations, for any number   *)
(* of invocations, attempts, batch size and timeout: the inductive         *)
(* invariant says what the outbox holds about the newest attempt: its      *)
(* result is there exactly when the row has it, and nothing is there about *)
(* attempts to come. ServiceLease, for any number of processes,            *)
(* generations and calls: no two handles are told the same generation, and *)
(* who holds an older one can neither end the session nor be answered as   *)
(* its holder (LeaseInv).                                                  *)
(***************************************************************************)
EXTENDS Invocations, ServiceLease, TLAPS

\* An invocation was tried unless it is new or was cancelled before.
TriedByStatus ==
    \A i \in Made :
        inv[i].attempts = 0 <=> inv[i].status \in {"absent", "pending", "canceled"}

\* A result in the outbox is of an attempt that was made, and the newest
\* attempt's is what the row says.
ResultsAreTheRows ==
    \A i \in Made, n \in 0..MaxAttempts, o \in Outcome :
        <<o, i, n>> \in outbox =>
            n <= inv[i].attempts /\ (n = inv[i].attempts => inv[i].status = o)

IInv ==
    /\ TypeOK
    /\ TriedByStatus
    /\ ResultsAreTheRows
    /\ OneOutcomePerAttempt
    /\ EventsTellStatus

LEMMA Constants ==
    /\ MaxAttempts \in Nat /\ MaxAttempts > 0
    /\ Timeout \in Nat
    /\ MaxTime \in Nat
    /\ MaxMade \in Nat
BY InvocationAssumption

LEMMA InitIInv == Init => IInv
<1> SUFFICES ASSUME Init PROVE IInv
  OBVIOUS
<1> USE Constants DEF Init
<1>1. TypeOK
  BY DEF TypeOK, Invocation, Status
<1>2. TriedByStatus
  BY DEF TriedByStatus
<1>3. ResultsAreTheRows /\ OneOutcomePerAttempt /\ EventsTellStatus
  BY DEF ResultsAreTheRows, OneOutcomePerAttempt, EventsTellStatus
<1> QED BY <1>1, <1>2, <1>3 DEF IInv

-----------------------------------------------------------------------------
(* One invocation changes, and one event is enqueued for it *)

LEMMA MoveTyped ==
    ASSUME TypeOK, NEW i \in Made, NEW newRow \in Invocation,
           NEW event \in Status \cup {"created", "started"},
           inv' = [inv EXCEPT ![i] = newRow],
           Enqueue(event, i, newRow.attempts), UNCHANGED now
    PROVE  TypeOK'
<1>1. newRow.attempts \in 0..MaxAttempts
  BY DEF Invocation
<1> QED BY <1>1 DEF TypeOK, Enqueue, EventKey

\* A row that is not final gets no result: the event is no outcome.
LEMMA OpenMove ==
    ASSUME IInv, NEW i \in Made, NEW newRow \in Invocation,
           NEW event \in (Status \cup {"created", "started"}) \ Outcome,
           inv' = [inv EXCEPT ![i] = newRow],
           Enqueue(event, i, newRow.attempts), UNCHANGED now,
           newRow.status \notin Outcome,
           inv[i].status \notin Outcome \/ newRow.attempts > inv[i].attempts,
           newRow.attempts >= inv[i].attempts,
           newRow.attempts = 0 <=> newRow.status \in {"absent", "pending", "canceled"},
           newRow.attempts > 0 => newRow.status \in {"running", "cancel_requested"},
           newRow.attempts > 0 => <<"started", i, newRow.attempts>> \in outbox'
    PROVE  IInv'
<1>1. TypeOK'
  BY MoveTyped DEF IInv
<1>2. /\ inv \in [Made -> Invocation] /\ inv' \in [Made -> Invocation]
      /\ inv'[i] = newRow /\ \A j \in Made : j # i => inv'[j] = inv[j]
      /\ outbox' = outbox \cup {<<event, i, newRow.attempts>>}
      /\ newRow.attempts \in 0..MaxAttempts
  BY <1>1 DEF IInv, TypeOK, Enqueue, EventKey, Invocation
<1>3. \A j \in Made, n \in 0..MaxAttempts, o \in Outcome :
         <<o, j, n>> \in outbox' <=> <<o, j, n>> \in outbox
  BY <1>2
<1>4. TriedByStatus'
  BY <1>2 DEF IInv, TriedByStatus
<1>5. ResultsAreTheRows'
  <2> SUFFICES ASSUME NEW j \in Made, NEW n \in 0..MaxAttempts, NEW o \in Outcome,
                      <<o, j, n>> \in outbox
               PROVE  n <= inv'[j].attempts /\
                      (n = inv'[j].attempts => inv'[j].status = o)
    BY <1>3 DEF ResultsAreTheRows
  <2>1. n <= inv[j].attempts /\ (n = inv[j].attempts => inv[j].status = o)
    BY DEF IInv, ResultsAreTheRows
  <2>2. inv[i].attempts \in 0..MaxAttempts
    BY <1>2 DEF Invocation
  <2>3. CASE j # i
    BY <2>1, <2>3, <1>2
  <2>4. CASE j = i
    <3>1. n < newRow.attempts
      BY <2>1, <2>2, <2>4, <1>2, Constants
    <3> QED BY <3>1, <2>4, <1>2, Constants
  <2> QED BY <2>3, <2>4
<1>6. OneOutcomePerAttempt'
  BY <1>3 DEF IInv, OneOutcomePerAttempt
<1>7. EventsTellStatus'
  <2> SUFFICES ASSUME NEW j \in Made, inv'[j].attempts > 0
               PROVE  /\ <<"started", j, inv'[j].attempts>> \in outbox'
                      /\ inv'[j].status \in {"running", "cancel_requested"} \/
                            <<inv'[j].status, j, inv'[j].attempts>> \in outbox'
                      /\ inv'[j].status \in {"running", "cancel_requested"} =>
                            \A o \in Outcome :
                                <<o, j, inv'[j].attempts>> \notin outbox'
    BY DEF EventsTellStatus
  <2>1. CASE j # i
    BY <2>1, <1>2, <1>3 DEF IInv, EventsTellStatus, Invocation
  <2>2. CASE j = i
    BY <2>2, <1>2, <1>5 DEF ResultsAreTheRows, Outcome
  <2> QED BY <2>1, <2>2
<1> QED BY <1>1, <1>4, <1>5, <1>6, <1>7 DEF IInv
-----------------------------------------------------------------------------
(* Attempts of a set of invocations end *)

LEMMA CloseMove ==
    ASSUME IInv, NEW B \in SUBSET Made, NEW res \in [B -> Outcome],
           \A i \in B : inv[i].status \in {"running", "cancel_requested"},
           inv' \in [Made -> Invocation],
           \A i \in Made : /\ inv'[i].attempts = inv[i].attempts
                           /\ i \notin B => inv'[i] = inv[i]
                           /\ i \in B => inv'[i].status = res[i],
           outbox' = outbox \cup {<<res[i], i, inv[i].attempts>> : i \in B},
           UNCHANGED now
    PROVE  IInv'
<1>1. /\ \A i \in B : res[i] \in Outcome
      /\ \A i \in Made : /\ inv[i] \in Invocation
                         /\ inv[i].attempts \in 0..MaxAttempts
  BY DEF IInv, TypeOK, Invocation
<1>2. TypeOK'
  <2>2. \A i \in B : <<res[i], i, inv[i].attempts>> \in
            (Status \cup {"created", "started"}) \X Made \X (0..MaxAttempts)
    BY <1>1 DEF Outcome, Status
  <2> QED BY <2>2 DEF IInv, TypeOK
<1>3. TriedByStatus'
  BY <1>1, Constants DEF IInv, TriedByStatus, Outcome
<1>4. \A j \in Made, n \in 0..MaxAttempts, o \in Outcome :
         <<o, j, n>> \in outbox' =>
             <<o, j, n>> \in outbox \/ (j \in B /\ n = inv[j].attempts /\ o = res[j])
  OBVIOUS
<1>5. \A j \in B, o \in Outcome : <<o, j, inv[j].attempts>> \notin outbox
  <2> SUFFICES ASSUME NEW j \in B, NEW o \in Outcome,
                      <<o, j, inv[j].attempts>> \in outbox
               PROVE  FALSE
    OBVIOUS
  <2>1. inv[j].status = o
    BY <1>1, Constants DEF IInv, ResultsAreTheRows
  <2> QED BY <2>1 DEF Outcome
<1>6. ResultsAreTheRows'
  <2> SUFFICES ASSUME NEW j \in Made, NEW n \in 0..MaxAttempts, NEW o \in Outcome,
                      <<o, j, n>> \in outbox'
               PROVE  n <= inv'[j].attempts /\
                      (n = inv'[j].attempts => inv'[j].status = o)
    BY DEF ResultsAreTheRows
  <2>1. CASE j \in B /\ n = inv[j].attempts /\ o = res[j]
    BY <2>1, <1>1, Constants
  <2>2. CASE <<o, j, n>> \in outbox
    <3>1. n <= inv[j].attempts /\ (n = inv[j].attempts => inv[j].status = o)
      BY <2>2 DEF IInv, ResultsAreTheRows
    <3> QED BY <3>1, <2>2, <1>1, <1>5
  <2> QED BY <2>1, <2>2, <1>4
<1>7. OneOutcomePerAttempt'
  <2> SUFFICES ASSUME NEW j \in Made, NEW n \in 0..MaxAttempts,
                      NEW o \in Outcome, NEW p \in Outcome,
                      <<o, j, n>> \in outbox', <<p, j, n>> \in outbox'
               PROVE  o = p
    BY DEF OneOutcomePerAttempt
  <2>1. CASE <<o, j, n>> \in outbox /\ <<p, j, n>> \in outbox
    BY <2>1 DEF IInv, OneOutcomePerAttempt
  <2> QED BY <2>1, <1>4, <1>5
<1>8. EventsTellStatus'
  <2> SUFFICES ASSUME NEW j \in Made, inv'[j].attempts > 0
               PROVE  /\ <<"started", j, inv'[j].attempts>> \in outbox'
                      /\ inv'[j].status \in {"running", "cancel_requested"} \/
                            <<inv'[j].status, j, inv'[j].attempts>> \in outbox'
                      /\ inv'[j].status \in {"running", "cancel_requested"} =>
                            \A o \in Outcome :
                                <<o, j, inv'[j].attempts>> \notin outbox'
    BY DEF EventsTellStatus
  <2>1. CASE j \notin B
    BY <2>1, <1>1, <1>4 DEF IInv, EventsTellStatus
  <2>2. CASE j \in B
    BY <2>2, <1>1 DEF IInv, EventsTellStatus, Outcome
  <2> QED BY <2>1, <2>2
<1> QED BY <1>2, <1>3, <1>6, <1>7, <1>8 DEF IInv

-----------------------------------------------------------------------------
(* The invariant *)

LEMMA NextIInv == IInv /\ [Next]_vars => IInv'
<1> SUFFICES ASSUME IInv, [Next]_vars PROVE IInv'
  OBVIOUS
<1>1. /\ inv \in [Made -> Invocation]
      /\ \A i \in Made : /\ inv[i] \in Invocation
                         /\ inv[i].attempts \in 0..MaxAttempts
                         /\ inv[i].deadline \in Nat
      /\ now \in Nat
  BY Constants DEF IInv, TypeOK, Invocation
<1>2. ASSUME NEW i \in Made, Create(i) PROVE IInv'
  <2>0. [inv[i] EXCEPT !.status = "pending"] \in Invocation
    BY <1>1 DEF Invocation, Status
  <2> PICK newRow \in Invocation : newRow = [inv[i] EXCEPT !.status = "pending"]
    BY <2>0
  <2>1. newRow.status = "pending" /\ newRow.attempts = inv[i].attempts
    BY <1>1 DEF Invocation
  <2>2. inv[i].attempts = 0
    BY <1>2 DEF Create, IInv, TriedByStatus
  <2>3. inv' = [inv EXCEPT ![i] = newRow]
    BY <1>2 DEF Create
  <2>4. Enqueue("created", i, newRow.attempts) /\ now' = now /\ inv[i].status = "absent"
    BY <1>2, <2>1, <2>2 DEF Create
  <2>5. /\ newRow.status \notin Outcome /\ inv[i].status \notin Outcome
        /\ "created" \in (Status \cup {"created", "started"}) \ Outcome
        /\ newRow.attempts >= inv[i].attempts /\ ~(newRow.attempts > 0)
        /\ newRow.attempts = 0 /\ newRow.status \in {"absent", "pending", "canceled"}
    BY <2>1, <2>2, <2>4 DEF Outcome
  <2> QED BY <2>3, <2>4, <2>5, OpenMove
<1>3. ASSUME NEW i \in Made, Start(i) PROVE IInv'
  <2>0. [status |-> "running", attempts |-> inv[i].attempts + 1,
         deadline |-> now + Timeout] \in Invocation
    BY <1>1, <1>3, Constants DEF Start, Invocation, Status
  <2> PICK newRow \in Invocation :
           newRow = [status |-> "running", attempts |-> inv[i].attempts + 1,
                  deadline |-> now + Timeout]
    BY <2>0
  <2>1. newRow.status = "running" /\ newRow.attempts = inv[i].attempts + 1
    OBVIOUS
  <2>2. inv' = [inv EXCEPT ![i] = newRow] /\ now' = now
    BY <1>3 DEF Start
  <2>3. Enqueue("started", i, newRow.attempts)
    BY <1>3, <2>1 DEF Start
  <2>4. <<"started", i, newRow.attempts>> \in outbox'
    BY <2>3 DEF Enqueue, EventKey
  <2>5. newRow.attempts > inv[i].attempts /\ newRow.attempts > 0 /\
        newRow.attempts >= inv[i].attempts /\ newRow.attempts # 0
    BY <2>1, <1>1, Constants
  <2>6. /\ newRow.status \notin Outcome
        /\ "started" \in (Status \cup {"created", "started"}) \ Outcome
        /\ newRow.status \notin {"absent", "pending", "canceled"}
        /\ newRow.status \in {"running", "cancel_requested"}
    BY <2>1 DEF Outcome
  <2> QED BY <2>2, <2>3, <2>4, <2>5, <2>6, OpenMove
<1>4. ASSUME NEW i \in Made, Cancel(i) PROVE IInv'
  <2> DEFINE st == IF inv[i].status \in {"pending", "failed"} THEN "canceled"
                   ELSE "cancel_requested"
  <2>1. inv[i].status \in {"pending", "running", "cancel_requested"}
    BY <1>1, <1>4 DEF Cancel, Invocation, Status
  <2>0. [inv[i] EXCEPT !.status = st] \in Invocation
    BY <1>1 DEF Invocation, Status
  <2> PICK newRow \in Invocation : newRow = [inv[i] EXCEPT !.status = st]
    BY <2>0
  <2>2. newRow.status = st /\ newRow.attempts = inv[i].attempts
    BY <1>1 DEF Invocation
  <2>3. inv' = [inv EXCEPT ![i] = newRow] /\ now' = now
    BY <1>4 DEF Cancel
  <2>4. Enqueue("cancel_requested", i, newRow.attempts)
    BY <1>4, <2>2 DEF Cancel
  <2>5. /\ newRow.attempts = 0 <=> newRow.status = "canceled"
        /\ newRow.attempts > 0 => newRow.status = "cancel_requested"
        /\ newRow.status \in {"canceled", "cancel_requested"}
        /\ newRow.attempts > 0 => <<"started", i, newRow.attempts>> \in outbox
    <3>1. inv[i].attempts = 0 <=> inv[i].status = "pending"
      BY <2>1 DEF IInv, TriedByStatus
    <3>2. inv[i].attempts > 0 => <<"started", i, inv[i].attempts>> \in outbox
      BY DEF IInv, EventsTellStatus
    <3>3. inv[i].attempts \in Nat
      BY <1>1, Constants
    <3> QED BY <2>1, <2>2, <3>1, <3>2, <3>3
  <2>6. outbox \subseteq outbox'
    BY <2>4 DEF Enqueue
  <2>7. newRow.attempts >= inv[i].attempts
    BY <1>1, <2>2, Constants
  <2> QED BY <2>1, <2>2, <2>3, <2>4, <2>5, <2>6, <2>7, OpenMove
          DEF Outcome, Status
<1>5. ASSUME NEW i \in Made, NEW result \in {"succeeded", "failed"},
             Complete(i, result)
      PROVE  IInv'
  <2> DEFINE B == {i}
             res == [j \in B |-> result]
  <2>1. res \in [B -> Outcome] /\ B \in SUBSET Made
    BY DEF Outcome
  <2>2. /\ inv' \in [Made -> Invocation]
        /\ \A j \in Made : /\ inv'[j].attempts = inv[j].attempts
                           /\ j \notin B => inv'[j] = inv[j]
                           /\ j \in B => inv'[j].status = res[j]
    BY <1>1, <1>5 DEF Complete, Invocation, Status
  <2>3. outbox' = outbox \cup {<<res[j], j, inv[j].attempts>> : j \in B}
    BY <1>5 DEF Complete, Enqueue, EventKey
  <2>4. /\ \A j \in B : inv[j].status \in {"running", "cancel_requested"}
        /\ UNCHANGED now
    BY <1>5 DEF Complete
  <2> HIDE DEF B, res
  <2> QED BY <2>1, <2>2, <2>3, <2>4, CloseMove
<1>6. ASSUME NEW B \in SUBSET Made, DeadlineSweep(B) PROVE IInv'
  <2> DEFINE res == [j \in B |-> Expired(j)]
  <2>1. res \in [B -> Outcome]
    BY DEF Expired, Outcome
  <2>2. /\ inv' \in [Made -> Invocation]
        /\ \A j \in Made : /\ inv'[j].attempts = inv[j].attempts
                           /\ j \notin B => inv'[j] = inv[j]
                           /\ j \in B => inv'[j].status = res[j]
    BY <1>1, <1>6 DEF DeadlineSweep, Expired, Invocation, Status
  <2>3. outbox' = outbox \cup {<<res[j], j, inv[j].attempts>> : j \in B}
    BY <1>6 DEF DeadlineSweep, EventKey
  <2>4. /\ \A j \in B : inv[j].status \in {"running", "cancel_requested"}
        /\ UNCHANGED now
    BY <1>6 DEF DeadlineSweep, IsBatch, Overdue
  <2> HIDE DEF res
  <2> QED BY <2>1, <2>2, <2>3, <2>4, CloseMove
<1>7. CASE Tick
  <2>1. TypeOK'
    BY <1>7, Constants DEF Tick, IInv, TypeOK
  <2> QED BY <1>7, <2>1 DEF Tick, IInv, TriedByStatus, ResultsAreTheRows,
                            OneOutcomePerAttempt, EventsTellStatus
<1>8. CASE UNCHANGED vars
  BY <1>8 DEF vars, IInv, TypeOK, TriedByStatus, ResultsAreTheRows,
              OneOutcomePerAttempt, EventsTellStatus
<1> QED BY <1>2, <1>3, <1>4, <1>5, <1>6, <1>7, <1>8 DEF Next

LEMMA Inductive == Spec => []IInv
BY InitIInv, NextIInv, PTL DEF Spec

\* Rows and outbox keys have their types: in particular no invocation is
\* started more than max_attempts times.
THEOREM Typed == Spec => []TypeOK
<1>1. IInv => TypeOK
  BY DEF IInv
<1> QED BY Inductive, <1>1, PTL

\* Whoever gets to the row first, an attempt has one result.
THEOREM OneOutcome == Spec => []OneOutcomePerAttempt
<1>1. IInv => OneOutcomePerAttempt
  BY DEF IInv
<1> QED BY Inductive, <1>1, PTL

\* The outbox says of the newest attempt what the row says.
THEOREM EventsAgree == Spec => []EventsTellStatus
<1>1. IInv => EventsTellStatus
  BY DEF IInv
<1> QED BY Inductive, <1>1, PTL

-----------------------------------------------------------------------------
(* The refinement *)

\* A step of one invocation, or of a batch of them, is a step of Job.
LEMMA StepIsJob == IInv /\ [Next]_vars => [J!Next]_(J!jobVars)
<1> SUFFICES ASSUME IInv, [Next]_vars PROVE [J!Next]_(J!jobVars)
  OBVIOUS
<1> DEFINE Steps(i) == \/ J!Submit(i) \/ J!BeginAttempt(i) \/ J!EndAttempt(i)
                       \/ J!Withdraw(i) \/ J!Idle(i)
<1>1. \A i \in Made : /\ inv[i] \in Invocation
                      /\ inv[i].attempts \in 0..MaxAttempts
                      /\ inv[i].status \in Status
  BY DEF IInv, TypeOK, Invocation
<1>0. inv \in [Made -> Invocation]
  BY DEF IInv, TypeOK
<1>2. ASSUME NEW j \in Made, inv'[j] = inv[j] PROVE Steps(j)
  BY <1>2 DEF J!Idle, Phase
<1>3. ASSUME NEW i \in Made, Create(i) PROVE J!Next
  <2> SUFFICES ASSUME NEW j \in Made PROVE Steps(j)
    BY DEF J!Next
  <2>1. CASE j # i
    BY <1>0, <1>2, <1>3, <2>1 DEF Create
  <2>2. CASE j = i
    BY <1>0, <1>1, <1>3, <2>2 DEF Create, J!Submit, J!Move, Phase
  <2> QED BY <2>1, <2>2
<1>4. ASSUME NEW i \in Made, Start(i) PROVE J!Next
  <2> SUFFICES ASSUME NEW j \in Made PROVE Steps(j)
    BY DEF J!Next
  <2>1. CASE j # i
    BY <1>0, <1>2, <1>4, <2>1 DEF Start
  <2>2. CASE j = i
    BY <1>0, <1>1, <1>4, <2>2 DEF Start, J!BeginAttempt, J!Move, Phase
  <2> QED BY <2>1, <2>2
<1>5. ASSUME NEW i \in Made, Cancel(i) PROVE J!Next
  <2> SUFFICES ASSUME NEW j \in Made PROVE Steps(j)
    BY DEF J!Next
  <2>1. CASE j # i
    BY <1>0, <1>2, <1>5, <2>1 DEF Cancel
  <2>2. CASE j = i /\ inv[i].status = "pending"
    <3>1. inv[i].attempts = 0
      BY <2>2 DEF IInv, TriedByStatus
    <3> QED BY <1>0, <1>1, <1>5, <2>2, <3>1 DEF Cancel, J!Withdraw, J!Move, Phase
  <2>3. CASE j = i /\ inv[i].status # "pending"
    <3>1. inv[i].status \in {"running", "cancel_requested"}
      BY <1>1, <1>5, <2>3 DEF Cancel, Status
    <3> QED BY <1>0, <1>1, <1>5, <2>3, <3>1 DEF Cancel, J!Idle, Phase
  <2> QED BY <2>1, <2>2, <2>3
<1>6. ASSUME NEW i \in Made, NEW result \in {"succeeded", "failed"},
             Complete(i, result)
      PROVE  J!Next
  <2> SUFFICES ASSUME NEW j \in Made PROVE Steps(j)
    BY DEF J!Next
  <2>1. CASE j # i
    BY <1>0, <1>2, <1>6, <2>1 DEF Complete
  <2>2. CASE j = i
    BY <1>0, <1>1, <1>6, <2>2 DEF Complete, J!EndAttempt, J!Move, Phase
  <2> QED BY <2>1, <2>2
<1>7. ASSUME NEW B \in SUBSET Made, DeadlineSweep(B) PROVE J!Next
  <2> SUFFICES ASSUME NEW j \in Made PROVE Steps(j)
    BY DEF J!Next
  <2>1. CASE j \notin B
    BY <1>2, <1>7, <2>1 DEF DeadlineSweep
  <2>2. CASE j \in B
    <3>1. inv[j].status = "running"
      BY <1>7, <2>2 DEF DeadlineSweep, IsBatch, Overdue
    <3>2. inv'[j].status = Expired(j) /\ inv'[j].attempts = inv[j].attempts
      BY <1>1, <1>7, <2>2 DEF DeadlineSweep, Invocation
    <3> QED BY <1>1, <3>1, <3>2, Constants
            DEF Expired, J!EndAttempt, J!Move, Phase
  <2> QED BY <2>1, <2>2
<1>8. CASE Tick \/ UNCHANGED vars
  BY <1>8 DEF Tick, vars, J!jobVars, Phase
<1> QED BY <1>3, <1>4, <1>5, <1>6, <1>7, <1>8 DEF Next

\* Invocations implement Job: attempts one at a time and at most max_attempts
\* of them, and a closed invocation stays closed.
THEOREM Implements == Spec => IsJob
<1>1. Init => J!Init
  BY DEF Init, J!Init, Phase
<1> QED BY <1>1, StepIsJob, Inductive, PTL DEF Spec, IsJob, J!Spec

-----------------------------------------------------------------------------
(* The outbox's duplicate check *)

\* No event of attempt n that is still to come is in the outbox.
KeysFresh(i, n) ==
    /\ <<"created", i, n>> \in outbox => inv[i].status # "absent"
    /\ <<"started", i, n>> \in outbox => n <= inv[i].attempts
    /\ <<"cancel_requested", i, n>> \in outbox =>
          /\ n <= inv[i].attempts
          /\ n = inv[i].attempts => inv[i].status \notin {"absent", "pending", "running"}

FreshInv == \A i \in Made, n \in 0..MaxAttempts : KeysFresh(i, n)

LEMMA NextFresh == IInv /\ FreshInv /\ [Next]_vars => FreshInv'
<1> SUFFICES ASSUME IInv, FreshInv, [Next]_vars, NEW i \in Made, NEW n \in 0..MaxAttempts
             PROVE  KeysFresh(i, n)'
  BY Zenon DEF FreshInv
<1>0. /\ inv \in [Made -> Invocation] /\ inv[i] \in Invocation
      /\ n \in Nat /\ inv[i].attempts \in Nat
      /\ inv[i].status = "absent" => inv[i].attempts = 0
      /\ KeysFresh(i, n)
  BY Constants DEF IInv, TypeOK, Invocation, TriedByStatus, FreshInv
<1> DEFINE Untouched ==
      inv'[i] = inv[i] /\ \A e : <<e, i, n>> \in outbox' => <<e, i, n>> \in outbox
<1>1. ASSUME Untouched PROVE KeysFresh(i, n)'
  BY <1>0, <1>1 DEF KeysFresh
<1>2. ASSUME NEW j \in Made, Create(j) PROVE KeysFresh(i, n)'
  <2>1. CASE i # j
    BY <1>0, <1>1, <1>2, <2>1 DEF Create, Enqueue, EventKey
  <2>2. CASE i = j
    <3>1. /\ inv[i].status = "absent" /\ inv'[i].status = "pending"
          /\ inv'[i].attempts = inv[i].attempts
          /\ outbox' = outbox \cup {<<"created", i, 0>>}
      BY <1>0, <1>2, <2>2 DEF Create, Enqueue, EventKey, Invocation
    <3> QED BY <1>0, <3>1 DEF KeysFresh
  <2> QED BY <2>1, <2>2
<1>3. ASSUME NEW j \in Made, Start(j) PROVE KeysFresh(i, n)'
  <2>1. CASE i # j
    BY <1>0, <1>1, <1>3, <2>1 DEF Start, Enqueue, EventKey
  <2>2. CASE i = j
    <3>1. /\ inv'[i].status = "running" /\ inv'[i].attempts = inv[i].attempts + 1
          /\ outbox' = outbox \cup {<<"started", i, inv[i].attempts + 1>>}
      BY <1>0, <1>3, <2>2 DEF Start, Enqueue, EventKey
    <3> QED BY <1>0, <3>1 DEF KeysFresh
  <2> QED BY <2>1, <2>2
<1>4. ASSUME NEW j \in Made, Cancel(j) PROVE KeysFresh(i, n)'
  <2>1. CASE i # j
    BY <1>0, <1>1, <1>4, <2>1 DEF Cancel, Enqueue, EventKey
  <2>2. CASE i = j
    <3>1. /\ inv'[i].status \in {"canceled", "cancel_requested"}
          /\ inv'[i].attempts = inv[i].attempts
          /\ outbox' = outbox \cup {<<"cancel_requested", i, inv[i].attempts>>}
      BY <1>0, <1>4, <2>2 DEF Cancel, Enqueue, EventKey, Invocation
    <3> QED BY <1>0, <3>1 DEF KeysFresh
  <2> QED BY <2>1, <2>2
<1>5. ASSUME NEW j \in Made, NEW result \in {"succeeded", "failed"}, Complete(j, result)
      PROVE  KeysFresh(i, n)'
  <2>1. CASE i # j
    BY <1>0, <1>1, <1>5, <2>1 DEF Complete, Enqueue, EventKey
  <2>2. CASE i = j
    <3>1. /\ inv'[i].status = result /\ inv'[i].attempts = inv[i].attempts
          /\ outbox' = outbox \cup {<<result, i, inv[i].attempts>>}
      BY <1>0, <1>5, <2>2 DEF Complete, Enqueue, EventKey, Invocation
    <3> QED BY <1>0, <3>1 DEF KeysFresh
  <2> QED BY <2>1, <2>2
<1>6. ASSUME NEW B \in SUBSET Made, DeadlineSweep(B) PROVE KeysFresh(i, n)'
  <2>1. /\ inv'[i].attempts = inv[i].attempts
        /\ inv'[i].status \in {inv[i].status, "failed", "timed_out"}
        /\ \A e \in {"created", "started", "cancel_requested"} :
              <<e, i, n>> \in outbox' => <<e, i, n>> \in outbox
    BY <1>0, <1>6 DEF DeadlineSweep, EventKey, Expired, Invocation
  <2> QED BY <1>0, <2>1 DEF KeysFresh
<1>7. CASE Tick \/ UNCHANGED vars
  BY <1>0, <1>7 DEF KeysFresh, Tick, vars
<1> QED BY <1>2, <1>3, <1>4, <1>5, <1>6, <1>7 DEF Next

\* No event is lost to the outbox's ON CONFLICT DO NOTHING: whenever a status
\* changes, the key of the event was not there.
THEOREM NoEventSwallowedTheorem == Spec => NoEventSwallowed
<1> DEFINE Told == \A i \in Made : inv'[i].status # inv[i].status =>
                       \E key \in outbox' \ outbox : key[2] = i
<1>1. IInv /\ FreshInv /\ [Next]_vars => [Told]_vars
  <2> SUFFICES ASSUME IInv, FreshInv, [Next]_vars, NEW i \in Made,
                      inv'[i].status # inv[i].status
               PROVE  \E key \in outbox' \ outbox : key[2] = i
    OBVIOUS
  <2>0. /\ inv \in [Made -> Invocation] /\ inv[i] \in Invocation
        /\ inv[i].attempts \in 0..MaxAttempts /\ inv[i].attempts \in Nat
        /\ 0 \in 0..MaxAttempts
        /\ \A n \in 0..MaxAttempts : KeysFresh(i, n)
        /\ \A o \in Outcome : <<o, i, inv[i].attempts>> \in outbox => inv[i].status = o
    BY Constants DEF IInv, TypeOK, Invocation, FreshInv, ResultsAreTheRows
  <2>1. ASSUME NEW e, NEW n, <<e, i, n>> \in outbox', <<e, i, n>> \notin outbox
        PROVE  \E key \in outbox' \ outbox : key[2] = i
    BY <2>1
  <2>2. ASSUME NEW j \in Made, Create(j) PROVE \E key \in outbox' \ outbox : key[2] = i
    <3>1. j = i /\ inv[i].status = "absent" /\ <<"created", i, 0>> \in outbox'
      BY <2>0, <2>2 DEF Create, Enqueue, EventKey
    <3> QED BY <2>0, <2>1, <3>1 DEF KeysFresh
  <2>3. ASSUME NEW j \in Made, Start(j) PROVE \E key \in outbox' \ outbox : key[2] = i
    <3>1. j = i /\ <<"started", i, inv[i].attempts + 1>> \in outbox'
          /\ inv[i].attempts < MaxAttempts
      BY <2>0, <2>3 DEF Start, Enqueue, EventKey
    <3>2. inv[i].attempts + 1 \in 0..MaxAttempts
      BY <2>0, <3>1, Constants
    <3>3. <<"started", i, inv[i].attempts + 1>> \in outbox =>
             inv[i].attempts + 1 <= inv[i].attempts
      BY <2>0, <3>2 DEF KeysFresh
    <3>4. <<"started", i, inv[i].attempts + 1>> \notin outbox
      BY <2>0, <3>3
    <3> QED BY <2>1, <3>1, <3>4
  <2>4. ASSUME NEW j \in Made, Cancel(j) PROVE \E key \in outbox' \ outbox : key[2] = i
    <3>1. j = i /\ <<"cancel_requested", i, inv[i].attempts>> \in outbox'
          /\ inv[i].status \in {"pending", "running"}
      BY <2>0, <2>4 DEF Cancel, Enqueue, EventKey, Invocation, Status
    <3> QED BY <2>0, <2>1, <3>1 DEF KeysFresh
  <2>5. ASSUME NEW j \in Made, NEW result \in {"succeeded", "failed"}, Complete(j, result)
        PROVE  \E key \in outbox' \ outbox : key[2] = i
    <3>1. j = i /\ <<result, i, inv[i].attempts>> \in outbox'
          /\ inv[i].status \in {"running", "cancel_requested"}
      BY <2>0, <2>5 DEF Complete, Enqueue, EventKey
    <3> QED BY <2>0, <2>1, <3>1 DEF Outcome
  <2>6. ASSUME NEW B \in SUBSET Made, DeadlineSweep(B)
        PROVE  \E key \in outbox' \ outbox : key[2] = i
    <3>1. i \in B /\ <<Expired(i), i, inv[i].attempts>> \in outbox'
          /\ inv[i].status = "running" /\ Expired(i) \in {"failed", "timed_out"}
      BY <2>0, <2>6 DEF DeadlineSweep, EventKey, IsBatch, Overdue, Expired
    <3> QED BY <2>0, <2>1, <3>1 DEF Outcome
  <2>7. CASE Tick \/ UNCHANGED vars
    BY <2>7 DEF Tick, vars
  <2> QED BY <2>2, <2>3, <2>4, <2>5, <2>6, <2>7 DEF Next
<1>2. Init => FreshInv
  BY DEF Init, FreshInv, KeysFresh
<1>3. IInv /\ FreshInv /\ [Next]_vars => FreshInv'
  BY NextFresh
<1> QED BY <1>1, <1>2, <1>3, Inductive, PTL DEF Spec, NoEventSwallowed

-----------------------------------------------------------------------------
(* The lease of a service session *)

\* The part of LeaseAssumption the proofs need.
NoneApart == None \notin Process \cup Nat \cup Answers

Held == [state   : {"none", "starting", "retiring", "attaching", "open"},
         gen     : Nat,
         stopped : BOOLEAN,
         closing : BOOLEAN,
         lost    : Nat]

LeaseShapes ==
    /\ clock \in Nat
    /\ status \in {"active", "suspended", "terminated"}
    /\ generation \in Nat
    /\ anchor \in BOOLEAN /\ byAdmin \in BOOLEAN
    /\ handle \in [Process -> Held]
    /\ calls \subseteq Call

\* A process whose handle stands for a generation, one that has not closed it,
\* a lease that was granted and not yet delivered, and a terminate call that
\* was not yet served.
Owns(p) == handle[p].state \in {"starting", "retiring", "open"}
Keeps(p) == handle[p].state \in {"starting", "open"} /\ handle[p].closing = FALSE
Granted(c) == c.op = "lease" /\ c.answer = "ok"
Ending(c) == c.op = "terminate" /\ c.answer = None

GensKnown ==
    /\ \A p \in Process : handle[p].gen <= generation
    /\ \A c \in calls : c.gen <= generation

\* The generation behind p's handle is no longer the session's, for good.
Over(p) == handle[p].gen # generation \/ status = "terminated"

\* A call fits the state its caller is in; a call that saw the record inactive
\* saw what still is; a heartbeat is answered for the end only when it is.
CallsFit ==
    \A c \in calls :
        /\ c.anchor = FALSE => anchor = FALSE
        /\ c.from \in Process =>
              /\ c.op = "lease" => handle[c.from].state = "attaching"
              /\ c.op = "terminate" => handle[c.from].state \in {"retiring", "open"}
              /\ c.op = "heartbeat" => handle[c.from].state = "open"
              /\ c.op = "heartbeat" /\ c.answer = None => c.gen = handle[c.from].gen
              /\ c.op = "heartbeat" /\ IsGone(c.answer) => Over(c.from)

\* A process without an open handle waits for one call at most.
Alone ==
    \A c, d \in calls :
        c.from = d.from /\ c.from \in Process /\ handle[c.from].state # "open" => c = d

\* No two processes stand for one generation, a granted lease is nobody else's
\* and nobody has asked to end it, and no terminate call under way is for the
\* generation of a process that has not closed it.
GensApart ==
    /\ \A p, q \in Process : Owns(p) /\ Owns(q) /\ handle[p].gen = handle[q].gen => p = q
    /\ \A c \in calls, p \in Process : Granted(c) /\ Owns(p) => handle[p].gen # c.gen
    /\ \A c, d \in calls : Granted(c) /\ (Granted(d) \/ Ending(d)) /\ c.gen = d.gen => c = d
    /\ \A d \in calls, p \in Process : Ending(d) /\ Keeps(p) => handle[p].gen # d.gen

\* When the session was ended by a terminate call, nobody holds its generation
\* without having closed it, and nobody is about to.
EndedByHolder ==
    status = "terminated" /\ anchor = TRUE /\ byAdmin = FALSE =>
        /\ \A p \in Process : Keeps(p) => handle[p].gen # generation
        /\ \A c \in calls : Granted(c) => c.gen # generation

ToldWhenOver == \A p \in Process : handle[p].lost > 0 => Over(p)

LeaseInv ==
    /\ LeaseShapes /\ GensKnown /\ CallsFit /\ Alone /\ GensApart /\ EndedByHolder
    /\ ToldWhenOver

USE DEF Answers, IsGone

LEMMA InitLease == NoneApart /\ LeaseInit => LeaseInv
<1> SUFFICES ASSUME LeaseInit, NoneApart PROVE LeaseInv
  OBVIOUS
<1> PICK p \in Process :
      handle = [q \in Process |->
          IF q = p THEN [NoHandle EXCEPT !.state = "starting", !.gen = 1]
          ELSE NoHandle]
  BY DEF LeaseInit
<1>1. /\ clock = 0 /\ status = "active" /\ generation = 1 /\ calls = {}
      /\ anchor = TRUE /\ byAdmin = FALSE
  BY DEF LeaseInit
<1> DEFINE new == [NoHandle EXCEPT !.state = "starting", !.gen = 1]
<1>2. handle = [q \in Process |-> IF q = p THEN new ELSE NoHandle]
  OBVIOUS
<1>a. /\ NoHandle \in Held /\ NoHandle.state = "none" /\ NoHandle.gen = 0
      /\ NoHandle.lost = 0
  BY DEF NoHandle, Held
<1>b. new \in Held /\ new.state = "starting" /\ new.gen = 1 /\ new.lost = 0
  BY <1>a DEF Held
<1> HIDE DEF new
<1>3. LeaseShapes
  BY <1>1, <1>2, <1>a, <1>b DEF LeaseShapes
<1>4. GensKnown /\ GensApart
  BY <1>1, <1>2, <1>a, <1>b DEF GensKnown, GensApart, Owns, Granted, Ending
<1>5. CallsFit /\ Alone /\ EndedByHolder /\ ToldWhenOver
  BY <1>1, <1>2, <1>a, <1>b DEF CallsFit, Alone, EndedByHolder, ToldWhenOver
<1> QED BY <1>3, <1>4, <1>5 DEF LeaseInv

\* The coordinator's row moves on as its routes and jobs allow, and nothing
\* else does.
LEMMA RowKeeps ==
    ASSUME LeaseInv, UNCHANGED <<handle, calls>>,
           clock' \in Nat, status' \in {"active", "suspended", "terminated"},
           generation' = generation, anchor' \in BOOLEAN, byAdmin' \in BOOLEAN,
           status = "terminated" => status' = "terminated",
           status' = "terminated" => status = "terminated" \/ byAdmin' = TRUE,
           anchor' = TRUE => anchor = TRUE, byAdmin = TRUE => byAdmin' = TRUE
    PROVE  LeaseInv'
<1>1. LeaseShapes'
  BY DEF LeaseInv, LeaseShapes
<1>2. \A p \in Process : Over(p) => Over(p)'
  BY DEF Over
<1>3. \A p : (Owns(p)' <=> Owns(p)) /\ (Keeps(p)' <=> Keeps(p))
  BY DEF Owns, Keeps
<1>4. GensKnown' /\ GensApart' /\ Alone'
  BY <1>3 DEF LeaseInv, GensKnown, GensApart, Alone
<1>5. CallsFit'
  BY <1>2 DEF LeaseInv, LeaseShapes, CallsFit
<1>6. EndedByHolder'
  BY <1>3 DEF LeaseInv, LeaseShapes, EndedByHolder
<1>7. ToldWhenOver'
  BY <1>2 DEF LeaseInv, ToldWhenOver
<1> QED BY <1>1, <1>4, <1>5, <1>6, <1>7 DEF LeaseInv

\* The steps of administrators, of the sweeper and of time.
LEMMA JobKeeps ==
    ASSUME LeaseInv,
           \/ AdminTerminate \/ Suspend \/ Resume \/ AnchorEnds
           \/ SweepSelect \/ SweepSuspend \/ ClockTicks
    PROVE  LeaseInv'
<1>1. /\ clock \in Nat /\ status \in {"active", "suspended", "terminated"}
      /\ anchor \in BOOLEAN /\ byAdmin \in BOOLEAN
  BY DEF LeaseInv, LeaseShapes
<1>2. CASE AdminTerminate
  BY <1>1, <1>2, RowKeeps DEF AdminTerminate
<1>3. CASE Suspend \/ Resume
  BY <1>1, <1>3, RowKeeps DEF Suspend, Resume
<1>4. CASE AnchorEnds
  BY <1>1, <1>4, RowKeeps DEF AnchorEnds, row
<1>5. CASE SweepSelect \/ SweepSuspend
  BY <1>1, <1>5, RowKeeps DEF SweepSelect, SweepSuspend, row
<1>6. CASE ClockTicks
  <2>1. clock' \in Nat /\ UNCHANGED <<status, generation, anchor, byAdmin, handle, calls>>
    BY <1>1, <1>6 DEF ClockTicks, row
  <2> QED BY <1>1, <2>1, RowKeeps
<1> QED BY <1>2, <1>3, <1>4, <1>5, <1>6

\* A process sends call c and goes on with handle h.
LEMMA SendKeeps ==
    ASSUME NoneApart, LeaseInv, NEW p \in Process, NEW h \in Held, NEW c \in Call,
           UNCHANGED <<clock, status, generation, anchor, byAdmin>>,
           handle' = [handle EXCEPT ![p] = h], calls' = calls \cup {c},
           c.from = p, c.answer = None, c.anchor = TRUE, c.gen <= generation,
           h.gen = handle[p].gen, h.lost = handle[p].lost,
           \/ /\ c.op = "lease" /\ handle[p].state = "none" /\ h.state = "attaching"
           \/ /\ c.op = "heartbeat" /\ handle[p].state = "open" /\ h = handle[p]
              /\ c.gen = h.gen
           \/ /\ c.op = "terminate" /\ handle[p].state = "starting"
              /\ h.state = "retiring" /\ c.gen = h.gen
           \/ /\ c.op = "terminate" /\ handle[p].state = "open"
              /\ h.state = "open" /\ h.closing = TRUE /\ c.gen = h.gen
    PROVE  LeaseInv'
<1>1. \A q \in Process : handle'[q] = IF q = p THEN h ELSE handle[q]
  BY DEF LeaseInv, LeaseShapes
<1>2. LeaseShapes'
  BY DEF LeaseInv, LeaseShapes
<1>3. \A q \in Process : /\ Owns(q)' => Owns(q)
                         /\ Keeps(q)' => Keeps(q)
                         /\ Over(q)' <=> Over(q)
                         /\ handle'[q].gen = handle[q].gen
                         /\ handle'[q].lost = handle[q].lost
  BY <1>1 DEF Owns, Keeps, Over
<1>4. GensKnown' /\ ToldWhenOver' /\ EndedByHolder'
  BY <1>3 DEF LeaseInv, GensKnown, ToldWhenOver, EndedByHolder, NoneApart, Granted
<1>5. ~Granted(c) /\ ~IsGone(c.answer)
  BY DEF NoneApart, Granted, IsGone
<1>6. CallsFit'
  <2> SUFFICES ASSUME NEW d \in calls'
      PROVE
        /\ d.anchor = FALSE => anchor' = FALSE
        /\ d.from \in Process =>
              /\ d.op = "lease" => handle'[d.from].state = "attaching"
              /\ d.op = "terminate" => handle'[d.from].state \in {"retiring", "open"}
              /\ d.op = "heartbeat" => handle'[d.from].state = "open"
              /\ d.op = "heartbeat" /\ d.answer = None => d.gen = handle'[d.from].gen
              /\ d.op = "heartbeat" /\ IsGone(d.answer) => Over(d.from)'
    BY Zenon DEF CallsFit
  <2>1. CASE d = c
    BY <1>1, <1>5, <2>1
  <2>2. CASE d \in calls
    <3>1. d.op \in {"lease", "heartbeat", "terminate"}
      BY <2>2 DEF LeaseInv, LeaseShapes, Call
    <3>2. d.from = p => handle[p].state \in {"attaching", "retiring", "open"}
      BY <2>2, <3>1 DEF LeaseInv, CallsFit
    <3> QED BY <1>1, <1>3, <2>2, <3>1, <3>2 DEF LeaseInv, CallsFit
  <2> QED BY <2>1, <2>2
<1>7. Alone'
  <2>1. handle[p].state # "open" => \A d \in calls : d.from # p
    <3> SUFFICES ASSUME NEW d \in calls, d.from = p
                 PROVE  handle[p].state \notin {"none", "starting"}
      OBVIOUS
    <3>1. d.op \in {"lease", "heartbeat", "terminate"}
      BY DEF LeaseInv, LeaseShapes, Call
    <3> QED BY <3>1 DEF LeaseInv, CallsFit
  <2> QED BY <1>1, <2>1 DEF LeaseInv, Alone
<1>8. GensApart'
  <2>1. \A q, r \in Process : Owns(q)' /\ Owns(r)' /\ handle'[q].gen = handle'[r].gen => q = r
    BY <1>3 DEF LeaseInv, GensApart
  <2>2. \A d \in calls', q \in Process : Granted(d) /\ Owns(q)' => handle'[q].gen # d.gen
    BY <1>3, <1>5 DEF LeaseInv, GensApart
  <2>3. \A d \in calls : Granted(d) /\ Ending(c) => c.gen # d.gen
    BY DEF LeaseInv, GensApart, Ending, Owns
  <2>4. \A d, e \in calls' : Granted(d) /\ (Granted(e) \/ Ending(e)) /\ d.gen = e.gen => d = e
    BY <1>5, <2>3 DEF LeaseInv, GensApart
  <2>5. \A q \in Process : Ending(c) /\ Keeps(q)' => handle'[q].gen # c.gen
    <3> SUFFICES ASSUME NEW q \in Process, Ending(c), Keeps(q)', handle'[q].gen = c.gen
                 PROVE  FALSE
      OBVIOUS
    <3>1. Owns(q) /\ Owns(p) /\ handle[q].gen = handle[p].gen
      BY <1>3 DEF Ending, Owns, Keeps
    <3>2. q = p
      BY <3>1 DEF LeaseInv, GensApart
    <3> QED BY <1>1, <3>2 DEF Ending, Keeps
  <2>6. \A d \in calls', q \in Process : Ending(d) /\ Keeps(q)' => handle'[q].gen # d.gen
    BY <1>3, <2>5 DEF LeaseInv, GensApart
  <2> QED BY <2>1, <2>2, <2>4, <2>6 DEF GensApart, Granted, Ending
<1> QED BY <1>2, <1>4, <1>6, <1>7, <1>8 DEF LeaseInv

\* What the SDK sends: the turns of the heartbeat, close, attach and the end of
\* a start that failed.
LEMMA SdkSends ==
    ASSUME NoneApart, LeaseInv, NEW p \in Process,
           StartHookFails(p) \/ AttachSession(p) \/ Beat(p) \/ Close(p)
    PROVE  LeaseInv'
<1>1. /\ handle \in [Process -> Held] /\ handle[p] \in Held /\ generation \in Nat
      /\ handle[p].gen \in Nat /\ handle[p].gen <= generation
  BY DEF LeaseInv, LeaseShapes, Held, GensKnown
<1> DEFINE c(op, gen) == [op |-> op, from |-> p, gen |-> gen, at |-> None,
                          anchor |-> TRUE, answer |-> None]
<1>2. \A op \in {"lease", "heartbeat", "terminate"}, gen \in Nat :
        /\ c(op, gen) \in Call
        /\ c(op, gen).op = op /\ c(op, gen).from = p /\ c(op, gen).gen = gen
        /\ c(op, gen).anchor = TRUE /\ c(op, gen).answer = None
  BY DEF Call
<1>3. \A op, gen : Send(p, op, gen) => calls' = calls \cup {c(op, gen)}
  BY DEF Send
<1> HIDE DEF c
<1>4. CASE StartHookFails(p)
  <2> DEFINE h == [handle[p] EXCEPT !.state = "retiring"]
  <2>1. /\ handle[p].state = "starting" /\ handle' = [handle EXCEPT ![p] = h]
        /\ calls' = calls \cup {c("terminate", handle[p].gen)}
        /\ UNCHANGED <<clock, status, generation, anchor, byAdmin>>
    BY <1>3, <1>4 DEF StartHookFails, row
  <2>2. /\ h \in Held /\ h.state = "retiring" /\ h.gen = handle[p].gen
        /\ h.lost = handle[p].lost
    BY <1>1 DEF Held
  <2> HIDE DEF h
  <2>3. PICK k \in Call :
          /\ calls' = calls \cup {k} /\ k.op = "terminate" /\ k.from = p /\ k.gen = handle[p].gen
          /\ k.anchor = TRUE /\ k.answer = None
    BY <1>1, <1>2, <2>1
  <2> QED BY <1>1, <2>1, <2>2, <2>3, SendKeeps
<1>5. CASE AttachSession(p)
  <2> DEFINE h == [handle[p] EXCEPT !.state = "attaching"]
  <2>1. /\ handle[p].state = "none" /\ handle' = [handle EXCEPT ![p] = h]
        /\ calls' = calls \cup {c("lease", 0)}
        /\ UNCHANGED <<clock, status, generation, anchor, byAdmin>>
    BY <1>3, <1>5 DEF AttachSession, row
  <2>2. /\ h \in Held /\ h.state = "attaching" /\ h.gen = handle[p].gen
        /\ h.lost = handle[p].lost /\ 0 <= generation
    BY <1>1 DEF Held
  <2> HIDE DEF h
  <2>3. PICK k \in Call :
          /\ calls' = calls \cup {k} /\ k.op = "lease" /\ k.from = p /\ k.gen = 0
          /\ k.anchor = TRUE /\ k.answer = None
    BY <1>1, <1>2, <2>1
  <2> QED BY <1>1, <2>1, <2>2, <2>3, SendKeeps
<1>6. CASE Beat(p)
  <2>1. /\ handle[p].state = "open" /\ handle' = [handle EXCEPT ![p] = handle[p]]
        /\ calls' = calls \cup {c("heartbeat", handle[p].gen)}
        /\ UNCHANGED <<clock, status, generation, anchor, byAdmin>>
    BY <1>1, <1>3, <1>6 DEF Beat, row
  <2>3. PICK k \in Call :
          /\ calls' = calls \cup {k} /\ k.op = "heartbeat" /\ k.from = p /\ k.gen = handle[p].gen
          /\ k.anchor = TRUE /\ k.answer = None
    BY <1>1, <1>2, <2>1
  <2> QED BY <1>1, <2>1, <2>3, SendKeeps
<1>7. CASE Close(p)
  <2> DEFINE h == [handle[p] EXCEPT !.closing = TRUE, !.stopped = TRUE]
  <2>1. /\ handle[p].state = "open" /\ handle' = [handle EXCEPT ![p] = h]
        /\ calls' = calls \cup {c("terminate", handle[p].gen)}
        /\ UNCHANGED <<clock, status, generation, anchor, byAdmin>>
    BY <1>1, <1>3, <1>7 DEF Close, row
  <2>2. /\ h \in Held /\ h.state = handle[p].state /\ h.gen = handle[p].gen
        /\ h.lost = handle[p].lost /\ h.closing = TRUE
    BY <1>1 DEF Held
  <2> HIDE DEF h
  <2>3. PICK k \in Call :
          /\ calls' = calls \cup {k} /\ k.op = "terminate" /\ k.from = p /\ k.gen = handle[p].gen
          /\ k.anchor = TRUE /\ k.answer = None
    BY <1>1, <1>2, <2>1
  <2> QED BY <1>1, <2>1, <2>2, <2>3, SendKeeps
<1> QED BY <1>4, <1>5, <1>6, <1>7

\* Calls are answered to nobody or given up, and the handle of one process
\* changes: it is dropped with all the process waited for, or it goes on with
\* the generation it has, or it takes up one that was granted.
Rest(c) == \E d \in calls :
    /\ c.op = d.op /\ c.gen = d.gen /\ c.anchor = d.anchor /\ c.answer = d.answer
    /\ c = d \/ (c.from = None /\ c.answer = None)

LEMMA TakeKeeps ==
    ASSUME NoneApart, LeaseInv, NEW p \in Process, NEW h \in Held,
           UNCHANGED <<clock, status, generation, anchor, byAdmin>>,
           handle' = [handle EXCEPT ![p] = h],
           calls' \subseteq Call, \A c \in calls' : Rest(c),
           h.gen <= generation, h.lost > 0 => Over(p)',
           \/ h.state = "none" /\ \A c \in calls' : c.from # p
           \/ /\ h.state = "open" /\ handle[p].state \in {"starting", "open"}
              /\ h.gen = handle[p].gen /\ h.closing = handle[p].closing
           \/ \E c \in calls \ calls' :
                 /\ h.state = "open" /\ Granted(c) /\ c.gen = h.gen
                 /\ \A d \in calls' : d.from # p
    PROVE  LeaseInv'
<1>1. \A q \in Process : handle'[q] = IF q = p THEN h ELSE handle[q]
  BY DEF LeaseInv, LeaseShapes
<1>2. LeaseShapes'
  BY DEF LeaseInv, LeaseShapes
<1>3. \A q \in Process : q # p => /\ Owns(q)' <=> Owns(q)
                                  /\ Keeps(q)' <=> Keeps(q)
                                  /\ Over(q)' <=> Over(q)
                                  /\ handle'[q] = handle[q]
  BY <1>1 DEF Owns, Keeps, Over
<1>4. \A c \in calls' : Granted(c) => c \in calls
  BY DEF Rest, Granted, NoneApart
<1>5. \A c \in calls' : c.from \in Process => c \in calls
  BY DEF Rest, NoneApart
<1>6. \A c \in calls' : Ending(c) => \E d \in calls : Ending(d) /\ d.gen = c.gen
  BY DEF Rest, Ending
<1>7. handle'[p] = h /\ (Owns(p)' => h.state = "open") /\ (Keeps(p)' => h.closing = FALSE)
  BY <1>1, <1>3 DEF Owns, Keeps
<1>8. GensKnown'
  BY <1>3, <1>7 DEF LeaseInv, GensKnown, Rest
<1>9. ToldWhenOver'
  BY <1>3, <1>7 DEF LeaseInv, ToldWhenOver
<1>10. Alone'
  BY <1>3, <1>5, <1>7 DEF LeaseInv, Alone
<1>11. CallsFit'
  <2> SUFFICES ASSUME NEW c \in calls'
      PROVE
        /\ c.anchor = FALSE => anchor' = FALSE
        /\ c.from \in Process =>
              /\ c.op = "lease" => handle'[c.from].state = "attaching"
              /\ c.op = "terminate" => handle'[c.from].state \in {"retiring", "open"}
              /\ c.op = "heartbeat" => handle'[c.from].state = "open"
              /\ c.op = "heartbeat" /\ c.answer = None => c.gen = handle'[c.from].gen
              /\ c.op = "heartbeat" /\ IsGone(c.answer) => Over(c.from)'
    BY Zenon DEF CallsFit
  <2>1. c.anchor = FALSE => anchor' = FALSE
    BY DEF LeaseInv, CallsFit, Rest
  <2>2. CASE c.from \notin Process
    BY <2>1, <2>2
  <2>3. CASE c.from \in Process /\ c.from # p
    BY <1>3, <1>5, <2>1, <2>3 DEF LeaseInv, CallsFit
  <2>4. CASE c.from = p
    <3>1. c \in calls /\ c.op \in {"lease", "heartbeat", "terminate"}
      BY <1>5, <2>4 DEF LeaseInv, LeaseShapes, Call
    <3>2. h.state = "open" /\ handle[p].state \in {"starting", "open"} /\ h.gen = handle[p].gen
      BY <2>4
    <3>3. c.op # "lease" /\ handle[p].state = "open"
      BY <2>4, <3>1, <3>2 DEF LeaseInv, CallsFit
    <3>4. Over(p) => Over(p)'
      BY <1>7, <3>2 DEF Over
    <3> QED BY <1>7, <2>1, <2>4, <3>1, <3>2, <3>3, <3>4 DEF LeaseInv, CallsFit
  <2> QED BY <2>2, <2>3, <2>4
\* p's generation was its own or granted to it alone.
<1>12. ASSUME Owns(p)'
       PROVE  /\ \A q \in Process : q # p /\ Owns(q) => handle[q].gen # h.gen
              /\ \A c \in calls' : Granted(c) => c.gen # h.gen
              /\ \A d \in calls : Ending(d) /\ Keeps(p)' => h.gen # d.gen
              /\ status = "terminated" /\ anchor = TRUE /\ byAdmin = FALSE /\ Keeps(p)'
                   => h.gen # generation
  <2>1. CASE /\ h.state = "open" /\ handle[p].state \in {"starting", "open"}
             /\ h.gen = handle[p].gen /\ h.closing = handle[p].closing
    <3>1. Owns(p) /\ (Keeps(p)' => Keeps(p))
      BY <1>7, <2>1 DEF Owns, Keeps
    <3> QED BY <1>4, <2>1, <3>1 DEF LeaseInv, GensApart, EndedByHolder
  <2>2. ASSUME NEW c \in calls \ calls', Granted(c), c.gen = h.gen
        PROVE  /\ \A q \in Process : q # p /\ Owns(q) => handle[q].gen # h.gen
               /\ \A d \in calls' : Granted(d) => d.gen # h.gen
               /\ \A d \in calls : Ending(d) /\ Keeps(p)' => h.gen # d.gen
               /\ status = "terminated" /\ anchor = TRUE /\ byAdmin = FALSE /\ Keeps(p)'
                    => h.gen # generation
    <3>1. \A d \in calls : Ending(d) => d # c
      BY <2>2 DEF Ending, Granted
    <3> QED BY <1>4, <2>2, <3>1 DEF LeaseInv, GensApart, EndedByHolder
  <2>3. h.state # "none"
    BY <1>7, <1>12
  <2> QED BY <2>1, <2>2, <2>3
<1>13. GensApart'
  <2>1. \A q, r \in Process : Owns(q)' /\ Owns(r)' /\ handle'[q].gen = handle'[r].gen => q = r
    BY <1>3, <1>7, <1>12 DEF LeaseInv, GensApart
  <2>2. \A d \in calls', q \in Process : Granted(d) /\ Owns(q)' => handle'[q].gen # d.gen
    <3> SUFFICES ASSUME NEW d \in calls', NEW q \in Process, Granted(d), Owns(q)'
                 PROVE  handle'[q].gen # d.gen
      OBVIOUS
    <3>1. CASE q = p
      BY <1>7, <1>12, <3>1
    <3>2. CASE q # p
      BY <1>3, <1>4, <3>2 DEF LeaseInv, GensApart
    <3> QED BY <3>1, <3>2
  <2>3. \A c, d \in calls' : Granted(c) /\ Ending(d) => c.gen # d.gen
    <3> SUFFICES ASSUME NEW c \in calls', NEW d \in calls', Granted(c), Ending(d),
                        c.gen = d.gen
                 PROVE  FALSE
      OBVIOUS
    <3>1. PICK e \in calls : Ending(e) /\ e.gen = d.gen
      BY <1>6
    <3>2. c = e
      BY <1>4, <3>1 DEF LeaseInv, GensApart
    <3> QED BY <3>1, <3>2 DEF Ending, Granted
  <2>4. \A d, e \in calls' : Granted(d) /\ (Granted(e) \/ Ending(e)) /\ d.gen = e.gen => d = e
    BY <1>4, <2>3 DEF LeaseInv, GensApart
  <2>5. \A d \in calls', q \in Process : Ending(d) /\ Keeps(q)' => handle'[q].gen # d.gen
    <3> SUFFICES ASSUME NEW d \in calls', NEW q \in Process, Ending(d), Keeps(q)'
                 PROVE  handle'[q].gen # d.gen
      OBVIOUS
    <3>1. PICK e \in calls : Ending(e) /\ e.gen = d.gen
      BY <1>6
    <3>2. Owns(q)'
      BY DEF Owns, Keeps
    <3>3. CASE q = p
      BY <1>7, <1>12, <3>1, <3>2, <3>3
    <3>4. CASE q # p
      BY <1>3, <3>1, <3>4 DEF LeaseInv, GensApart
    <3> QED BY <3>3, <3>4
  <2> QED BY <2>1, <2>2, <2>4, <2>5 DEF GensApart, Granted, Ending
<1>14. EndedByHolder'
  <2>1. \A q : Keeps(q)' => Owns(q)'
    BY DEF Owns, Keeps
  <2> QED BY <1>3, <1>4, <1>7, <1>12, <2>1 DEF LeaseInv, EndedByHolder, Granted
<1> QED BY <1>2, <1>8, <1>9, <1>10, <1>11, <1>13, <1>14 DEF LeaseInv

LEMMA AbandonedRest ==
    ASSUME LeaseInv, NEW given \in SUBSET calls
    PROVE  /\ Abandoned(given) \subseteq Call
           /\ \A c \in Abandoned(given) : Rest(c) /\ c.from = None
<1> SUFFICES ASSUME NEW d \in given, d.answer = None, NEW c, c = [d EXCEPT !.from = None]
             PROVE  c \in Call /\ Rest(c) /\ c.from = None
  BY DEF Abandoned
<1>1. d \in calls /\ d \in Call
  BY DEF LeaseInv, LeaseShapes
<1> QED BY <1>1 DEF Call, Rest

\* The SDK takes an answer.
LEMMA DeliverKeeps ==
    ASSUME NoneApart, LeaseInv, NEW c \in calls, Deliver(c)
    PROVE  LeaseInv'
<1>1. /\ c \in Call /\ c.from \in Process /\ c.answer \in Answers
      /\ c.gen \in Nat /\ c.gen <= generation /\ generation \in Nat
  BY DEF LeaseInv, LeaseShapes, GensKnown, Deliver, Call
<1> PICK p \in Process : p = c.from
  BY <1>1
<1> PICK h : h = OnAnswer(handle[p], c)
  OBVIOUS
<1>2. /\ handle' = [handle EXCEPT ![p] = h] /\ calls' = calls \ {c}
      /\ UNCHANGED <<clock, status, generation, anchor, byAdmin>>
  BY DEF Deliver, row
<1>3. calls' \subseteq Call /\ \A d \in calls' : Rest(d)
  BY <1>2 DEF LeaseInv, LeaseShapes, Rest
<1>4. /\ handle \in [Process -> Held] /\ handle[p] \in Held /\ handle[p].gen <= generation
      /\ handle[p].lost \in Nat
  BY DEF LeaseInv, LeaseShapes, GensKnown, Held
<1>5. handle[p].state # "open" => \A d \in calls' : d.from # p
  BY <1>2 DEF LeaseInv, Alone
<1>6. ASSUME h = handle[p], h.state = "open" PROVE LeaseInv'
  <2>1. h.lost > 0 => Over(p)'
    BY <1>2, <1>4, <1>6 DEF LeaseInv, ToldWhenOver, Over
  <2> QED BY <1>2, <1>3, <1>4, <1>6, <2>1, TakeKeeps
<1>7. ASSUME h = NoHandle, handle[p].state # "open" PROVE LeaseInv'
  <2>1. h \in Held /\ h.state = "none" /\ h.gen <= generation /\ ~(h.lost > 0)
    BY <1>1, <1>7 DEF NoHandle, Held
  <2> QED BY <1>2, <1>3, <1>5, <1>7, <2>1, TakeKeeps
<1>8. CASE c.op = "heartbeat"
  <2>1. handle[p].state = "open" /\ h = OnHeartbeat(handle[p], c)
    BY <1>8 DEF OnAnswer, LeaseInv, CallsFit
  <2>2. /\ h \in Held /\ h.state = handle[p].state /\ h.gen = handle[p].gen
        /\ h.closing = handle[p].closing
        /\ IsGone(c.answer) \/ h.lost = handle[p].lost
    <3> PICK g \in Held : g = handle[p]
      BY <1>4
    <3>1. g.lost + 1 \in Nat
      BY DEF Held
    <3>2. CASE c.answer \in {"not_found", "not_live", "fenced", "subject_inactive"}
      <4>1. PICK n \in Nat : h = [g EXCEPT !.stopped = TRUE, !.lost = n]
        <5>1. CASE g.closing
          <6>1. h = [g EXCEPT !.stopped = TRUE, !.lost = g.lost]
            BY <2>1, <3>2, <5>1 DEF OnHeartbeat
          <6> QED BY <6>1 DEF Held
        <5>2. CASE ~g.closing
          <6>1. h = [g EXCEPT !.stopped = TRUE, !.lost = g.lost + 1]
            BY <2>1, <3>2, <5>2 DEF OnHeartbeat
          <6> QED BY <3>1, <6>1
        <5> QED BY <5>1, <5>2
      <4> QED BY <3>2, <4>1 DEF Held
    <3>3. CASE c.answer \notin {"not_found", "not_live", "fenced", "subject_inactive"}
      <4>1. PICK b \in BOOLEAN : h = [g EXCEPT !.stopped = b]
        <5>1. h = [g EXCEPT !.stopped = g.stopped \/ c.answer = "suspended"]
          BY <2>1, <3>3 DEF OnHeartbeat
        <5> QED BY <5>1
      <4> QED BY <4>1 DEF Held
    <3> QED BY <3>2, <3>3
  <2>3. h.lost > 0 => Over(p)
    BY <1>8, <2>2 DEF LeaseInv, CallsFit, ToldWhenOver
  <2>4. Over(p) => Over(p)'
    BY <1>2, <1>4, <2>2 DEF Over
  <2>5. h.gen <= generation /\ h.state = "open"
    BY <1>4, <2>1, <2>2
  <2> QED BY <1>2, <1>3, <2>1, <2>2, <2>3, <2>4, <2>5, TakeKeeps
<1>9. CASE c.op = "lease"
  <2>1. handle[p].state = "attaching"
    BY <1>9 DEF LeaseInv, CallsFit
  <2>2. CASE c.answer # "ok"
    <3>1. h = NoHandle
      BY <1>9, <2>2 DEF OnAnswer
    <3> QED BY <1>7, <2>1, <3>1
  <2>3. CASE c.answer = "ok"
    <3>1. h = [NoHandle EXCEPT !.state = "open", !.gen = c.gen]
      BY <1>9, <2>3 DEF OnAnswer
    <3>2. NoHandle \in Held /\ NoHandle.lost = 0
      BY DEF NoHandle, Held
    <3>3. h \in Held /\ h.state = "open" /\ h.gen = c.gen /\ h.lost = 0
      <4>1. c.gen \in Nat
        BY <1>1
      <4> QED BY <3>1, <3>2, <4>1 DEF Held
    <3>4. Granted(c) /\ c \in calls \ calls' /\ \A d \in calls' : d.from # p
      BY <1>2, <1>5, <1>9, <2>1, <2>3 DEF Granted
    <3>5. h.gen <= generation /\ ~(h.lost > 0)
      BY <1>1, <3>3
    <3> QED BY <1>2, <1>3, <3>3, <3>4, <3>5, TakeKeeps
  <2> QED BY <2>2, <2>3
<1>10. CASE c.op = "terminate"
  <2>1. handle[p].state \in {"retiring", "open"}
    BY <1>10 DEF LeaseInv, CallsFit
  <2>2. h = IF handle[p].state = "retiring" THEN NoHandle ELSE handle[p]
    BY <1>10 DEF OnAnswer
  <2> QED BY <1>6, <1>7, <2>1, <2>2
<1> QED BY <1>1, <1>8, <1>9, <1>10 DEF Call

\* A process gives up what it waits for: one call, or all of them with its
\* handle.
LEMMA GivenUp ==
    ASSUME NoneApart, LeaseInv, NEW p \in Process, NEW given \in SUBSET calls,
           calls' = (calls \ given) \cup Abandoned(given)
    PROVE  /\ calls' \subseteq Call /\ \A d \in calls' : Rest(d)
           /\ \A d \in calls' : d.from = p => d \in calls \ given
<1>1. /\ Abandoned(given) \subseteq Call
      /\ \A c \in Abandoned(given) : Rest(c) /\ c.from = None
  BY AbandonedRest
<1>2. calls \subseteq Call /\ \A d \in calls : Rest(d)
  BY DEF LeaseInv, LeaseShapes, Rest
<1> HIDE DEF Answers
<1> QED BY <1>1, <1>2 DEF NoneApart

LEMMA DroppedKeeps ==
    ASSUME NoneApart, LeaseInv, NEW p \in Process, NEW given \in SUBSET calls,
           UNCHANGED <<clock, status, generation, anchor, byAdmin>>,
           calls' = (calls \ given) \cup Abandoned(given),
           \/ handle' = [handle EXCEPT ![p] = NoHandle]
              /\ \A d \in calls \ given : d.from # p
           \/ handle' = handle /\ handle[p].state = "open"
    PROVE  LeaseInv'
<1>1. /\ calls' \subseteq Call /\ \A d \in calls' : Rest(d)
      /\ \A d \in calls' : d.from = p => d \in calls \ given
  BY GivenUp
<1>2. generation \in Nat /\ handle \in [Process -> Held]
  BY DEF LeaseInv, LeaseShapes
<1>3. CASE handle' = [handle EXCEPT ![p] = NoHandle] /\ \A d \in calls \ given : d.from # p
  <2> PICK h : h = NoHandle
    OBVIOUS
  <2>1. h \in Held /\ h.state = "none" /\ h.gen <= generation /\ ~(h.lost > 0)
    BY <1>2 DEF NoHandle, Held
  <2>2. \A d \in calls' : d.from # p
    BY <1>1, <1>3
  <2> QED BY <1>1, <1>3, <2>1, <2>2, TakeKeeps
<1>4. CASE handle' = handle /\ handle[p].state = "open"
  <2>1. handle' = [handle EXCEPT ![p] = handle[p]] /\ handle[p] \in Held
    BY <1>2, <1>4
  <2>2. handle[p].lost > 0 => Over(p)'
    BY <1>4 DEF LeaseInv, ToldWhenOver, Over
  <2>3. handle[p].gen <= generation
    BY DEF LeaseInv, GensKnown
  <2> QED BY <1>1, <1>4, <2>1, <2>2, <2>3, TakeKeeps
<1> QED BY <1>3, <1>4

LEMMA TimeOutKeeps ==
    ASSUME NoneApart, LeaseInv, NEW c \in calls, TimeOut(c)
    PROVE  LeaseInv'
<1>1. c \in Call /\ c.from \in Process
  BY DEF LeaseInv, LeaseShapes, TimeOut, Call
<1> PICK p \in Process : p = c.from
  BY <1>1
<1> PICK given \in SUBSET calls : given = {c}
  OBVIOUS
<1>2. /\ UNCHANGED <<clock, status, generation, anchor, byAdmin>>
      /\ calls' = (calls \ given) \cup Abandoned(given)
      /\ handle \in [Process -> Held]
  BY DEF TimeOut, row, LeaseInv, LeaseShapes
<1>3. handle' = [handle EXCEPT ![p] =
           IF c.op = "heartbeat" THEN handle[p]
           ELSE OnAnswer(handle[p], [c EXCEPT !.answer = None])]
  BY DEF TimeOut
<1>4. handle[p].state # "open" => \A d \in calls \ given : d.from # p
  BY DEF LeaseInv, Alone
<1>5. CASE c.op = "heartbeat"
  <2>1. handle' = handle /\ handle[p].state = "open"
    BY <1>2, <1>3, <1>5 DEF LeaseInv, CallsFit
  <2> QED BY <1>2, <2>1, DroppedKeeps
<1>6. CASE c.op # "heartbeat"
  <2> PICK d : d = [c EXCEPT !.answer = None]
    OBVIOUS
  <2>1. d.op = c.op /\ d.answer = None /\ None # "ok"
    BY <1>1 DEF Call, NoneApart
  <2>2. handle' = [handle EXCEPT ![p] = OnAnswer(handle[p], d)]
    BY <1>3, <1>6
  <2>3. CASE c.op = "lease"
    <3>1. OnAnswer(handle[p], d) = NoHandle
      BY <2>1, <2>3 DEF OnAnswer
    <3>2. handle[p].state = "attaching"
      BY <2>3 DEF LeaseInv, CallsFit
    <3>3. handle' = [handle EXCEPT ![p] = NoHandle] /\ \A e \in calls \ given : e.from # p
      BY <1>4, <2>2, <3>1, <3>2
    <3> QED BY <1>2, <3>3, DroppedKeeps
  <2>4. CASE c.op = "terminate"
    <3>1. handle[p].state \in {"retiring", "open"}
      BY <2>4 DEF LeaseInv, CallsFit
    <3>2. OnAnswer(handle[p], d) =
            IF handle[p].state = "retiring" THEN NoHandle ELSE handle[p]
      BY <2>1, <2>4 DEF OnAnswer
    <3>3. CASE handle[p].state = "retiring"
      <4>1. handle' = [handle EXCEPT ![p] = NoHandle] /\ \A e \in calls \ given : e.from # p
        BY <1>4, <2>2, <3>2, <3>3
      <4> QED BY <1>2, <4>1, DroppedKeeps
    <3>4. CASE handle[p].state = "open"
      <4>1. handle' = handle
        BY <1>2, <2>2, <3>2, <3>4
      <4> QED BY <1>2, <3>4, <4>1, DroppedKeeps
    <3> QED BY <3>1, <3>3, <3>4
  <2> QED BY <1>1, <1>6, <2>3, <2>4 DEF Call
<1> QED BY <1>5, <1>6

LEMMA CrashKeeps ==
    ASSUME NoneApart, LeaseInv, NEW p \in Process, Crash(p)
    PROVE  LeaseInv'
<1> PICK given \in SUBSET calls : given = Pending(p)
  BY DEF Pending
<1>1. /\ UNCHANGED <<clock, status, generation, anchor, byAdmin>>
      /\ calls' = (calls \ given) \cup Abandoned(given)
      /\ handle' = [handle EXCEPT ![p] = NoHandle]
  BY DEF Crash, row
<1>2. \A d \in calls \ given : d.from # p
  BY DEF Pending
<1> QED BY <1>1, <1>2, DroppedKeeps

LEMMA StartedKeeps ==
    ASSUME NoneApart, LeaseInv, NEW p \in Process, Started(p)
    PROVE  LeaseInv'
<1> PICK h : h = [handle[p] EXCEPT !.state = "open"]
  OBVIOUS
<1>1. /\ UNCHANGED <<clock, status, generation, anchor, byAdmin, calls>>
      /\ handle' = [handle EXCEPT ![p] = h] /\ handle[p].state = "starting"
  BY DEF Started, row
<1>2. handle \in [Process -> Held] /\ handle[p] \in Held
  BY DEF LeaseInv, LeaseShapes
<1>3. /\ h \in Held /\ h.state = "open" /\ h.gen = handle[p].gen
      /\ h.closing = handle[p].closing /\ h.lost = handle[p].lost
  BY <1>2 DEF Held
<1>4. h.lost > 0 => Over(p)'
  BY <1>1, <1>2, <1>3 DEF LeaseInv, ToldWhenOver, Over
<1>5. h.gen <= generation
  BY <1>3 DEF LeaseInv, GensKnown
<1>6. calls' \subseteq Call /\ \A d \in calls' : Rest(d)
  BY <1>1 DEF LeaseInv, LeaseShapes, Rest
<1> QED BY <1>1, <1>3, <1>4, <1>5, <1>6, TakeKeeps

-----------------------------------------------------------------------------
(* The coordinator serves a call: c gives way to at most one call, a, with  *)
(* the same caller.                                                         *)

LEMMA ServeKeeps ==
    ASSUME NoneApart, LeaseInv, NEW c \in calls, c.answer = None,
           NEW N \in SUBSET Call, calls' = (calls \ {c}) \cup N,
           \A a, b \in N : a = b,
           UNCHANGED <<clock, handle, anchor, byAdmin>>,
           status' \in {"active", "suspended", "terminated"},
           status = "terminated" => status' = "terminated",
           \/ generation' = generation
           \/ generation' = generation + 1 /\ status' = status /\ status # "terminated",
           status' = "terminated" =>
              \/ status = "terminated"
              \/ c.anchor = FALSE
              \/ Ending(c) /\ c.gen = generation /\ generation' = generation,
           \A a \in N :
              /\ a.op = c.op /\ a.from = c.from /\ a.gen <= generation'
              /\ a.anchor = FALSE => anchor = FALSE
              /\ Granted(a) => generation' = generation + 1 /\ a.gen = generation'
              /\ a.answer = None => a.gen = c.gen
              /\ a.op = "heartbeat" /\ IsGone(a.answer) /\ a.from \in Process =>
                    handle[a.from].gen # generation \/ status' = "terminated"
    PROVE  LeaseInv'
<1>1. generation \in Nat /\ generation' \in Nat /\ generation <= generation'
  BY DEF LeaseInv, LeaseShapes
<1>2. LeaseShapes'
  BY <1>1 DEF LeaseInv, LeaseShapes
<1>3. \A p \in Process : handle[p].gen \in Nat /\ handle[p].gen <= generation
  BY DEF LeaseInv, LeaseShapes, Held, GensKnown
<1>4. \A d \in calls : d.gen \in Nat /\ d.gen <= generation
  BY DEF LeaseInv, LeaseShapes, Call, GensKnown
<1>5. \A p \in Process : Over(p) => Over(p)'
  BY <1>1, <1>3 DEF Over
<1>6. \A p : (Owns(p)' <=> Owns(p)) /\ (Keeps(p)' <=> Keeps(p))
  BY DEF Owns, Keeps
<1>7. GensKnown'
  BY <1>1, <1>3, <1>4 DEF GensKnown
<1>8. ToldWhenOver'
  BY <1>5 DEF LeaseInv, ToldWhenOver
<1>9. Alone'
  BY DEF LeaseInv, Alone
<1>10. CallsFit'
  <2> SUFFICES ASSUME NEW d \in calls'
      PROVE
        /\ d.anchor = FALSE => anchor' = FALSE
        /\ d.from \in Process =>
              /\ d.op = "lease" => handle'[d.from].state = "attaching"
              /\ d.op = "terminate" => handle'[d.from].state \in {"retiring", "open"}
              /\ d.op = "heartbeat" => handle'[d.from].state = "open"
              /\ d.op = "heartbeat" /\ d.answer = None => d.gen = handle'[d.from].gen
              /\ d.op = "heartbeat" /\ IsGone(d.answer) => Over(d.from)'
    BY Zenon DEF CallsFit
  <2>1. CASE d \in calls
    BY <1>5, <2>1 DEF LeaseInv, CallsFit
  <2>2. CASE d \in N
    <3>1. d.from \in Process /\ d.op = "heartbeat" /\ IsGone(d.answer) => Over(d.from)'
      BY <1>1, <1>3, <2>2 DEF Over
    <3> QED BY <2>2, <3>1 DEF LeaseInv, CallsFit
  <2> QED BY <2>1, <2>2
<1>11. \A a \in N : Ending(a) => Ending(c) /\ a.gen = c.gen
  BY DEF Ending
<1>12. \A d \in calls' : Granted(d) => d \in calls \/ (d.gen = generation + 1 /\ d \in N)
  BY DEF Granted
<1>13. \A d \in calls' : Ending(d) => \E e \in calls : Ending(e) /\ e.gen = d.gen
  BY <1>11
<1>14. GensApart'
  <2>1. \A p, q \in Process : Owns(p)' /\ Owns(q)' /\ handle'[p].gen = handle'[q].gen => p = q
    BY <1>6 DEF LeaseInv, GensApart
  <2>2. \A d \in calls', q \in Process : Granted(d) /\ Owns(q)' => handle'[q].gen # d.gen
    <3> SUFFICES ASSUME NEW d \in calls', NEW q \in Process, Granted(d), Owns(q)
                 PROVE  handle[q].gen # d.gen
      BY <1>6
    <3>1. CASE d \in calls
      BY <3>1 DEF LeaseInv, GensApart
    <3>2. CASE d.gen = generation + 1
      BY <1>1, <1>3, <3>2
    <3> QED BY <1>12, <3>1, <3>2
  <2>3. \A d, e \in calls' : Granted(d) /\ Ending(e) => d.gen # e.gen
    <3> SUFFICES ASSUME NEW d \in calls', NEW e \in calls', Granted(d), Ending(e)
                 PROVE  d.gen # e.gen
      OBVIOUS
    <3>1. PICK f \in calls : Ending(f) /\ f.gen = e.gen
      BY <1>13
    <3>2. CASE d \in calls
      <4>1. d # f
        BY <3>1 DEF Granted, Ending
      <4> QED BY <3>1, <3>2, <4>1 DEF LeaseInv, GensApart
    <3>3. CASE d.gen = generation + 1
      BY <1>1, <1>4, <3>1, <3>3
    <3> QED BY <1>12, <3>2, <3>3
  <2>4. \A d, e \in calls' : Granted(d) /\ Granted(e) /\ d.gen = e.gen => d = e
    <3> SUFFICES ASSUME NEW d \in calls', NEW e \in calls', Granted(d), Granted(e),
                        d.gen = e.gen
                 PROVE  d = e
      OBVIOUS
    <3>1. CASE d \in calls /\ e \in calls
      BY <3>1 DEF LeaseInv, GensApart
    <3>2. CASE d \in N /\ e \in N
      BY <3>2
    <3>3. (d \in calls => d.gen <= generation) /\ (e \in calls => e.gen <= generation)
      BY <1>4
    <3> QED BY <1>1, <1>12, <3>1, <3>2, <3>3
  <2>5. \A d \in calls', q \in Process : Ending(d) /\ Keeps(q)' => handle'[q].gen # d.gen
    BY <1>6, <1>13 DEF LeaseInv, GensApart
  <2> QED BY <2>1, <2>2, <2>3, <2>4, <2>5 DEF GensApart, Granted, Ending
<1>15. EndedByHolder'
  <2> SUFFICES ASSUME status' = "terminated", anchor = TRUE, byAdmin = FALSE
               PROVE  /\ \A p \in Process : Keeps(p) => handle[p].gen # generation'
                      /\ \A d \in calls' : Granted(d) => d.gen # generation'
    BY <1>6 DEF EndedByHolder, Granted
  <2>1. generation' = generation
    OBVIOUS
  <2>2. \A d \in calls' : Granted(d) => d \in calls
    BY <1>1, <1>12, <2>1
  <2>3. CASE status = "terminated"
    BY <2>1, <2>2, <2>3 DEF LeaseInv, EndedByHolder
  <2>4. CASE Ending(c) /\ c.gen = generation
    <3>1. \A d \in calls : Granted(d) => d # c
      BY <2>4 DEF Ending, Granted
    <3> QED BY <2>1, <2>2, <2>4, <3>1 DEF LeaseInv, GensApart
  <2>5. c.anchor # FALSE
    BY DEF LeaseInv, CallsFit
  <2> QED BY <2>3, <2>4, <2>5
<1> QED BY <1>2, <1>7, <1>8, <1>9, <1>10, <1>14, <1>15 DEF LeaseInv

LEMMA BeginKeeps ==
    ASSUME NoneApart, LeaseInv, NEW c \in calls, Begin(c)
    PROVE  LeaseInv'
<1> PICK a : a = [c EXCEPT !.at = clock, !.anchor = anchor]
  OBVIOUS
<1>1. /\ UNCHANGED <<clock, status, generation, anchor, byAdmin, handle>>
      /\ calls' = (calls \ {c}) \cup {a} /\ c.answer = None
  BY DEF Begin, row
<1>2. c \in Call /\ clock \in Nat /\ anchor \in BOOLEAN
  BY DEF LeaseInv, LeaseShapes
<1>3. /\ a \in Call /\ a.op = c.op /\ a.from = c.from /\ a.gen = c.gen
      /\ a.anchor = anchor /\ a.answer = c.answer
  BY <1>2 DEF Call
<1>4. c.gen <= generation /\ status \in {"active", "suspended", "terminated"}
  BY DEF LeaseInv, GensKnown, LeaseShapes
<1>5. ~Granted(a) /\ ~IsGone(a.answer)
  BY <1>1, <1>3 DEF NoneApart, Granted
<1> PICK N \in SUBSET Call : N = {a}
  BY <1>3
<1>6. \A b \in N : /\ b.op = c.op /\ b.from = c.from /\ b.gen <= generation'
                   /\ b.anchor = FALSE => anchor = FALSE
                   /\ ~Granted(b) /\ ~IsGone(b.answer) /\ b.gen = c.gen
  BY <1>1, <1>3, <1>4, <1>5
<1>7. (\A b, d \in N : b = d) /\ calls' = (calls \ {c}) \cup N
  BY <1>1
<1>8. \A b \in N :
        /\ b.op = c.op /\ b.from = c.from /\ b.gen <= generation'
        /\ b.anchor = FALSE => anchor = FALSE
        /\ Granted(b) => generation' = generation + 1 /\ b.gen = generation'
        /\ b.answer = None => b.gen = c.gen
        /\ b.op = "heartbeat" /\ IsGone(b.answer) /\ b.from \in Process =>
              handle[b.from].gen # generation \/ status' = "terminated"
  BY <1>6
<1>9. /\ status' \in {"active", "suspended", "terminated"} /\ status' = status
      /\ generation' = generation /\ UNCHANGED <<clock, handle, anchor, byAdmin>>
      /\ c.answer = None
  BY <1>1, <1>4
<1> QED BY <1>7, <1>8, <1>9, ServeKeeps

\* A call is answered, if its caller still waits, and the row moves on.
LEMMA AnswerKeeps ==
    ASSUME NoneApart, LeaseInv, NEW c \in calls, c.answer = None,
           NEW answer \in Answers, NEW gen \in Nat, Answer(c, answer, gen),
           UNCHANGED <<clock, handle, anchor, byAdmin>>,
           gen <= generation',
           \/ generation' = generation
           \/ generation' = generation + 1 /\ status' = status /\ status # "terminated",
           status' \in {"active", "suspended", "terminated"},
           status = "terminated" => status' = "terminated",
           status' = "terminated" =>
              \/ status = "terminated"
              \/ c.anchor = FALSE
              \/ Ending(c) /\ c.gen = generation /\ generation' = generation,
           c.op = "lease" /\ answer = "ok" => generation' = generation + 1 /\ gen = generation',
           c.op = "heartbeat" /\ IsGone(answer) =>
              c.gen # generation \/ status' = "terminated"
    PROVE  LeaseInv'
<1>a. PICK b : b = [op |-> c.op, from |-> c.from, gen |-> gen, at |-> None,
                  anchor |-> TRUE, answer |-> answer]
  OBVIOUS
<1>b. PICK N : N = IF c.from = None THEN {} ELSE {b}
  OBVIOUS
<1>1. c \in Call /\ (c.op = "heartbeat" /\ c.from \in Process => c.gen = handle[c.from].gen)
  BY DEF LeaseInv, LeaseShapes, CallsFit
<1>2. /\ b \in Call /\ b.op = c.op /\ b.from = c.from /\ b.gen = gen
      /\ ~(b.anchor = FALSE) /\ b.answer = answer /\ b.answer # None
  BY <1>a, <1>1 DEF Call, NoneApart
<1>3. calls' = (calls \ {c}) \cup N
  BY <1>a, <1>b DEF Answer
<1>4. /\ N \in SUBSET Call
      /\ \A a, d \in N : a = d
      /\ \A a \in N : a = b
  BY <1>b, <1>2
<1>5. \A a \in N :
        /\ a.op = c.op /\ a.from = c.from /\ a.gen <= generation'
        /\ a.anchor = FALSE => anchor = FALSE
        /\ Granted(a) => generation' = generation + 1 /\ a.gen = generation'
        /\ a.answer = None => a.gen = c.gen
        /\ a.op = "heartbeat" /\ IsGone(a.answer) /\ a.from \in Process =>
              handle[a.from].gen # generation \/ status' = "terminated"
  BY <1>1, <1>2, <1>4 DEF Granted
<1>6. N \in SUBSET Call /\ \A a, d \in N : a = d
  BY <1>4
<1> QED BY <1>3, <1>5, <1>6, ServeKeeps

LEMMA ServedKeeps ==
    ASSUME NoneApart, LeaseInv, NEW c \in calls, Serve(c)
    PROVE  LeaseInv'
<1>1. /\ c.answer = None /\ UNCHANGED <<clock, anchor, byAdmin, handle>>
      /\ \/ c.op = "lease" /\ ServeLease(c)
         \/ c.op = "heartbeat" /\ ServeHeartbeat(c)
         \/ c.op = "terminate" /\ ServeTerminate(c)
  BY DEF Serve
<1>2. /\ status \in {"active", "suspended", "terminated"} /\ generation \in Nat
      /\ c.anchor \in BOOLEAN /\ 0 <= generation
  BY DEF LeaseInv, LeaseShapes, Call
<1>a. ~c.anchor => c.anchor = FALSE
  BY <1>2, Zenon
<1>3. ASSUME NEW answer \in Answers, Refuse(c, answer),
             c.op = "lease" => answer # "ok",
             c.op = "heartbeat" /\ IsGone(answer) =>
                 c.gen # generation \/ status = "terminated"
      PROVE  LeaseInv'
  <2>1. Answer(c, answer, 0) /\ UNCHANGED <<status, generation>>
    BY <1>3 DEF Refuse, row
  <2> QED BY <1>1, <1>2, <1>3, <2>1, AnswerKeeps
<1>4. ASSUME NEW answer \in Answers, NEW to \in {"suspended", "terminated"},
             SetStatus(c, to, answer), status # "terminated",
             to = "terminated" =>
                 c.anchor = FALSE \/ (Ending(c) /\ c.gen = generation),
             to = "suspended" => answer = "lease_expired",
             c.op = "lease" => answer # "ok"
      PROVE  LeaseInv'
  <2>1. Answer(c, answer, 0) /\ status' = to /\ generation' = generation
    BY <1>4 DEF SetStatus
  <2> QED BY <1>1, <1>2, <1>4, <2>1, AnswerKeeps
<1>5. CASE c.op = "lease" /\ ServeLease(c)
  <2>1. CASE Refuse(c, "not_live")
    BY <1>3, <1>5, <2>1
  <2>2. CASE /\ c.anchor = FALSE /\ status = "active"
             /\ SetStatus(c, "terminated", "subject_inactive")
    BY <1>4, <1>5, <2>2
  <2>3. CASE status = "active" /\ SetStatus(c, "suspended", "lease_expired")
    BY <1>4, <1>5, <2>3
  <2>4. CASE /\ status = "active" /\ generation' = generation + 1 /\ status' = status
             /\ Answer(c, "ok", generation + 1)
    <3>1. generation + 1 \in Nat
      BY <1>2
    <3>2. "ok" \in Answers /\ generation + 1 <= generation'
      BY <1>2, <2>4
    <3> QED BY <1>1, <1>2, <1>5, <2>4, <3>1, <3>2, AnswerKeeps
  <2> QED BY <1>a, <1>5, <2>1, <2>2, <2>3, <2>4 DEF ServeLease
<1>6. CASE c.op = "heartbeat" /\ ServeHeartbeat(c)
  <2>1. CASE status = "terminated" /\ Refuse(c, "not_live")
    BY <1>3, <1>6, <2>1
  <2>2. CASE /\ c.anchor = FALSE /\ status # "terminated"
             /\ SetStatus(c, "terminated", "subject_inactive")
    BY <1>4, <1>6, <2>2
  <2>3. CASE c.gen # generation /\ Refuse(c, "fenced")
    BY <1>3, <1>6, <2>3
  <2>4. CASE status = "active" /\ SetStatus(c, "suspended", "lease_expired")
    BY <1>4, <1>6, <2>4
  <2>5. CASE \E answer \in {"suspended", "ok"} :
               Answer(c, answer, generation) /\ UNCHANGED <<status, generation>>
    <3> PICK answer \in {"suspended", "ok"} :
          Answer(c, answer, generation) /\ UNCHANGED <<status, generation>>
      BY <2>5
    <3>1. answer \in Answers /\ ~IsGone(answer) /\ generation <= generation
      BY <1>2
    <3> QED BY <1>1, <1>2, <1>6, <3>1, AnswerKeeps
  <2> QED BY <1>a, <1>6, <2>1, <2>2, <2>3, <2>4, <2>5 DEF ServeHeartbeat
<1>7. CASE c.op = "terminate" /\ ServeTerminate(c)
  <2>1. CASE \E answer \in {"fenced", "not_found"} : Refuse(c, answer)
    BY <1>3, <1>7, <2>1
  <2>2. CASE c.gen = generation /\ status # "terminated" /\ SetStatus(c, "terminated", "ok")
    BY <1>1, <1>4, <1>7, <2>2 DEF Ending
  <2> QED BY <1>7, <2>1, <2>2 DEF ServeTerminate
<1> QED BY <1>1, <1>5, <1>6, <1>7

LEMMA NextLease == NoneApart /\ LeaseInv /\ [LeaseNext]_leaseVars => LeaseInv'
<1> SUFFICES ASSUME NoneApart, LeaseInv, [LeaseNext]_leaseVars PROVE LeaseInv'
  OBVIOUS
<1>1. ASSUME NEW p \in Process,
             \/ Started(p) \/ StartHookFails(p) \/ AttachSession(p)
             \/ Beat(p) \/ Close(p) \/ Crash(p)
      PROVE  LeaseInv'
  BY <1>1, StartedKeeps, SdkSends, CrashKeeps
<1>2. ASSUME NEW c \in calls, Begin(c) \/ Serve(c) \/ Deliver(c) \/ TimeOut(c)
      PROVE  LeaseInv'
  BY <1>2, BeginKeeps, ServedKeeps, DeliverKeeps, TimeOutKeeps
<1>3. CASE \/ AdminTerminate \/ Suspend \/ Resume \/ AnchorEnds
           \/ SweepSelect \/ SweepSuspend \/ ClockTicks
  BY <1>3, JobKeeps
<1>4. CASE UNCHANGED leaseVars
  <2>1. UNCHANGED <<clock, status, generation, anchor, byAdmin, handle, calls>>
    BY <1>4 DEF leaseVars
  <2>2. /\ clock \in Nat /\ status \in {"active", "suspended", "terminated"}
        /\ anchor \in BOOLEAN /\ byAdmin \in BOOLEAN
    BY DEF LeaseInv, LeaseShapes
  <2> QED BY <2>1, <2>2, RowKeeps
<1> QED BY <1>1, <1>2, <1>3, <1>4 DEF LeaseNext

LEMMA LeaseAlways == LeaseSpec => []LeaseInv
<1>1. NoneApart
  BY LeaseAssumption DEF NoneApart
<1>2. LeaseInit => LeaseInv
  BY <1>1, InitLease
<1>3. LeaseInv /\ [LeaseNext]_leaseVars => LeaseInv'
  BY <1>1, NextLease
<1> QED BY <1>2, <1>3, PTL DEF LeaseSpec

\* For any number of processes, takeovers, lost calls and late terminate calls:
\* only an administrator or the end of the user's record ends a session whose
\* current holder has not closed it.
THEOREM SuccessorTheorem == LeaseSpec => []SuccessorSurvives
<1>1. LeaseInv => SuccessorSurvives
  <2> SUFFICES ASSUME LeaseInv, NEW p \in Process, Holds(p), handle[p].gen = generation,
                      ~handle[p].closing, anchor, ~byAdmin, status = "terminated"
               PROVE  FALSE
    BY Zenon DEF SuccessorSurvives
  <2>1. handle[p].closing \in BOOLEAN /\ anchor \in BOOLEAN /\ byAdmin \in BOOLEAN
    BY DEF LeaseInv, LeaseShapes, Held
  <2>2. handle[p].closing = FALSE /\ anchor = TRUE /\ byAdmin = FALSE
    BY <2>1, Zenon
  <2>3. Keeps(p)
    BY <2>2 DEF Keeps, Holds
  <2> QED BY <2>2, <2>3 DEF LeaseInv, EndedByHolder
<1> QED BY <1>1, LeaseAlways, PTL

\* A holder that was told its lease is lost has lost it for good.
THEOREM LostTheorem == LeaseSpec => []LostMeansLost
<1>1. LeaseInv => LostMeansLost
  BY DEF LeaseInv, ToldWhenOver, Over, LostMeansLost
<1> QED BY <1>1, LeaseAlways, PTL
=============================================================================
