------------------------------ MODULE Delivery ------------------------------
(***************************************************************************)
(* What the outbox, the stream and the consumer group promise together: a  *)
(* revocation that was committed is owed until it has been applied or has  *)
(* been set aside for an operator, and it is applied only if it was        *)
(* committed.  It may be applied more than once, and in any order.         *)
(***************************************************************************)
CONSTANT Items

VARIABLES
    sent,     \* committed together with the change they announce
    owed,     \* somewhere between the outbox and the consumer's transaction
    applied,  \* the consumer's transaction committed
    parked    \* in the outbox as dead, or on the dead-letter stream

deliveryVars == <<sent, owed, applied, parked>>

Init == sent = {} /\ owed = {} /\ applied = {} /\ parked = {}

Same(i, S, T) == i \in S <=> i \in T

Send(i) ==
    /\ i \notin sent /\ i \in sent'
    /\ i \in owed'
    /\ Same(i, applied, applied') /\ Same(i, parked, parked')

\* Applied; still owed if another copy is on its way.
Apply(i) ==
    /\ i \in owed /\ i \in applied'
    /\ Same(i, sent, sent') /\ Same(i, parked, parked')

\* Once applied, or parked, nobody need think of it again.
Settle(i) ==
    /\ i \in owed /\ i \in applied \cup parked /\ i \notin owed'
    /\ Same(i, sent, sent') /\ Same(i, applied, applied')
    /\ Same(i, parked, parked')

Park(i) ==
    /\ i \in owed /\ i \in parked'
    /\ Same(i, sent, sent') /\ Same(i, applied, applied')

\* An operator requeues what the publisher gave up.
Requeue(i) ==
    /\ i \in parked /\ i \in owed'
    /\ Same(i, sent, sent') /\ Same(i, applied, applied')

Idle(i) ==
    /\ Same(i, sent, sent') /\ Same(i, owed, owed')
    /\ Same(i, applied, applied') /\ Same(i, parked, parked')

\* Several items may move in one step.
Next ==
    /\ \A i \in Items :
          Send(i) \/ Apply(i) \/ Settle(i) \/ Park(i) \/ Requeue(i) \/ Idle(i)
    /\ {sent', owed', applied', parked'} \subseteq SUBSET Items

Spec == Init /\ [][Next]_deliveryVars
=============================================================================
