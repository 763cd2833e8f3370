-------------------------- MODULE ProviderRefresh --------------------------
(***************************************************************************)
(* The refresh of a provider connection by the token service: requests of  *)
(* several processes find the stored upstream token about to lapse, one of *)
(* them takes the row's lease in Redis, spends the refresh token at the    *)
(* provider and stores what it gets back under a version check.  Lease and *)
(* result belong to the row the request found; the refresh reads the       *)
(* subject's row again.  Administrators reconnect and revoke the same      *)
(* connection, callers hang up, processes die, and leases lapse.           *)
(*                                                                         *)
(* One subject and one provider; a handler is a flight that singleflight   *)
(* lets through, one per process and row, whose waiters share its answer.  *)
(* Instants are reduced to whether a token is fresh, and the count of the  *)
(* provider's failures to whether its circuit is open; misconfigured       *)
(* providers and failing key stores end a refresh as a failed call does.   *)
(***************************************************************************)
EXTENDS Naturals, FiniteSets

CONSTANTS
    Handler,        \* flights of coordinatedGrantRefresh
    None,
    CallAttempts,   \* providerRefreshAttempts
    WriteAttempts,  \* grantPersistAttempts
    MaxRows,        \* bound: connection rows
    MaxConsents,    \* bound: times the subject connects
    MaxTurns,       \* bound: rotations of one consent's refresh token
    MaxVersion      \* bound: a row's version from which its token lapses no more

ASSUME RefreshAssumption ==
    /\ {CallAttempts, WriteAttempts} \subseteq Nat \ {0}
    /\ {MaxRows, MaxConsents, MaxTurns, MaxVersion} \subseteq Nat
    /\ {MaxRows, MaxConsents} \cap {0} = {}
    /\ None \notin Handler

VARIABLES
    row,       \* provider_connections
    consents,  \* how often the subject has connected
    turn,      \* the provider's side: the refresh token each consent has left
    lock,      \* each row's <key>:lock, the holder's name
    result,    \* each row has a <key>:result, good or bad
    circuit,   \* provider-refresh-circuit
    req,       \* the handlers
    lost       \* consents with an answer lost, or got without the row's lease

stored == <<row, consents, turn>>
redis == <<lock, result, circuit>>
vars == <<stored, redis, req, lost>>

Rows == 1..MaxRows
Consents == 1..MaxConsents

\* A refresh token is known by its consent and by how often it was rotated.
Token == Consents \X (0..MaxTurns)

Row == [status  : {"none", "active", "expired", "revoked"},
        token   : Token,
        renews  : BOOLEAN,    \* refresh_token_ct IS NOT NULL
        fresh   : {"fresh", "due", "over", "forever"},
        version : Nat]

Flight == [at      : {"idle", "doom", "look", "read", "mark", "call", "persist",
                      "conflict", "publish", "release"},
           key     : Rows,    \* refreshConnectionKey: the row it began for
           row     : Rows,    \* the row it refreshes
           token   : Token,
           version : Nat,
           tries   : 0..(CallAttempts + WriteAttempts),
           slipped : BOOLEAN]    \* the lease was lost on the way

TypeOK ==
    /\ row \in [Rows -> Row]
    /\ consents \in 0..MaxConsents
    /\ turn \in [Consents -> 0..MaxTurns]
    /\ lock \in [Rows -> Handler \cup {None}]
    /\ result \in [Rows -> BOOLEAN]
    /\ circuit \in BOOLEAN
    /\ req \in [Handler -> Flight]
    /\ lost \subseteq Consents

Idle == [at |-> "idle", key |-> 1, row |-> 1, token |-> <<1, 0>>, version |-> 0,
         tries |-> 0, slipped |-> FALSE]

Init ==
    /\ row = [r \in Rows |->
                [status |-> "none", token |-> <<1, 0>>, renews |-> FALSE,
                 fresh |-> "over", version |-> 0]]
    /\ consents = 0
    /\ turn = [c \in Consents |-> 0]
    /\ lock = [r \in Rows |-> None]
    /\ result = [r \in Rows |-> FALSE]
    /\ circuit = FALSE
    /\ req = [h \in Handler |-> Idle]
    /\ lost = {}

----------------------------------------------------------------------------
(* The connection's row.                                                   *)

\* GetProviderConnection: the one row with status 'active', if any.
Active == {r \in Rows : row[r].status = "active"}

\* POST /provider-connections and the OAuth callback: the active row is
\* overwritten, and there is a new one if none is active.
Connect(r, renews, fresh) ==
    /\ consents < MaxConsents
    /\ \/ r \in Active
       \/ /\ Active = {}
          /\ row[r].status = "none"
          /\ \A q \in Rows : q < r => row[q].status # "none"
    /\ consents' = consents + 1
    /\ row' = [row EXCEPT ![r] =
                 [status |-> "active", token |-> <<consents + 1, 0>>,
                  renews |-> renews, fresh |-> fresh,
                  version |-> IF r \in Active THEN row[r].version + 1 ELSE 0]]
    /\ UNCHANGED <<turn, redis, req, lost>>

\* A row that is not active is read no more: of its columns only the version
\* still matters, to a refresh that is on its way back to it.
Ended(r, status) ==
    [row[r] EXCEPT !.status = status, !.renews = FALSE, !.fresh = "over"]

\* POST /provider-connections/revoke, and the end of the subject.
Revoke(r) ==
    /\ r \in Active
    /\ row' = [row EXCEPT ![r] = Ended(r, "revoked")]
    /\ UNCHANGED <<consents, turn, redis, req, lost>>

\* The stored token comes within the skew of its expiry, and expires.  It
\* outlives the writes of a refresh that found it fresh.
Lapse(r) ==
    /\ r \in Active
    /\ row[r].version < MaxVersion
    /\ \/ /\ row[r].fresh = "fresh"
          /\ row' = [row EXCEPT ![r].fresh = "due"]
       \/ /\ row[r].fresh = "due"
          /\ \A h \in Handler : req[h].at \notin {"persist", "conflict"}
          /\ row' = [row EXCEPT ![r].fresh = "over"]
    /\ UNCHANGED <<consents, turn, redis, req, lost>>

----------------------------------------------------------------------------
(* A refresh.                                                              *)

Renewable(r) == row[r].renews /\ row[r].fresh \in {"due", "over"}
Dead(r) == ~row[r].renews /\ row[r].fresh = "over"

\* tryRefreshProviderConnection finds a token to renew, or one that is over.
Begin(h, r) ==
    /\ req[h].at = "idle"
    /\ r \in Active
    /\ \/ /\ Renewable(r)
          /\ req' = [req EXCEPT ![h] = [Idle EXCEPT !.at = "look", !.key = r]]
       \/ /\ Dead(r)
          /\ req' = [req EXCEPT ![h] = [Idle EXCEPT !.at = "doom", !.row = r]]
    /\ UNCHANGED <<stored, redis, lost>>

\* A peer's result answers the request.
Share(h) ==
    /\ req[h].at = "look"
    /\ result[req[h].key]
    /\ req' = [req EXCEPT ![h] = Idle]
    /\ UNCHANGED <<stored, redis, lost>>

\* Mutant: SET without NX.
AcquireAlways(h) ==
    /\ req[h].at = "look"
    /\ ~result[req[h].key]
    /\ lock' = [lock EXCEPT ![req[h].key] = h]
    /\ req' = [req EXCEPT ![h].at = "read"]
    /\ UNCHANGED <<stored, result, circuit, lost>>

\* SetNXTTL; a handler that finds the lease taken waits and looks again.
Acquire(h) ==
    /\ req[h].at = "look"
    /\ ~result[req[h].key]
    /\ lock[req[h].key] = None
    /\ lock' = [lock EXCEPT ![req[h].key] = h]
    /\ req' = [req EXCEPT ![h].at = "read"]
    /\ UNCHANGED <<stored, result, circuit, lost>>

\* The flight is over but for its result and its lease.
Over(h, at) ==
    [Idle EXCEPT !.at = at, !.key = req[h].key, !.slipped = req[h].slipped]

Finish(h) == req' = [req EXCEPT ![h] = Over(h, "publish")]

\* refreshExpiredProviderConnection reads the subject's row again: a peer may
\* have refreshed it, another may be active, or none, or the circuit open.
Reread(h) ==
    /\ req[h].at = "read"
    /\ \/ /\ \A r \in Active : ~Dead(r) /\ (Renewable(r) => circuit)
          /\ Finish(h)
       \/ \E r \in Active :
             /\ Renewable(r) /\ ~circuit
             /\ req' = [req EXCEPT ![h].at = "call", ![h].row = r,
                                   ![h].token = row[r].token,
                                   ![h].version = row[r].version]
       \/ \E r \in Active :
             /\ Dead(r)
             /\ req' = [req EXCEPT ![h].at = "mark", ![h].row = r]
    /\ UNCHANGED <<stored, redis, lost>>

\* MarkProviderConnectionExpired: WHERE id = $1 AND status = 'active'
MarkExpired(h) ==
    /\ req[h].at \in {"doom", "mark"}
    /\ row' = IF req[h].row \in Active
              THEN [row EXCEPT ![req[h].row] = Ended(req[h].row, "expired")]
              ELSE row
    /\ \/ req[h].at = "doom" /\ req' = [req EXCEPT ![h] = Idle]
       \/ req[h].at = "mark" /\ Finish(h)
    /\ UNCHANGED <<consents, turn, redis, lost>>

\* The provider takes a refresh token once; it may or may not rotate it.
Accepts(t) == turn[t[1]] = t[2]

Answers(t) == {t} \cup {u \in Token : u[1] = t[1] /\ u[2] = t[2] + 1}

\* It does not hold the lease of the row it refreshes.
Bare(h) == req[h].slipped \/ req[h].key # req[h].row

\* refreshProviderToken, answered with 200; clearProviderFailures.
Call(h, u) ==
    /\ req[h].at = "call"
    /\ Accepts(req[h].token) /\ u \in Answers(req[h].token)
    /\ turn' = [turn EXCEPT ![u[1]] = u[2]]
    /\ req' = [req EXCEPT ![h].at = "persist", ![h].token = u, ![h].tries = 0]
    /\ circuit' = FALSE
    /\ lost' = IF Bare(h) THEN lost \cup {u[1]} ELSE lost
    /\ UNCHANGED <<row, consents, lock, result>>

\* Another attempt, or recordProviderFailure and the end: a failure may be the
\* one that opens the circuit.
CallFailed(h) ==
    IF req[h].tries + 1 < CallAttempts
    THEN /\ req' = [req EXCEPT ![h].tries = @ + 1]
         /\ UNCHANGED circuit
    ELSE /\ Finish(h)
         /\ circuit' \in {circuit, TRUE}

\* The provider refuses the token, or cannot be reached.
Refused(h) ==
    /\ req[h].at = "call"
    /\ CallFailed(h)
    /\ UNCHANGED <<stored, lock, result, lost>>

\* The answer does not arrive.
AnswerLost(h, u) ==
    /\ req[h].at = "call"
    /\ Accepts(req[h].token) /\ u \in Answers(req[h].token)
    /\ lost' = lost \cup {u[1]}
    /\ turn' = [turn EXCEPT ![u[1]] = u[2]]
    /\ CallFailed(h)
    /\ UNCHANGED <<row, consents, lock, result>>

\* A 200 that holds no token to be used, or that cannot be sealed.
Unusable(h, u) ==
    /\ req[h].at = "call"
    /\ Accepts(req[h].token) /\ u \in Answers(req[h].token)
    /\ lost' = lost \cup {u[1]}
    /\ turn' = [turn EXCEPT ![u[1]] = u[2]]
    /\ Finish(h)
    /\ circuit' = FALSE
    /\ UNCHANGED <<row, consents, lock, result>>

\* UpdateProviderConnectionTokens: WHERE id = $1 AND refresh_token_version = $2
Matches(h) == row[req[h].row].version = req[h].version

Stored(r, token) ==
    IF r \in Active
    THEN [row[r] EXCEPT !.token = token, !.renews = TRUE, !.fresh = "fresh",
                        !.version = @ + 1]
    ELSE [row[r] EXCEPT !.version = @ + 1]

Persist(h) ==
    /\ req[h].at = "persist"
    /\ Matches(h)
    /\ row' = [row EXCEPT ![req[h].row] = Stored(req[h].row, req[h].token)]
    /\ Finish(h)
    /\ UNCHANGED <<consents, turn, redis, lost>>

Conflict(h) ==
    /\ req[h].at = "persist"
    /\ ~Matches(h)
    /\ req' = [req EXCEPT ![h].at = "conflict"]
    /\ UNCHANGED <<stored, redis, lost>>

\* Mutant: the conflict is answered by trying again with the new version.
PeerIsFreshNever(r) == FALSE

PeerIsFresh(r) == row[r].fresh \in {"fresh", "due"}

\* persistRefreshedConnection after a conflict.
Resolve(h) ==
    /\ req[h].at = "conflict"
    /\ IF \/ \A r \in Active : PeerIsFresh(r)
          \/ req[h].tries + 1 = WriteAttempts
       THEN Finish(h)
       ELSE \E r \in Active :
               req' = [req EXCEPT ![h].at = "persist", ![h].tries = @ + 1,
                                  ![h].version = row[r].version]
    /\ UNCHANGED <<stored, redis, lost>>

Publish(h) ==
    /\ req[h].at = "publish"
    /\ result' = [result EXCEPT ![req[h].key] = TRUE]
    /\ req' = [req EXCEPT ![h].at = "release"]
    /\ UNCHANGED <<stored, lock, circuit, lost>>

\* Mutant: DEL without comparing the lease's name.
ReleaseAny(h) ==
    /\ req[h].at = "release"
    /\ lock' = [lock EXCEPT ![req[h].key] = None]
    /\ req' = [req EXCEPT ![h] = Idle]
    /\ UNCHANGED <<stored, result, circuit, lost>>

\* DelIfValue
Release(h) ==
    /\ req[h].at = "release"
    /\ lock' = [lock EXCEPT ![req[h].key] = IF @ = h THEN None ELSE @]
    /\ req' = [req EXCEPT ![h] = Idle]
    /\ UNCHANGED <<stored, result, circuit, lost>>

----------------------------------------------------------------------------
(* Leases, hang-ups and crashes.                                           *)

Leased == {"read", "mark", "call", "persist", "conflict", "publish", "release"}

\* The handlers past the lease of row k.
Past(k) == {h \in Handler : req[h].at \in Leased /\ req[h].key = k}

\* What becomes of an answer that a handler carries is no longer certain.
Drop(h) ==
    lost' = IF req[h].at \in {"persist", "conflict"}
            THEN lost \cup {req[h].token[1]} ELSE lost

\* Mutant: the lock is set without an expiry.
LeaseLapsesNever(k) == FALSE /\ UNCHANGED vars

\* Nobody renews the lease of a handler that is gone.
LeaseLapses(k) ==
    /\ lock[k] # None /\ lock[k] \notin Past(k)
    /\ lock' = [lock EXCEPT ![k] = None]
    /\ UNCHANGED <<stored, result, circuit, req, lost>>

\* The renewals of a living holder fail for as long as the lease lasts.
LeaseSlips(k) ==
    /\ lock[k] \in Past(k)
    /\ lock' = [lock EXCEPT ![k] = None]
    /\ req' = [req EXCEPT ![lock[k]].slipped = TRUE]
    /\ Drop(lock[k])
    /\ UNCHANGED <<stored, result, circuit>>

ResultExpires(k) ==
    /\ result[k]
    /\ result' = [result EXCEPT ![k] = FALSE]
    /\ UNCHANGED <<stored, lock, circuit, req, lost>>

CircuitExpires ==
    /\ circuit
    /\ circuit' = FALSE
    /\ UNCHANGED <<stored, lock, result, req, lost>>

\* The caller hangs up: its context ends every call but the release.
HangUp(h) ==
    /\ req[h].at \notin {"idle", "release"}
    /\ req' = [req EXCEPT ![h] =
                 IF req[h].at \in {"doom", "look"} THEN Idle
                 ELSE Over(h, "release")]
    /\ Drop(h)
    /\ UNCHANGED <<stored, redis>>

\* The process dies.
Crash(h) ==
    /\ req[h].at # "idle"
    /\ req' = [req EXCEPT ![h] = Idle]
    /\ Drop(h)
    /\ UNCHANGED <<stored, redis>>

Refresh(h) ==
    \/ Share(h) \/ Acquire(h) \/ Reread(h) \/ MarkExpired(h)
    \/ Refused(h)
    \/ \E u \in Token : Call(h, u) \/ AnswerLost(h, u) \/ Unusable(h, u)
    \/ Persist(h) \/ Conflict(h) \/ Resolve(h) \/ Publish(h) \/ Release(h)

Next ==
    \/ \E r \in Rows :
          \/ \E renews \in BOOLEAN, fresh \in {"fresh", "due", "over", "forever"} :
                Connect(r, renews, fresh)
          \/ Revoke(r)
          \/ Lapse(r)
          \/ LeaseLapses(r) \/ LeaseSlips(r) \/ ResultExpires(r)
          \/ \E h \in Handler : Begin(h, r)
    \/ \E h \in Handler : Refresh(h) \/ HangUp(h) \/ Crash(h)
    \/ CircuitExpires

Spec == Init /\ [][Next]_vars

\* A handler that runs goes on, a dead holder's lease runs out, and the
\* database and Redis answer in the end.
Fairness ==
    /\ \A r \in Rows : WF_vars(LeaseLapses(r))
    /\ \A h \in Handler : WF_vars(Refresh(h))

FairSpec == Spec /\ Fairness

----------------------------------------------------------------------------
\* The lease of a row has one holder: of the handlers past it, all but one have
\* been told to stop renewing, whoever releases what and when.
OneRefresher ==
    \A r \in Rows : \A h \in Past(r) : lock[r] = h \/ req[h].slipped

\* The refresh token a connection stores can still be spent, or the handler
\* that spent it is about to store its successor: requests that find the same
\* row, reconnects and revocations never cost the subject its consent.  What
\* may is an answer lost on its way to the row, or one that was got without
\* the row's lease: after the lease was lost, or under the lease of a row that
\* was replaced since the request found it.
RotatedTokenKept ==
    \A r \in Active :
        LET c == row[r].token[1]
        IN  \/ ~row[r].renews
            \/ Accepts(row[r].token)
            \/ c \in lost
            \/ \E h \in Handler : /\ req[h].at \in {"persist", "conflict"}
                                  /\ req[h].row = r
                                  /\ req[h].token = <<c, turn[c]>>

\* A refresh under way does not put back what a newer consent replaced, as
\* long as the newer token has an expiry and has not reached it.
ReconnectStands ==
    [][\A r \in Active : row'[r].token[1] < row[r].token[1] =>
          row[r].fresh \in {"over", "forever"}]_vars

\* No lease is kept for good, whoever dies with it.
LeaseIsFreed == \A r \in Rows : []<>(lock[r] = None)
=============================================================================
