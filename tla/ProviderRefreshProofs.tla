------------------------ MODULE ProviderRefreshProofs ------------------------
(***************************************************************************)
(* Proofs about ProviderRefresh for any number of processes, connections,  *)
(* consents and attempts: that a row's lease has one holder, that no       *)
(* refresh puts back what a newer consent replaced, and that a refresh     *)
(* token the provider has rotated is on its way to the row it belongs to.  *)
(***************************************************************************)
EXTENDS ProviderRefresh, TLAPS

\* A flight between its read of the row and its last write.
Working == {"call", "persist", "conflict"}

\* Writes are tried at most WriteAttempts times.
TriesBounded ==
    \A h \in Handler : req[h].at \in {"persist", "conflict"} =>
        req[h].tries < WriteAttempts

\* The unique index on the active connections of a subject and a provider.
OneActive == \A r, s \in Active : r = s

\* A flight that works on a row found it in the table.
RowExists ==
    \A h \in Handler : req[h].at \in Working => row[req[h].row].status # "none"

\* Nobody has a token of a consent that is still to come.
NoFutureConsent ==
    /\ \A r \in Active : row[r].token[1] <= consents
    /\ \A h \in Handler : req[h].at \in Working => req[h].token[1] <= consents

\* The version a flight writes under is older than the row's, or the row still
\* has the consent the flight renews, or its token was not fresh any more when
\* the flight read that version.
Tells(f) ==
    \/ f.version < row[f.row].version
    \/ /\ f.version = row[f.row].version
       /\ \/ f.token[1] = row[f.row].token[1]
          \/ row[f.row].fresh \in {"over", "forever"}

VersionTells ==
    \A h \in Handler :
        req[h].at \in {"call", "persist"} /\ req[h].row \in Active => Tells(req[h])

Kept ==
    /\ TriesBounded
    /\ OneActive
    /\ RowExists
    /\ NoFutureConsent
    /\ VersionTells

IInv == TypeOK /\ Kept /\ OneRefresher

LEMMA Constants ==
    /\ CallAttempts \in Nat /\ CallAttempts > 0
    /\ WriteAttempts \in Nat /\ WriteAttempts > 0
    /\ MaxRows \in Nat /\ MaxRows > 0
    /\ MaxConsents \in Nat /\ MaxConsents > 0
    /\ MaxTurns \in Nat
    /\ None \notin Handler
<1>1. /\ {CallAttempts, WriteAttempts} \subseteq Nat \ {0}
      /\ {MaxRows, MaxConsents, MaxTurns, MaxVersion} \subseteq Nat
      /\ MaxRows # 0 /\ MaxConsents # 0
      /\ None \notin Handler
  BY RefreshAssumption
<1> QED BY <1>1

LEMMA IdleTyped == Idle \in Flight
BY Constants DEF Idle, Flight, Rows, Token, Consents

LEMMA InitIInv == Init => IInv
<1> SUFFICES ASSUME Init PROVE IInv
  OBVIOUS
<1>1. TypeOK
  <2>1. [status |-> "none", token |-> <<1, 0>>, renews |-> FALSE,
         fresh |-> "over", version |-> 0] \in Row
    BY Constants DEF Row, Token, Consents
  <2>2. row \in [Rows -> Row]
    BY <2>1 DEF Init
  <2>3. req \in [Handler -> Flight]
    BY IdleTyped DEF Init
  <2>4. /\ consents \in 0..MaxConsents
        /\ turn \in [Consents -> 0..MaxTurns]
    BY Constants DEF Init
  <2>5. /\ lock \in [Rows -> Handler \cup {None}]
        /\ result \in [Rows -> BOOLEAN] /\ circuit \in BOOLEAN
        /\ lost \subseteq Consents
    BY DEF Init
  <2> QED BY <2>2, <2>3, <2>4, <2>5 DEF TypeOK
<1>2. \A h \in Handler : req[h].at = "idle"
  BY DEF Init, Idle
<1>3. Active = {}
  BY DEF Init, Active
<1> QED BY <1>1, <1>2, <1>3
        DEF IInv, Kept, TriesBounded, OneActive, RowExists, NoFutureConsent,
            VersionTells, OneRefresher, Past, Leased, Working

\* A step that moves one flight and leaves the table alone.
LEMMA FlightKeeps ==
    ASSUME TypeOK, Kept, NEW h \in Handler, NEW v \in Flight,
           row' = row, consents' = consents, req' = [req EXCEPT ![h] = v],
           v.at \in {"persist", "conflict"} => v.tries < WriteAttempts,
           v.at \in Working => /\ row[v.row].status # "none"
                               /\ v.token[1] <= consents,
           v.at \in {"call", "persist"} /\ v.row \in Active => Tells(v)
    PROVE  Kept' /\ req' \in [Handler -> Flight]
<1>1. req' \in [Handler -> Flight]
  BY DEF TypeOK
<1>2. \A g \in Handler : req'[g] = IF g = h THEN v ELSE req[g]
  BY DEF TypeOK
<1>3. Active' = Active
  BY DEF Active
<1>4. TriesBounded'
  BY <1>2 DEF Kept, TriesBounded
<1>5. OneActive'
  BY <1>3 DEF Kept, OneActive
<1>6. RowExists'
  BY <1>2 DEF Kept, RowExists
<1>7. NoFutureConsent'
  BY <1>2, <1>3 DEF Kept, NoFutureConsent
<1>8. VersionTells'
  BY <1>2, <1>3 DEF Kept, VersionTells, Tells
<1> QED BY <1>1, <1>4, <1>5, <1>6, <1>7, <1>8 DEF Kept

\* A step that writes one row that was in the table or is new; flights that are
\* at work stay as they are or stop.
LEMMA RowKeeps ==
    ASSUME TypeOK, Kept, NEW r \in Rows, NEW w \in Row,
           row' = [row EXCEPT ![r] = w],
           consents' \in Nat, consents <= consents',
           \A g \in Handler : req'[g] = req[g] \/ req'[g].at \notin Working,
           w.status # "none",
           w.status = "active" =>
             /\ w.token[1] <= consents'
             /\ \A q \in Active : q = r
             /\ \/ row[r].status = "none"
                \/ r \in Active /\ row[r].version < w.version
                \/ /\ r \in Active /\ row[r].version = w.version
                   /\ w.token = row[r].token
                   /\ row[r].fresh \in {"over", "forever"} =>
                        w.fresh \in {"over", "forever"}
    PROVE  Kept' /\ row' \in [Rows -> Row]
<1>1. row' \in [Rows -> Row]
  BY DEF TypeOK
<1>2. \A q \in Rows : row'[q] = IF q = r THEN w ELSE row[q]
  BY DEF TypeOK
<1>3. \A q \in Active' : q \in Rows /\ (q = r => w.status = "active")
                       /\ (q # r => q \in Active)
  BY <1>2 DEF Active
<1>4. \A g \in Handler : req[g] \in Flight
  BY DEF TypeOK
<1>5. \A g \in Handler : req[g].row \in Rows
  BY <1>4 DEF Flight
<1>6. TriesBounded'
  BY DEF Kept, TriesBounded, Working
<1>7. OneActive'
  BY <1>3 DEF Kept, OneActive
<1>8. RowExists'
  BY <1>2, <1>5 DEF Kept, RowExists
<1>9. NoFutureConsent'
  <2>1. \A q \in Active' : row'[q].token[1] <= consents'
    <3> SUFFICES ASSUME NEW q \in Active' PROVE row'[q].token[1] <= consents'
      OBVIOUS
    <3>1. CASE q = r
      BY <1>2, <1>3, <3>1
    <3>2. CASE q # r
      <4>1. q \in Active /\ row'[q] = row[q] /\ row[q] \in Row
        BY <1>2, <1>3, <3>2 DEF TypeOK, Active
      <4>2. row[q].token[1] \in Nat
        BY <4>1 DEF Row, Token, Consents
      <4>3. row[q].token[1] <= consents
        BY <4>1 DEF Kept, NoFutureConsent
      <4> QED BY <4>1, <4>2, <4>3, Constants DEF TypeOK
    <3> QED BY <3>1, <3>2
  <2>2. \A g \in Handler : req'[g].at \in Working => req'[g].token[1] <= consents'
    <3> SUFFICES ASSUME NEW g \in Handler, req'[g].at \in Working
                 PROVE  req'[g].token[1] <= consents'
      OBVIOUS
    <3>1. req'[g] = req[g] /\ req[g].token[1] <= consents
      BY DEF Kept, NoFutureConsent
    <3>2. req[g].token[1] \in Nat
      BY <1>4 DEF Flight, Token, Consents
    <3> QED BY <3>1, <3>2, Constants DEF TypeOK
  <2> QED BY <2>1, <2>2 DEF NoFutureConsent
<1>10. VersionTells'
  <2> SUFFICES ASSUME NEW g \in Handler,
                      req'[g].at \in {"call", "persist"}, req'[g].row \in Active'
               PROVE  Tells(req[g])'
    BY DEF VersionTells
  <2>1. req'[g] = req[g]
    BY DEF Working
  <2>2. req[g].at \in Working /\ req[g].row \in Rows
    BY <2>1, <1>5 DEF Working
  <2>3. CASE req[g].row # r
    <3>1. req[g].row \in Active /\ row'[req[g].row] = row[req[g].row]
      BY <1>2, <1>3, <2>1, <2>2, <2>3
    <3>2. Tells(req[g])
      BY <2>1, <3>1 DEF Kept, VersionTells
    <3> QED BY <2>1, <3>1, <3>2 DEF Tells
  <2>4. CASE req[g].row = r
    <3>1. row[r].status # "none"
      BY <2>2, <2>4 DEF Kept, RowExists
    <3>2. w.status = "active" /\ r \in Active
      BY <1>3, <2>1, <2>4, <3>1
    <3>3. Tells(req[g])
      BY <2>1, <2>4, <3>2 DEF Kept, VersionTells
    <3>4. row'[r] = w /\ row[r] \in Row /\ req[g] \in Flight
      BY <1>2, <1>4 DEF TypeOK
    <3>5. row[r].version \in Nat /\ w.version \in Nat /\ req[g].version \in Nat
      BY <3>4 DEF Row, Flight
    <3> QED BY <2>1, <2>4, <3>1, <3>2, <3>3, <3>4, <3>5 DEF Tells
  <2> QED BY <2>3, <2>4
<1> QED BY <1>1, <1>6, <1>7, <1>8, <1>9, <1>10 DEF Kept

\* A flight past SetNXTTL has its row's lease, or has lost it.
LEMMA LeaseOf ==
    ASSUME TypeOK, OneRefresher, NEW h \in Handler, req[h].at \in Leased
    PROVE  lock[req[h].key] = h \/ req[h].slipped
<1>1. req[h].key \in Rows
  BY DEF TypeOK, Flight
<1> QED BY <1>1 DEF OneRefresher, Past

\* A step that moves one flight, and a lease at most away from it or to it.
LEMMA LeaseKeeps ==
    ASSUME TypeOK, OneRefresher, NEW h \in Handler, NEW v \in Flight,
           req' = [req EXCEPT ![h] = v],
           \A g \in Handler \ {h}, k \in Rows : lock[k] = g => lock'[k] = g,
           v.at \in Leased => lock'[v.key] = h \/ v.slipped
    PROVE  OneRefresher'
<1>1. \A g \in Handler : req'[g] = IF g = h THEN v ELSE req[g]
  BY DEF TypeOK
<1> QED BY <1>1 DEF OneRefresher, Past

RestTyped ==
    /\ turn \in [Consents -> 0..MaxTurns]
    /\ lock \in [Rows -> Handler \cup {None}]
    /\ result \in [Rows -> BOOLEAN]
    /\ circuit \in BOOLEAN
    /\ lost \subseteq Consents

\* What an action that moves one flight has to show.
LEMMA FlightStep ==
    ASSUME IInv, NEW h \in Handler, NEW v \in Flight,
           row' = row, consents' = consents, req' = [req EXCEPT ![h] = v],
           RestTyped',
           \A g \in Handler \ {h}, k \in Rows : lock[k] = g => lock'[k] = g,
           v.at \in Leased => lock'[v.key] = h \/ v.slipped,
           v.at \in {"persist", "conflict"} => v.tries < WriteAttempts,
           v.at \in Working => /\ row[v.row].status # "none"
                               /\ v.token[1] <= consents,
           v.at \in {"call", "persist"} /\ v.row \in Active => Tells(v)
    PROVE  IInv'
<1>1. Kept' /\ req' \in [Handler -> Flight]
  BY FlightKeeps DEF IInv
<1>2. OneRefresher'
  BY LeaseKeeps DEF IInv
<1>3. row' \in [Rows -> Row] /\ consents' \in 0..MaxConsents
  BY DEF IInv, TypeOK
<1> QED BY <1>1, <1>2, <1>3 DEF IInv, TypeOK, RestTyped

\* The same for a flight that is not at work afterwards.
LEMMA FlightStops ==
    ASSUME IInv, NEW h \in Handler, NEW v \in Flight,
           row' = row, consents' = consents, req' = [req EXCEPT ![h] = v],
           RestTyped',
           \A g \in Handler \ {h}, k \in Rows : lock[k] = g => lock'[k] = g,
           v.at \in Leased => lock'[v.key] = h \/ v.slipped,
           v.at \notin Working
    PROVE  IInv'
BY FlightStep DEF Working

\* Idle flights with some of their fields set.
LEMMA IdleFields ==
    /\ Idle \in Flight /\ Idle.at = "idle"
    /\ \A r \in Rows :
          /\ [Idle EXCEPT !.at = "look", !.key = r] \in Flight
          /\ [Idle EXCEPT !.at = "look", !.key = r].at = "look"
BY IdleTyped DEF Idle, Flight

\* A flight that is over but for its result and its lease.
LEMMA OverFlight ==
    ASSUME IInv, NEW h \in Handler, NEW at \in {"publish", "release"}
    PROVE  /\ Over(h, at) \in Flight /\ Over(h, at).at = at
           /\ Over(h, at).slipped = req[h].slipped
           /\ Over(h, at).key = req[h].key
<1>1. req[h].slipped \in BOOLEAN /\ req[h].key \in Rows
  BY DEF IInv, TypeOK, Flight
<1> QED BY <1>1, IdleTyped DEF Over, Idle, Flight

\* A row that leaves "active" keeps its token and its version.
LEMMA EndedRow ==
    ASSUME NEW r \in Rows, row[r] \in Row, NEW status \in {"expired", "revoked"}
    PROVE  /\ Ended(r, status) \in Row /\ Ended(r, status).status = status
           /\ Ended(r, status).token = row[r].token
           /\ Ended(r, status).version = row[r].version
BY DEF Ended, Row

\* A row that is written gets the token if it is active.
LEMMA StoredRow ==
    ASSUME NEW r \in Rows, row[r] \in Row, NEW t \in Token
    PROVE  /\ Stored(r, t) \in Row /\ Stored(r, t).status = row[r].status
           /\ Stored(r, t).version = row[r].version + 1
           /\ Stored(r, t).token = IF r \in Active THEN t ELSE row[r].token
<1>1. row[r].version \in Nat /\ row[r].version + 1 \in Nat
  BY DEF Row
<1> QED BY <1>1 DEF Stored, Row

\* Finish leaves a flight that has its result to publish.
LEMMA FinishMoves ==
    ASSUME IInv, NEW h \in Handler, Finish(h)
    PROVE  \E v \in Flight : /\ req' = [req EXCEPT ![h] = v]
                             /\ v.at = "publish"
                             /\ v.slipped = req[h].slipped /\ v.key = req[h].key
BY OverFlight DEF Finish

\* A failed call leaves the flight where it was, or ends it.
LEMMA CallFailedMoves ==
    ASSUME IInv, NEW h \in Handler, req[h].at = "call", CallFailed(h)
    PROVE  /\ \E v \in Flight :
                 /\ req' = [req EXCEPT ![h] = v]
                 /\ v.slipped = req[h].slipped /\ v.key = req[h].key
                 /\ \/ v.at = "publish"
                    \/ /\ v.at = "call" /\ v.row = req[h].row
                       /\ v.token = req[h].token /\ v.version = req[h].version
           /\ circuit' \in BOOLEAN
<1>1. req[h] \in Flight /\ circuit \in BOOLEAN
  BY DEF IInv, TypeOK
<1>2. CASE req[h].tries + 1 < CallAttempts
  <2> DEFINE v == [req[h] EXCEPT !.tries = req[h].tries + 1]
  <2>1. req[h].tries \in 0..(CallAttempts + WriteAttempts)
    BY <1>1 DEF Flight
  <2>2. req[h].tries + 1 \in 0..(CallAttempts + WriteAttempts)
    BY <1>2, <2>1, Constants
  <2>3. /\ v \in Flight /\ v.at = "call" /\ v.row = req[h].row
        /\ v.token = req[h].token /\ v.version = req[h].version
        /\ v.slipped = req[h].slipped /\ v.key = req[h].key
    BY <1>1, <2>2 DEF Flight
  <2>4. req' = [req EXCEPT ![h] = v] /\ UNCHANGED circuit
    BY <1>2 DEF CallFailed
  <2> QED BY <1>1, <2>3, <2>4
<1>3. CASE ~(req[h].tries + 1 < CallAttempts)
  <2>1. Finish(h) /\ circuit' \in {circuit, TRUE}
    BY <1>3 DEF CallFailed
  <2>2. circuit' \in BOOLEAN
    BY <1>1, <2>1
  <2> QED BY <2>1, <2>2, FinishMoves
<1> QED BY <1>2, <1>3

LEMMA NextIInv == IInv /\ [Next]_vars => IInv'
<1> SUFFICES ASSUME IInv, [Next]_vars PROVE IInv'
  OBVIOUS
<1> USE DEF IInv
<1>0. /\ row \in [Rows -> Row] /\ req \in [Handler -> Flight]
      /\ consents \in 0..MaxConsents
  BY DEF TypeOK
<1>1. CASE UNCHANGED vars
  BY <1>1 DEF vars, stored, redis, TypeOK, Kept, TriesBounded, OneActive,
              RowExists, NoFutureConsent, VersionTells, Tells, Active,
              OneRefresher, Past
<1>2. ASSUME NEW r \in Rows, NEW renews \in BOOLEAN,
             NEW fresh \in {"fresh", "due", "over", "forever"},
             Connect(r, renews, fresh)
      PROVE  IInv'
  <2> DEFINE w == [status |-> "active", token |-> <<consents + 1, 0>>,
                   renews |-> renews, fresh |-> fresh,
                   version |-> IF r \in Active THEN row[r].version + 1 ELSE 0]
  <2>1. row[r].version \in Nat
    BY <1>0 DEF Row
  <2>2. consents + 1 \in Consents
    BY <1>0, <1>2, Constants DEF Connect, Consents
  <2>3. w \in Row
    BY <2>1, <2>2, Constants DEF Row, Token
  <2>4. /\ row' = [row EXCEPT ![r] = w]
        /\ consents' = consents + 1
        /\ r \in Active \/ (Active = {} /\ row[r].status = "none")
        /\ UNCHANGED <<turn, lock, result, circuit, req, lost>>
    BY <1>2 DEF Connect, redis
  <2>5. consents' \in Nat /\ consents <= consents' /\ consents' \in 0..MaxConsents
    BY <1>0, <2>2, <2>4, Constants DEF Consents
  <2>6. /\ w.status = "active"
        /\ w.token[1] <= consents'
        /\ r \in Active => row[r].version < w.version
    BY <2>1, <2>4, <2>5
  <2>7. \A q \in Active : q = r
    BY <2>4 DEF Kept, OneActive
  <2>8. Kept' /\ row' \in [Rows -> Row]
    <3> HIDE DEF w
    <3> QED BY <2>3, <2>4, <2>5, <2>6, <2>7, RowKeeps
  <2>9. TypeOK'
    BY <2>4, <2>5, <2>8 DEF TypeOK
  <2>10. OneRefresher'
    BY <2>4 DEF OneRefresher, Past
  <2> QED BY <2>8, <2>9, <2>10
<1>3. ASSUME NEW r \in Rows, Revoke(r) PROVE IInv'
  <2> DEFINE w == Ended(r, "revoked")
  <2>1. row[r] \in Row
    BY <1>0
  <2>2. w \in Row /\ w.status = "revoked"
    BY <2>1, EndedRow
  <2>3. /\ row' = [row EXCEPT ![r] = w]
        /\ UNCHANGED <<consents, turn, lock, result, circuit, req, lost>>
    BY <1>3 DEF Revoke, redis
  <2>4. Kept' /\ row' \in [Rows -> Row]
    <3>1. consents' \in Nat /\ consents <= consents'
      BY <1>0, <2>3, Constants
    <3> HIDE DEF w
    <3> QED BY <2>2, <2>3, <3>1, RowKeeps
  <2>5. TypeOK' /\ OneRefresher'
    BY <2>3, <2>4 DEF TypeOK, OneRefresher, Past
  <2> QED BY <2>4, <2>5
<1>4. ASSUME NEW r \in Rows, Lapse(r) PROVE IInv'
  <2>1. row[r] \in Row
    BY <1>0
  <2>2. PICK f \in {"due", "over"} :
          /\ row' = [row EXCEPT ![r].fresh = f]
          /\ row[r].fresh \in {"fresh", "due"}
    BY <1>4 DEF Lapse
  <2>3. /\ r \in Active
        /\ UNCHANGED <<consents, turn, lock, result, circuit, req, lost>>
    BY <1>4 DEF Lapse, redis
  <2> DEFINE w == [row[r] EXCEPT !.fresh = f]
  <2>4. /\ w \in Row /\ w.status = row[r].status /\ w.version = row[r].version
        /\ w.token = row[r].token
    BY <2>1 DEF Row
  <2>5. row' = [row EXCEPT ![r] = w]
    BY <2>2
  <2>6. /\ row[r].token[1] <= consents
        /\ \A q \in Active : q = r
        /\ row[r].status = "active"
    BY <2>3 DEF Kept, NoFutureConsent, OneActive, Active
  <2>7. Kept' /\ row' \in [Rows -> Row]
    <3>1. consents' \in Nat /\ consents <= consents'
      BY <1>0, <2>3, Constants
    <3> HIDE DEF w
    <3> QED BY <2>2, <2>3, <2>4, <2>5, <2>6, <3>1, RowKeeps
  <2>8. TypeOK' /\ OneRefresher'
    BY <2>3, <2>7 DEF TypeOK, OneRefresher, Past
  <2> QED BY <2>7, <2>8
<1>5. /\ \A h \in Handler :
           /\ req[h] \in Flight /\ req[h].row \in Rows /\ req[h].key \in Rows
           /\ req[h].version \in Nat
           /\ req[h].token \in Token /\ req[h].slipped \in BOOLEAN
           /\ req[h].tries \in 0..(CallAttempts + WriteAttempts)
           /\ req[h].token[1] \in Consents
      /\ \A r \in Rows : /\ row[r] \in Row /\ row[r].version \in Nat
                         /\ row[r].token \in Token
                         /\ row[r].token[1] \in Consents
      /\ RestTyped
  BY <1>0 DEF Flight, Row, Token, TypeOK, RestTyped
<1>6. ASSUME NEW h \in Handler, NEW r \in Rows, Begin(h, r) PROVE IInv'
  <2>1. PICK v \in Flight : /\ req' = [req EXCEPT ![h] = v]
                            /\ v.at \in {"look", "doom"}
    <3>1. CASE req' = [req EXCEPT ![h] = [Idle EXCEPT !.at = "look", !.key = r]]
      BY <3>1, IdleFields
    <3>2. CASE req' = [req EXCEPT ![h] = [Idle EXCEPT !.at = "doom", !.row = r]]
      <4> DEFINE d == [Idle EXCEPT !.at = "doom", !.row = r]
      <4>1. d \in Flight /\ d.at = "doom"
        BY IdleTyped DEF Idle, Flight
      <4>2. req' = [req EXCEPT ![h] = d]
        BY <3>2
      <4> HIDE DEF d
      <4> QED BY <4>1, <4>2
    <3> QED BY <1>6, <3>1, <3>2 DEF Begin
  <2>2. RestTyped' /\ UNCHANGED <<row, consents, lock>>
    BY <1>5, <1>6 DEF Begin, stored, redis, RestTyped
  <2> QED BY <2>1, <2>2, FlightStops DEF Leased, Working
<1>7. ASSUME NEW h \in Handler, Share(h) PROVE IInv'
  <2>1. RestTyped' /\ UNCHANGED <<row, consents, lock>>
    BY <1>5, <1>7 DEF Share, stored, redis, RestTyped
  <2>2. req' = [req EXCEPT ![h] = Idle]
    BY <1>7 DEF Share
  <2> QED BY <2>1, <2>2, IdleFields, FlightStops DEF Leased, Working
<1>8. ASSUME NEW h \in Handler, Acquire(h) PROVE IInv'
  <2> DEFINE v == [req[h] EXCEPT !.at = "read"]
  <2>1. v \in Flight /\ v.at = "read" /\ v.key = req[h].key
    BY <1>5 DEF Flight
  <2>2. /\ UNCHANGED <<row, consents, turn, result, circuit, lost>>
        /\ lock[req[h].key] = None /\ lock' = [lock EXCEPT ![req[h].key] = h]
        /\ req' = [req EXCEPT ![h] = v]
    BY <1>8 DEF Acquire, stored
  <2>3. /\ RestTyped' /\ lock'[req[h].key] = h
        /\ \A g \in Handler \ {h}, k \in Rows : lock[k] = g => lock'[k] = g
    BY <1>5, <2>2, Constants DEF RestTyped
  <2> HIDE DEF v
  <2> QED BY <2>1, <2>2, <2>3, FlightStops DEF Leased, Working
<1>9. ASSUME NEW h \in Handler, Reread(h) PROVE IInv'
  <2>1. RestTyped' /\ UNCHANGED <<row, consents, lock>>
    BY <1>5, <1>9 DEF Reread, stored, redis, RestTyped
  <2>2. lock[req[h].key] = h \/ req[h].slipped
    BY <1>9, LeaseOf DEF Reread, Leased
  <2>3. CASE Finish(h)
    <3>1. PICK v \in Flight : /\ req' = [req EXCEPT ![h] = v]
                              /\ v.at = "publish"
                              /\ v.slipped = req[h].slipped /\ v.key = req[h].key
      BY <2>3, FinishMoves
    <3> QED BY <2>1, <2>2, <3>1, FlightStops DEF Working
  <2>4. ASSUME NEW r \in Active,
               req' = [req EXCEPT ![h].at = "call", ![h].row = r,
                                  ![h].token = row[r].token,
                                  ![h].version = row[r].version]
        PROVE  IInv'
    <3> DEFINE v == [req[h] EXCEPT !.at = "call", !.row = r,
                                   !.token = row[r].token,
                                   !.version = row[r].version]
    <3>1. r \in Rows /\ row[r].status = "active"
      BY DEF Active
    <3>2. /\ v \in Flight /\ v.at = "call" /\ v.row = r
          /\ v.token = row[r].token /\ v.version = row[r].version
          /\ v.slipped = req[h].slipped /\ v.key = req[h].key
      BY <1>5, <3>1 DEF Flight
    <3>3. req' = [req EXCEPT ![h] = v]
      BY <2>4, <1>0
    <3>4. row[r].token[1] <= consents
      BY DEF Kept, NoFutureConsent
    <3> HIDE DEF v
    <3>5. Tells(v)
      BY <3>2 DEF Tells
    <3> QED BY <2>1, <2>2, <3>1, <3>2, <3>3, <3>4, <3>5, FlightStep
  <2>5. ASSUME NEW r \in Active,
               req' = [req EXCEPT ![h].at = "mark", ![h].row = r]
        PROVE  IInv'
    <3> DEFINE v == [req[h] EXCEPT !.at = "mark", !.row = r]
    <3>1. r \in Rows
      BY DEF Active
    <3>2. /\ v \in Flight /\ v.at = "mark"
          /\ v.slipped = req[h].slipped /\ v.key = req[h].key
      BY <1>5, <3>1 DEF Flight
    <3>3. req' = [req EXCEPT ![h] = v]
      BY <2>5, <1>0
    <3> HIDE DEF v
    <3> QED BY <2>1, <2>2, <3>2, <3>3, FlightStops DEF Working
  <2> QED BY <1>9, <2>3, <2>4, <2>5 DEF Reread
<1>10. ASSUME NEW h \in Handler, MarkExpired(h) PROVE IInv'
  <2>1. UNCHANGED <<consents, turn, lock, result, circuit, lost>>
    BY <1>10 DEF MarkExpired, redis
  <2>2. \E v \in Flight :
          /\ req' = [req EXCEPT ![h] = v]
          /\ \/ v.at = "idle"
             \/ v.at = "publish" /\ (lock[v.key] = h \/ v.slipped)
    <3>1. CASE req[h].at = "doom" /\ req' = [req EXCEPT ![h] = Idle]
      BY <3>1, IdleFields
    <3>2. CASE req[h].at = "mark" /\ Finish(h)
      <4>1. lock[req[h].key] = h \/ req[h].slipped
        BY <3>2, LeaseOf DEF Leased
      <4> QED BY <3>2, <4>1, FinishMoves
    <3> QED BY <1>10, <3>1, <3>2 DEF MarkExpired
  <2>3. PICK v \in Flight :
          /\ req' = [req EXCEPT ![h] = v]
          /\ \/ v.at = "idle"
             \/ v.at = "publish" /\ (lock[v.key] = h \/ v.slipped)
    BY <2>2
  <2>4. v.at \notin Working
    BY <2>3 DEF Working
  <2>5. CASE req[h].row \notin Active
    <3>1. row' = row /\ RestTyped'
      BY <1>5, <1>10, <2>1, <2>5 DEF MarkExpired, RestTyped
    <3> QED BY <2>1, <2>3, <2>4, <3>1, FlightStops DEF Leased
  <2>6. CASE req[h].row \in Active
    <3> DEFINE r == req[h].row
               w == Ended(r, "expired")
    <3>1. r \in Rows /\ row[r] \in Row
      BY <1>5
    <3>2. w \in Row /\ w.status = "expired"
      BY <3>1, EndedRow
    <3>3. row' = [row EXCEPT ![r] = w]
      BY <1>10, <2>6 DEF MarkExpired
    <3>4. consents' \in Nat /\ consents <= consents'
      BY <1>0, <2>1, Constants
    <3>5. \A g \in Handler : req'[g] = req[g] \/ req'[g].at \notin Working
      BY <1>0, <2>3, <2>4
    <3>6. Kept' /\ row' \in [Rows -> Row]
      <4> HIDE DEF w, r
      <4> QED BY <3>1, <3>2, <3>3, <3>4, <3>5, RowKeeps
    <3>7. OneRefresher'
      BY <2>1, <2>3, LeaseKeeps DEF Leased
    <3>8. req' \in [Handler -> Flight]
      BY <1>0, <2>3
    <3>9. TypeOK'
      BY <2>1, <3>6, <3>8 DEF TypeOK
    <3> QED BY <3>6, <3>7, <3>9
  <2> QED BY <2>5, <2>6
<1>11. ASSUME NEW h \in Handler, NEW u \in Token, Call(h, u) PROVE IInv'
  <2> DEFINE v == [req[h] EXCEPT !.at = "persist", !.token = u, !.tries = 0]
  <2>1. /\ v \in Flight /\ v.at = "persist" /\ v.token = u /\ v.tries = 0
        /\ v.row = req[h].row /\ v.version = req[h].version
        /\ v.slipped = req[h].slipped /\ v.key = req[h].key
    <3>1. req[h] \in Flight /\ 0 \in 0..(CallAttempts + WriteAttempts)
      BY <1>5, Constants
    <3> QED BY <3>1 DEF Flight
  <2>2. req' = [req EXCEPT ![h] = v]
    BY <1>0, <1>11 DEF Call
  <2>3. u[1] \in Consents /\ u[2] \in 0..MaxTurns /\ u[1] = req[h].token[1]
    BY <1>11 DEF Call, Answers, Token
  <2>4. RestTyped' /\ UNCHANGED <<row, consents, lock>>
    <3>1. turn' \in [Consents -> 0..MaxTurns]
      BY <1>5, <1>11, <2>3 DEF Call, RestTyped
    <3>2. lost' \subseteq Consents
      BY <1>5, <1>11, <2>3 DEF Call, RestTyped
    <3>3. circuit' \in BOOLEAN
      BY <1>11 DEF Call
    <3> QED BY <1>5, <1>11, <3>1, <3>2, <3>3 DEF Call, RestTyped
  <2>5. req[h].at = "call"
    BY <1>11 DEF Call
  <2>6. /\ lock[req[h].key] = h \/ req[h].slipped
        /\ row[req[h].row].status # "none"
        /\ req[h].token[1] <= consents
        /\ req[h].row \in Active => Tells(req[h])
    BY <2>5, LeaseOf DEF Leased, Kept, RowExists, NoFutureConsent,
                VersionTells, Working
  <2> HIDE DEF v
  <2>7. v.row \in Active => Tells(v)
    BY <2>1, <2>3, <2>6 DEF Tells
  <2> QED BY <2>1, <2>2, <2>3, <2>4, <2>6, <2>7, Constants, FlightStep
<1>12. ASSUME NEW h \in Handler, req[h].at = "call", CallFailed(h),
              UNCHANGED <<row, consents, lock, result>>,
              turn' \in [Consents -> 0..MaxTurns], lost' \subseteq Consents
       PROVE  IInv'
  <2>1. PICK v \in Flight :
          /\ req' = [req EXCEPT ![h] = v]
          /\ v.slipped = req[h].slipped /\ v.key = req[h].key
          /\ \/ v.at = "publish"
             \/ /\ v.at = "call" /\ v.row = req[h].row
                /\ v.token = req[h].token /\ v.version = req[h].version
    BY <1>12, CallFailedMoves
  <2>2. circuit' \in BOOLEAN
    BY <1>12, CallFailedMoves
  <2>3. RestTyped'
    BY <1>5, <1>12, <2>2 DEF RestTyped
  <2>4. /\ lock[req[h].key] = h \/ req[h].slipped
        /\ row[req[h].row].status # "none"
        /\ req[h].token[1] <= consents
        /\ req[h].row \in Active => Tells(req[h])
    BY <1>12, LeaseOf DEF Leased, Kept, RowExists, NoFutureConsent,
                 VersionTells, Working
  <2>5. v.at = "call" /\ v.row \in Active => Tells(v)
    BY <2>1, <2>4 DEF Tells
  <2> QED BY <1>12, <2>1, <2>3, <2>4, <2>5, FlightStep DEF Working
<1>13. ASSUME NEW h \in Handler, Refused(h) PROVE IInv'
  BY <1>5, <1>12, <1>13 DEF Refused, stored, RestTyped
<1>14. ASSUME NEW h \in Handler, NEW u \in Token, AnswerLost(h, u) PROVE IInv'
  <2>1. u[1] \in Consents /\ u[2] \in 0..MaxTurns
    BY DEF Token
  <2>2. turn' \in [Consents -> 0..MaxTurns] /\ lost' \subseteq Consents
    BY <1>5, <1>14, <2>1 DEF AnswerLost, RestTyped
  <2> QED BY <1>12, <1>14, <2>2 DEF AnswerLost
<1>15. ASSUME NEW h \in Handler, NEW u \in Token, Unusable(h, u) PROVE IInv'
  <2>1. u[1] \in Consents /\ u[2] \in 0..MaxTurns
    BY DEF Token
  <2>2. turn' \in [Consents -> 0..MaxTurns] /\ lost' \subseteq Consents
    BY <1>5, <1>15, <2>1 DEF Unusable, RestTyped
  <2>3. RestTyped' /\ UNCHANGED <<row, consents, lock>>
    <3>1. circuit' \in BOOLEAN
      BY <1>15 DEF Unusable
    <3> QED BY <1>5, <1>15, <2>2, <3>1 DEF Unusable, RestTyped
  <2>4. lock[req[h].key] = h \/ req[h].slipped
    BY <1>15, LeaseOf DEF Unusable, Leased
  <2>5. PICK v \in Flight : /\ req' = [req EXCEPT ![h] = v]
                            /\ v.at = "publish"
                            /\ v.slipped = req[h].slipped /\ v.key = req[h].key
    BY <1>15, FinishMoves DEF Unusable
  <2> QED BY <2>3, <2>4, <2>5, FlightStops DEF Working
<1>16. ASSUME NEW h \in Handler, Persist(h) PROVE IInv'
  <2> DEFINE r == req[h].row
             w == Stored(r, req[h].token)
  <2>1. r \in Rows /\ row[r] \in Row /\ row[r].version \in Nat
    BY <1>5
  <2>2. /\ w \in Row /\ w.status = row[r].status
        /\ w.version = row[r].version + 1
        /\ r \in Active => w.token = req[h].token
    <3>1. req[h].token \in Token
      BY <1>5
    <3> QED BY <2>1, <3>1, StoredRow
  <2>3. row' = [row EXCEPT ![r] = w]
    BY <1>0, <1>16, <2>1 DEF Persist
  <2>4. /\ req[h].at = "persist"
        /\ UNCHANGED <<consents, turn, lock, result, circuit, lost>>
    BY <1>16 DEF Persist, redis
  <2>5. PICK v \in Flight : /\ req' = [req EXCEPT ![h] = v]
                            /\ v.at = "publish"
                            /\ v.slipped = req[h].slipped /\ v.key = req[h].key
    BY <1>16, FinishMoves DEF Persist
  <2>6. /\ lock[req[h].key] = h \/ req[h].slipped
        /\ row[r].status # "none" /\ req[h].token[1] <= consents
    BY <2>4, LeaseOf DEF Leased, Kept, RowExists, NoFutureConsent, Working
  <2>7. consents' \in Nat /\ consents <= consents'
    BY <1>0, <2>4, Constants
  <2>8. \A g \in Handler : req'[g] = req[g] \/ req'[g].at \notin Working
    BY <1>0, <2>5 DEF Working
  <2>9. row[r].status = "active" => r \in Active /\ \A q \in Active : q = r
    BY <2>1 DEF Active, Kept, OneActive
  <2>10. Kept' /\ row' \in [Rows -> Row]
    <3>1. row[r].version < w.version
      BY <2>1, <2>2
    <3> HIDE DEF w, r
    <3> QED BY <2>1, <2>2, <2>3, <2>4, <2>6, <2>7, <2>8, <2>9, <3>1, RowKeeps
  <2>11. OneRefresher'
    BY <2>4, <2>5, <2>6, LeaseKeeps DEF Leased
  <2>12. req' \in [Handler -> Flight]
    BY <1>0, <2>5
  <2>13. TypeOK'
    BY <2>4, <2>10, <2>12 DEF TypeOK
  <2> QED BY <2>10, <2>11, <2>13
<1>17. ASSUME NEW h \in Handler, Conflict(h) PROVE IInv'
  <2> DEFINE v == [req[h] EXCEPT !.at = "conflict"]
  <2>1. /\ v \in Flight /\ v.at = "conflict" /\ v.row = req[h].row
        /\ v.token = req[h].token /\ v.tries = req[h].tries
        /\ v.slipped = req[h].slipped /\ v.key = req[h].key
    BY <1>5 DEF Flight
  <2>2. /\ RestTyped' /\ UNCHANGED <<row, consents, lock>>
        /\ req[h].at = "persist" /\ req' = [req EXCEPT ![h] = v]
    BY <1>5, <1>17 DEF Conflict, stored, redis, RestTyped
  <2>3. /\ lock[req[h].key] = h \/ req[h].slipped
        /\ row[req[h].row].status # "none"
        /\ req[h].token[1] <= consents /\ req[h].tries < WriteAttempts
    BY <2>2, LeaseOf DEF Leased, Kept, RowExists, NoFutureConsent,
                TriesBounded, Working
  <2> HIDE DEF v
  <2> QED BY <2>1, <2>2, <2>3, FlightStep
<1>18. ASSUME NEW h \in Handler, Resolve(h) PROVE IInv'
  <2>1. /\ RestTyped' /\ UNCHANGED <<row, consents, lock>>
        /\ req[h].at = "conflict"
    BY <1>5, <1>18 DEF Resolve, stored, redis, RestTyped
  <2>2. /\ lock[req[h].key] = h \/ req[h].slipped
        /\ row[req[h].row].status # "none"
        /\ req[h].token[1] <= consents /\ req[h].tries < WriteAttempts
    BY <2>1, LeaseOf DEF Leased, Kept, RowExists, NoFutureConsent,
                TriesBounded, Working
  <2>3. CASE Finish(h)
    <3>1. PICK v \in Flight : /\ req' = [req EXCEPT ![h] = v]
                              /\ v.at = "publish"
                              /\ v.slipped = req[h].slipped /\ v.key = req[h].key
      BY <2>3, FinishMoves
    <3> QED BY <2>1, <2>2, <3>1, FlightStops DEF Working
  <2>4. CASE ~Finish(h)
    <3>1. /\ ~(\A r \in Active : PeerIsFresh(r))
          /\ req[h].tries + 1 # WriteAttempts
      BY <1>18, <2>4 DEF Resolve
    <3>2. PICK r \in Active :
            req' = [req EXCEPT ![h].at = "persist", ![h].tries = @ + 1,
                               ![h].version = row[r].version]
      BY <1>18, <2>4 DEF Resolve
    <3>3. r \in Rows /\ ~PeerIsFresh(r)
      BY <3>1 DEF Active, Kept, OneActive
    <3>4. row[r].fresh \in {"over", "forever"}
      BY <1>5, <3>3 DEF PeerIsFresh, Row
    <3> DEFINE v == [req[h] EXCEPT !.at = "persist", !.tries = req[h].tries + 1,
                                   !.version = row[r].version]
    <3>5. /\ req[h].tries + 1 \in 0..(CallAttempts + WriteAttempts)
          /\ req[h].tries + 1 < WriteAttempts
      BY <1>5, <2>2, <3>1, Constants
    <3>6. /\ v \in Flight /\ v.at = "persist" /\ v.row = req[h].row
          /\ v.token = req[h].token /\ v.tries = req[h].tries + 1
          /\ v.slipped = req[h].slipped /\ v.key = req[h].key
          /\ v.version = row[r].version
      BY <1>5, <3>3, <3>5 DEF Flight
    <3>7. req' = [req EXCEPT ![h] = v]
      BY <1>0, <3>2
    <3> HIDE DEF v
    <3>8. v.row \in Active => Tells(v)
      <4>1. v.row \in Active => v.row = r
        BY DEF Kept, OneActive
      <4> QED BY <3>4, <3>6, <4>1 DEF Tells
    <3> QED BY <2>1, <2>2, <3>5, <3>6, <3>7, <3>8, FlightStep
  <2> QED BY <2>3, <2>4
<1>19. ASSUME NEW h \in Handler, Publish(h) PROVE IInv'
  <2> DEFINE v == [req[h] EXCEPT !.at = "release"]
  <2>1. /\ v \in Flight /\ v.at = "release"
        /\ v.slipped = req[h].slipped /\ v.key = req[h].key
    BY <1>5 DEF Flight
  <2>2. /\ UNCHANGED <<row, consents, turn, lock, circuit, lost>>
        /\ result' = [result EXCEPT ![req[h].key] = TRUE]
        /\ req' = [req EXCEPT ![h] = v]
    BY <1>19 DEF Publish, stored
  <2>3. RestTyped'
    <3>1. result' \in [Rows -> BOOLEAN]
      BY <1>5, <2>2 DEF RestTyped
    <3> QED BY <1>5, <2>2, <3>1 DEF RestTyped
  <2>4. lock[req[h].key] = h \/ req[h].slipped
    BY <1>19, LeaseOf DEF Publish, Leased
  <2> HIDE DEF v
  <2> QED BY <2>1, <2>2, <2>3, <2>4, FlightStops DEF Working
<1>20. ASSUME NEW h \in Handler, Release(h) PROVE IInv'
  <2>1. /\ UNCHANGED <<row, consents>> /\ RestTyped'
        /\ req' = [req EXCEPT ![h] = Idle]
        /\ \A g \in Handler \ {h}, k \in Rows : lock[k] = g => lock'[k] = g
    BY <1>5, <1>20 DEF Release, stored, RestTyped
  <2> QED BY <2>1, IdleFields, FlightStops DEF Leased, Working
<1>21. ASSUME NEW k \in Rows, LeaseLapses(k) PROVE IInv'
  <2>1. lock[k] \notin Past(k) /\ lock' = [lock EXCEPT ![k] = None]
    BY <1>21 DEF LeaseLapses
  <2>2. UNCHANGED <<row, consents, turn, result, circuit, req, lost>>
    BY <1>21 DEF LeaseLapses, stored
  <2>3. TypeOK'
    BY <2>1, <2>2 DEF TypeOK
  <2>4. Kept'
    BY <2>2 DEF Kept, TriesBounded, OneActive, RowExists, NoFutureConsent,
                VersionTells, Tells, Active
  <2>5. OneRefresher'
    BY <2>1, <2>2 DEF OneRefresher, Past, TypeOK
  <2> QED BY <2>3, <2>4, <2>5
<1>22. ASSUME NEW k \in Rows, LeaseSlips(k) PROVE IInv'
  <2>1. PICK h \in Handler : lock[k] = h /\ req[h].key = k
    BY <1>22 DEF LeaseSlips, Past
  <2> DEFINE v == [req[h] EXCEPT !.slipped = TRUE]
  <2>2. /\ v \in Flight /\ v.at = req[h].at /\ v.slipped /\ v.tries = req[h].tries
        /\ v.row = req[h].row /\ v.token = req[h].token
        /\ v.version = req[h].version
    <3>1. req[h] \in Flight
      BY <1>5
    <3> QED BY <3>1 DEF Flight
  <2>3. /\ UNCHANGED <<row, consents, turn, result, circuit>>
        /\ lock' = [lock EXCEPT ![k] = None] /\ req' = [req EXCEPT ![h] = v]
    BY <1>22, <2>1 DEF LeaseSlips, stored
  <2>4. RestTyped'
    <3>1. lost' \subseteq Consents
      BY <1>5, <1>22, <2>1 DEF LeaseSlips, Drop, RestTyped
    <3> QED BY <1>5, <2>3, <3>1 DEF RestTyped
  <2>5. \A g \in Handler \ {h}, q \in Rows : lock[q] = g => lock'[q] = g
    BY <1>5, <2>1, <2>3 DEF RestTyped
  <2>6. /\ req[h].at \in {"persist", "conflict"} => req[h].tries < WriteAttempts
        /\ req[h].at \in Working => /\ row[req[h].row].status # "none"
                                    /\ req[h].token[1] <= consents
        /\ req[h].at \in {"call", "persist"} /\ req[h].row \in Active =>
              Tells(req[h])
    BY DEF Kept, TriesBounded, RowExists, NoFutureConsent, VersionTells
  <2> HIDE DEF v
  <2>7. v.at \in {"call", "persist"} /\ v.row \in Active => Tells(v)
    BY <2>2, <2>6 DEF Tells
  <2> QED BY <2>2, <2>3, <2>4, <2>5, <2>6, <2>7, FlightStep
<1>23. ASSUME CircuitExpires \/ \E k \in Rows : ResultExpires(k) PROVE IInv'
  <2>1. UNCHANGED <<row, consents, turn, lock, req, lost>>
    BY <1>23 DEF ResultExpires, CircuitExpires, stored
  <2>2. result' \in [Rows -> BOOLEAN]
    BY <1>5, <1>23 DEF ResultExpires, CircuitExpires, RestTyped
  <2>3. circuit' \in BOOLEAN
    BY <1>5, <1>23 DEF ResultExpires, CircuitExpires, RestTyped
  <2>4. TypeOK' /\ OneRefresher'
    BY <2>1, <2>2, <2>3 DEF TypeOK, OneRefresher, Past
  <2>5. Kept'
    BY <2>1 DEF Kept, TriesBounded, OneActive, RowExists, NoFutureConsent,
                VersionTells, Tells, Active
  <2> QED BY <2>4, <2>5
<1>24. ASSUME NEW h \in Handler, HangUp(h) PROVE IInv'
  <2>1. /\ UNCHANGED <<row, consents, turn, lock, result, circuit>>
        /\ lost' \subseteq Consents
    BY <1>5, <1>24 DEF HangUp, Drop, stored, redis, RestTyped
  <2>2. RestTyped'
    BY <1>5, <2>1 DEF RestTyped
  <2>3. CASE req[h].at \in {"doom", "look"}
    <3>1. req' = [req EXCEPT ![h] = Idle]
      BY <1>24, <2>3 DEF HangUp
    <3> QED BY <2>1, <2>2, <3>1, IdleFields, FlightStops DEF Leased, Working
  <2>4. CASE req[h].at \notin {"doom", "look"}
    <3> DEFINE v == Over(h, "release")
    <3>1. req' = [req EXCEPT ![h] = v]
      BY <1>24, <2>4 DEF HangUp
    <3>3. /\ v \in Flight /\ v.at = "release"
          /\ v.slipped = req[h].slipped /\ v.key = req[h].key
      BY OverFlight
    <3>4. req[h] \in Flight /\ req[h].at # "idle"
      BY <1>5, <1>24 DEF HangUp
    <3>5. req[h].at \in Leased
      BY <2>4, <3>4 DEF Flight, Leased
    <3>6. lock[req[h].key] = h \/ req[h].slipped
      BY <3>5, LeaseOf
    <3> HIDE DEF v
    <3> QED BY <2>1, <2>2, <3>1, <3>3, <3>6, FlightStops DEF Working
  <2> QED BY <2>3, <2>4
<1>25. ASSUME NEW h \in Handler, Crash(h) PROVE IInv'
  <2>1. /\ UNCHANGED <<row, consents, turn, lock, result, circuit>>
        /\ lost' \subseteq Consents
        /\ req' = [req EXCEPT ![h] = Idle]
    BY <1>5, <1>25 DEF Crash, Drop, stored, redis, RestTyped
  <2>2. RestTyped'
    BY <1>5, <2>1 DEF RestTyped
  <2> QED BY <2>1, <2>2, IdleFields, FlightStops DEF Leased, Working
<1>26. ASSUME NEW h \in Handler, Refresh(h) PROVE IInv'
  BY <1>7, <1>8, <1>9, <1>10, <1>11, <1>13, <1>14, <1>15, <1>16, <1>17, <1>18,
     <1>19, <1>20, <1>26 DEF Refresh
<1> QED BY <1>1, <1>2, <1>3, <1>4, <1>6, <1>21, <1>22, <1>23, <1>24, <1>25, <1>26
        DEF Next

LEMMA Inductive == Spec => []IInv
<1>1. Init => IInv
  BY InitIInv
<1>2. IInv /\ [Next]_vars => IInv'
  BY NextIInv
<1> QED BY <1>1, <1>2, PTL DEF Spec

\* The tables, the keys in Redis and the flights keep their shapes; attempts
\* stay within their limits.
THEOREM RefreshTyped == Spec => []TypeOK
<1>1. IInv => TypeOK
  BY DEF IInv
<1> QED BY <1>1, Inductive, PTL

\* However many processes find the token about to lapse, and whoever hangs up,
\* dies or releases late: of the flights past SetNXTTL for a row one holds its
\* lease, and the others have lost it.
THEOREM OneRefresherTheorem == Spec => []OneRefresher
<1>1. IInv => OneRefresher
  BY DEF IInv
<1> QED BY <1>1, Inductive, PTL

LEMMA StepReconnectStands ==
    IInv /\ [Next]_vars =>
        [\A r \in Active : row'[r].token[1] < row[r].token[1] =>
            row[r].fresh \in {"over", "forever"}]_vars
<1> SUFFICES ASSUME IInv, [Next]_vars, NEW r \in Active,
                    row'[r].token[1] < row[r].token[1]
             PROVE  row[r].fresh \in {"over", "forever"}
  OBVIOUS
<1>0. /\ r \in Rows /\ row[r] \in Row /\ row \in [Rows -> Row]
      /\ req \in [Handler -> Flight] /\ consents \in Nat
      /\ row[r].token[1] \in Nat /\ row[r].token[1] <= consents
  <2>1. r \in Rows /\ row \in [Rows -> Row] /\ consents \in 0..MaxConsents
    BY DEF Active, IInv, TypeOK
  <2>2. row[r].token \in Token
    BY <2>1 DEF Row
  <2> QED BY <2>1, <2>2, Constants
          DEF IInv, TypeOK, Kept, NoFutureConsent, Token, Consents
<1>1. ~(row'[r].token = row[r].token)
  BY <1>0
<1>2. CASE \E q \in Rows, renews \in BOOLEAN,
              fresh \in {"fresh", "due", "over", "forever"} :
              Connect(q, renews, fresh)
  <2>1. PICK q \in Rows, renews \in BOOLEAN,
             fresh \in {"fresh", "due", "over", "forever"} :
          Connect(q, renews, fresh)
    BY <1>2
  <2>2. q = r => row'[r].token = <<consents + 1, 0>>
    BY <1>0, <2>1 DEF Connect
  <2>3. q # r => row'[r] = row[r]
    BY <1>0, <2>1 DEF Connect
  <2> QED BY <1>0, <1>1, <2>2, <2>3
<1>3. CASE \E h \in Handler : Persist(h)
  <2>1. PICK h \in Handler : Persist(h)
    BY <1>3
  <2>2. req[h].row \in Rows
    BY <1>0 DEF Flight
  <2>3. req[h].row = r
    BY <1>0, <1>1, <2>1, <2>2 DEF Persist
  <2>4. row'[r].token = req[h].token
    <3>1. row'[r] = Stored(r, req[h].token) /\ req[h].token \in Token
      BY <1>0, <2>1, <2>3 DEF Persist, Flight
    <3> QED BY <1>0, <3>1, StoredRow
  <2>5. req[h].at = "persist" /\ row[r].version = req[h].version
    BY <2>1, <2>3 DEF Persist, Matches
  <2>6. Tells(req[h])
    BY <2>3, <2>5 DEF IInv, Kept, VersionTells
  <2>7. row[r].version \in Nat /\ req[h].token[1] \in Nat
    <3>1. req[h].token \in Token /\ row[r].version \in Nat
      BY <1>0 DEF Flight, Row
    <3> QED BY <3>1, Constants DEF Token, Consents
  <2> QED BY <1>0, <2>3, <2>4, <2>5, <2>6, <2>7 DEF Tells
<1>4. CASE row' = row
  BY <1>1, <1>4
<1>5. CASE \E q \in Rows : Revoke(q) \/ Lapse(q)
  <2>1. PICK q \in Rows : Revoke(q) \/ Lapse(q)
    BY <1>5
  <2>2. row'[r].token = row[r].token
    <3>1. CASE Lapse(q)
      BY <1>0, <3>1 DEF Lapse, Row
    <3>2. CASE Revoke(q)
      <4>1. row' = [row EXCEPT ![q] = Ended(q, "revoked")] /\ row[q] \in Row
        BY <1>0, <3>2 DEF Revoke
      <4> QED BY <1>0, <4>1, EndedRow
    <3> QED BY <2>1, <3>1, <3>2
  <2> QED BY <1>1, <2>2
<1>6. CASE \E h \in Handler : MarkExpired(h)
  <2>1. PICK h \in Handler : MarkExpired(h)
    BY <1>6
  <2>2. row'[r].token = row[r].token
    BY <1>0, <2>1 DEF MarkExpired, Ended, Row, Active
  <2> QED BY <1>1, <2>2
<1>7. ASSUME NEW h \in Handler, NEW q \in Rows, Begin(h, q) PROVE row' = row
  BY <1>7 DEF Begin, stored
<1>8. ASSUME NEW h \in Handler, Refresh(h), ~Persist(h), ~MarkExpired(h)
      PROVE  row' = row
  BY <1>8 DEF Refresh, Share, Acquire, Reread, Refused, Call, AnswerLost,
              Unusable, Conflict, Resolve, Publish, Release, stored
<1>9. ASSUME \/ \E h \in Handler : HangUp(h) \/ Crash(h)
             \/ \E k \in Rows : LeaseLapses(k) \/ LeaseSlips(k) \/ ResultExpires(k)
             \/ CircuitExpires
             \/ UNCHANGED vars
      PROVE  row' = row
  BY <1>9 DEF HangUp, Crash, LeaseLapses, LeaseSlips, ResultExpires,
              CircuitExpires, stored, vars
<1> QED BY <1>2, <1>3, <1>4, <1>5, <1>6, <1>7, <1>8, <1>9 DEF Next

\* For any number of flights that were at the provider when the subject
\* reconnected: none of them writes its older consent over the newer one while
\* that one has an expiry and has not reached it.
THEOREM ReconnectTheorem == Spec => ReconnectStands
<1>1. IInv /\ [Next]_vars =>
        [\A r \in Active : row'[r].token[1] < row[r].token[1] =>
            row[r].fresh \in {"over", "forever"}]_vars
  BY StepReconnectStands
<1> QED BY <1>1, Inductive, PTL DEF Spec, ReconnectStands

-----------------------------------------------------------------------------
(* What becomes of a rotated refresh token *)

Carrying == {"persist", "conflict"}

\* A consent that is still to come has not been stored or spent.
FutureUnspent ==
    /\ \A r \in Rows : row[r].status # "none" => row[r].token[1] <= consents
    /\ \A c \in Consents : c > consents => turn[c] = 0

\* A consent belongs to one row: to the one it was stored in, and the flights
\* that renew it are that row's.
RowsApart ==
    \A r, s \in Rows :
        /\ row[r].status # "none" /\ row[s].status # "none"
        /\ row[r].token[1] = row[s].token[1]
        => r = s

Home(f) ==
    \A s \in Rows :
        row[s].status # "none" /\ row[s].token[1] = f.token[1] => s = f.row

FlightsHome ==
    \A h \in Handler : req[h].at \in Working =>
        /\ Home(req[h])
        /\ \A g \in Handler :
              req[g].at \in Working /\ req[g].token[1] = req[h].token[1] =>
                  req[g].row = req[h].row

\* A flight without the lease of the row it refreshes.
Bared(f) == f.slipped \/ f.key # f.row

\* A flight carries the token the provider gave out last, and has the lease of
\* its row, unless the consent is given up as lost.
Carries(f) ==
    f.at \in Carrying =>
        \/ f.token[1] \in lost
        \/ turn[f.token[1]] = f.token[2] /\ ~Bared(f)

\* If its row still has the consent it renews, the row is as the flight read
\* it, or the flight is without its lease; a conflict is the second case.
Reads(f) ==
    f.at \in Working /\ f.row \in Active /\ row[f.row].token[1] = f.token[1] =>
        \/ f.token[1] \in lost
        \/ f.at # "conflict" /\ (f.version = row[f.row].version \/ Bared(f))

FlightsTell == \A h \in Handler : Carries(req[h]) /\ Reads(req[h])

TokenInv ==
    /\ FutureUnspent
    /\ RowsApart
    /\ FlightsHome
    /\ FlightsTell
    /\ RotatedTokenKept

LEMMA FlightFields ==
    ASSUME NEW f \in Flight
    PROVE  /\ f.row \in Rows /\ f.token \in Token /\ f.token[1] \in Consents
           /\ f.token = <<f.token[1], f.token[2]>>
BY DEF Flight, Token

LEMMA MovedFlight ==
    ASSUME IInv, NEW h \in Handler, NEW v, req' = [req EXCEPT ![h] = v]
    PROVE  req'[h] = v /\ \A g \in Handler \ {h} : req'[g] = req[g]
BY DEF IInv, TypeOK

\* A step that moves one flight and leaves table and provider alone: a flight
\* that stops carrying its row's consent must have given it up.
LEMMA TokenFlight ==
    ASSUME IInv, TokenInv, NEW h \in Handler, NEW v \in Flight,
           UNCHANGED stored, req' = [req EXCEPT ![h] = v], lost \subseteq lost',
           v.at \in Working =>
              /\ Home(v)
              /\ \A g \in Handler \ {h} :
                    req[g].at \in Working /\ req[g].token[1] = v.token[1] =>
                        req[g].row = v.row,
           Carries(v)', Reads(v)',
           /\ req[h].at \in Carrying /\ req[h].row \in Active
           /\ row[req[h].row].token[1] = req[h].token[1]
           => \/ req[h].token[1] \in lost'
              \/ v.at \in Carrying /\ v.row = req[h].row /\ v.token = req[h].token
    PROVE  TokenInv'
<1>1. UNCHANGED <<row, consents, turn>> /\ Active' = Active
  BY DEF stored, Active
<1>2. req'[h] = v /\ \A g \in Handler \ {h} : req'[g] = req[g]
  BY MovedFlight
<1>3. FutureUnspent' /\ RowsApart'
  BY <1>1 DEF TokenInv, FutureUnspent, RowsApart
<1>4. FlightsHome'
  BY <1>1, <1>2 DEF TokenInv, FlightsHome, Home
<1>5. FlightsTell'
  <2> SUFFICES ASSUME NEW g \in Handler PROVE Carries(req[g])' /\ Reads(req[g])'
    BY DEF FlightsTell
  <2>1. CASE g = h
    BY <1>2, <2>1 DEF Carries, Reads
  <2>2. CASE g # h
    BY <1>1, <1>2, <2>2 DEF TokenInv, FlightsTell, Carries, Reads
  <2> QED BY <2>1, <2>2
<1>6. RotatedTokenKept'
  <2> SUFFICES ASSUME NEW r \in Active', row'[r].renews,
                      turn'[row'[r].token[1]] # row'[r].token[2],
                      row'[r].token[1] \notin lost'
               PROVE  \E g \in Handler :
                         /\ req'[g].at \in {"persist", "conflict"} /\ req'[g].row = r
                         /\ req'[g].token = <<row'[r].token[1], turn'[row'[r].token[1]]>>
    BY Zenon DEF RotatedTokenKept, Accepts
  <2>1. PICK g \in Handler :
           /\ req[g].at \in {"persist", "conflict"} /\ req[g].row = r
           /\ req[g].token = <<row[r].token[1], turn[row[r].token[1]]>>
    BY <1>1 DEF TokenInv, RotatedTokenKept, Accepts
  <2>2. CASE g = h
    BY <1>1, <1>2, <2>1, <2>2 DEF Carrying
  <2>3. CASE g # h
    BY <1>1, <1>2, <2>1, <2>3
  <2> QED BY <2>2, <2>3
<1> QED BY <1>3, <1>4, <1>5, <1>6 DEF TokenInv

\* The same for a flight that is not at work afterwards,
LEMMA TokenStops ==
    ASSUME IInv, TokenInv, NEW h \in Handler, NEW v \in Flight,
           UNCHANGED stored, req' = [req EXCEPT ![h] = v], lost \subseteq lost',
           v.at \notin Working,
           /\ req[h].at \in Carrying /\ req[h].row \in Active
           /\ row[req[h].row].token[1] = req[h].token[1]
           => req[h].token[1] \in lost'
    PROVE  TokenInv'
BY TokenFlight DEF Working, Carrying, Carries, Reads

\* and for one that goes on with its row and its token.
LEMMA TokenGoesOn ==
    ASSUME IInv, TokenInv, NEW h \in Handler, NEW v \in Flight,
           UNCHANGED stored, req' = [req EXCEPT ![h] = v], lost \subseteq lost',
           req[h].at \in Working, v.row = req[h].row, v.token = req[h].token,
           req[h].at \in Carrying => v.at \in Carrying,
           Carries(v)', Reads(v)'
    PROVE  TokenInv'
<1>1. Home(v) /\ \A g \in Handler \ {h} :
                    req[g].at \in Working /\ req[g].token[1] = v.token[1] =>
                        req[g].row = v.row
  BY DEF TokenInv, FlightsHome, Home
<1> QED BY <1>1, TokenFlight

\* Of two flights that work on a row, one is without its lease.
LEMMA OneBared ==
    ASSUME IInv, NEW h \in Handler, NEW g \in Handler, g # h,
           req[h].at \in Working, req[g].at \in Working, req[g].row = req[h].row
    PROVE  Bared(req[h]) \/ Bared(req[g])
<1>1. /\ lock[req[h].key] = h \/ req[h].slipped
      /\ lock[req[g].key] = g \/ req[g].slipped
  BY LeaseOf DEF IInv, Working, Leased
<1> QED BY <1>1 DEF Bared

\* The provider takes the token of flight h and answers u, and the answer
\* reaches the flight or is lost.
LEMMA TokenCall ==
    ASSUME IInv, TokenInv, NEW h \in Handler, NEW v \in Flight, NEW u \in Token,
           req[h].at = "call", u[1] = req[h].token[1],
           row' = row, consents' = consents, turn' = [turn EXCEPT ![u[1]] = u[2]],
           req' = [req EXCEPT ![h] = v], lost \subseteq lost',
           u[1] \in lost' \/ (v.at = "persist" /\ ~Bared(v) /\ ~Bared(req[h])),
           v.at \in Working =>
              /\ v.at \in {"call", "persist"} /\ v.row = req[h].row
              /\ v.token[1] = u[1] /\ v.version = req[h].version
              /\ v.slipped = req[h].slipped /\ v.key = req[h].key,
           v.at = "persist" => v.token = u
    PROVE  TokenInv'
<1>1. Active' = Active
  BY DEF Active
<1>2. req'[h] = v /\ \A g \in Handler \ {h} : req'[g] = req[g]
  BY MovedFlight
<1>3. /\ turn \in [Consents -> 0..MaxTurns] /\ u[1] \in Consents /\ u = <<u[1], u[2]>>
      /\ turn'[u[1]] = u[2] /\ \A c \in Consents : c # u[1] => turn'[c] = turn[c]
  BY DEF IInv, TypeOK, Token
<1>4. u[1] <= consents /\ u[1] \in Nat /\ consents \in Nat
  BY <1>3, Constants DEF IInv, TypeOK, Kept, NoFutureConsent, Working, Consents
<1>5. FutureUnspent'
  <2>1. \A c \in Consents : c > consents => turn'[c] = 0
    <3> SUFFICES ASSUME NEW c \in Consents, c > consents PROVE turn'[c] = 0
      OBVIOUS
    <3>1. c # u[1]
      BY <1>4 DEF Consents
    <3> QED BY <1>3, <3>1 DEF TokenInv, FutureUnspent
  <2> QED BY <2>1 DEF TokenInv, FutureUnspent
<1>6. RowsApart'
  BY DEF TokenInv, RowsApart
<1>7. FlightsHome'
  BY <1>2 DEF TokenInv, FlightsHome, Home, Working
<1>8. FlightsTell'
  <2> SUFFICES ASSUME NEW g \in Handler PROVE Carries(req[g])' /\ Reads(req[g])'
    BY DEF FlightsTell
  <2>1. Carries(req[g]) /\ Reads(req[g]) /\ Reads(req[h])
    BY DEF TokenInv, FlightsTell
  <2>2. CASE g = h
    <3>1. Carries(v)'
      BY <1>3 DEF Carries, Carrying, Working
    <3>2. Reads(v)'
      BY <1>1, <2>1 DEF Reads, Working
    <3> QED BY <1>2, <2>2, <3>1, <3>2 DEF Carries, Reads
  <2>3. CASE g # h
    <3>1. Reads(req[g])'
      BY <1>1, <1>2, <2>1, <2>3 DEF Reads
    <3>2. CASE req[g].token[1] # u[1]
      <4>1. req[g].token[1] \in Consents
        BY FlightFields DEF IInv, TypeOK
      <4>2. Carries(req[g])'
        BY <1>2, <1>3, <2>1, <2>3, <3>2, <4>1 DEF Carries
      <4> QED BY <3>1, <4>2
    <3>3. CASE req[g].token[1] = u[1]
      <4>1. req[g].at \in Carrying => u[1] \in lost'
        <5> SUFFICES ASSUME req[g].at \in Carrying PROVE u[1] \in lost'
          OBVIOUS
        <5>1. req[g].at \in Working /\ req[h].at \in Working
          BY DEF Carrying, Working
        <5>2. req[g].row = req[h].row
          BY <3>3, <5>1 DEF TokenInv, FlightsHome
        <5>3. Bared(req[h]) \/ Bared(req[g])
          BY <2>3, <5>1, <5>2, OneBared
        <5> QED BY <2>1, <3>3, <5>3 DEF Carries
      <4>2. Carries(req[g])'
        BY <1>2, <2>3, <3>3, <4>1 DEF Carries
      <4> QED BY <3>1, <4>2
    <3> QED BY <3>2, <3>3
  <2> QED BY <2>2, <2>3
<1>9. RotatedTokenKept'
  <2> SUFFICES ASSUME NEW r \in Active', row'[r].renews,
                      turn'[row'[r].token[1]] # row'[r].token[2],
                      row'[r].token[1] \notin lost'
               PROVE  \E g \in Handler :
                         /\ req'[g].at \in {"persist", "conflict"} /\ req'[g].row = r
                         /\ req'[g].token = <<row'[r].token[1], turn'[row'[r].token[1]]>>
    BY Zenon DEF RotatedTokenKept, Accepts
  <2>0. r \in Rows /\ row[r].status # "none" /\ row[r].token[1] \in Consents
    BY <1>1 DEF Active, IInv, TypeOK, Row, Token
  <2>1. CASE row[r].token[1] = u[1]
    <3>1. r = req[h].row
      BY <2>0, <2>1 DEF TokenInv, FlightsHome, Home, Working
    <3>2. v.at = "persist" /\ v.token = u /\ v.row = r
      BY <2>1, <3>1 DEF Working
    <3> QED BY <1>2, <1>3, <2>1, <3>2
  <2>2. CASE row[r].token[1] # u[1]
    <3>1. turn'[row[r].token[1]] = turn[row[r].token[1]]
      BY <1>3, <2>0, <2>2
    <3>2. PICK g \in Handler :
             /\ req[g].at \in {"persist", "conflict"} /\ req[g].row = r
             /\ req[g].token = <<row[r].token[1], turn[row[r].token[1]]>>
      BY <1>1, <3>1 DEF TokenInv, RotatedTokenKept, Accepts
    <3> QED BY <1>2, <3>1, <3>2
  <2> QED BY <2>1, <2>2
<1> QED BY <1>5, <1>6, <1>7, <1>8, <1>9 DEF TokenInv

LEMMA TokenKeeper ==
    ASSUME TokenInv, NEW r \in Active, row[r].renews,
           turn[row[r].token[1]] # row[r].token[2], row[r].token[1] \notin lost
    PROVE  \E g \in Handler :
              /\ req[g].at \in {"persist", "conflict"} /\ req[g].row = r
              /\ req[g].token = <<row[r].token[1], turn[row[r].token[1]]>>
BY Zenon DEF TokenInv, RotatedTokenKept, Accepts

LEMMA WrittenRow ==
    ASSUME IInv, NEW r \in Rows, NEW w, row' = [row EXCEPT ![r] = w],
           w.status # "none"
    PROVE  /\ row'[r] = w /\ \A s \in Rows \ {r} : row'[s] = row[s]
           /\ \A s \in Rows \ {r} : s \in Active' <=> s \in Active
           /\ r \in Active' <=> w.status = "active"
BY DEF IInv, TypeOK, Active

\* A row that is revoked, marked or grows old keeps its token.
LEMMA TokenRow ==
    ASSUME IInv, TokenInv, NEW r \in Active, NEW w \in Row,
           row' = [row EXCEPT ![r] = w], w.status # "none",
           w.token = row[r].token, w.version = row[r].version,
           w.status = "active" => w.renews = row[r].renews,
           UNCHANGED <<consents, turn, lost>>,
           \A g \in Handler : \/ req'[g] = req[g]
                              \/ req[g].at \notin Working /\ req'[g].at \notin Working
    PROVE  TokenInv'
<1>1. r \in Rows /\ row[r].status # "none"
  BY DEF Active
<1>2. /\ row'[r] = w /\ \A s \in Rows \ {r} : row'[s] = row[s]
      /\ Active' \subseteq Active /\ (r \in Active' => w.status = "active")
  BY <1>1, WrittenRow DEF Active
<1>3. \A s \in Rows : /\ row'[s].status # "none" => row[s].status # "none"
                      /\ row'[s].token = row[s].token
                      /\ row'[s].version = row[s].version
  BY <1>1, <1>2
<1>4. FutureUnspent' /\ RowsApart'
  BY <1>3 DEF TokenInv, FutureUnspent, RowsApart
<1>5. FlightsHome'
  BY <1>3 DEF TokenInv, FlightsHome, Home
<1>6. FlightsTell'
  <2> SUFFICES ASSUME NEW g \in Handler PROVE Carries(req[g])' /\ Reads(req[g])'
    BY DEF FlightsTell
  <2>1. CASE req'[g] = req[g]
    <3>1. req[g].row \in Rows
      BY DEF IInv, TypeOK, Flight
    <3>2. Carries(req[g]) /\ Reads(req[g])
      BY DEF TokenInv, FlightsTell
    <3> QED BY <1>2, <1>3, <2>1, <3>1, <3>2 DEF Carries, Reads
  <2>2. CASE req'[g].at \notin Working
    BY <2>2 DEF Carries, Reads, Carrying, Working
  <2> QED BY <2>1, <2>2
<1>7. RotatedTokenKept'
  <2> SUFFICES ASSUME NEW q \in Active', row'[q].renews,
                      turn'[row'[q].token[1]] # row'[q].token[2],
                      row'[q].token[1] \notin lost'
               PROVE  \E g \in Handler :
                         /\ req'[g].at \in {"persist", "conflict"} /\ req'[g].row = q
                         /\ req'[g].token = <<row'[q].token[1], turn'[row'[q].token[1]]>>
    BY Zenon DEF RotatedTokenKept, Accepts
  <2>1. q \in Active /\ q \in Rows
    BY <1>2 DEF Active
  <2>2. /\ row[q].renews /\ row'[q].token = row[q].token
        /\ turn[row[q].token[1]] # row[q].token[2] /\ row[q].token[1] \notin lost
    BY <1>1, <1>2, <1>3, <2>1
  <2>3. PICK g \in Handler :
           /\ req[g].at \in {"persist", "conflict"} /\ req[g].row = q
           /\ req[g].token = <<row[q].token[1], turn[row[q].token[1]]>>
    BY <2>1, <2>2, TokenKeeper, Zenon
  <2> QED BY <2>2, <2>3 DEF Working
<1> QED BY <1>4, <1>5, <1>6, <1>7 DEF TokenInv

\* The subject connects: a consent nobody has spent replaces the row's.
LEMMA TokenConnect ==
    ASSUME IInv, TokenInv, NEW r \in Rows, NEW w \in Row,
           consents + 1 \in Consents, consents' = consents + 1,
           row' = [row EXCEPT ![r] = w], w.status = "active",
           w.token = <<consents + 1, 0>>,
           UNCHANGED <<turn, req, lost>>
    PROVE  TokenInv'
<1>1. /\ row'[r] = w /\ \A s \in Rows \ {r} : row'[s] = row[s]
      /\ \A s \in Rows \ {r} : s \in Active' <=> s \in Active
  BY WrittenRow
<1>2. /\ consents \in Nat /\ w.token[1] = consents + 1 /\ w.token[2] = 0
      /\ \A s \in Rows : row[s].token[1] \in Nat
      /\ \A g \in Handler : req[g].token[1] \in Nat /\ req[g].row \in Rows
  <2>1. consents \in Nat /\ Consents \subseteq Nat
    BY Constants DEF IInv, TypeOK, Consents
  <2>2. \A s \in Rows : row[s].token[1] \in Consents
    BY DEF IInv, TypeOK, Row, Token
  <2>3. \A g \in Handler : req[g].token[1] \in Consents /\ req[g].row \in Rows
    BY DEF IInv, TypeOK, Flight, Token
  <2>4. w.token[1] = consents + 1 /\ w.token[2] = 0
    OBVIOUS
  <2>5. \A s \in Rows : row[s].token[1] \in Nat
    BY <2>1, <2>2
  <2>6. \A g \in Handler : req[g].token[1] \in Nat /\ req[g].row \in Rows
    BY <2>1, <2>3
  <2> QED BY <2>1, <2>4, <2>5, <2>6
<1>3. /\ \A s \in Rows : row[s].status # "none" => row[s].token[1] # consents + 1
      /\ \A g \in Handler : req[g].at \in Working => req[g].token[1] # consents + 1
  BY <1>2 DEF TokenInv, FutureUnspent, IInv, Kept, NoFutureConsent
<1>4. FutureUnspent'
  <2>1. \A s \in Rows : row'[s].status # "none" => row'[s].token[1] <= consents'
    <3> SUFFICES ASSUME NEW s \in Rows, row'[s].status # "none"
                 PROVE  row'[s].token[1] <= consents'
      OBVIOUS
    <3>1. CASE s = r
      BY <1>1, <1>2, <3>1
    <3>2. CASE s # r
      BY <1>1, <1>2, <3>2 DEF TokenInv, FutureUnspent
    <3> QED BY <3>1, <3>2
  <2>2. \A c \in Consents : c > consents' => turn'[c] = 0
    BY <1>2 DEF TokenInv, FutureUnspent, Consents
  <2> QED BY <2>1, <2>2 DEF FutureUnspent
<1>5. RowsApart'
  <2> SUFFICES ASSUME NEW p \in Rows, NEW s \in Rows,
                      row'[p].status # "none", row'[s].status # "none",
                      row'[p].token[1] = row'[s].token[1]
               PROVE  p = s
    BY DEF RowsApart
  <2>1. CASE p # r /\ s # r
    BY <1>1, <2>1 DEF TokenInv, RowsApart
  <2>2. CASE p = r \/ s = r
    BY <1>1, <1>2, <1>3, <2>2
  <2> QED BY <2>1, <2>2
<1>6. FlightsHome'
  <2> SUFFICES ASSUME NEW g \in Handler, req[g].at \in Working, NEW s \in Rows,
                      row'[s].status # "none", row'[s].token[1] = req[g].token[1]
               PROVE  s = req[g].row
    BY DEF TokenInv, FlightsHome, Home
  <2>1. s # r
    BY <1>1, <1>2, <1>3
  <2> QED BY <1>1, <2>1 DEF TokenInv, FlightsHome, Home
<1>7. FlightsTell'
  <2> SUFFICES ASSUME NEW g \in Handler PROVE Carries(req[g])' /\ Reads(req[g])'
    BY DEF FlightsTell
  <2>1. Carries(req[g]) /\ Reads(req[g])
    BY DEF TokenInv, FlightsTell
  <2>2. Carries(req[g])'
    BY <2>1 DEF Carries
  <2>3. CASE req[g].row = r
    BY <1>1, <1>2, <1>3, <2>2, <2>3 DEF Reads
  <2>4. CASE req[g].row # r
    BY <1>1, <1>2, <2>1, <2>2, <2>4 DEF Reads
  <2> QED BY <2>3, <2>4
<1>8. RotatedTokenKept'
  <2> SUFFICES ASSUME NEW q \in Active', row'[q].renews,
                      turn'[row'[q].token[1]] # row'[q].token[2],
                      row'[q].token[1] \notin lost'
               PROVE  \E g \in Handler :
                         /\ req'[g].at \in {"persist", "conflict"} /\ req'[g].row = q
                         /\ req'[g].token = <<row'[q].token[1], turn'[row'[q].token[1]]>>
    BY Zenon DEF RotatedTokenKept, Accepts
  <2>1. turn[consents + 1] = 0
    BY <1>2 DEF TokenInv, FutureUnspent
  <2>2. q \in Rows
    BY DEF Active
  <2>3. q # r
    BY <1>1, <1>2, <2>1
  <2>4. q \in Active /\ row'[q] = row[q]
    BY <1>1, <2>2, <2>3
  <2>5. /\ row[q].renews /\ row[q].token[1] \notin lost
        /\ turn[row[q].token[1]] # row[q].token[2]
    BY <2>4
  <2>6. PICK g \in Handler :
           /\ req[g].at \in {"persist", "conflict"} /\ req[g].row = q
           /\ req[g].token = <<row[q].token[1], turn[row[q].token[1]]>>
    BY <2>4, <2>5, TokenKeeper, Zenon
  <2> QED BY <2>4, <2>6
<1> QED BY <1>4, <1>5, <1>6, <1>7, <1>8 DEF TokenInv

\* A flight stores the token it carries under the version it read.
LEMMA TokenPersist ==
    ASSUME IInv, TokenInv, NEW h \in Handler, NEW v \in Flight, NEW w \in Row,
           NEW r \in Active, r = req[h].row, req[h].at = "persist",
           row' = [row EXCEPT ![r] = w], w.status = row[r].status,
           w.token = req[h].token,
           req' = [req EXCEPT ![h] = v], v.at \notin Working,
           UNCHANGED <<consents, turn, lost>>
    PROVE  TokenInv'
<1>1. r \in Rows /\ row[r].status # "none" /\ req[h].token[1] <= consents
  BY DEF Active, IInv, Kept, NoFutureConsent, Working
<1>2. /\ row'[r] = w /\ \A s \in Rows \ {r} : row'[s] = row[s]
      /\ \A s \in Rows : s \in Active' <=> s \in Active
  BY <1>1, WrittenRow DEF Active
<1>3. req'[h] = v /\ \A g \in Handler \ {h} : req'[g] = req[g]
  BY MovedFlight
<1>4. Carries(req[h]) /\ Home(req[h])
  BY DEF TokenInv, FlightsTell, FlightsHome, Working
<1>5. FutureUnspent'
  BY <1>1, <1>2 DEF TokenInv, FutureUnspent
<1>6. RowsApart'
  <2> SUFFICES ASSUME NEW p \in Rows, NEW s \in Rows,
                      row'[p].status # "none", row'[s].status # "none",
                      row'[p].token[1] = row'[s].token[1]
               PROVE  p = s
    BY DEF RowsApart
  <2>1. CASE p # r /\ s # r
    BY <1>2, <2>1 DEF TokenInv, RowsApart
  <2>2. CASE p = r \/ s = r
    BY <1>2, <1>4, <2>2 DEF Home
  <2> QED BY <2>1, <2>2
<1>7. FlightsHome'
  <2> SUFFICES ASSUME NEW g \in Handler, req'[g].at \in Working
               PROVE  /\ Home(req[g])'
                      /\ \A k \in Handler :
                            req'[k].at \in Working /\ req'[k].token[1] = req'[g].token[1] =>
                                req'[k].row = req'[g].row
    BY DEF FlightsHome
  <2>1. g # h /\ req'[g] = req[g]
    BY <1>3
  <2>2. Home(req[g])'
    <3> SUFFICES ASSUME NEW s \in Rows, row'[s].status # "none",
                        row'[s].token[1] = req[g].token[1]
                 PROVE  s = req[g].row
      BY <2>1 DEF Home
    <3>1. CASE s = r
      BY <1>2, <2>1, <3>1 DEF TokenInv, FlightsHome, Working
    <3>2. CASE s # r
      BY <1>2, <2>1, <3>2 DEF TokenInv, FlightsHome, Home
    <3> QED BY <3>1, <3>2
  <2>3. \A k \in Handler :
           req'[k].at \in Working /\ req'[k].token[1] = req'[g].token[1] =>
               req'[k].row = req'[g].row
    BY <1>3, <2>1 DEF TokenInv, FlightsHome
  <2> QED BY <2>2, <2>3
<1>8. FlightsTell'
  <2> SUFFICES ASSUME NEW g \in Handler PROVE Carries(req[g])' /\ Reads(req[g])'
    BY DEF FlightsTell
  <2>1. CASE g = h
    BY <1>3, <2>1 DEF Carries, Reads, Carrying, Working
  <2>2. CASE g # h
    <3>1. /\ req'[g] = req[g] /\ Carries(req[g]) /\ Reads(req[g])
          /\ req[g].row \in Rows
      BY <1>3, <2>2 DEF TokenInv, FlightsTell, IInv, TypeOK, Flight
    <3>2. Carries(req[g])'
      BY <3>1 DEF Carries
    <3>3. CASE req[g].row # r
      BY <1>2, <3>1, <3>2, <3>3 DEF Reads
    <3>4. CASE req[g].row = r
      <4>1. CASE req[h].token[1] \in lost
        BY <1>2, <3>1, <3>2, <3>4, <4>1 DEF Reads
      <4>2. CASE req[h].token[1] \notin lost /\ req[g].at \in Working
        <5>1. ~Bared(req[h])
          BY <1>4, <4>2 DEF Carries, Carrying
        <5>2. Bared(req[g])
          BY <2>2, <3>4, <4>2, <5>1, OneBared DEF Working
        <5>3. req[g].at = "conflict" => req[g].token[1] \in lost
          BY <3>1, <5>2 DEF Carries, Carrying
        <5> QED BY <1>2, <3>1, <3>2, <3>4, <5>2, <5>3 DEF Reads
      <4>3. CASE req[g].at \notin Working
        BY <3>1, <3>2, <4>3 DEF Reads
      <4> QED BY <4>1, <4>2, <4>3
    <3> QED BY <3>3, <3>4
  <2> QED BY <2>1, <2>2
<1>9. RotatedTokenKept'
  <2> SUFFICES ASSUME NEW q \in Active', row'[q].renews,
                      turn'[row'[q].token[1]] # row'[q].token[2],
                      row'[q].token[1] \notin lost'
               PROVE  \E g \in Handler :
                         /\ req'[g].at \in {"persist", "conflict"} /\ req'[g].row = q
                         /\ req'[g].token = <<row'[q].token[1], turn'[row'[q].token[1]]>>
    BY Zenon DEF RotatedTokenKept, Accepts
  <2>1. q \in Rows
    BY DEF Active
  <2>2. q # r
    BY <1>2, <1>4 DEF Carries, Carrying
  <2>3. /\ q \in Active /\ row'[q] = row[q]
        /\ row[q].renews /\ row[q].token[1] \notin lost
        /\ turn[row[q].token[1]] # row[q].token[2]
    BY <1>2, <2>1, <2>2
  <2>4. PICK g \in Handler :
           /\ req[g].at \in {"persist", "conflict"} /\ req[g].row = q
           /\ req[g].token = <<row[q].token[1], turn[row[q].token[1]]>>
    BY <2>3, TokenKeeper, Zenon
  <2> QED BY <1>3, <2>2, <2>3, <2>4
<1> QED BY <1>5, <1>6, <1>7, <1>8, <1>9 DEF TokenInv

\* A flight that is back at a row which is no longer active leaves no token.
LEMMA TokenDeadRow ==
    ASSUME IInv, TokenInv, NEW h \in Handler, NEW v \in Flight, NEW w \in Row,
           NEW r \in Rows, r = req[h].row, req[h].at = "persist", r \notin Active,
           row' = [row EXCEPT ![r] = w], w.status = row[r].status,
           w.token = row[r].token,
           req' = [req EXCEPT ![h] = v], v.at \notin Working,
           UNCHANGED <<consents, turn, lost>>
    PROVE  TokenInv'
<1>1. /\ row'[r] = w /\ \A s \in Rows \ {r} : row'[s] = row[s]
      /\ Active' = Active
  <2>1. row'[r] = w /\ \A s \in Rows \ {r} : row'[s] = row[s]
    BY DEF IInv, TypeOK
  <2>2. \A s \in Rows : row'[s].status = row[s].status
    BY <2>1
  <2> QED BY <2>1, <2>2 DEF Active
<1>2. req'[h] = v /\ \A g \in Handler \ {h} : req'[g] = req[g]
  BY MovedFlight
<1>3. \A s \in Rows : /\ row'[s].status = row[s].status
                      /\ row'[s].token = row[s].token
                      /\ s \in Active => row'[s] = row[s]
  BY <1>1
<1>4. FutureUnspent' /\ RowsApart'
  BY <1>3 DEF TokenInv, FutureUnspent, RowsApart
<1>5. FlightsHome'
  BY <1>2, <1>3 DEF TokenInv, FlightsHome, Home
<1>6. FlightsTell'
  <2> SUFFICES ASSUME NEW g \in Handler PROVE Carries(req[g])' /\ Reads(req[g])'
    BY DEF FlightsTell
  <2>1. CASE g = h
    BY <1>2, <2>1 DEF Carries, Reads, Carrying, Working
  <2>2. CASE g # h
    <3>1. /\ req'[g] = req[g] /\ Carries(req[g]) /\ Reads(req[g])
          /\ req[g].row \in Rows
      BY <1>2, <2>2 DEF TokenInv, FlightsTell, IInv, TypeOK, Flight
    <3> QED BY <1>1, <1>3, <3>1 DEF Carries, Reads, Bared
  <2> QED BY <2>1, <2>2
<1>7. RotatedTokenKept'
  <2> SUFFICES ASSUME NEW q \in Active', row'[q].renews,
                      turn'[row'[q].token[1]] # row'[q].token[2],
                      row'[q].token[1] \notin lost'
               PROVE  \E g \in Handler :
                         /\ req'[g].at \in {"persist", "conflict"} /\ req'[g].row = q
                         /\ req'[g].token = <<row'[q].token[1], turn'[row'[q].token[1]]>>
    BY Zenon DEF RotatedTokenKept, Accepts
  <2>1. q \in Rows /\ q \in Active /\ q # r /\ row'[q] = row[q]
    BY <1>1, <1>3 DEF Active
  <2>2. /\ row[q].renews /\ row[q].token[1] \notin lost
        /\ turn[row[q].token[1]] # row[q].token[2]
    BY <2>1
  <2>3. PICK g \in Handler :
           /\ req[g].at \in {"persist", "conflict"} /\ req[g].row = q
           /\ req[g].token = <<row[q].token[1], turn[row[q].token[1]]>>
    BY <2>1, <2>2, TokenKeeper, Zenon
  <2> QED BY <1>2, <2>1, <2>3
<1> QED BY <1>4, <1>5, <1>6, <1>7 DEF TokenInv

LEMMA TokenStays ==
    ASSUME TokenInv, UNCHANGED <<stored, req, lost>>
    PROVE  TokenInv'
<1>1. UNCHANGED <<row, consents, turn, req, lost>> /\ Active' = Active
  BY DEF stored, Active
<1>2. FutureUnspent' /\ RowsApart' /\ FlightsHome'
  BY <1>1 DEF TokenInv, FutureUnspent, RowsApart, FlightsHome, Home
<1>3. FlightsTell'
  BY <1>1 DEF TokenInv, FlightsTell, Carries, Reads
<1>4. RotatedTokenKept'
  <2> SUFFICES ASSUME NEW q \in Active', row'[q].renews,
                      turn'[row'[q].token[1]] # row'[q].token[2],
                      row'[q].token[1] \notin lost'
               PROVE  \E g \in Handler :
                         /\ req'[g].at \in {"persist", "conflict"} /\ req'[g].row = q
                         /\ req'[g].token = <<row'[q].token[1], turn'[row'[q].token[1]]>>
    BY Zenon DEF RotatedTokenKept, Accepts
  <2>1. /\ q \in Active /\ row[q].renews /\ row[q].token[1] \notin lost
        /\ turn[row[q].token[1]] # row[q].token[2]
    BY <1>1
  <2>2. PICK g \in Handler :
           /\ req[g].at \in {"persist", "conflict"} /\ req[g].row = q
           /\ req[g].token = <<row[q].token[1], turn[row[q].token[1]]>>
    BY <2>1, TokenKeeper, Zenon
  <2> QED BY <1>1, <2>2
<1> QED BY <1>2, <1>3, <1>4 DEF TokenInv

LEMMA InitToken == Init => TokenInv
<1> SUFFICES ASSUME Init PROVE TokenInv
  OBVIOUS
<1>1. /\ \A r \in Rows : row[r].status = "none"
      /\ \A c \in Consents : turn[c] = 0
      /\ \A h \in Handler : req[h].at = "idle"
  BY DEF Init, Idle
<1>2. Active = {}
  BY <1>1 DEF Active
<1> QED BY <1>1, <1>2 DEF TokenInv, FutureUnspent, RowsApart, FlightsHome,
           FlightsTell, Carries, Reads, Carrying, Working, RotatedTokenKept

LEMMA NextToken == IInv /\ TokenInv /\ [Next]_vars => TokenInv'
<1> SUFFICES ASSUME IInv, TokenInv, [Next]_vars PROVE TokenInv'
  OBVIOUS
<1>0. /\ row \in [Rows -> Row] /\ req \in [Handler -> Flight]
      /\ consents \in 0..MaxConsents
  BY DEF IInv, TypeOK
<1>1. /\ \A h \in Handler :
           /\ req[h] \in Flight /\ req[h].row \in Rows /\ req[h].key \in Rows
           /\ req[h].version \in Nat
           /\ req[h].token \in Token /\ req[h].slipped \in BOOLEAN
           /\ req[h].tries \in 0..(CallAttempts + WriteAttempts)
      /\ \A r \in Rows : /\ row[r] \in Row /\ row[r].version \in Nat
                         /\ row[r].token \in Token
  BY <1>0 DEF Flight, Row
<1>2. CASE \/ UNCHANGED vars \/ CircuitExpires
           \/ \E k \in Rows : LeaseLapses(k) \/ ResultExpires(k)
  BY <1>2, TokenStays DEF vars, LeaseLapses, ResultExpires, CircuitExpires
<1>3. ASSUME NEW r \in Rows, NEW renews \in BOOLEAN,
             NEW fresh \in {"fresh", "due", "over", "forever"},
             Connect(r, renews, fresh)
      PROVE  TokenInv'
  <2> DEFINE w == [status |-> "active", token |-> <<consents + 1, 0>>,
                   renews |-> renews, fresh |-> fresh,
                   version |-> IF r \in Active THEN row[r].version + 1 ELSE 0]
  <2>1. consents + 1 \in Consents
    BY <1>0, <1>3, Constants DEF Connect, Consents
  <2>2. w \in Row /\ w.status = "active" /\ w.token = <<consents + 1, 0>>
    BY <1>1, <2>1, Constants DEF Row, Token
  <2>3. /\ row' = [row EXCEPT ![r] = w] /\ consents' = consents + 1
        /\ UNCHANGED <<turn, req, lost>>
    BY <1>3 DEF Connect
  <2> HIDE DEF w
  <2> QED BY <2>1, <2>2, <2>3, TokenConnect
<1>4. ASSUME NEW r \in Rows, Revoke(r) PROVE TokenInv'
  <2> DEFINE w == Ended(r, "revoked")
  <2>1. row[r] \in Row
    BY <1>1
  <2>2. /\ w \in Row /\ w.status = "revoked" /\ w.token = row[r].token
        /\ w.version = row[r].version
    BY <2>1, EndedRow
  <2>3. /\ r \in Active /\ row' = [row EXCEPT ![r] = w]
        /\ UNCHANGED <<consents, turn, req, lost>>
    BY <1>4 DEF Revoke
  <2> HIDE DEF w
  <2> QED BY <2>2, <2>3, TokenRow
<1>5. ASSUME NEW r \in Rows, Lapse(r) PROVE TokenInv'
  <2>1. PICK f \in {"due", "over"} : row' = [row EXCEPT ![r].fresh = f]
    BY <1>5 DEF Lapse
  <2> DEFINE w == [row[r] EXCEPT !.fresh = f]
  <2>2. row[r] \in Row /\ r \in Active
    BY <1>1, <1>5 DEF Lapse
  <2>3. /\ w \in Row /\ w.status = row[r].status /\ w.token = row[r].token
        /\ w.renews = row[r].renews /\ w.version = row[r].version
    BY <2>2 DEF Row
  <2>4. /\ row' = [row EXCEPT ![r] = w] /\ row[r].status # "none"
        /\ UNCHANGED <<consents, turn, req, lost>>
    BY <1>5, <2>1, <2>2 DEF Lapse, Active
  <2> HIDE DEF w
  <2> QED BY <2>2, <2>3, <2>4, TokenRow
<1>6. ASSUME NEW h \in Handler, NEW v \in Flight, UNCHANGED <<stored, lost>>,
             req[h].at \notin Carrying, req' = [req EXCEPT ![h] = v],
             v.at \notin Working
      PROVE  TokenInv'
  BY <1>6, TokenStops
<1>7. ASSUME NEW h \in Handler, NEW r \in Rows, Begin(h, r) PROVE TokenInv'
  <2>1. PICK v \in Flight : /\ req' = [req EXCEPT ![h] = v]
                            /\ v.at \in {"look", "doom"}
    <3>1. CASE req' = [req EXCEPT ![h] = [Idle EXCEPT !.at = "look", !.key = r]]
      BY <3>1, IdleFields
    <3>2. CASE req' = [req EXCEPT ![h] = [Idle EXCEPT !.at = "doom", !.row = r]]
      <4> DEFINE d == [Idle EXCEPT !.at = "doom", !.row = r]
      <4>1. d \in Flight /\ d.at = "doom"
        BY IdleTyped DEF Idle, Flight
      <4>2. req' = [req EXCEPT ![h] = d]
        BY <3>2
      <4> HIDE DEF d
      <4> QED BY <4>1, <4>2
    <3> QED BY <1>7, <3>1, <3>2 DEF Begin
  <2> QED BY <1>6, <1>7, <2>1 DEF Begin, Working, Carrying
<1>8. ASSUME NEW h \in Handler, Share(h) \/ Release(h) PROVE TokenInv'
  BY <1>6, <1>8, IdleFields DEF Share, Release, Working, Carrying
<1>9. ASSUME NEW h \in Handler, NEW a \in {"read", "release"},
             req[h].at \in {"look", "publish"}, req' = [req EXCEPT ![h].at = a],
             UNCHANGED <<stored, lost>>
      PROVE  TokenInv'
  <2> DEFINE v == [req[h] EXCEPT !.at = a]
  <2>1. v \in Flight /\ v.at = a
    BY <1>1 DEF Flight
  <2>2. req' = [req EXCEPT ![h] = v]
    BY <1>9
  <2> HIDE DEF v
  <2> QED BY <1>6, <1>9, <2>1, <2>2 DEF Working, Carrying
<1>10. ASSUME NEW h \in Handler, Acquire(h) \/ Publish(h) PROVE TokenInv'
  BY <1>9, <1>10 DEF Acquire, Publish
<1>11. ASSUME NEW h \in Handler, Reread(h) PROVE TokenInv'
  <2>1. UNCHANGED <<stored, lost>> /\ req[h].at \notin Carrying
    BY <1>11 DEF Reread, Carrying
  <2>2. CASE Finish(h)
    BY <1>6, <2>1, <2>2, FinishMoves DEF Working
  <2>3. ASSUME NEW r \in Active,
               req' = [req EXCEPT ![h].at = "call", ![h].row = r,
                                  ![h].token = row[r].token,
                                  ![h].version = row[r].version]
        PROVE  TokenInv'
    <3>1. r \in Rows /\ row[r].status # "none"
      BY DEF Active
    <3>2. PICK v \in Flight :
             /\ v.at = "call" /\ v.row = r
             /\ v.token = row[r].token /\ v.version = row[r].version
             /\ req' = [req EXCEPT ![h] = v]
      <4> DEFINE d == [req[h] EXCEPT !.at = "call", !.row = r,
                                     !.token = row[r].token,
                                     !.version = row[r].version]
      <4>1. /\ d \in Flight /\ d.at = "call" /\ d.row = r
            /\ d.token = row[r].token /\ d.version = row[r].version
        BY <1>1, <3>1 DEF Flight
      <4>2. req' = [req EXCEPT ![h] = d]
        BY <2>3, <1>0
      <4> HIDE DEF d
      <4> QED BY <4>1, <4>2
    <3>4. Home(v)
      BY <3>1, <3>2 DEF TokenInv, RowsApart, Home
    <3>5. \A g \in Handler \ {h} :
             req[g].at \in Working /\ req[g].token[1] = v.token[1] => req[g].row = v.row
      BY <3>1, <3>2 DEF TokenInv, FlightsHome, Home
    <3>6. Carries(v)' /\ Reads(v)'
      BY <2>1, <3>2 DEF Carries, Reads, Carrying, stored
    <3> QED BY <2>1, <3>2, <3>4, <3>5, <3>6, TokenFlight
  <2>4. ASSUME NEW r \in Active,
               req' = [req EXCEPT ![h].at = "mark", ![h].row = r]
        PROVE  TokenInv'
    <3> DEFINE v == [req[h] EXCEPT !.at = "mark", !.row = r]
    <3>1. r \in Rows
      BY DEF Active
    <3>2. v \in Flight /\ v.at = "mark"
      BY <1>1, <3>1 DEF Flight
    <3>3. req' = [req EXCEPT ![h] = v]
      BY <2>4, <1>0
    <3> HIDE DEF v
    <3> QED BY <1>6, <2>1, <3>2, <3>3 DEF Working
  <2> QED BY <1>11, <2>2, <2>3, <2>4 DEF Reread
<1>12. ASSUME NEW h \in Handler, MarkExpired(h) PROVE TokenInv'
  <2>1. UNCHANGED <<consents, turn, lost>> /\ req[h].at \in {"doom", "mark"}
    BY <1>12 DEF MarkExpired
  <2>2. PICK v \in Flight : req' = [req EXCEPT ![h] = v] /\ v.at \notin Working
    <3>1. CASE req' = [req EXCEPT ![h] = Idle]
      BY <3>1, IdleFields DEF Working
    <3>2. CASE Finish(h)
      BY <3>2, FinishMoves DEF Working
    <3> QED BY <1>12, <3>1, <3>2 DEF MarkExpired
  <2>3. CASE req[h].row \notin Active
    BY <1>6, <1>12, <2>1, <2>2, <2>3 DEF MarkExpired, stored, Carrying
  <2>4. CASE req[h].row \in Active
    <3> DEFINE r == req[h].row
               w == Ended(r, "expired")
    <3>1. r \in Rows /\ row[r] \in Row /\ r \in Active
      BY <1>1, <2>4
    <3>2. row' = [row EXCEPT ![r] = w]
      BY <1>12, <2>4 DEF MarkExpired
    <3>3. \A g \in Handler : \/ req'[g] = req[g]
                             \/ req[g].at \notin Working /\ req'[g].at \notin Working
      BY <1>0, <2>1, <2>2 DEF Working
    <3> HIDE DEF r
    <3>4. /\ w \in Row /\ w.status = "expired" /\ w.token = row[r].token
          /\ w.version = row[r].version
      BY <3>1, EndedRow
    <3> HIDE DEF w
    <3> QED BY <2>1, <3>1, <3>2, <3>3, <3>4, TokenRow
  <2> QED BY <2>3, <2>4
<1>13. ASSUME NEW h \in Handler, NEW u \in Token, Call(h, u) PROVE TokenInv'
  <2> DEFINE v == [req[h] EXCEPT !.at = "persist", !.token = u, !.tries = 0]
  <2>1. req[h] \in Flight /\ 0 \in 0..(CallAttempts + WriteAttempts)
    BY <1>1, Constants
  <2>2. /\ v \in Flight /\ v.at = "persist" /\ v.token = u
        /\ v.row = req[h].row /\ v.version = req[h].version
        /\ v.slipped = req[h].slipped /\ v.key = req[h].key
    BY <2>1 DEF Flight
  <2>3. req' = [req EXCEPT ![h] = v]
    BY <1>0, <1>13 DEF Call
  <2>4. /\ req[h].at = "call" /\ u[1] = req[h].token[1]
        /\ row' = row /\ consents' = consents /\ turn' = [turn EXCEPT ![u[1]] = u[2]]
    BY <1>13 DEF Call, Answers
  <2> HIDE DEF v
  <2>5. CASE Bared(req[h])
    <3>1. lost \subseteq lost' /\ u[1] \in lost'
      BY <1>13, <2>5 DEF Call, Bare, Bared
    <3> QED BY <2>2, <2>3, <2>4, <3>1, TokenCall
  <2>6. CASE ~Bared(req[h])
    <3>1. lost' = lost
      BY <1>13, <2>6 DEF Call, Bare, Bared
    <3>2. ~Bared(v)
      BY <2>2, <2>6 DEF Bared
    <3> QED BY <2>2, <2>3, <2>4, <2>6, <3>1, <3>2, TokenCall
  <2> QED BY <2>5, <2>6
<1>14. ASSUME NEW h \in Handler, Refused(h) PROVE TokenInv'
  <2>1. UNCHANGED <<stored, lost>> /\ req[h].at = "call"
    BY <1>14 DEF Refused
  <2>2. PICK v \in Flight :
          /\ req' = [req EXCEPT ![h] = v]
          /\ v.slipped = req[h].slipped /\ v.key = req[h].key
          /\ \/ v.at = "publish"
             \/ /\ v.at = "call" /\ v.row = req[h].row
                /\ v.token = req[h].token /\ v.version = req[h].version
    BY <1>14, CallFailedMoves DEF Refused
  <2>3. CASE v.at = "publish"
    BY <1>6, <2>1, <2>2, <2>3 DEF Working, Carrying
  <2>4. CASE v.at = "call"
    <3>1. Reads(req[h])
      BY DEF TokenInv, FlightsTell
    <3>2. Carries(v)' /\ Reads(v)'
      BY <2>1, <2>2, <2>4, <3>1
         DEF Carries, Reads, Bared, Carrying, Working, Active, stored
    <3> QED BY <2>1, <2>2, <2>4, <3>2, TokenGoesOn DEF Working, Carrying
  <2> QED BY <2>2, <2>3, <2>4
<1>15. ASSUME NEW h \in Handler, NEW u \in Token, AnswerLost(h, u) \/ Unusable(h, u)
       PROVE  TokenInv'
  <2>1. /\ req[h].at = "call" /\ u[1] = req[h].token[1]
        /\ row' = row /\ consents' = consents /\ turn' = [turn EXCEPT ![u[1]] = u[2]]
        /\ lost' = lost \cup {u[1]}
    BY <1>15 DEF AnswerLost, Unusable, Answers
  <2>2. PICK v \in Flight :
          /\ req' = [req EXCEPT ![h] = v]
          /\ v.slipped = req[h].slipped /\ v.key = req[h].key
          /\ \/ v.at = "publish"
             \/ /\ v.at = "call" /\ v.row = req[h].row
                /\ v.token = req[h].token /\ v.version = req[h].version
    BY <1>15, <2>1, CallFailedMoves, FinishMoves DEF AnswerLost, Unusable
  <2> QED BY <2>1, <2>2, TokenCall DEF Working
<1>16. ASSUME NEW h \in Handler, Persist(h) PROVE TokenInv'
  <2> DEFINE r == req[h].row
             w == Stored(r, req[h].token)
  <2>1. r \in Rows /\ row[r] \in Row /\ row[r].version \in Nat
    BY <1>1
  <2>2. /\ w \in Row /\ w.status = row[r].status
        /\ w.token = IF r \in Active THEN req[h].token ELSE row[r].token
    <3>1. req[h].token \in Token
      BY <1>1
    <3> QED BY <2>1, <3>1, StoredRow
  <2>3. row' = [row EXCEPT ![r] = w]
    BY <1>0, <1>16, <2>1 DEF Persist
  <2>4. req[h].at = "persist" /\ UNCHANGED <<consents, turn, lost>>
    BY <1>16 DEF Persist
  <2>5. PICK v \in Flight : /\ req' = [req EXCEPT ![h] = v]
                            /\ v.at = "publish"
    BY <1>16, FinishMoves DEF Persist
  <2>6. v.at \notin Working
    BY <2>5 DEF Working
  <2> HIDE DEF w
  <2>7. CASE r \in Active
    BY <2>2, <2>3, <2>4, <2>5, <2>6, <2>7, TokenPersist
  <2>8. CASE r \notin Active
    BY <2>1, <2>2, <2>3, <2>4, <2>5, <2>6, <2>8, TokenDeadRow
  <2> QED BY <2>7, <2>8
<1>17. ASSUME NEW h \in Handler, Conflict(h) PROVE TokenInv'
  <2>1. PICK v \in Flight :
           /\ v.at = "conflict" /\ v.row = req[h].row
           /\ v.token = req[h].token /\ v.version = req[h].version
           /\ v.slipped = req[h].slipped /\ v.key = req[h].key
           /\ req' = [req EXCEPT ![h] = v]
    <3> DEFINE d == [req[h] EXCEPT !.at = "conflict"]
    <3>1. /\ d \in Flight /\ d.at = "conflict" /\ d.row = req[h].row
          /\ d.token = req[h].token /\ d.version = req[h].version
          /\ d.slipped = req[h].slipped /\ d.key = req[h].key
      BY <1>1 DEF Flight
    <3>2. req' = [req EXCEPT ![h] = d]
      BY <1>17 DEF Conflict
    <3> HIDE DEF d
    <3> QED BY <3>1, <3>2
  <2>2. /\ UNCHANGED <<row, turn, lost>> /\ UNCHANGED stored
        /\ req[h].at = "persist" /\ row[req[h].row].version # req[h].version
    BY <1>17 DEF Conflict, Matches, stored
  <2>3. Carries(req[h]) /\ Reads(req[h])
    BY DEF TokenInv, FlightsTell
  <2>4. Carries(v)'
    BY <2>1, <2>2, <2>3 DEF Carries, Carrying, Bared
  <2>5. Reads(v)'
    BY <2>1, <2>2, <2>3 DEF Carries, Reads, Carrying, Working, Active, Bared
  <2> QED BY <2>1, <2>2, <2>4, <2>5, TokenGoesOn DEF Carrying, Working
<1>18. ASSUME NEW h \in Handler, Resolve(h) PROVE TokenInv'
  <2>1. /\ UNCHANGED <<row, turn, lost>> /\ UNCHANGED stored
        /\ req[h].at = "conflict" /\ Carries(req[h]) /\ Reads(req[h])
    BY <1>18 DEF Resolve, stored, TokenInv, FlightsTell
  <2>2. CASE Finish(h)
    <3>1. PICK v \in Flight : req' = [req EXCEPT ![h] = v] /\ v.at = "publish"
      BY <2>2, FinishMoves
    <3>2. /\ req[h].row \in Active /\ row[req[h].row].token[1] = req[h].token[1]
          => req[h].token[1] \in lost'
      BY <2>1 DEF Reads, Working
    <3> QED BY <2>1, <3>1, <3>2, TokenStops DEF Working
  <2>3. CASE ~Finish(h)
    <3>1. PICK r \in Active :
            req' = [req EXCEPT ![h].at = "persist", ![h].tries = @ + 1,
                               ![h].version = row[r].version]
      BY <1>18, <2>3 DEF Resolve
    <3>2. r \in Rows
      BY DEF Active
    <3>3. req[h].tries + 1 \in 0..(CallAttempts + WriteAttempts)
      BY <1>1, <2>1, Constants DEF IInv, Kept, TriesBounded
    <3>4. PICK v \in Flight :
             /\ v.at = "persist" /\ v.row = req[h].row
             /\ v.token = req[h].token
             /\ v.slipped = req[h].slipped /\ v.key = req[h].key
             /\ v.version = row[r].version /\ req' = [req EXCEPT ![h] = v]
      <4> DEFINE d == [req[h] EXCEPT !.at = "persist", !.tries = req[h].tries + 1,
                                     !.version = row[r].version]
      <4>1. /\ d \in Flight /\ d.at = "persist" /\ d.row = req[h].row
            /\ d.token = req[h].token
            /\ d.slipped = req[h].slipped /\ d.key = req[h].key
            /\ d.version = row[r].version
        BY <1>1, <3>2, <3>3 DEF Flight
      <4>2. req' = [req EXCEPT ![h] = d]
        BY <1>0, <3>1
      <4> HIDE DEF d
      <4> QED BY <4>1, <4>2
    <3>6. Carries(v)'
      BY <2>1, <3>4 DEF Carries, Carrying, Bared
    <3>7. Reads(v)'
      <4>1. v.row \in Active => v.row = r
        BY DEF IInv, Kept, OneActive
      <4> QED BY <2>1, <3>4, <4>1 DEF Reads, Active
    <3> QED BY <2>1, <3>4, <3>6, <3>7, TokenGoesOn DEF Carrying, Working
  <2> QED BY <2>2, <2>3
<1>19. ASSUME NEW h \in Handler, HangUp(h) \/ Crash(h) PROVE TokenInv'
  <2>1. /\ UNCHANGED stored /\ lost \subseteq lost'
        /\ req[h].at \in Carrying => req[h].token[1] \in lost'
    BY <1>19 DEF HangUp, Crash, Drop, Carrying
  <2>2. CASE req' = [req EXCEPT ![h] = Idle]
    BY <2>1, <2>2, IdleFields, TokenStops DEF Working
  <2>3. CASE req' # [req EXCEPT ![h] = Idle]
    <3> DEFINE v == Over(h, "release")
    <3>1. req' = [req EXCEPT ![h] = v]
      BY <1>19, <2>3 DEF HangUp, Crash
    <3>2. v \in Flight /\ v.at = "release"
      BY OverFlight
    <3> HIDE DEF v
    <3> QED BY <2>1, <3>1, <3>2, TokenStops DEF Working
  <2> QED BY <2>2, <2>3
<1>20. ASSUME NEW k \in Rows, LeaseSlips(k) PROVE TokenInv'
  <2>1. PICK h \in Handler : lock[k] = h
    BY <1>20 DEF LeaseSlips, Past
  <2>2. PICK v \in Flight :
           /\ v.at = req[h].at /\ v.slipped
           /\ v.row = req[h].row /\ v.token = req[h].token
           /\ v.version = req[h].version /\ req' = [req EXCEPT ![h] = v]
    <3> DEFINE d == [req[h] EXCEPT !.slipped = TRUE]
    <3>1. req[h] \in Flight
      BY <1>1
    <3>2. /\ d \in Flight /\ d.at = req[h].at /\ d.slipped
          /\ d.row = req[h].row /\ d.token = req[h].token
          /\ d.version = req[h].version
      BY <3>1 DEF Flight
    <3>3. req' = [req EXCEPT ![h] = d]
      BY <1>20, <2>1 DEF LeaseSlips
    <3> HIDE DEF d
    <3> QED BY <3>2, <3>3
  <2>3. /\ UNCHANGED stored /\ UNCHANGED <<row, turn>> /\ lost \subseteq lost'
        /\ req[h].at \in Carrying => req[h].token[1] \in lost'
    BY <1>20, <2>1 DEF LeaseSlips, Drop, stored, Carrying
  <2>4. CASE req[h].at \notin Working
    BY <2>2, <2>3, <2>4, TokenStops DEF Working, Carrying
  <2>5. CASE req[h].at \in Working
    <3>1. Carries(v)'
      BY <2>2, <2>3 DEF Carries
    <3>2. Reads(v)'
      BY <2>2, <2>3 DEF Reads, Carrying, Bared
    <3> QED BY <2>2, <2>3, <2>5, <3>1, <3>2, TokenGoesOn
  <2> QED BY <2>4, <2>5
<1>21. ASSUME NEW h \in Handler, Refresh(h) PROVE TokenInv'
  BY <1>8, <1>10, <1>11, <1>12, <1>13, <1>14, <1>15, <1>16, <1>17, <1>18, <1>21
     DEF Refresh
<1> QED BY <1>2, <1>3, <1>4, <1>5, <1>7, <1>19, <1>20, <1>21 DEF Next

\* For any number of processes that race for a connection's refresh, of
\* reconnects and of revocations: the refresh token an active row stores can
\* still be spent, or a flight is on its way to it with the one that replaced
\* it, unless an answer was lost on the way or got without the row's lease.
THEOREM RotatedTokenTheorem == Spec => []RotatedTokenKept
<1>1. Init => TokenInv
  BY InitToken
<1>2. IInv /\ TokenInv /\ [Next]_vars => TokenInv'
  BY NextToken
<1>3. TokenInv => RotatedTokenKept
  BY DEF TokenInv
<1> QED BY <1>1, <1>2, <1>3, Inductive, PTL DEF Spec
=============================================================================
