--------------------------- MODULE EventStoreProofs ---------------------------
(***************************************************************************)
(* The safety properties of EventStore, for every number of events, users  *)
(* and instants.                                                           *)
(***************************************************************************)
EXTENDS EventStore, TLAPS

\* History is kept only while the daemon serves.
HistoryInv == phase # "serving" => DOMAIN newest = {}

IInv ==
  /\ TypeOK
  /\ HistoryInv
  /\ MigratedRowsHaveLastSeen
  /\ NoForeignOpen
  /\ LastSeenToTheSecond

-------------------------------------------------------------------------------
\* NULL is not an instant: an ended row is not an open one.
LEMMA NullNotInstant == Null \notin Instant
BY NullAssumption DEF Instant

\* The CASE of every touch returns an instant, and its second is the later one.
LEMMA LaterInstant ==
  ASSUME NEW old \in Instant \cup {Null}, NEW new \in Instant
  PROVE  /\ Later(old, new) \in Instant
         /\ Later(old, new) # Null
         /\ old # Null => Later(old, new).sec =
                            IF old.sec < new.sec THEN new.sec ELSE old.sec
BY NullNotInstant DEF Later, TextBefore, Instant

\* What the observations of a touch leave in the history, field by field.
LEMMA HeardType ==
  ASSUME TypeOK, NEW seen, \A i \in DOMAIN seen : seen[i] \in Instant
  PROVE  /\ DOMAIN Heard(seen) = DOMAIN newest
         /\ \A i \in DOMAIN newest : Heard(seen)[i] \in Instant
BY DEF Heard, TypeOK

\* A touch moves the stored and the newest observation to the same second.
LEMMA TouchAgrees ==
  ASSUME TypeOK, LastSeenToTheSecond,
         NEW seen, \A i \in DOMAIN seen : seen[i] \in Instant,
         NEW i \in DOMAIN rows \cap DOMAIN newest
  PROVE  /\ (i \in DOMAIN seen /\ IsOpen(rows[i])) =>
              Later(rows[i].lastSeen, seen[i]).sec = Heard(seen)[i].sec
         /\ ~(i \in DOMAIN seen /\ IsOpen(rows[i])) => Heard(seen)[i] = newest[i]
<1>1. CASE i \in DOMAIN seen /\ IsOpen(rows[i])
  <2>1. /\ rows[i].lastSeen \in Instant /\ rows[i].lastSeen.sec = newest[i].sec
        /\ newest[i] \in Instant /\ seen[i] \in Instant /\ rows[i].lastSeen # Null
    BY <1>1 DEF TypeOK, Row, LastSeenToTheSecond
  <2>2. Later(rows[i].lastSeen, seen[i]).sec =
          IF newest[i].sec < seen[i].sec THEN seen[i].sec ELSE newest[i].sec
    BY <2>1, LaterInstant
  <2>3. Heard(seen)[i].sec =
          IF newest[i].sec < seen[i].sec THEN seen[i].sec ELSE newest[i].sec
    BY <1>1, <2>1 DEF Heard, Earlier, Instant
  <2> QED BY <1>1, <2>2, <2>3
<1>2. CASE ~(i \in DOMAIN seen /\ IsOpen(rows[i]))
  BY <1>2 DEF Heard
<1> QED BY <1>1, <1>2

-------------------------------------------------------------------------------
LEMMA InitInv == Init => IInv
<1> SUFFICES ASSUME Init PROVE IInv
  OBVIOUS
<1>1. Zero \in Instant
  BY FracAssumption DEF Zero, Instant
<1>2. \A i \in DOMAIN rows : rows[i] \in Row
  <2>1. CASE rows = [i \in {} |-> Zero]
    BY <2>1
  <2>2. ASSUME NEW w \in Who, NEW e \in {Zero, Null},
               rows = [i \in {1} |-> OldRow(w, e)]
        PROVE  \A i \in DOMAIN rows : rows[i] \in Row
    BY <1>1, <2>2 DEF Row, OldRow
  <2> QED BY <2>1, <2>2 DEF Init
<1>3. nextId \in Nat \ {0} /\ DOMAIN rows \subseteq 1 .. nextId - 1
  <2>1. \/ DOMAIN rows = {} /\ nextId = 1
        \/ DOMAIN rows = {1} /\ nextId = 2
    BY DEF Init
  <2> QED BY <2>1
<1>4. hasLastSeen \in BOOLEAN
  BY DEF Init
<1>5. /\ clock = Zero /\ phase = "closed" /\ DOMAIN newest = {}
      /\ DOMAIN activity = {}
  BY DEF Init
<1> QED
  BY <1>1, <1>2, <1>3, <1>4, <1>5 DEF IInv, TypeOK, HistoryInv, Phases,
     MigratedRowsHaveLastSeen, NoForeignOpen, LastSeenToTheSecond

\* The statements of Open and RecoverOpen, and the death of the process.
LEMMA OpeningInv ==
  ASSUME IInv, CreateTables \/ AddColumn \/ Backfill \/ RecoverOpen \/ Stop
  PROVE  IInv'
<1> USE NullNotInstant DEF IInv
<1>1. CASE CreateTables
  BY <1>1 DEF CreateTables, TypeOK, HistoryInv, MigratedRowsHaveLastSeen,
              NoForeignOpen, LastSeenToTheSecond, Phases
<1>2. CASE AddColumn
  BY <1>2 DEF AddColumn, TypeOK, HistoryInv, MigratedRowsHaveLastSeen,
              NoForeignOpen, LastSeenToTheSecond, Phases
<1>3. CASE Backfill
  <2>1. /\ DOMAIN rows' = DOMAIN rows
        /\ \A i \in DOMAIN rows : rows'[i] \in Row /\ rows'[i].lastSeen # Null
    BY <1>3 DEF Backfill, Backfilled, TypeOK, Row, IsOpen
  <2> QED
    BY <1>3, <2>1 DEF Backfill, TypeOK, HistoryInv, MigratedRowsHaveLastSeen,
                      NoForeignOpen, LastSeenToTheSecond, Phases
<1>4. CASE RecoverOpen
  <2>1. /\ DOMAIN rows' = DOMAIN rows
        /\ \A i \in DOMAIN rows : /\ rows'[i] \in Row /\ rows'[i].lastSeen # Null
                                  /\ ~IsOpen(rows'[i])
    BY <1>4 DEF RecoverOpen, Recovered, TypeOK, Row, IsOpen,
                MigratedRowsHaveLastSeen
  <2> QED
    BY <1>4, <2>1 DEF RecoverOpen, TypeOK, HistoryInv, MigratedRowsHaveLastSeen,
                      NoForeignOpen, LastSeenToTheSecond, Phases
<1>5. CASE Stop
  BY <1>5 DEF Stop, TypeOK, HistoryInv, MigratedRowsHaveLastSeen,
              NoForeignOpen, LastSeenToTheSecond, Phases
<1> QED BY <1>1, <1>2, <1>3, <1>4, <1>5

\* Start: the new row and the new entry of the history carry the same instant.
LEMMA StartInv ==
  ASSUME IInv, NEW w \in Who, NEW at \in Times, Start(w, at)
  PROVE  IInv'
<1> USE NullNotInstant DEF IInv
<1>1. at \in Instant
  BY DEF Times, Past
<1>2. /\ DOMAIN rows' = DOMAIN rows \cup {nextId}
      /\ \A i \in DOMAIN rows' :
           rows'[i] = IF i = nextId THEN NewRow(w, at) ELSE rows[i]
  BY DEF Start, Inserted
<1>3. /\ DOMAIN newest' = DOMAIN newest \cup {nextId}
      /\ \A i \in DOMAIN newest' :
           newest'[i] = IF i = nextId THEN at ELSE newest[i]
  BY DEF Start
<1>4. NewRow(w, at) \in Row /\ NewRow(w, at).lastSeen = at
  BY <1>1 DEF NewRow, Row
<1>5. nextId \notin DOMAIN rows /\ nextId \notin DOMAIN newest
  BY DEF TypeOK
<1>6. TypeOK'
  BY <1>1, <1>2, <1>3, <1>4 DEF Start, Serving, TypeOK
<1>7. HistoryInv' /\ MigratedRowsHaveLastSeen' /\ NoForeignOpen'
  BY <1>1, <1>2, <1>3, <1>4 DEF Start, Serving, HistoryInv,
     MigratedRowsHaveLastSeen, NoForeignOpen
<1>8. LastSeenToTheSecond'
  BY <1>1, <1>2, <1>3, <1>4, <1>5 DEF LastSeenToTheSecond
<1> QED BY <1>6, <1>7, <1>8

\* EndStream and TouchEvents: the two ways an observation reaches an open row.
LEMMA ObserveInv ==
  ASSUME IInv, Serving, NEW seen, \A i \in DOMAIN seen : seen[i] \in Instant,
         newest' = Heard(seen), UNCHANGED <<nextId, activity>>,
         DOMAIN rows' = DOMAIN rows,
         \A i \in DOMAIN rows :
           IF i \in DOMAIN seen /\ IsOpen(rows[i])
           THEN /\ rows'[i] \in Row
                /\ rows'[i].lastSeen = Later(rows[i].lastSeen, seen[i])
           ELSE rows'[i] = rows[i]
  PROVE  IInv'
<1> USE NullNotInstant DEF IInv
<1>1. TypeOK'
  BY HeardType DEF Serving, TypeOK
<1>2. HistoryInv' /\ NoForeignOpen'
  BY HeardType DEF Serving, HistoryInv, NoForeignOpen
<1>3. \A i \in DOMAIN rows : rows'[i].lastSeen # Null
  BY LaterInstant DEF Serving, TypeOK, Row, MigratedRowsHaveLastSeen
<1>4. \A i \in DOMAIN rows \cap DOMAIN newest :
        rows'[i].lastSeen.sec = newest'[i].sec
  BY TouchAgrees DEF LastSeenToTheSecond
<1>5. MigratedRowsHaveLastSeen' /\ LastSeenToTheSecond'
  BY <1>3, <1>4, HeardType DEF MigratedRowsHaveLastSeen, LastSeenToTheSecond
<1> QED BY <1>1, <1>2, <1>5

LEMMA OperationInv ==
  ASSUME IInv, Operation
  PROVE  IInv'
<1> USE NullNotInstant DEF IInv
<1>1. CASE \E w \in Who, at \in Times : Start(w, at)
  BY <1>1, StartInv
<1>2. ASSUME NEW id \in Ids, NEW at \in Times, NEW seen \in Times,
             EndStream(id, at, seen)
      PROVE  IInv'
  <2>1. at \in Instant /\ seen \in Instant
    BY DEF Times, Past
  <2>2. \A i \in DOMAIN rows :
          IF i = id /\ IsOpen(rows[i])
          THEN /\ rows'[i] \in Row
               /\ rows'[i].lastSeen = Later(rows[i].lastSeen, seen)
          ELSE rows'[i] = rows[i]
    BY <1>2, <2>1, LaterInstant DEF EndStream, EndedAt, TypeOK, Row
  <2>3. DOMAIN rows' = DOMAIN rows
    BY <1>2 DEF EndStream, EndedAt
  <2> DEFINE one == [i \in {id} |-> seen]
  <2>4. DOMAIN one = {id} /\ one[id] = seen
    OBVIOUS
  <2>5. newest' = Heard(one) /\ UNCHANGED <<nextId, activity>> /\ Serving
    BY <1>2 DEF EndStream
  <2> HIDE DEF one
  <2> QED BY <2>1, <2>2, <2>3, <2>4, <2>5, ObserveInv
<1>3. ASSUME NEW S \in SUBSET Ids, NEW at \in Times,
             TouchEvents([i \in S |-> at])
      PROVE  IInv'
  <2>1. at \in Instant
    BY DEF Times, Past
  <2> DEFINE seen == [i \in S |-> at]
  <2>2. DOMAIN seen = S /\ \A i \in S : seen[i] = at
    OBVIOUS
  <2>3. newest' = Heard(seen) /\ UNCHANGED <<nextId, activity>> /\ Serving
        /\ rows' = Touched(rows, seen)
    BY <1>3 DEF TouchEvents
  <2> HIDE DEF seen
  <2>4. \A i \in DOMAIN rows :
          IF i \in DOMAIN seen /\ IsOpen(rows[i])
          THEN /\ rows'[i] \in Row
               /\ rows'[i].lastSeen = Later(rows[i].lastSeen, seen[i])
          ELSE rows'[i] = rows[i]
    BY <2>1, <2>2, <2>3, LaterInstant DEF Touched, TypeOK, Row
  <2>5. DOMAIN rows' = DOMAIN rows
    BY <2>3 DEF Touched
  <2> QED BY <2>1, <2>2, <2>3, <2>4, <2>5, ObserveInv
<1>4. ASSUME NEW id \in Ids, NEW w \in Who, UpdateEventIdentity(id, w)
      PROVE  IInv'
  <2>1. /\ DOMAIN rows' = DOMAIN rows
        /\ \A i \in DOMAIN rows :
             /\ rows'[i] \in Row
             /\ rows'[i].lastSeen = rows[i].lastSeen
             /\ rows'[i].ended = rows[i].ended
    BY <1>4 DEF UpdateEventIdentity, Renamed, TypeOK, Row
  <2> QED
    BY <1>4, <2>1 DEF UpdateEventIdentity, Serving, TypeOK, HistoryInv, IsOpen,
       MigratedRowsHaveLastSeen, NoForeignOpen, LastSeenToTheSecond
<1>5. ASSUME NEW u \in Users, NEW at \in Times, TouchActivity(u, at)
      PROVE  IInv'
  <2>1. at \in Instant
    BY DEF Times, Past
  <2>2. /\ DOMAIN activity' = DOMAIN activity \cup {u}
        /\ \A v \in DOMAIN activity' :
             activity'[v] \in [first : Instant, last : Instant]
    BY <1>5, <2>1 DEF TouchActivity, TypeOK
  <2> QED
    BY <1>5, <2>2 DEF TouchActivity, Serving, TypeOK, HistoryInv,
       MigratedRowsHaveLastSeen, NoForeignOpen, LastSeenToTheSecond
<1>6. ASSUME NEW both \in BOOLEAN, Prune(both)
      PROVE  IInv'
  <2>1. /\ DOMAIN rows' \subseteq DOMAIN rows
        /\ \A i \in DOMAIN rows' : rows'[i] = rows[i]
    BY <1>6 DEF Prune, Pruned, Retained
  <2>2. /\ DOMAIN activity' \subseteq DOMAIN activity
        /\ \A u \in DOMAIN activity' : activity'[u] = activity[u]
    BY <1>6 DEF Prune
  <2> QED
    BY <1>6, <2>1, <2>2 DEF Prune, Serving, TypeOK, HistoryInv,
       MigratedRowsHaveLastSeen, NoForeignOpen, LastSeenToTheSecond
<1> QED BY <1>1, <1>2, <1>3, <1>4, <1>5, <1>6 DEF Operation

LEMMA NextInv == IInv /\ [Next]_vars => IInv'
<1> SUFFICES ASSUME IInv, [Next]_vars PROVE IInv'
  OBVIOUS
<1>1. CASE CreateTables \/ AddColumn \/ Backfill \/ RecoverOpen \/ Stop
  BY <1>1, OpeningInv
<1>2. CASE Operation
  BY <1>2, OperationInv
<1>3. CASE Tick
  <2>1. clock' \in Instant
    BY <1>3, FracAssumption DEF Tick, IInv, TypeOK, Instant
  <2> QED
    BY <1>3, <2>1 DEF Tick, IInv, TypeOK, HistoryInv, MigratedRowsHaveLastSeen,
       NoForeignOpen, LastSeenToTheSecond
<1>4. CASE UNCHANGED vars
  BY <1>4 DEF vars, IInv, TypeOK, HistoryInv, MigratedRowsHaveLastSeen,
     NoForeignOpen, LastSeenToTheSecond
<1> QED BY <1>1, <1>2, <1>3, <1>4 DEF Next

-------------------------------------------------------------------------------
\* The inductive invariant of the store.
THEOREM Invariance == Spec => []IInv
BY InitInv, NextInv, PTL DEF Spec

\* The database and the process keep their types.
THEOREM TypeCorrect == Spec => []TypeOK
BY Invariance, PTL DEF IInv

\* Every crash between the statements of migrate is repaired before service.
THEOREM MigrationComplete == Spec => []MigratedRowsHaveLastSeen
BY Invariance, PTL DEF IInv

\* No interval left open by an earlier process survives into service.
THEOREM RecoveryComplete == Spec => []NoForeignOpen
BY Invariance, PTL DEF IInv

\* Whatever the order of the reports, a row shows the second of the newest one.
THEOREM NewestObservationKept == Spec => []LastSeenToTheSecond
BY Invariance, PTL DEF IInv

-------------------------------------------------------------------------------
\* What one step does to rows: the action properties follow from these three.
LEMMA FrozenStep ==
  ASSUME IInv, Next, NEW i \in DOMAIN rows \cap DOMAIN rows',
         ~IsOpen(rows[i]), rows[i].lastSeen # Null
  PROVE  rows'[i] = rows[i]
<1>1. CASE CreateTables \/ AddColumn \/ Stop \/ Tick
  BY <1>1 DEF CreateTables, AddColumn, Stop, Tick
<1>2. CASE Backfill \/ RecoverOpen
  BY <1>2 DEF Backfill, Backfilled, RecoverOpen, Recovered
<1>3. CASE Operation
  <2>1. ASSUME NEW w \in Who, NEW at \in Times, Start(w, at)
        PROVE  rows'[i] = rows[i]
    <3>1. i # nextId
      BY DEF IInv, TypeOK
    <3> QED BY <2>1, <3>1 DEF Start, Inserted
  <2>2. ASSUME NEW id \in Ids, NEW at \in Times, NEW seen \in Times,
               EndStream(id, at, seen)
        PROVE  rows'[i] = rows[i]
    BY <2>2 DEF EndStream, EndedAt
  <2>3. ASSUME NEW S \in SUBSET Ids, NEW at \in Times,
               TouchEvents([j \in S |-> at])
        PROVE  rows'[i] = rows[i]
    BY <2>3 DEF TouchEvents, Touched
  <2>4. ASSUME NEW id \in Ids, NEW w \in Who, UpdateEventIdentity(id, w)
        PROVE  rows'[i] = rows[i]
    BY <2>4 DEF UpdateEventIdentity, Renamed
  <2>5. ASSUME NEW u \in Users, NEW at \in Times, TouchActivity(u, at)
        PROVE  rows'[i] = rows[i]
    BY <2>5 DEF TouchActivity
  <2>6. ASSUME NEW both \in BOOLEAN, Prune(both)
        PROVE  rows'[i] = rows[i]
    BY <2>6 DEF Prune, Pruned
  <2> QED BY <1>3, <2>1, <2>2, <2>3, <2>4, <2>5, <2>6 DEF Operation
<1> QED BY <1>1, <1>2, <1>3 DEF Next

\* Only Start makes an id appear, and only Prune makes one vanish.
LEMMA DomainStep ==
  ASSUME Next
  PROVE  \/ DOMAIN rows' = DOMAIN rows
         \/ DOMAIN rows' = DOMAIN rows \cup {nextId}
         \/ \E both \in BOOLEAN : Prune(both)
<1>1. CASE CreateTables \/ AddColumn \/ Stop \/ Tick
  BY <1>1 DEF CreateTables, AddColumn, Stop, Tick
<1>2. CASE Backfill \/ RecoverOpen
  BY <1>2 DEF Backfill, Backfilled, RecoverOpen, Recovered
<1>3. CASE Operation
  <2>1. ASSUME NEW w \in Who, NEW at \in Times, Start(w, at)
        PROVE  DOMAIN rows' = DOMAIN rows \cup {nextId}
    BY <2>1 DEF Start, Inserted
  <2>2. ASSUME NEW id \in Ids, NEW at \in Times, NEW seen \in Times,
               EndStream(id, at, seen)
        PROVE  DOMAIN rows' = DOMAIN rows
    BY <2>2 DEF EndStream, EndedAt
  <2>3. ASSUME NEW S \in SUBSET Ids, NEW at \in Times,
               TouchEvents([j \in S |-> at])
        PROVE  DOMAIN rows' = DOMAIN rows
    BY <2>3 DEF TouchEvents, Touched
  <2>4. ASSUME NEW id \in Ids, NEW w \in Who, UpdateEventIdentity(id, w)
        PROVE  DOMAIN rows' = DOMAIN rows
    BY <2>4 DEF UpdateEventIdentity, Renamed
  <2>5. ASSUME NEW u \in Users, NEW at \in Times, TouchActivity(u, at)
        PROVE  DOMAIN rows' = DOMAIN rows
    BY <2>5 DEF TouchActivity
  <2> QED BY <1>3, <2>1, <2>2, <2>3, <2>4, <2>5 DEF Operation
<1> QED BY <1>1, <1>2, <1>3 DEF Next

LEMMA PruneStep ==
  ASSUME IInv, NEW both \in BOOLEAN, Prune(both),
         NEW i \in DOMAIN newest \cap (DOMAIN rows \ DOMAIN rows')
  PROVE  newest[i].sec + Retention <= clock.sec
<1> DEFINE cut == [clock EXCEPT !.sec = clock.sec - Retention]
<1>1. TextBefore(rows[i].lastSeen, cut)
  BY DEF Prune, Pruned, Retained
<1>2. cut.sec = clock.sec - Retention
  BY DEF IInv, TypeOK, Instant
<1>3. rows[i].lastSeen.sec <= cut.sec
  <2>1. rows[i].lastSeen \in Instant
    BY DEF IInv, TypeOK, Row, LastSeenToTheSecond
  <2>2. clock.sec - Retention \in Int
    BY RetentionAssumption DEF IInv, TypeOK, Instant
  <2> HIDE DEF cut
  <2> QED BY <1>1, <1>2, <2>1, <2>2 DEF TextBefore, Instant
<1>4. newest[i].sec = rows[i].lastSeen.sec /\ newest[i] \in Instant
  BY DEF IInv, TypeOK, LastSeenToTheSecond
<1> HIDE DEF cut
<1> QED BY <1>2, <1>3, <1>4, RetentionAssumption DEF IInv, TypeOK, Instant

\* An ended interval is never rewritten.
THEOREM EvidenceFrozen == Spec => ClosedRowsFrozen
<1>1. IInv /\ [Next]_vars =>
        [\A i \in DOMAIN rows \cap DOMAIN rows' :
           ~IsOpen(rows[i]) /\ rows[i].lastSeen # Null => rows'[i] = rows[i]]_vars
  BY FrozenStep
<1> QED BY <1>1, Invariance, PTL DEF Spec, ClosedRowsFrozen

\* The id of a deleted event never names another one.
THEOREM IdsUnique == Spec => IdsNotReused
<1>1. ASSUME IInv, Next, NEW i \in DOMAIN newest \ DOMAIN rows
      PROVE  i \notin DOMAIN rows'
  <2>1. i # nextId
    BY <1>1 DEF IInv, TypeOK
  <2>2. ASSUME NEW both \in BOOLEAN, Prune(both) PROVE i \notin DOMAIN rows'
    BY <2>2 DEF Prune, Pruned, Retained
  <2> QED BY <1>1, <2>1, <2>2, DomainStep
<1>2. IInv /\ [Next]_vars =>
        [\A i \in DOMAIN newest \ DOMAIN rows : i \notin DOMAIN rows']_vars
  BY <1>1
<1> QED BY <1>2, Invariance, PTL DEF Spec, IdsNotReused

\* Retention deletes only what nobody observed during the retention period.
THEOREM RetentionSound == Spec => PruneSparesRecent
<1>1. ASSUME IInv, Next, NEW i \in DOMAIN newest \cap (DOMAIN rows \ DOMAIN rows')
      PROVE  newest[i].sec + Retention <= clock.sec
  BY <1>1, DomainStep, PruneStep
<1>2. IInv /\ [Next]_vars =>
        [\A i \in DOMAIN newest \cap (DOMAIN rows \ DOMAIN rows') :
           newest[i].sec + Retention <= clock.sec]_vars
  BY <1>1
<1> QED BY <1>2, Invariance, PTL DEF Spec, PruneSparesRecent

\* What remains of "`last_seen_at` is monotonic" (docs/architecture.md:189): the CASE
\* compares texts, and a text with a fraction sorts before one without, so the value
\* may lose its fraction but never its second.  No statement of the store, whatever
\* the order of the reports, of starts and of crashes, takes an event's last
\* observation to an earlier second, nor to NULL.
THEOREM LastSeenMonotonicToTheSecond ==
  Spec => [][\A i \in DOMAIN rows \cap DOMAIN rows' :
               rows[i].lastSeen # Null =>
                 /\ rows'[i].lastSeen # Null
                 /\ rows[i].lastSeen.sec <= rows'[i].lastSeen.sec]_vars
<1>1. ASSUME IInv, Next, NEW i \in DOMAIN rows \cap DOMAIN rows',
             rows[i].lastSeen # Null
      PROVE  /\ rows'[i].lastSeen # Null
             /\ rows[i].lastSeen.sec <= rows'[i].lastSeen.sec
  <2>1. /\ rows[i].lastSeen \in Instant /\ rows[i].lastSeen.sec \in Nat
        /\ rows[i] \in Row
    BY <1>1 DEF IInv, TypeOK, Row, Instant
  <2>2. ASSUME rows'[i].lastSeen = rows[i].lastSeen
        PROVE  /\ rows'[i].lastSeen # Null
               /\ rows[i].lastSeen.sec <= rows'[i].lastSeen.sec
    BY <1>1, <2>1, <2>2
  <2>3. ASSUME NEW at \in Times, rows'[i].lastSeen = Later(rows[i].lastSeen, at)
        PROVE  /\ rows'[i].lastSeen # Null
               /\ rows[i].lastSeen.sec <= rows'[i].lastSeen.sec
    <3>1. at \in Instant /\ at.sec \in Nat
      BY DEF Times, Past, Instant
    <3>2. Later(rows[i].lastSeen, at) # Null
          /\ Later(rows[i].lastSeen, at).sec =
               IF rows[i].lastSeen.sec < at.sec THEN at.sec ELSE rows[i].lastSeen.sec
      BY <1>1, <2>1, <3>1, LaterInstant
    <3> QED BY <2>1, <2>3, <3>1, <3>2
  <2>4. CASE CreateTables \/ AddColumn \/ Stop \/ Tick
    BY <2>2, <2>4 DEF CreateTables, AddColumn, Stop, Tick
  <2>5. CASE Backfill \/ RecoverOpen
    <3>1. rows'[i].lastSeen = rows[i].lastSeen
      BY <1>1, <2>1, <2>5 DEF Backfill, Backfilled, RecoverOpen, Recovered, Row
    <3> QED BY <2>2, <3>1
  <2>6. ASSUME NEW w \in Who, NEW at \in Times, Start(w, at)
        PROVE  rows'[i].lastSeen = rows[i].lastSeen
    <3>1. i # nextId
      BY <1>1 DEF IInv, TypeOK
    <3> QED BY <1>1, <2>6, <3>1 DEF Start, Inserted
  <2>7. ASSUME NEW id \in Ids, NEW at \in Times, NEW seen \in Times,
               EndStream(id, at, seen)
        PROVE  \/ rows'[i].lastSeen = rows[i].lastSeen
               \/ rows'[i].lastSeen = Later(rows[i].lastSeen, seen)
    BY <1>1, <2>1, <2>7 DEF EndStream, EndedAt, Row
  <2>8. ASSUME NEW S \in SUBSET Ids, NEW at \in Times,
               TouchEvents([j \in S |-> at])
        PROVE  \/ rows'[i].lastSeen = rows[i].lastSeen
               \/ rows'[i].lastSeen = Later(rows[i].lastSeen, at)
    BY <1>1, <2>1, <2>8 DEF TouchEvents, Touched, Row
  <2>9. ASSUME NEW id \in Ids, NEW w \in Who, UpdateEventIdentity(id, w)
        PROVE  rows'[i].lastSeen = rows[i].lastSeen
    BY <1>1, <2>1, <2>9 DEF UpdateEventIdentity, Renamed, Row
  <2>10. ASSUME NEW u \in Users, NEW at \in Times, TouchActivity(u, at)
         PROVE  rows'[i].lastSeen = rows[i].lastSeen
    BY <2>10 DEF TouchActivity
  <2>11. ASSUME NEW both \in BOOLEAN, Prune(both)
         PROVE  rows'[i].lastSeen = rows[i].lastSeen
    BY <1>1, <2>11 DEF Prune, Pruned
  <2> QED
    BY <1>1, <2>2, <2>3, <2>4, <2>5, <2>6, <2>7, <2>8, <2>9, <2>10, <2>11
       DEF Next, Operation
<1>2. IInv /\ [Next]_vars =>
        [\A i \in DOMAIN rows \cap DOMAIN rows' :
           rows[i].lastSeen # Null =>
             /\ rows'[i].lastSeen # Null
             /\ rows[i].lastSeen.sec <= rows'[i].lastSeen.sec]_vars
  BY <1>1
<1> QED BY <1>2, Invariance, PTL DEF Spec
===============================================================================
