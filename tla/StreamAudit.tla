------------------------------ MODULE StreamAudit ------------------------------
(***************************************************************************)
(* go2rtc reconciliation: the part of internal/audit.Manager that turns    *)
(* successive inventories of go2rtc's consumers into audited intervals,    *)
(* attributes them to people by way of signalling requests, checkpoints    *)
(* them, and closes them at a disconnect, an outage, a shutdown or the     *)
(* restart after a crash.                                                  *)
(*                                                                         *)
(* A poll is two steps, as in the code: the inventory is fetched without   *)
(* the mutex, and applied under it; consumers come and go, requests signal *)
(* and time passes in between.                                             *)
(***************************************************************************)
EXTENDS Correlation, FiniteSets

CONSTANTS
  Null,
  Keys,        \* "camera/connection-id"
  Camera,      \* [Keys -> cameras]
  Descs,       \* [host, ua] of a consumer, protocol folded in
  Inventories, \* what go2rtc may hold when the daemon first starts
  Classified,  \* [Descs -> [actor, conf]]: what classify says of a consumer
  Signallers,  \* [actor, host, ua] the gateway may pass to RecordSignal
  Generic,     \* actors that name nobody in particular
  Interval,    \* streamCheckpointInterval
  MaxClock,    \* bound on the clock
  Skew,        \* bound on how stale the `now' of a request is
  Budget       \* bounds on what the environment does: [kinds -> Nat]

Kinds == {"churn", "outage", "death", "fault", "signal"}
Cameras == {Camera[k] : k \in Keys}

ASSUME TimeAssumption ==
  Window \in Nat /\ Interval \in Nat \ {0} /\ MaxClock \in Nat /\ Skew \in Nat
ASSUME NullAssumption == Null \notin Nat
ASSUME KeysAssumption == IsFiniteSet(Keys)
ASSUME BudgetAssumption == Budget \in [Kinds -> Nat]
ASSUME InventoriesAssumption ==
  Inventories \subseteq UNION {[K -> Descs] : K \in SUBSET Keys}
ASSUME IdentityAssumption ==
  \A d \in Descs : Classified[d].conf \in ServiceDevice .. Exact

TimeBefore(a, b) == a < b
INSTANCE StoreOps WITH Before <- TimeBefore

VARIABLES
  inventory,  \* go2rtc's consumers: a function from some Keys to Descs
  fetched,    \* Null, or what client.Streams returned: [ok, streams]
  sessions,   \* m.sessions: key -> [eid, desc, who, misses, lastSeen]
  signals,    \* m.signals
  fresh,      \* m.fresh
  lastPoll,   \* m.lastPoll
  lastCheckpoint, \* m.lastStreamCheckpoint, Null when zero
  rows, nextId,   \* the store
  running,    \* "down", "up" or, after closeTracked, "closing"
  clock,
  left,       \* what remains of Budget
  observed,   \* history: event -> times a snapshot contained its consumer
  absent,     \* history: key -> successive snapshots without it, up to 2
  before      \* history: observed, as it was when observation was last interrupted

env     == <<inventory, clock, left>>
manager == <<fetched, sessions, signals, fresh, lastPoll, lastCheckpoint, running>>
store   == <<rows, nextId>>
history == <<observed, absent, before>>
vars    == <<inventory, fetched, sessions, signals, fresh, lastPoll,
             lastCheckpoint, rows, nextId, running, clock, left,
             observed, absent, before>>

Nothing == [x \in {} |-> Null]
Spend(kind, n) == left[kind] >= n /\ left' = [left EXCEPT ![kind] = left[kind] - n]

Init ==
  /\ inventory \in Inventories /\ clock = 0 /\ left = Budget
  /\ fetched = Null /\ sessions = Nothing /\ signals = <<>> /\ fresh = FALSE
  /\ lastPoll = Null /\ lastCheckpoint = Null /\ running = "down"
  /\ rows = Nothing /\ nextId = 1
  /\ observed = Nothing /\ absent = [k \in Keys |-> 0] /\ before = Nothing

-------------------------------------------------------------------------------
\* go2rtc's side: one consumer connects, changes under its id, or leaves.
Connect(k, d) ==
  /\ ~(k \in DOMAIN inventory /\ inventory[k] = d)
  /\ Spend("churn", 1)
  /\ inventory' = [j \in DOMAIN inventory \cup {k} |->
                     IF j = k THEN d ELSE inventory[j]]
  /\ UNCHANGED <<manager, store, history, clock>>

Disconnect(k) ==
  /\ k \in DOMAIN inventory
  /\ Spend("churn", 1)
  /\ inventory' = [j \in DOMAIN inventory \ {k} |-> inventory[j]]
  /\ UNCHANGED <<manager, store, history, clock>>

Tick ==
  /\ clock < MaxClock
  /\ clock' = clock + 1
  /\ UNCHANGED <<manager, store, history, inventory, left>>

-------------------------------------------------------------------------------
\* client.Streams, the first half of poll: the mutex is not held.
Fetch ==
  /\ running = "up" /\ fetched = Null
  /\ fetched' = [ok |-> TRUE, streams |-> inventory]
  /\ UNCHANGED <<env, store, history, sessions, signals, fresh, lastPoll,
                 lastCheckpoint, running>>

FetchFails ==
  /\ running = "up" /\ fetched = Null
  /\ Spend("outage", 1)
  /\ fetched' = [ok |-> FALSE, streams |-> Nothing]
  /\ UNCHANGED <<inventory, clock, store, history, sessions, signals, fresh,
                 lastPoll, lastCheckpoint, running>>

\* The error branch of poll.
PollFailed ==
  /\ running = "up" /\ fetched # Null /\ ~fetched.ok
  /\ fresh' = FALSE
  /\ fetched' = Null
  /\ before' = observed
  /\ UNCHANGED <<env, store, sessions, signals, lastPoll, lastCheckpoint,
                 running, observed, absent>>

\* The two loops of poll, over the inventory and then over the sessions it
\* lacked, as the sets of keys that each branch takes.
\* Mutant: the sessions of before an outage are reconciled like any other.
AliveAcrossOutage == sessions

Alive == IF fresh THEN sessions ELSE Nothing
Kept(snap) == {k \in DOMAIN snap \cap DOMAIN Alive : Alive[k].desc = snap[k]}
Reused(snap) == (DOMAIN snap \cap DOMAIN Alive) \ Kept(snap)
Gone(snap) == {k \in DOMAIN Alive \ DOMAIN snap : Alive[k].misses + 1 >= 2}
\* Mutant: a reused connection id replaces the session without ending its row.
EndingUnlessReused(snap) == (DOMAIN sessions \ DOMAIN Alive) \cup Gone(snap)

Ending(snap) == (DOMAIN sessions \ DOMAIN Alive) \cup Reused(snap) \cup Gone(snap)
Unknowns(snap) == DOMAIN snap \ Kept(snap)
\* Mutant: an ended session is not deleted from the map.
StayWhenGone(snap) == DOMAIN sessions \ (Reused(snap) \cup (DOMAIN sessions \ DOMAIN Alive))

Stay(snap) == DOMAIN sessions \ Ending(snap)

IdentityOf(s) == [actor |-> s.actor, conf |-> s.conf]
Identify(k, desc) ==
  LET found == MatchSignal(signals, Camera[k], desc, clock)
  IN  IF found = {} THEN Classified[desc] ELSE IdentityOf(CHOOSE s \in found : TRUE)

\* The signal found, if it ranks higher than what the session carries.
Upgraded(who, found) ==
  LET higher == {s \in found : ShouldUpgrade(who.conf, s.conf)}
  IN  IF higher = {} THEN who ELSE IdentityOf(CHOOSE s \in higher : TRUE)

\* The sessions of some keys as arguments of a store call.
Events(ss, K) == {ss[k].eid : k \in K}
KeyOf(ss, K, e) == CHOOSE k \in K : ss[k].eid = e
LastSeenOf(ss, K) == [e \in Events(ss, K) |-> ss[KeyOf(ss, K, e)].lastSeen]
WhoOf(ss, K) == [e \in Events(ss, K) |-> ss[KeyOf(ss, K, e)].who]
NewOf(ss, K) == [e \in Events(ss, K) |-> [who |-> ss[KeyOf(ss, K, e)].who, at |-> clock]]

\* Mutant: memory is changed before the error is looked at.
UpgradedAnyway(s, found, broken) == [s EXCEPT !.who = Upgraded(s.who, found)]

\* upgradeSessionIdentityLocked: memory follows the store.
UpgradedSession(s, found, broken) ==
  IF broken THEN s ELSE [s EXCEPT !.who = Upgraded(s.who, found)]

\* Mutant: only the sessions of the last inventory are saved.
CheckpointPresent(ss) == LastSeenOf(ss, {k \in DOMAIN ss : ss[k].misses = 0})

\* checkpointStreamsLocked: the first poll only starts the interval, and the
\* sessions that this poll missed are saved with the others.
Checkpoint(ss) == LastSeenOf(ss, DOMAIN ss)
CheckpointDue == lastCheckpoint # Null /\ clock - lastCheckpoint >= Interval

\* Mutant: a consumer that comes back keeps its miss.
PolledSessionsMissing(snap, started, ids, noName) ==
  [k \in Stay(snap) \cup started |->
     IF k \in started
     THEN [eid |-> ids[k], desc |-> snap[k], who |-> Identify(k, snap[k]),
           misses |-> 0, lastSeen |-> clock]
     ELSE IF k \notin DOMAIN snap
     THEN [sessions[k] EXCEPT !.misses = sessions[k].misses + 1]
     ELSE [sessions[k] EXCEPT !.lastSeen = clock]]

PolledSessions(snap, started, ids, noName) ==
  [k \in Stay(snap) \cup started |->
     IF k \in started
     THEN [eid |-> ids[k], desc |-> snap[k], who |-> Identify(k, snap[k]),
           misses |-> 0, lastSeen |-> clock]
     ELSE IF k \notin DOMAIN snap
     THEN [sessions[k] EXCEPT !.misses = sessions[k].misses + 1]
     ELSE UpgradedSession([sessions[k] EXCEPT !.misses = 0, !.lastSeen = clock],
                          MatchSignal(signals, Camera[k], snap[k], clock),
                          k \in noName)]

\* The second half of poll, under the mutex.  EndStream fails for the keys of
\* noEnd, Start for noStart, UpdateEventIdentity for noName, and TouchEvents as
\* a whole when noTouch; ids are the row ids of the streams it starts.
PollApplied(noEnd, noStart, noName, noTouch, ids) ==
  LET snap    == fetched.streams
      started == Unknowns(snap) \ noStart
      renamed == Renamed(EndedAt(rows, clock, LastSeenOf(sessions, Ending(snap) \ noEnd)),
                         WhoOf(sessions', Stay(snap) \ noName))
      polled  == Inserted(renamed, NewOf(sessions', started))
      touched == Touched(polled, Checkpoint(sessions'))
      saved   == CheckpointDue /\ ~noTouch
  IN
  /\ sessions' = PolledSessions(snap, started, ids, noName)
  /\ rows' = IF saved THEN touched ELSE polled
  /\ nextId' = nextId + Cardinality(started)
  /\ lastCheckpoint' = IF lastCheckpoint = Null \/ saved THEN clock ELSE lastCheckpoint
  /\ signals' = Unexpired(signals, clock)
  /\ fresh' = TRUE /\ lastPoll' = clock /\ fetched' = Null
  /\ observed' = [e \in DOMAIN observed \cup Events(sessions', started) |->
                    IF e \notin DOMAIN observed THEN {clock}
                    ELSE IF e \in Events(sessions, Kept(snap))
                    THEN observed[e] \cup {clock} ELSE observed[e]]
  /\ absent' = [k \in Keys |-> IF k \in DOMAIN snap THEN 0
                            ELSE IF absent[k] = 2 THEN 2 ELSE absent[k] + 1]
  /\ UNCHANGED <<inventory, running, clock, before>>

NewIds(K) ==
  {ids \in [K -> nextId .. nextId + Cardinality(K) - 1] :
     \A j, k \in K : ids[j] = ids[k] => j = k}

Poll ==
  /\ running = "up" /\ fetched # Null /\ fetched.ok
  /\ \E noEnd \in SUBSET Ending(fetched.streams),
        noStart \in SUBSET Unknowns(fetched.streams),
        noName \in SUBSET Kept(fetched.streams),
        noTouch \in {FALSE, CheckpointDue} :
       /\ Spend("fault", Cardinality(noEnd) + Cardinality(noStart)
                         + Cardinality(noName) + IF noTouch THEN 1 ELSE 0)
       /\ \E ids \in NewIds(Unknowns(fetched.streams) \ noStart) :
            PollApplied(noEnd, noStart, noName, noTouch, ids)

\* RecordSignal, called by the gateway with the time its request came in.  The
\* confidence is always "correlated" (gateway.go:177).
RecordSignal(r, camera, at, noName) ==
  LET s == [camera |-> camera, actor |-> r.actor, conf |-> Correlated,
            host |-> r.host, ua |-> r.ua, at |-> at]
      kept == Append(Unexpired(signals, at), s)
      here == {k \in DOMAIN sessions : Camera[k] = camera}
  IN
  /\ running \in {"up", "closing"}
  /\ left["signal"] > 0 /\ left["fault"] >= Cardinality(noName)
  /\ left' = [left EXCEPT !["signal"] = left["signal"] - 1,
                          !["fault"] = left["fault"] - Cardinality(noName)]
  /\ noName \subseteq here
  /\ signals' = kept
  /\ sessions' =
       [k \in DOMAIN sessions |->
          IF k \notin here THEN sessions[k]
          ELSE UpgradedSession(sessions[k],
                 MatchSignal(kept, camera, sessions[k].desc, at), k \in noName)]
  /\ rows' = Renamed(rows, WhoOf(sessions', here \ noName))
  /\ UNCHANGED <<inventory, clock, fetched, fresh, lastPoll, lastCheckpoint,
                 nextId, running, history>>

\* Mutant: closeTracked ends the streams like every other event, at now.
CloseTrackedNow(noEnd) ==
  /\ running = "up" /\ fetched = Null
  /\ noEnd \subseteq DOMAIN sessions
  /\ left["death"] > 0 /\ left["fault"] >= Cardinality(noEnd)
  /\ left' = [left EXCEPT !["death"] = left["death"] - 1]
  /\ running' = "closing"
  /\ rows' = EndedAt(rows, clock, [e \in Events(sessions, DOMAIN sessions \ noEnd) |-> clock])
  /\ UNCHANGED <<inventory, clock, fetched, sessions, signals, fresh, lastPoll,
                 lastCheckpoint, nextId, history>>

\* closeTracked, deferred by Run: the sessions stay in memory, and requests
\* that are still being served may signal until the process exits.
CloseTracked(noEnd) ==
  /\ running = "up" /\ fetched = Null
  /\ noEnd \subseteq DOMAIN sessions
  /\ left["death"] > 0 /\ left["fault"] >= Cardinality(noEnd)
  /\ left' = [left EXCEPT !["death"] = left["death"] - 1,
                          !["fault"] = left["fault"] - Cardinality(noEnd)]
  /\ running' = "closing"
  /\ rows' = EndedAt(rows, clock, LastSeenOf(sessions, DOMAIN sessions \ noEnd))
  /\ UNCHANGED <<inventory, clock, fetched, sessions, signals, fresh, lastPoll,
                 lastCheckpoint, nextId, history>>

\* Only the store survives the process.
Die ==
  /\ running' = "down" /\ before' = observed
  /\ fetched' = Null /\ sessions' = Nothing /\ signals' = <<>> /\ fresh' = FALSE
  /\ lastPoll' = Null /\ lastCheckpoint' = Null
  /\ UNCHANGED <<inventory, clock, store, observed, absent>>

Exit == running = "closing" /\ Die /\ UNCHANGED left
Crash == running # "down" /\ Spend("death", 1) /\ Die

\* Mutant: no RecoverOpen.
BootOnly ==
  /\ running = "down"
  /\ running' = "up"
  /\ UNCHANGED <<env, fetched, sessions, signals, fresh, lastPoll,
                 lastCheckpoint, rows, nextId, history>>

\* main: store.Open, RecoverOpen, and a new manager.
Boot ==
  /\ running = "down"
  /\ running' = "up"
  /\ rows' = Recovered(rows, clock)
  /\ UNCHANGED <<env, fetched, sessions, signals, fresh, lastPoll,
                 lastCheckpoint, nextId, history>>

-------------------------------------------------------------------------------
Next ==
  \/ \E k \in Keys, d \in Descs : Connect(k, d)
  \/ \E k \in Keys : Disconnect(k)
  \/ Tick
  \/ Fetch \/ FetchFails \/ PollFailed \/ Poll
  \/ \E r \in Signallers, c \in Cameras :
       \E noName \in SUBSET DOMAIN sessions,
          at \in {t \in 0 .. clock : t + Skew >= clock} :
         RecordSignal(r, c, at, noName)
  \/ \E noEnd \in SUBSET DOMAIN sessions : CloseTracked(noEnd)
  \/ Exit \/ Crash \/ Boot

Spec == Init /\ [][Next]_vars

\* The Run loop keeps polling and no outage lasts for ever; a shutdown ends in
\* the exit of the process, and a crashed one is restarted (the `restart:
\* unless-stopped' of compose.example.yaml).
Fairness == /\ WF_vars(Fetch) /\ WF_vars(PollFailed) /\ WF_vars(Poll)
            /\ WF_vars(Exit) /\ WF_vars(Boot)
FairSpec == Spec /\ Fairness

-------------------------------------------------------------------------------
NoFaults == left["fault"] = Budget["fault"]
OpenRows == {e \in DOMAIN rows : IsOpen(rows[e])}

\* A session speaks for one open row of its own, and the two agree on who is
\* watching, whatever store calls failed ("can upgrade both memory and the open
\* SQLite row", docs/architecture.md:139).
MemoryInStep ==
  running = "up" =>
    /\ \A k \in DOMAIN sessions : /\ sessions[k].eid \in OpenRows
                                  /\ rows[sessions[k].eid].who = sessions[k].who
    /\ \A j, k \in DOMAIN sessions : sessions[j].eid = sessions[k].eid => j = k

\* An open row that no session can end is the price of a store call that failed,
\* one for one, and no other order of events leaves any: neither while the daemon
\* runs nor once closeTracked has run nor after a restart.
NoOrphanRows ==
  LET held == IF running = "closing" THEN {} ELSE Events(sessions, DOMAIN sessions)
  IN  running # "down" =>
        Cardinality(OpenRows \ held) <= Budget["fault"] - left["fault"]

\* The last observation the daemon knows of an interval: the session's, in
\* memory, while there is one, and else the row's.
Known(e) ==
  IF e \in Events(sessions, DOMAIN sessions)
  THEN sessions[KeyOf(sessions, DOMAIN sessions, e)].lastSeen ELSE rows[e].lastSeen

Log == INSTANCE AuditLog WITH
  log <- [e \in DOMAIN rows |-> [who |-> rows[e].who, seen |-> observed[e],
                                lastSeen |-> Known(e), open |-> IsOpen(rows[e])]],
  stale <- DOMAIN before,
  polled <- lastPoll

\* Rows and memory together are an audit log: no observation is invented,
\* "because continuity cannot be proven" no interval spans a gap
\* (docs/architecture.md:109), what ends "writes the final observed time"
\* (docs/architecture.md:99), ended rows stay as they are, names only get better
\* founded, and a crash costs observations of less than a checkpoint interval.
KeepsAuditLog == Log!Spec

\* Between outages a session ends only when two successive inventories lacked
\* its consumer, or when one held another consumer under its id.
TwoMissesToEnd ==
  [][fresh /\ running = "up" /\ running' = "up" =>
       \A k \in DOMAIN sessions :
         \/ k \in DOMAIN sessions' /\ sessions'[k].eid = sessions[k].eid
         \/ absent'[k] = 2
         \/ absent'[k] = 0 /\ fetched.streams[k] # sessions[k].desc]_vars

\* An interval is never taken from one person and given to another: a new name
\* is always better founded than the one it replaces.
AttributionOnlyRises ==
  [][\A e \in DOMAIN rows :
       \/ rows'[e].who = rows[e].who
       \/ rows'[e].who.conf > rows[e].who.conf]_vars

\* docs/architecture.md:130, "An exact person identity observed during ...
\* signaling may replace the generic identity of a matching go2rtc consumer":
\* while the newest signal is a person's and matches a session outright, the
\* session does not carry a generic identity.
PersonReplacesGeneric ==
  LET s == signals[Len(signals)]
  IN  signals # <<>> /\ s.actor \notin Generic /\ Live(s, clock) /\ NoFaults =>
        \A k \in DOMAIN sessions :
          Camera[k] = s.camera /\ Strong(s, sessions[k].desc) =>
            sessions[k].who.actor \notin Generic

\* When the last consumer is gone for good every interval of the history gets
\* its end, through crashes, shutdowns and the restarts after them.
EveryIntervalEnds ==
  <>[](DOMAIN inventory = {}) /\ []NoFaults => <>[](OpenRows = {})
===============================================================================
