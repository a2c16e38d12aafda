------------------------------ MODULE StreamProofs ------------------------------
(***************************************************************************)
(* The reconciliation of streams, for any number of connections, consumers *)
(* and signals, any checkpoint interval, and any failures and deaths: what *)
(* memory and rows know of each other, and that together they are an       *)
(* AuditLog as long as no store call fails; and what the history page      *)
(* makes of both.                                                          *)
(***************************************************************************)
EXTENDS HistoryView, TLAPS, FiniteSetTheorems

\* A record that has these fields, whatever its free-form ones hold.
IsRow(r) == r \in [who : {r.who}, started : Nat, lastSeen : Nat, ended : Nat \cup {Null}]
IsSession(s) ==
  s \in [eid : Nat, desc : {s.desc}, who : {s.who}, misses : 0 .. 1, lastSeen : Nat]

Tables ==
  /\ nextId \in Nat \ {0} /\ DOMAIN rows \subseteq 1 .. (nextId - 1)
  /\ \A e \in DOMAIN rows : IsRow(rows[e])
Environment ==
  /\ clock \in Nat /\ left \in [Kinds -> Nat] /\ left["fault"] <= Budget["fault"]
  /\ running \in {"down", "up", "closing"}
  /\ DOMAIN inventory \subseteq Keys
  /\ fetched # Null => DOMAIN fetched.streams \subseteq Keys
  /\ fresh \in BOOLEAN /\ absent \in [Keys -> 0 .. 2]
  /\ lastPoll \in Nat \cup {Null} /\ lastCheckpoint \in Nat \cup {Null}
  /\ lastCheckpoint # Null => lastCheckpoint <= clock

\* Each session has a row to itself, which is not ahead of it; while the row is
\* open they agree on who it is, and when it has ended, on the last observation.
Session(k) ==
  LET s == sessions[k]  row == rows[sessions[k].eid] IN
  /\ IsSession(s) /\ s.eid \in DOMAIN rows
  /\ row.lastSeen <= s.lastSeen /\ s.lastSeen <= clock
  /\ IF IsOpen(row) THEN row.who = s.who ELSE row.lastSeen = s.lastSeen
Memory ==
  /\ DOMAIN sessions \subseteq Keys
  /\ \A k \in DOMAIN sessions : Session(k)
  /\ \A j, k \in DOMAIN sessions : sessions[j].eid = sessions[k].eid => j = k
  /\ running = "up" => \A k \in DOMAIN sessions : IsOpen(rows[sessions[k].eid])
  /\ running = "down" => DOMAIN sessions = {}

\* Observations: the session holds the latest, the row one of them, and those of
\* before an interruption belong to sessions that are over.
Observations ==
  /\ DOMAIN observed = DOMAIN rows /\ DOMAIN before \subseteq DOMAIN rows
  /\ \A e \in DOMAIN rows : rows[e].lastSeen \in observed[e]
  /\ \A k \in DOMAIN sessions :
       /\ sessions[k].lastSeen \in observed[sessions[k].eid]
       /\ \A t \in observed[sessions[k].eid] : t \in Nat /\ t <= sessions[k].lastSeen
       /\ fresh => sessions[k].eid \notin DOMAIN before
       /\ fresh => sessions[k].misses <= absent[k]

\* As long as nothing fails, what was observed before the last checkpoint is in
\* the row, and the last checkpoint is not long ago.
Checkpointed ==
  NoFaults =>
    \A k \in DOMAIN sessions :
      /\ lastPoll \in Nat /\ lastCheckpoint \in Nat
      /\ lastPoll < lastCheckpoint + Interval
      /\ \A t \in observed[sessions[k].eid] :
           t < lastCheckpoint => t <= rows[sessions[k].eid].lastSeen

SInv == Tables /\ Environment /\ Memory /\ Observations /\ Checkpointed
Ids == DOMAIN rows

-------------------------------------------------------------------------------
\* Nothing is known at first.
LEMMA InitSInv == Init => SInv
<1> SUFFICES ASSUME Init PROVE SInv
  OBVIOUS
<1>1. inventory \in UNION {[K -> Descs] : K \in SUBSET Keys} /\ DOMAIN inventory \subseteq Keys
  BY InventoriesAssumption DEF Init
<1>2. DOMAIN Nothing = {}
  BY DEF Nothing
<1>3. Tables
  BY <1>2 DEF Init, Tables
<1>6. Environment
  <2>1. clock \in Nat /\ left \in [Kinds -> Nat] /\ left["fault"] <= Budget["fault"]
    BY BudgetAssumption DEF Init, Kinds
  <2>2. absent \in [Keys -> 0 .. 2]
    BY DEF Init
  <2>3. fetched = Null /\ fresh = FALSE /\ running = "down" /\ lastPoll = Null
        /\ lastCheckpoint = Null
    BY DEF Init
  <2>4. QED
    BY <1>1, <2>1, <2>2, <2>3 DEF Environment
<1>4. Memory /\ Observations /\ Checkpointed
  BY <1>2 DEF Init, Memory, Observations, Checkpointed
<1>5. QED
  BY <1>3, <1>4, <1>6 DEF SInv

\* No two sessions of a set of keys have the same event.
Apart(ss, K) == \A i, j \in K : ss[i].eid = ss[j].eid => i = j

\* The sessions of a set of keys, as the arguments of a store call: each
\* event's argument is its own session's.
LEMMA Arguments ==
  ASSUME NEW ss, NEW K, NEW k \in K, Apart(ss, K)
  PROVE  /\ ss[k].eid \in Events(ss, K)
         /\ KeyOf(ss, K, ss[k].eid) = k
         /\ LastSeenOf(ss, K)[ss[k].eid] = ss[k].lastSeen
         /\ WhoOf(ss, K)[ss[k].eid] = ss[k].who
<1>1. ss[k].eid \in Events(ss, K)
  BY DEF Events
<1>2. KeyOf(ss, K, ss[k].eid) = k
  BY DEF KeyOf, Apart
<1>3. QED
  BY <1>1, <1>2 DEF LastSeenOf, WhoOf

LEMMA NewArguments ==
  ASSUME NEW ss, NEW K, NEW k \in K, Apart(ss, K)
  PROVE  NewOf(ss, K)[ss[k].eid] = [who |-> ss[k].who, at |-> clock]
BY DEF NewOf, KeyOf, Events, Apart

LEMMA ArgumentDomains ==
  ASSUME NEW ss, NEW K
  PROVE  /\ DOMAIN LastSeenOf(ss, K) = Events(ss, K)
         /\ DOMAIN WhoOf(ss, K) = Events(ss, K)
         /\ DOMAIN NewOf(ss, K) = Events(ss, K)
BY DEF LastSeenOf, WhoOf, NewOf

\* Whether it is upgraded or not, a name only gets better founded.
LEMMA UpgradeRises ==
  ASSUME NEW who, NEW found
  PROVE  Upgraded(who, found) = who \/ Upgraded(who, found).conf > who.conf
<1> DEFINE higher == {s \in found : ShouldUpgrade(who.conf, s.conf)}
           best == CHOOSE s \in higher : TRUE
<1>1. CASE higher = {}
  BY <1>1 DEF Upgraded
<1>2. CASE higher # {}
  <2>1. best \in higher
    BY <1>2
  <2>2. best.conf > who.conf
    BY <2>1 DEF ShouldUpgrade
  <2>3. Upgraded(who, found) = IdentityOf(best)
    BY <1>2 DEF Upgraded
  <2>4. QED
    BY <2>2, <2>3 DEF IdentityOf
<1>3. QED
  BY <1>1, <1>2

\* The budget.
LEMMA Spending ==
  ASSUME Environment, NEW kind \in Kinds, NEW n \in Nat, Spend(kind, n)
  PROVE  /\ left' \in [Kinds -> Nat] /\ left'["fault"] <= left["fault"]
         /\ left'["fault"] <= Budget["fault"]
         /\ left'["fault"] = left["fault"] - IF kind = "fault" THEN n ELSE 0
<1>1. /\ left \in [Kinds -> Nat] /\ left[kind] - n \in Nat /\ "fault" \in Kinds
      /\ left' = [left EXCEPT ![kind] = left[kind] - n]
  BY DEF Environment, Spend, Kinds
<1>2. left' \in [Kinds -> Nat]
  BY <1>1
<1>3. left'["fault"] = left["fault"] - IF kind = "fault" THEN n ELSE 0
  BY <1>1
<1>4. Budget["fault"] \in Nat /\ left["fault"] \in Nat
  BY <1>1, BudgetAssumption
<1>5. QED
  BY <1>2, <1>3, <1>4 DEF Environment

LEMMA NoFaultsYet ==
  ASSUME SInv, Environment', left'["fault"] <= left["fault"], NoFaults'
  PROVE  NoFaults
<1>1. left["fault"] \in Nat /\ left'["fault"] \in Nat /\ Budget["fault"] \in Nat
  BY BudgetAssumption DEF SInv, Environment, Kinds
<1>2. QED
  BY <1>1 DEF SInv, Environment, NoFaults

\* Steps that neither memory nor the store takes part in.
LEMMA ElsewhereSInv ==
  ASSUME SInv, Environment', clock <= clock', left'["fault"] <= left["fault"],
         UNCHANGED <<sessions, store, observed, before, absent, fresh, lastPoll,
                     lastCheckpoint, running>>
  PROVE  SInv'
<1> USE DEF SInv, store
<1>1. Tables'
  BY DEF Tables
<1>2. ASSUME NEW k \in DOMAIN sessions
      PROVE  Session(k)'
  <2>1. Session(k) /\ clock \in Nat /\ clock' \in Nat
    BY <1>2 DEF Memory, Environment
  <2>2. sessions[k].lastSeen \in Nat /\ sessions[k].lastSeen <= clock'
    BY <2>1 DEF Session, IsSession
  <2>3. QED
    BY <2>1, <2>2 DEF Session
<1>3. Memory'
  BY <1>2 DEF Memory
<1>4. Observations'
  BY DEF Observations
<1>5. Checkpointed'
  BY NoFaultsYet DEF Checkpointed
<1>6. QED
  BY <1>1, <1>3, <1>4, <1>5

LEMMA Go2rtcSInv ==
  ASSUME SInv, \/ \E k \in Keys, d \in Descs : Connect(k, d)
               \/ \E k \in Keys : Disconnect(k)
               \/ Tick \/ Fetch \/ FetchFails
  PROVE  SInv'
<1> USE DEF SInv
<1>1. CASE \E k \in Keys, d \in Descs : Connect(k, d)
  <2>1. /\ Spend("churn", 1) /\ DOMAIN inventory' \subseteq Keys
        /\ UNCHANGED <<manager, store, history, clock>>
    BY <1>1 DEF Connect, Environment
  <2>2. Environment' /\ left'["fault"] <= left["fault"]
    BY <2>1, Spending DEF Environment, manager, history, Kinds
  <2>3. QED
    BY <2>1, <2>2, ElsewhereSInv DEF manager, history, Environment
<1>2. CASE \E k \in Keys : Disconnect(k)
  <2>1. /\ Spend("churn", 1) /\ DOMAIN inventory' \subseteq Keys
        /\ UNCHANGED <<manager, store, history, clock>>
    BY <1>2 DEF Disconnect, Environment
  <2>2. Environment' /\ left'["fault"] <= left["fault"]
    BY <2>1, Spending DEF Environment, manager, history, Kinds
  <2>3. QED
    BY <2>1, <2>2, ElsewhereSInv DEF manager, history, Environment
<1>3. CASE Tick
  <2>1. Environment' /\ clock <= clock' /\ left'["fault"] <= left["fault"]
    BY <1>3 DEF Tick, Environment, manager, history, Kinds
  <2>2. QED
    BY <1>3, <2>1, ElsewhereSInv DEF Tick, manager, history
<1>4. CASE Fetch
  <2>1. fetched'.streams = inventory
    BY <1>4 DEF Fetch
  <2>2. Environment' /\ clock <= clock' /\ left'["fault"] <= left["fault"]
    BY <1>4, <2>1 DEF Fetch, Environment, env, history, Kinds
  <2>3. QED
    BY <1>4, <2>2, ElsewhereSInv DEF Fetch, env, history
<1>5. CASE FetchFails
  <2>1. DOMAIN fetched'.streams = {} /\ Spend("outage", 1)
    BY <1>5 DEF FetchFails, Nothing
  <2>2. Environment' /\ clock <= clock' /\ left'["fault"] <= left["fault"]
    BY <1>5, <2>1, Spending DEF FetchFails, Environment, history, Kinds
  <2>3. QED
    BY <1>5, <2>2, ElsewhereSInv DEF FetchFails, history
<1>6. QED
  BY <1>1, <1>2, <1>3, <1>4, <1>5

\* An outage: nothing that is in memory will be seen again.
LEMMA OutageSInv ==
  ASSUME SInv, PollFailed
  PROVE  SInv'
<1> USE DEF SInv, PollFailed, env, store
<1>1. Tables' /\ Environment'
  BY DEF Tables, Environment
<1>2. Memory'
  BY DEF Memory, Session
<1>3. Observations'
  BY DEF Observations
<1>4. Checkpointed'
  BY DEF Checkpointed, NoFaults
<1>5. QED
  BY <1>1, <1>2, <1>3, <1>4

\* A death: only the store survives.
LEMMA DeathSInv ==
  ASSUME SInv, Exit \/ Crash
  PROVE  SInv'
<1> USE DEF SInv
<1>1. Die /\ left' \in [Kinds -> Nat] /\ left'["fault"] <= Budget["fault"]
  BY Spending DEF Exit, Crash, Environment, Kinds
<1>2. DOMAIN sessions' = {} /\ fetched' = Null /\ fresh' = FALSE /\ running' = "down"
  BY <1>1 DEF Die, Nothing
<1>3. Tables'
  BY <1>1 DEF Die, Tables, store
<1>4. Environment'
  BY <1>1, <1>2 DEF Die, Environment
<1>5. Memory' /\ Checkpointed'
  BY <1>2 DEF Memory, Checkpointed
<1>6. Observations'
  BY <1>1, <1>2 DEF Die, Observations, store
<1>7. QED
  BY <1>3, <1>4, <1>5, <1>6

\* The start of the next process, which ends every row.
LEMMA BootSInv ==
  ASSUME SInv, Boot
  PROVE  SInv'
<1> USE DEF SInv
<1>1. /\ DOMAIN sessions = {} /\ UNCHANGED <<env, fetched, sessions, fresh, lastPoll,
                                             lastCheckpoint, nextId, history>>
      /\ rows' = Recovered(rows, clock) /\ running' = "up"
  BY DEF Boot, Memory
<1>2. DOMAIN rows' = DOMAIN rows
  BY <1>1 DEF Recovered
<1>3. ASSUME NEW e \in DOMAIN rows
      PROVE  IsRow(rows'[e]) /\ rows'[e].lastSeen = rows[e].lastSeen
  <2>1. IsRow(rows[e]) /\ clock \in Nat
    BY DEF Tables, Environment
  <2>2. rows'[e] = IF IsOpen(rows[e])
                   THEN [rows[e] EXCEPT !.ended = clock, !.lastSeen = rows[e].lastSeen]
                   ELSE rows[e]
    BY <1>1, <1>3, <2>1, NullAssumption DEF Recovered, IsRow
  <2>3. QED
    BY <2>1, <2>2 DEF IsRow
<1>4. Tables'
  BY <1>1, <1>2, <1>3 DEF Tables
<1>5. Environment'
  BY <1>1 DEF Environment, env, history
<1>6. Memory' /\ Checkpointed'
  BY <1>1 DEF Memory, Checkpointed
<1>7. Observations'
  BY <1>1, <1>2, <1>3 DEF Observations, history
<1>8. QED
  BY <1>4, <1>5, <1>6, <1>7

-------------------------------------------------------------------------------
\* upgradeSessionIdentityLocked changes the name alone, and only for a better one.
Better(s, found) == [s EXCEPT !.who = Upgraded(s.who, found)]
LEMMA UpgradedFields ==
  ASSUME NEW s, IsSession(s), NEW found, NEW t, t = Better(s, found)
  PROVE  /\ IsSession(t) /\ t.eid = s.eid /\ t.desc = s.desc /\ t.misses = s.misses
         /\ t.lastSeen = s.lastSeen
         /\ t.who = s.who \/ t.who.conf > s.who.conf
<1>1. /\ IsSession(t) /\ t.eid = s.eid /\ t.desc = s.desc /\ t.misses = s.misses
      /\ t.lastSeen = s.lastSeen /\ t.who = Upgraded(s.who, found)
  BY DEF IsSession, Better
<1>2. QED
  BY <1>1, UpgradeRises

\* So does a session that a poll sees again.
Watched(s, now) == [s EXCEPT !.misses = 0, !.lastSeen = now]
LEMMA SeenFields ==
  ASSUME NEW s, IsSession(s), NEW now \in Nat, NEW u, u = Watched(s, now)
  PROVE  /\ IsSession(u) /\ u.eid = s.eid /\ u.desc = s.desc /\ u.misses = 0
         /\ u.lastSeen = now /\ u.who = s.who
<1>1. s = [eid |-> s.eid, desc |-> s.desc, who |-> s.who, misses |-> s.misses,
           lastSeen |-> s.lastSeen] /\ s.eid \in Nat
  BY DEF IsSession
<1>2. u = [eid |-> s.eid, desc |-> s.desc, who |-> s.who, misses |-> 0, lastSeen |-> now]
  BY <1>1 DEF Watched
<1>3. QED
  BY <1>1, <1>2 DEF IsSession

\* UpdateEventIdentity for the sessions of K: an open row gets the name of its
\* session, and nothing else changes.
LEMMA RenamedRow ==
  ASSUME NEW table, NEW ss, NEW K, Apart(ss, K),
         NEW e \in DOMAIN table, IsRow(table[e]),
         NEW r, r = Renamed(table, WhoOf(ss, K))[e]
  PROVE  /\ IsRow(r) /\ r.started = table[e].started /\ r.lastSeen = table[e].lastSeen
         /\ r.ended = table[e].ended
         /\ e \notin Events(ss, K) \/ ~IsOpen(table[e]) => r = table[e]
         /\ \A k \in K : ss[k].eid = e /\ IsOpen(table[e]) => r.who = ss[k].who
<1>1. r = IF e \in Events(ss, K) /\ IsOpen(table[e])
          THEN [table[e] EXCEPT !.who = WhoOf(ss, K)[e]] ELSE table[e]
  BY ArgumentDomains DEF Renamed
<1>2. CASE e \in Events(ss, K) /\ IsOpen(table[e])
  <2>1. r = [table[e] EXCEPT !.who = WhoOf(ss, K)[e]]
    BY <1>1, <1>2
  <2>2. /\ IsRow(r) /\ r.started = table[e].started /\ r.lastSeen = table[e].lastSeen
        /\ r.ended = table[e].ended /\ r.who = WhoOf(ss, K)[e]
    BY <2>1 DEF IsRow
  <2>3. ASSUME NEW k \in K, ss[k].eid = e
        PROVE  WhoOf(ss, K)[e] = ss[k].who
    <3>1. WhoOf(ss, K)[ss[k].eid] = ss[k].who
      BY <2>3, Arguments
    <3>2. QED
      BY <2>3, <3>1
  <2>4. QED
    BY <1>2, <2>2, <2>3
<1>3. CASE e \notin Events(ss, K) \/ ~IsOpen(table[e])
  <2>1. r = table[e]
    BY <1>1, <1>3
  <2>2. \A k \in K : ss[k].eid = e => e \in Events(ss, K)
    BY DEF Events
  <2>3. QED
    BY <1>3, <2>1, <2>2
<1>4. QED
  BY <1>2, <1>3

\* EndStream for the sessions of K: their rows end with their last observation.
LEMMA EndedRow ==
  ASSUME SInv, NEW K \in SUBSET DOMAIN sessions, NEW e \in Ids,
         NEW r, r = EndedAt(rows, clock, LastSeenOf(sessions, K))[e]
  PROVE  /\ IsRow(r) /\ r.who = rows[e].who
         /\ e \notin Events(sessions, K) \/ ~IsOpen(rows[e]) => r = rows[e]
         /\ \A k \in K : sessions[k].eid = e =>
              ~IsOpen(r) /\ r.lastSeen = sessions[k].lastSeen
<1>1. IsRow(rows[e]) /\ clock \in Nat /\ clock # Null
  BY NullAssumption DEF SInv, Tables, Environment, Ids
<1>2. r = IF e \in Events(sessions, K) /\ IsOpen(rows[e])
          THEN [rows[e] EXCEPT !.ended = clock,
                 !.lastSeen = Later(rows[e].lastSeen, LastSeenOf(sessions, K)[e])]
          ELSE rows[e]
  BY ArgumentDomains DEF EndedAt, Ids
<1>3. ASSUME NEW k \in K, sessions[k].eid = e
      PROVE  /\ LastSeenOf(sessions, K)[e] = sessions[k].lastSeen
             /\ Later(rows[e].lastSeen, LastSeenOf(sessions, K)[e]) = sessions[k].lastSeen
             /\ e \in Events(sessions, K) /\ sessions[k].lastSeen \in Nat
             /\ ~IsOpen(rows[e]) => rows[e].lastSeen = sessions[k].lastSeen
  <2>1. Session(k) /\ Apart(sessions, K)
    BY <1>3 DEF SInv, Memory, Apart
  <2>2. /\ LastSeenOf(sessions, K)[sessions[k].eid] = sessions[k].lastSeen
        /\ sessions[k].eid \in Events(sessions, K)
    BY <1>3, <2>1, Arguments
  <2>3. /\ rows[e].lastSeen \in Nat /\ sessions[k].lastSeen \in Nat
        /\ rows[e].lastSeen <= sessions[k].lastSeen
        /\ ~IsOpen(rows[e]) => rows[e].lastSeen = sessions[k].lastSeen
    BY <1>1, <1>3, <2>1 DEF Session, IsSession, IsRow
  <2>4. Later(rows[e].lastSeen, sessions[k].lastSeen) = sessions[k].lastSeen
    BY <2>3, NullAssumption DEF Later, TimeBefore
  <2>5. QED
    BY <1>3, <2>2, <2>3, <2>4
<1>4. CASE e \in Events(sessions, K) /\ IsOpen(rows[e])
  <2>1. PICK k \in K : sessions[k].eid = e
    BY <1>4 DEF Events
  <2>2. r = [rows[e] EXCEPT !.ended = clock, !.lastSeen = sessions[k].lastSeen]
    BY <1>2, <1>3, <1>4, <2>1
  <2>3. /\ IsRow(r) /\ r.who = rows[e].who /\ ~IsOpen(r)
        /\ r.lastSeen = sessions[k].lastSeen
    BY <1>1, <1>3, <2>1, <2>2 DEF IsRow, IsOpen
  <2>4. \A j \in K : sessions[j].eid = e => j = k
    BY <2>1 DEF SInv, Memory
  <2>5. QED
    BY <1>4, <2>3, <2>4
<1>5. CASE e \notin Events(sessions, K) \/ ~IsOpen(rows[e])
  BY <1>1, <1>2, <1>3, <1>5
<1>6. QED
  BY <1>4, <1>5

\* closeTracked: what it cannot end stays as it is.
LEMMA CloseSInv ==
  ASSUME SInv, NEW noEnd \in SUBSET DOMAIN sessions, CloseTracked(noEnd)
  PROVE  SInv'
<1> DEFINE K == DOMAIN sessions \ noEnd
<1> USE DEF SInv, Ids
<1>1. /\ running = "up" /\ running' = "closing"
      /\ rows' = EndedAt(rows, clock, LastSeenOf(sessions, K))
      /\ UNCHANGED <<inventory, clock, fetched, sessions, fresh, lastPoll, lastCheckpoint,
                     nextId, history>>
  BY DEF CloseTracked
<1>2. DOMAIN rows' = DOMAIN rows
  BY <1>1 DEF EndedAt
<1>3. ASSUME NEW e \in DOMAIN rows
      PROVE  /\ IsRow(rows'[e]) /\ rows'[e].who = rows[e].who
             /\ e \notin Events(sessions, K) \/ ~IsOpen(rows[e]) => rows'[e] = rows[e]
             /\ \A k \in K : sessions[k].eid = e =>
                  ~IsOpen(rows'[e]) /\ rows'[e].lastSeen = sessions[k].lastSeen
  BY <1>1, <1>3, EndedRow
<1>4. Cardinality(noEnd) \in Nat
  BY KeysAssumption, FS_Subset, FS_CardinalityType DEF Memory
<1>5. /\ left' \in [Kinds -> Nat] /\ left'["fault"] <= left["fault"]
      /\ left'["fault"] = left["fault"] - Cardinality(noEnd)
      /\ left'["fault"] <= Budget["fault"]
  <2>1. /\ left["death"] \in Nat /\ left["fault"] \in Nat /\ Budget["fault"] \in Nat
        /\ {"death", "fault"} \subseteq Kinds /\ left \in [Kinds -> Nat]
        /\ left["death"] > 0 /\ left["fault"] >= Cardinality(noEnd)
    BY BudgetAssumption DEF Environment, Kinds, CloseTracked
  <2>2. left' = [left EXCEPT !["death"] = left["death"] - 1,
                             !["fault"] = left["fault"] - Cardinality(noEnd)]
    BY DEF CloseTracked
  <2>3. /\ left["death"] - 1 \in Nat /\ left["fault"] - Cardinality(noEnd) \in Nat
        /\ left["fault"] - Cardinality(noEnd) <= left["fault"]
        /\ left["fault"] - Cardinality(noEnd) <= Budget["fault"]
    BY <1>4, <2>1 DEF Environment
  <2>4. QED
    BY <2>1, <2>2, <2>3
<1>6. Tables'
  BY <1>1, <1>2, <1>3 DEF Tables
<1>7. Environment'
  BY <1>1, <1>5 DEF Environment, history
<1>8. ASSUME NEW k \in DOMAIN sessions
      PROVE  /\ Session(k)' /\ rows'[sessions[k].eid].lastSeen \in observed[sessions[k].eid]
             /\ rows[sessions[k].eid].lastSeen <= rows'[sessions[k].eid].lastSeen
  <2>1. Session(k) /\ sessions[k].eid \in DOMAIN rows /\ IsOpen(rows[sessions[k].eid])
    BY <1>1 DEF Memory, Session
  <2>2. CASE k \in K
    <3>1. /\ ~IsOpen(rows'[sessions[k].eid])
          /\ rows'[sessions[k].eid].lastSeen = sessions[k].lastSeen
      BY <1>3, <2>1, <2>2
    <3>2. /\ rows[sessions[k].eid].lastSeen <= sessions[k].lastSeen
          /\ sessions[k].lastSeen \in Nat
      BY <2>1 DEF Session, IsSession
    <3>3. QED
      BY <1>1, <1>2, <2>1, <3>1, <3>2 DEF Session, Observations
  <2>3. CASE k \notin K
    <3>1. sessions[k].eid \notin Events(sessions, K)
      BY <2>3 DEF Events, Memory
    <3>2. rows'[sessions[k].eid] = rows[sessions[k].eid] /\ IsRow(rows[sessions[k].eid])
      BY <1>3, <2>1, <3>1 DEF Tables
    <3>3. QED
      BY <1>1, <1>2, <2>1, <3>2 DEF Session, Observations, IsRow
  <2>4. QED
    BY <2>2, <2>3
<1>9. Memory'
  BY <1>1, <1>8 DEF Memory
<1>10. ASSUME NEW e \in DOMAIN rows
       PROVE  rows'[e].lastSeen \in observed[e]
  <2>1. CASE e \in Events(sessions, K)
    BY <1>8, <2>1 DEF Events
  <2>2. CASE e \notin Events(sessions, K)
    BY <1>3, <2>2 DEF Observations
  <2>3. QED
    BY <2>1, <2>2
<1>11. Observations'
  BY <1>1, <1>2, <1>10 DEF Observations, history
<1>12. Checkpointed'
  <2>1. SUFFICES ASSUME NoFaults', NEW k \in DOMAIN sessions
                 PROVE  /\ lastPoll \in Nat /\ lastCheckpoint \in Nat
                        /\ lastPoll < lastCheckpoint + Interval
                        /\ \A t \in observed[sessions[k].eid] :
                             t < lastCheckpoint => t <= rows'[sessions[k].eid].lastSeen
    BY <1>1 DEF Checkpointed, history
  <2>2. NoFaults
    BY <1>5, <1>7, <2>1, NoFaultsYet
  <2>3. /\ rows[sessions[k].eid].lastSeen \in Nat /\ rows'[sessions[k].eid].lastSeen \in Nat
        /\ rows[sessions[k].eid].lastSeen <= rows'[sessions[k].eid].lastSeen
        /\ \A t \in observed[sessions[k].eid] : t \in Nat
    BY <1>3, <1>8 DEF Tables, IsRow, Memory, Session, Observations
  <2>4. QED
    BY <2>2, <2>3 DEF Checkpointed
<1>13. QED
  BY <1>6, <1>7, <1>9, <1>11, <1>12

\* RecordSignal changes names, of sessions and rows alike.
LEMMA SignalSessions ==
  ASSUME SInv, NEW r, NEW camera, NEW at, NEW noName, RecordSignal(r, camera, at, noName),
         NEW k \in DOMAIN sessions
  PROVE  /\ DOMAIN sessions' = DOMAIN sessions
         /\ IsSession(sessions'[k]) /\ sessions'[k].eid = sessions[k].eid
         /\ sessions'[k].misses = sessions[k].misses
         /\ sessions'[k].lastSeen = sessions[k].lastSeen
         /\ sessions'[k].who = sessions[k].who \/ sessions'[k].who.conf > sessions[k].who.conf
         /\ k \in noName \/ Camera[k] # camera => sessions'[k].who = sessions[k].who
<1> DEFINE found == MatchSignal(signals', camera, sessions[k].desc, at)
<1>1. /\ DOMAIN sessions' = DOMAIN sessions
      /\ sessions'[k] = IF Camera[k] # camera THEN sessions[k]
                        ELSE UpgradedSession(sessions[k], found, k \in noName)
  BY DEF RecordSignal
<1>2. IsSession(sessions[k])
  BY DEF SInv, Memory, Session
<1>3. CASE Camera[k] # camera \/ k \in noName
  <2>1. sessions'[k] = sessions[k]
    BY <1>1, <1>3 DEF UpgradedSession
  <2>2. QED
    BY <1>1, <1>2, <2>1
<1>4. CASE Camera[k] = camera /\ k \notin noName
  <2>1. sessions'[k] = Better(sessions[k], found)
    BY <1>1, <1>4 DEF UpgradedSession, Better
  <2>2. QED
    BY <1>1, <1>2, <1>4, <2>1, UpgradedFields
<1>5. QED
  BY <1>3, <1>4

LEMMA SignalRows ==
  ASSUME SInv, NEW r, NEW camera, NEW at, NEW noName, RecordSignal(r, camera, at, noName),
         NEW e \in Ids
  PROVE  /\ Ids' = Ids /\ IsRow(rows'[e]) /\ rows'[e].lastSeen = rows[e].lastSeen
         /\ rows'[e].ended = rows[e].ended
         /\ ~IsOpen(rows[e]) => rows'[e] = rows[e]
         /\ rows'[e].who = rows[e].who \/ rows'[e].who.conf > rows[e].who.conf
         /\ \A k \in DOMAIN sessions :
              sessions[k].eid = e /\ IsOpen(rows[e]) => rows'[e].who = sessions'[k].who
<1> DEFINE here == {k \in DOMAIN sessions : Camera[k] = camera}
           K == here \ noName
<1>1. rows' = Renamed(rows, WhoOf(sessions', K)) /\ Ids' = Ids
  BY DEF RecordSignal, Ids, Renamed
<1>2. \A k \in DOMAIN sessions :
        /\ sessions'[k].eid = sessions[k].eid
        /\ sessions'[k].who = sessions[k].who \/ sessions'[k].who.conf > sessions[k].who.conf
        /\ k \notin K => sessions'[k].who = sessions[k].who
  BY SignalSessions
<1>3. Apart(sessions', K) /\ Apart(sessions, DOMAIN sessions)
  BY <1>2 DEF Apart, SInv, Memory
<1>4. IsRow(rows[e])
  BY DEF SInv, Tables, Ids
<1>5. /\ IsRow(rows'[e]) /\ rows'[e].lastSeen = rows[e].lastSeen
      /\ rows'[e].ended = rows[e].ended
      /\ e \notin Events(sessions', K) \/ ~IsOpen(rows[e]) => rows'[e] = rows[e]
      /\ \A k \in K : sessions'[k].eid = e /\ IsOpen(rows[e]) => rows'[e].who = sessions'[k].who
  <2>1. rows'[e] = Renamed(rows, WhoOf(sessions', K))[e] /\ e \in DOMAIN rows
    BY <1>1 DEF Ids
  <2>2. ASSUME NEW r1, r1 = Renamed(rows, WhoOf(sessions', K))[e]
        PROVE  /\ IsRow(r1) /\ r1.lastSeen = rows[e].lastSeen
               /\ r1.ended = rows[e].ended
               /\ e \notin Events(sessions', K) \/ ~IsOpen(rows[e]) => r1 = rows[e]
               /\ \A k \in K : sessions'[k].eid = e /\ IsOpen(rows[e]) => r1.who = sessions'[k].who
    <3> HIDE DEF K
    <3>1. QED
      BY <1>3, <1>4, <2>1, <2>2, RenamedRow
  <2>3. QED
    BY <2>1, <2>2
<1>6. ASSUME NEW k \in DOMAIN sessions, sessions[k].eid = e, IsOpen(rows[e])
      PROVE  rows'[e].who = sessions'[k].who
  <2>1. rows[e].who = sessions[k].who
    BY <1>6 DEF SInv, Memory, Session
  <2>2. CASE k \in K
    BY <1>2, <1>5, <1>6, <2>2
  <2>3. CASE k \notin K
    <3>1. e \notin Events(sessions', K)
      BY <1>2, <1>3, <1>6, <2>3 DEF Events, Apart
    <3>2. QED
      BY <1>2, <1>5, <1>6, <2>1, <2>3, <3>1
  <2>4. QED
    BY <2>2, <2>3
<1>7. rows'[e].who = rows[e].who \/ rows'[e].who.conf > rows[e].who.conf
  <2>1. CASE e \in Events(sessions', K) /\ IsOpen(rows[e])
    <3>1. PICK k \in K : sessions'[k].eid = e
      BY <2>1 DEF Events
    <3>2. k \in DOMAIN sessions /\ sessions[k].eid = e
      BY <1>2, <3>1
    <3>3. rows[e].who = sessions[k].who /\ rows'[e].who = sessions'[k].who
      BY <1>6, <2>1, <3>2 DEF SInv, Memory, Session
    <3>4. QED
      BY <1>2, <3>2, <3>3
  <2>2. QED
    BY <1>5, <2>1
<1>8. QED
  BY <1>1, <1>5, <1>6, <1>7

LEMMA SignalSInv ==
  ASSUME SInv, NEW r, NEW camera, NEW at, NEW noName, RecordSignal(r, camera, at, noName)
  PROVE  SInv'
<1> USE DEF SInv
<1>1. UNCHANGED <<inventory, clock, fetched, fresh, lastPoll, lastCheckpoint, nextId,
                  running, history>>
  BY DEF RecordSignal
<1>2. DOMAIN sessions' = DOMAIN sessions /\ DOMAIN rows' = DOMAIN rows
  BY DEF RecordSignal, Renamed
<1>3. ASSUME NEW k \in DOMAIN sessions
      PROVE  /\ IsSession(sessions'[k]) /\ sessions'[k].eid = sessions[k].eid
             /\ sessions'[k].misses = sessions[k].misses
             /\ sessions'[k].lastSeen = sessions[k].lastSeen
  BY <1>3, SignalSessions
<1>4. ASSUME NEW e \in DOMAIN rows
      PROVE  /\ IsRow(rows'[e]) /\ rows'[e].lastSeen = rows[e].lastSeen
             /\ IsOpen(rows'[e]) <=> IsOpen(rows[e])
             /\ \A k \in DOMAIN sessions :
                  sessions[k].eid = e /\ IsOpen(rows[e]) => rows'[e].who = sessions'[k].who
  BY <1>4, SignalRows DEF Ids, IsOpen
<1>5. /\ left' \in [Kinds -> Nat] /\ left'["fault"] <= left["fault"]
      /\ left'["fault"] <= Budget["fault"]
  <2>1. noName \subseteq Keys
    BY DEF RecordSignal, Memory
  <2>2. Cardinality(noName) \in Nat
    BY <2>1, KeysAssumption, FS_Subset, FS_CardinalityType
  <2>3. /\ left["signal"] \in Nat /\ left["fault"] \in Nat /\ Budget["fault"] \in Nat
        /\ {"signal", "fault"} \subseteq Kinds /\ left \in [Kinds -> Nat]
        /\ left["signal"] > 0 /\ left["fault"] >= Cardinality(noName)
    BY BudgetAssumption DEF Environment, Kinds, RecordSignal
  <2>4. left' = [left EXCEPT !["signal"] = left["signal"] - 1,
                             !["fault"] = left["fault"] - Cardinality(noName)]
    BY DEF RecordSignal
  <2>5. /\ left["signal"] - 1 \in Nat /\ left["fault"] - Cardinality(noName) \in Nat
        /\ left["fault"] - Cardinality(noName) <= left["fault"]
        /\ left["fault"] - Cardinality(noName) <= Budget["fault"]
    BY <2>2, <2>3 DEF Environment
  <2>6. QED
    BY <2>3, <2>4, <2>5
<1>6. Tables'
  BY <1>1, <1>2, <1>4 DEF Tables
<1>7. Environment'
  BY <1>1, <1>5 DEF Environment, history
<1>8. ASSUME NEW k \in DOMAIN sessions
      PROVE  Session(k)'
  <2>1. Session(k) /\ sessions[k].eid \in DOMAIN rows
    BY DEF Memory, Session
  <2>2. QED
    BY <1>1, <1>2, <1>3, <1>4, <2>1 DEF Session
<1>9. Memory'
  <2>1. \A k \in DOMAIN sessions : sessions[k].eid \in DOMAIN rows
    BY DEF Memory, Session
  <2>2. QED
    BY <1>1, <1>2, <1>3, <1>4, <1>8, <2>1 DEF Memory
<1>10. Observations'
  BY <1>1, <1>2, <1>3, <1>4 DEF Observations, history
<1>11. Checkpointed'
  <2>1. \A k \in DOMAIN sessions : sessions[k].eid \in DOMAIN rows
    BY DEF Memory, Session
  <2>2. NoFaults' => NoFaults
    BY <1>5, <1>7, NoFaultsYet
  <2>3. QED
    BY <1>1, <1>2, <1>3, <1>4, <2>1, <2>2 DEF Checkpointed, history
<1>12. QED
  BY <1>6, <1>7, <1>9, <1>10, <1>11

-------------------------------------------------------------------------------
\* What a poll does with each session: keeps it, misses it once, or ends it.
LEMMA PollSets ==
  ASSUME SInv, NEW snap
  PROVE  /\ Stay(snap) \subseteq DOMAIN sessions /\ Ending(snap) \subseteq DOMAIN sessions
         /\ Stay(snap) = DOMAIN sessions \ Ending(snap)
         /\ Kept(snap) = Stay(snap) \cap DOMAIN snap
         /\ Stay(snap) \cap Unknowns(snap) = {}
         /\ \A k \in Stay(snap) : fresh /\ (k \notin Kept(snap) => sessions[k].misses = 0)
<1>1. \A k \in DOMAIN sessions : sessions[k].misses \in 0 .. 1
  BY DEF SInv, Memory, Session, IsSession
<1>2. DOMAIN Nothing = {} /\ fresh \in BOOLEAN
  BY DEF Nothing, SInv, Environment
<1>3. CASE fresh
  <2>1. Alive = sessions
    BY <1>3 DEF Alive
  <2>2. QED
    BY <1>1, <1>3, <2>1 DEF Stay, Ending, Kept, Reused, Gone, Unknowns
<1>4. CASE ~fresh
  <2>1. DOMAIN Alive = {}
    BY <1>2, <1>4 DEF Alive
  <2>2. QED
    BY <1>2, <1>4, <2>1 DEF Stay, Ending, Kept, Reused, Gone, Unknowns
<1>5. QED
  BY <1>2, <1>3, <1>4

\* The part of a poll that is about sessions and rows.
EndedRows(snap, noEnd) == EndedAt(rows, clock, LastSeenOf(sessions, Ending(snap) \ noEnd))
RenamedRows(snap, noEnd, noName) ==
  Renamed(EndedRows(snap, noEnd), WhoOf(sessions', Stay(snap) \ noName))
PolledRows(snap, started, noEnd, noName) ==
  Inserted(RenamedRows(snap, noEnd, noName), NewOf(sessions', started))
Polled(snap, started, noEnd, noName, ids, saved) ==
  /\ running = "up" /\ DOMAIN snap \subseteq Keys /\ saved \in BOOLEAN
  /\ noEnd \subseteq Ending(snap) /\ noName \subseteq Kept(snap)
  /\ started \subseteq Unknowns(snap) /\ ids \in NewIds(started)
  /\ sessions' = PolledSessions(snap, started, ids, noName)
  /\ rows' = IF saved THEN Touched(PolledRows(snap, started, noEnd, noName),
                                   LastSeenOf(sessions', DOMAIN sessions'))
             ELSE PolledRows(snap, started, noEnd, noName)
  /\ nextId' = nextId + Cardinality(started)

LEMMA PollDomain ==
  ASSUME SInv, NEW snap, NEW started, NEW noEnd, NEW noName, NEW ids, NEW saved,
         Polled(snap, started, noEnd, noName, ids, saved)
  PROVE  DOMAIN sessions' = Stay(snap) \cup started
BY DEF Polled, PolledSessions

LEMMA PollStarts ==
  ASSUME SInv, NEW snap, NEW started, NEW noEnd, NEW noName, NEW ids, NEW saved,
         Polled(snap, started, noEnd, noName, ids, saved),
         NEW k \in started
  PROVE  /\ IsSession(sessions'[k]) /\ sessions'[k].eid = ids[k]
         /\ sessions'[k].misses = 0 /\ sessions'[k].lastSeen = clock
<1>1. clock \in Nat /\ nextId \in Nat
  BY DEF SInv, Tables, Environment
<1>2. Cardinality(started) \in Nat
  BY KeysAssumption, FS_Subset, FS_CardinalityType DEF Polled, Unknowns
<1>3. ids[k] \in Nat
  BY <1>1, <1>2 DEF Polled, NewIds
<1>4. sessions'[k] = [eid |-> ids[k], desc |-> snap[k], who |-> Identify(k, snap[k]),
                      misses |-> 0, lastSeen |-> clock]
  BY DEF Polled, PolledSessions
<1>5. QED
  BY <1>1, <1>3, <1>4 DEF IsSession

LEMMA PollKeeps ==
  ASSUME SInv, NEW snap, NEW started, NEW noEnd, NEW noName, NEW ids, NEW saved,
         Polled(snap, started, noEnd, noName, ids, saved),
         NEW k \in Stay(snap)
  PROVE  /\ IsSession(sessions'[k]) /\ sessions'[k].eid = sessions[k].eid
         /\ k \in Kept(snap) => sessions'[k].misses = 0 /\ sessions'[k].lastSeen = clock
         /\ k \notin Kept(snap) => /\ sessions'[k].misses = 1
                                   /\ sessions'[k].lastSeen = sessions[k].lastSeen
         /\ k \notin Kept(snap) \/ k \in noName => sessions'[k].who = sessions[k].who
         /\ \/ sessions'[k].who = sessions[k].who
            \/ sessions'[k].who.conf > sessions[k].who.conf
<1>1. /\ k \in DOMAIN sessions /\ k \notin started /\ IsSession(sessions[k])
      /\ k \notin Kept(snap) => k \notin DOMAIN snap /\ sessions[k].misses = 0
      /\ k \in Kept(snap) => k \in DOMAIN snap
  BY PollSets DEF SInv, Memory, Session, Polled
<1>2. CASE k \notin Kept(snap)
  <2>1. sessions'[k] = [sessions[k] EXCEPT !.misses = sessions[k].misses + 1]
    BY <1>1, <1>2 DEF Polled, PolledSessions
  <2>2. QED
    BY <1>1, <1>2, <2>1 DEF IsSession
<1>3. CASE k \in Kept(snap)
  <2> DEFINE found == MatchSignal(signals, Camera[k], snap[k], clock)
  <2>1. PICK u : u = Watched(sessions[k], clock)
    OBVIOUS
  <2>2. /\ IsSession(u) /\ u.eid = sessions[k].eid /\ u.misses = 0
        /\ u.lastSeen = clock /\ u.who = sessions[k].who
    BY <1>1, <2>1, SeenFields DEF SInv, Environment
  <2>3. sessions'[k] = IF k \in noName THEN u
                       ELSE Better(u, found)
    BY <1>1, <1>3, <2>1 DEF Polled, PolledSessions, UpgradedSession, Watched, Better
  <2> HIDE DEF found
  <2>4. CASE k \notin noName
    <3>1. /\ IsSession(sessions'[k]) /\ sessions'[k].eid = u.eid
          /\ sessions'[k].misses = u.misses /\ sessions'[k].lastSeen = u.lastSeen
          /\ sessions'[k].who = u.who \/ sessions'[k].who.conf > u.who.conf
      BY <2>2, <2>3, <2>4, UpgradedFields
    <3>2. QED
      BY <1>3, <2>2, <2>4, <3>1
  <2>5. QED
    BY <1>3, <2>2, <2>3, <2>4
<1>4. QED
  BY <1>2, <1>3

\* The sessions it starts get rows that nobody has had.
LEMMA PollIds ==
  ASSUME SInv, NEW snap, NEW started, NEW noEnd, NEW noName, NEW ids, NEW saved,
         Polled(snap, started, noEnd, noName, ids, saved)
  PROVE  /\ DOMAIN sessions' = Stay(snap) \cup started
         /\ \A k \in started :
              /\ sessions'[k].eid = ids[k] /\ ids[k] \in Nat \ {0}
              /\ ids[k] \notin Ids /\ ids[k] \in 1 .. (nextId' - 1)
         /\ \A k \in Stay(snap) : sessions'[k].eid = sessions[k].eid /\ sessions[k].eid \in Ids
         /\ Apart(sessions', DOMAIN sessions') /\ Apart(sessions, DOMAIN sessions)
         /\ nextId' \in Nat \ {0} /\ nextId <= nextId'
<1>1. /\ started \subseteq Unknowns(snap) /\ ids \in NewIds(started) /\ DOMAIN snap \subseteq Keys
      /\ sessions' = PolledSessions(snap, started, ids, noName)
      /\ nextId' = nextId + Cardinality(started)
  BY DEF Polled
<1>2. Cardinality(started) \in Nat /\ nextId \in Nat \ {0} /\ Ids \subseteq 1 .. (nextId - 1)
  BY <1>1, KeysAssumption, FS_Subset, FS_CardinalityType DEF Unknowns, SInv, Tables, Ids
<1>3. /\ DOMAIN sessions' = Stay(snap) \cup started
      /\ \A k \in started : sessions'[k].eid = ids[k]
      /\ \A k \in Stay(snap) : sessions'[k].eid = sessions[k].eid
  <2>1. DOMAIN sessions' = Stay(snap) \cup started
    BY PollDomain
  <2>2. \A k \in started : sessions'[k].eid = ids[k]
    BY PollStarts
  <2>3. \A k \in Stay(snap) : sessions'[k].eid = sessions[k].eid
    BY PollKeeps
  <2>4. QED
    BY <2>1, <2>2, <2>3
<1>4. /\ ids \in [started -> nextId .. (nextId + Cardinality(started) - 1)]
      /\ \A j, k \in started : ids[j] = ids[k] => j = k
  BY <1>1 DEF NewIds
<1>5. \A k \in started : /\ ids[k] \in Nat \ {0} /\ ids[k] >= nextId
                         /\ ids[k] \in 1 .. (nextId' - 1)
  BY <1>1, <1>2, <1>4
<1>6. \A k \in started : ids[k] \notin Ids
  BY <1>2, <1>5
<1>7. \A k \in Stay(snap) : k \in DOMAIN sessions /\ sessions[k].eid \in Ids
  BY PollSets DEF SInv, Memory, Session, Ids
<1>8. Apart(sessions, DOMAIN sessions)
  BY DEF SInv, Memory, Apart
<1>9. Apart(sessions', DOMAIN sessions')
  BY <1>3, <1>4, <1>6, <1>7, <1>8 DEF Apart
<1>10. QED
  BY <1>1, <1>2, <1>3, <1>5, <1>6, <1>7, <1>8, <1>9

\* EndStream and UpdateEventIdentity, on the rows there were.
LEMMA PollRenamed ==
  ASSUME SInv, NEW snap, NEW started, NEW noEnd, NEW noName, NEW ids, NEW saved,
         Polled(snap, started, noEnd, noName, ids, saved), NEW e \in Ids,
         NEW r, r = RenamedRows(snap, noEnd, noName)[e]
  PROVE  /\ DOMAIN RenamedRows(snap, noEnd, noName) = Ids
         /\ IsRow(r)
         /\ ~IsOpen(rows[e]) => r = rows[e]
         /\ e \notin Events(sessions, DOMAIN sessions) => r = rows[e]
         /\ \A k \in noEnd : sessions[k].eid = e => r = rows[e]
         /\ \A k \in Ending(snap) \ noEnd : sessions[k].eid = e =>
              ~IsOpen(r) /\ r.lastSeen = sessions[k].lastSeen /\ r.who = rows[e].who
         /\ \A k \in Stay(snap) : sessions[k].eid = e =>
              IsOpen(r) /\ r.lastSeen = rows[e].lastSeen /\ r.who = sessions'[k].who
<1> DEFINE K == Ending(snap) \ noEnd
           N == Stay(snap) \ noName
<1>1. /\ running = "up" /\ DOMAIN snap \subseteq Keys /\ noEnd \subseteq Ending(snap)
      /\ noName \subseteq Kept(snap) /\ started \subseteq Unknowns(snap)
      /\ ids \in NewIds(started) /\ sessions' = PolledSessions(snap, started, ids, noName)
  BY DEF Polled
<1>2. /\ DOMAIN sessions' = Stay(snap) \cup started
      /\ \A k \in Stay(snap) : sessions'[k].eid = sessions[k].eid
      /\ Apart(sessions', DOMAIN sessions') /\ Apart(sessions, DOMAIN sessions)
  BY PollIds
<1>3. /\ \A k \in Stay(snap) : k \in noName => sessions'[k].who = sessions[k].who
      /\ Stay(snap) \subseteq DOMAIN sessions /\ Ending(snap) \subseteq DOMAIN sessions
      /\ Stay(snap) = DOMAIN sessions \ Ending(snap)
  BY PollKeeps, PollSets
<1>4. DOMAIN EndedRows(snap, noEnd) = Ids /\ DOMAIN RenamedRows(snap, noEnd, noName) = Ids
  BY DEF EndedRows, RenamedRows, EndedAt, Renamed, Ids
<1>5. PICK q : q = EndedRows(snap, noEnd)[e]
  OBVIOUS
<1>6. /\ IsRow(q) /\ q.who = rows[e].who
      /\ e \notin Events(sessions, K) \/ ~IsOpen(rows[e]) => q = rows[e]
      /\ \A k \in K : sessions[k].eid = e => ~IsOpen(q) /\ q.lastSeen = sessions[k].lastSeen
  <2>1. q = EndedAt(rows, clock, LastSeenOf(sessions, K))[e] /\ K \in SUBSET DOMAIN sessions
    BY <1>3, <1>5 DEF EndedRows
  <2> HIDE DEF K
  <2>2. QED
    BY <2>1, EndedRow
<1>7. /\ IsRow(r) /\ r.lastSeen = q.lastSeen /\ r.ended = q.ended
      /\ e \notin Events(sessions', N) \/ ~IsOpen(q) => r = q
      /\ \A k \in N : sessions'[k].eid = e /\ IsOpen(q) => r.who = sessions'[k].who
  <2>1. /\ r = Renamed(EndedRows(snap, noEnd), WhoOf(sessions', N))[e]
        /\ Apart(sessions', N) /\ IsRow(EndedRows(snap, noEnd)[e])
        /\ e \in DOMAIN EndedRows(snap, noEnd)
    BY <1>2, <1>4, <1>5, <1>6 DEF RenamedRows, Apart
  <2> HIDE DEF N
  <2>2. QED
    BY <1>5, <2>1, RenamedRow
<1>8. \A k \in DOMAIN sessions : IsOpen(rows[sessions[k].eid]) /\ Session(k)
  BY <1>1 DEF SInv, Memory
<1>9. ASSUME NEW k \in Stay(snap), sessions[k].eid = e
      PROVE  IsOpen(r) /\ r.lastSeen = rows[e].lastSeen /\ r.who = sessions'[k].who
  <2>1. e \notin Events(sessions, K)
    BY <1>2, <1>3, <1>9 DEF Events, Apart
  <2>2. q = rows[e] /\ IsOpen(q) /\ q.who = sessions[k].who
    BY <1>3, <1>6, <1>8, <1>9, <2>1 DEF Session
  <2>3. CASE k \in N
    BY <1>2, <1>7, <1>9, <2>2, <2>3 DEF IsOpen
  <2>4. CASE k \notin N
    <3>1. e \notin Events(sessions', N)
      BY <1>2, <1>9, <2>4 DEF Events, Apart
    <3>2. QED
      BY <1>3, <1>7, <1>9, <2>2, <2>4, <3>1
  <2>5. QED
    BY <2>3, <2>4
<1>10. ASSUME NEW k \in noEnd, sessions[k].eid = e
       PROVE  r = rows[e]
  <2>1. e \notin Events(sessions, K) /\ e \notin Events(sessions', N)
    BY <1>1, <1>2, <1>3, <1>10 DEF Events, Apart
  <2>2. QED
    BY <1>6, <1>7, <2>1
<1>11. e \notin Events(sessions, DOMAIN sessions) => r = rows[e]
  <2>1. e \notin Events(sessions, DOMAIN sessions) =>
          e \notin Events(sessions, K) /\ e \notin Events(sessions', N)
    BY <1>2, <1>3 DEF Events
  <2>2. QED
    BY <1>6, <1>7, <2>1
<1>12. QED
  BY <1>4, <1>6, <1>7, <1>9, <1>10, <1>11

\* TouchEvents for the sessions of K: an open row that is not ahead of its session
\* catches up with it.
Dated(ss, K) == \A k \in K : ss[k].lastSeen \in Nat
LEMMA TouchedRow ==
  ASSUME NEW table, NEW ss, NEW K, Apart(ss, K), Dated(ss, K),
         NEW e \in DOMAIN table, IsRow(table[e]),
         NEW r, r = Touched(table, LastSeenOf(ss, K))[e]
  PROVE  /\ IsRow(r) /\ r.who = table[e].who /\ r.ended = table[e].ended
         /\ e \notin Events(ss, K) \/ ~IsOpen(table[e]) => r = table[e]
         /\ \A k \in K : /\ ss[k].eid = e /\ IsOpen(table[e])
                         /\ table[e].lastSeen <= ss[k].lastSeen
                         => r.lastSeen = ss[k].lastSeen
<1>1. r = IF e \in Events(ss, K) /\ IsOpen(table[e])
          THEN [table[e] EXCEPT !.lastSeen = Later(table[e].lastSeen, LastSeenOf(ss, K)[e])]
          ELSE table[e]
  BY ArgumentDomains DEF Touched
<1>2. CASE e \in Events(ss, K) /\ IsOpen(table[e])
  <2>1. PICK k \in K : ss[k].eid = e
    BY <1>2 DEF Events
  <2>2. LastSeenOf(ss, K)[ss[k].eid] = ss[k].lastSeen
    BY <2>1, Arguments
  <2>3. r = [table[e] EXCEPT !.lastSeen = Later(table[e].lastSeen, ss[k].lastSeen)]
    BY <1>1, <1>2, <2>1, <2>2
  <2>4. /\ table[e].lastSeen \in Nat /\ ss[k].lastSeen \in Nat
        /\ Later(table[e].lastSeen, ss[k].lastSeen) =
             IF table[e].lastSeen < ss[k].lastSeen THEN ss[k].lastSeen ELSE table[e].lastSeen
    BY <2>1, NullAssumption DEF IsRow, Later, TimeBefore, Dated
  <2>5. /\ IsRow(r) /\ r.who = table[e].who /\ r.ended = table[e].ended
        /\ r.lastSeen = IF table[e].lastSeen < ss[k].lastSeen THEN ss[k].lastSeen
                        ELSE table[e].lastSeen
    BY <2>3, <2>4 DEF IsRow
  <2>6. \A j \in K : ss[j].eid = e => j = k
    BY <2>1 DEF Apart
  <2>7. QED
    BY <1>2, <2>4, <2>5, <2>6
<1>3. CASE e \notin Events(ss, K) \/ ~IsOpen(table[e])
  <2>1. r = table[e]
    BY <1>1, <1>3
  <2>2. \A k \in K : ss[k].eid = e => e \in Events(ss, K)
    BY DEF Events
  <2>3. QED
    BY <1>3, <2>1, <2>2
<1>4. QED
  BY <1>2, <1>3

\* What a poll does to the rows there were ...
LEMMA PollOldRow ==
  ASSUME SInv, NEW snap, NEW started, NEW noEnd, NEW noName, NEW ids, NEW saved,
         Polled(snap, started, noEnd, noName, ids, saved), NEW e \in Ids
  PROVE  /\ e \in Ids' /\ IsRow(rows'[e])
         /\ ~IsOpen(rows[e]) => rows'[e] = rows[e]
         /\ e \notin Events(sessions, DOMAIN sessions) => rows'[e] = rows[e]
         /\ \A k \in noEnd : sessions[k].eid = e => rows'[e] = rows[e]
         /\ \A k \in Ending(snap) \ noEnd : sessions[k].eid = e =>
              ~IsOpen(rows'[e]) /\ rows'[e].lastSeen = sessions[k].lastSeen
              /\ rows'[e].who = rows[e].who
         /\ \A k \in Stay(snap) : sessions[k].eid = e =>
              /\ IsOpen(rows'[e]) /\ rows'[e].who = sessions'[k].who
              /\ rows'[e].lastSeen = IF saved THEN sessions'[k].lastSeen ELSE rows[e].lastSeen
<1> DEFINE table == PolledRows(snap, started, noEnd, noName)
<1>1. /\ DOMAIN sessions' = Stay(snap) \cup started
      /\ \A k \in started : sessions'[k].eid \notin Ids
      /\ \A k \in Stay(snap) : sessions'[k].eid = sessions[k].eid
      /\ Apart(sessions', DOMAIN sessions') /\ Apart(sessions, DOMAIN sessions)
  <2>1. \A k \in started : sessions'[k].eid \notin Ids
    <3>1. \A k \in started : ids[k] \notin Ids
      BY PollIds
    <3>2. \A k \in started : sessions'[k].eid = ids[k]
      BY PollStarts
    <3>3. QED
      BY <3>1, <3>2
  <2>2. /\ DOMAIN sessions' = Stay(snap) \cup started
        /\ Apart(sessions', DOMAIN sessions') /\ Apart(sessions, DOMAIN sessions)
    BY PollIds
  <2>3. \A k \in Stay(snap) : sessions'[k].eid = sessions[k].eid
    BY PollIds
  <2>4. QED
    BY <2>1, <2>2, <2>3
<1>2. e \notin Events(sessions', started)
  BY <1>1 DEF Events
<1>3. PICK q : q = RenamedRows(snap, noEnd, noName)[e]
  OBVIOUS
<1>4. /\ DOMAIN RenamedRows(snap, noEnd, noName) = Ids /\ IsRow(q)
      /\ ~IsOpen(rows[e]) => q = rows[e]
      /\ e \notin Events(sessions, DOMAIN sessions) => q = rows[e]
      /\ \A k \in noEnd : sessions[k].eid = e => q = rows[e]
      /\ \A k \in Ending(snap) \ noEnd : sessions[k].eid = e =>
           ~IsOpen(q) /\ q.lastSeen = sessions[k].lastSeen /\ q.who = rows[e].who
      /\ \A k \in Stay(snap) : sessions[k].eid = e =>
           IsOpen(q) /\ q.lastSeen = rows[e].lastSeen /\ q.who = sessions'[k].who
  BY <1>3, PollRenamed
<1>5. table[e] = q /\ e \in DOMAIN table
  BY <1>2, <1>3, <1>4, ArgumentDomains DEF PolledRows, Inserted
<1> HIDE DEF table
<1>6. saved \in BOOLEAN /\ rows' = IF saved THEN Touched(table, LastSeenOf(sessions', DOMAIN sessions'))
                                 ELSE table
  BY DEF Polled, table
<1>7. Dated(sessions', DOMAIN sessions')
  <2>1. \A k \in Stay(snap) : IsSession(sessions'[k])
    BY PollKeeps
  <2>2. \A k \in started : IsSession(sessions'[k])
    BY PollStarts
  <2>3. QED
    BY <1>1, <2>1, <2>2 DEF IsSession, Dated
<1>8. ASSUME NEW k \in Stay(snap), sessions[k].eid = e
      PROVE  rows[e].lastSeen <= sessions'[k].lastSeen
  <2>1. rows[e].lastSeen <= sessions[k].lastSeen /\ sessions[k].lastSeen <= clock
    BY <1>8, PollSets DEF SInv, Memory, Session
  <2>2. /\ rows[e].lastSeen \in Nat /\ sessions[k].lastSeen \in Nat /\ clock \in Nat
    BY <1>8, PollSets DEF SInv, Tables, Environment, Memory, Session, IsSession, IsRow, Ids
  <2>3. sessions'[k].lastSeen = clock \/ sessions'[k].lastSeen = sessions[k].lastSeen
    BY <1>8, PollKeeps
  <2>4. QED
    BY <2>1, <2>2, <2>3
<1>9. CASE ~saved
  <2>1. rows'[e] = q /\ e \in Ids'
    BY <1>5, <1>6, <1>9 DEF Ids
  <2>2. QED
    BY <1>4, <1>9, <2>1
<1>10. CASE saved
  <2>1. rows'[e] = Touched(table, LastSeenOf(sessions', DOMAIN sessions'))[e] /\ e \in Ids'
    BY <1>5, <1>6, <1>10 DEF Ids, Touched
  <2>2. PICK r : r = rows'[e]
    OBVIOUS
  <2>3. /\ IsRow(r) /\ r.who = q.who /\ r.ended = q.ended
        /\ e \notin Events(sessions', DOMAIN sessions') \/ ~IsOpen(q) => r = q
        /\ \A k \in DOMAIN sessions' : /\ sessions'[k].eid = e /\ IsOpen(q)
                                       /\ q.lastSeen <= sessions'[k].lastSeen
                                       => r.lastSeen = sessions'[k].lastSeen
    <3>1. PICK K : K = DOMAIN sessions'
      OBVIOUS
    <3>2. /\ r = Touched(table, LastSeenOf(sessions', K))[e] /\ Apart(sessions', K)
          /\ Dated(sessions', K) /\ e \in DOMAIN table /\ table[e] = q
      BY <1>1, <1>5, <1>7, <2>1, <2>2, <3>1
    <3>3. /\ IsRow(r) /\ r.who = table[e].who /\ r.ended = table[e].ended
          /\ e \notin Events(sessions', K) \/ ~IsOpen(table[e]) => r = table[e]
          /\ \A k \in K : /\ sessions'[k].eid = e /\ IsOpen(table[e])
                          /\ table[e].lastSeen <= sessions'[k].lastSeen
                          => r.lastSeen = sessions'[k].lastSeen
      BY <1>4, <3>2, TouchedRow
    <3>4. QED
      BY <3>1, <3>2, <3>3
  <2>4. ASSUME NEW k \in Stay(snap), sessions[k].eid = e
        PROVE  /\ IsOpen(r) /\ r.who = sessions'[k].who /\ r.lastSeen = sessions'[k].lastSeen
    <3>1. /\ IsOpen(q) /\ q.lastSeen = rows[e].lastSeen /\ q.who = sessions'[k].who
          /\ k \in DOMAIN sessions' /\ sessions'[k].eid = e
      BY <1>1, <1>4, <2>4
    <3>2. QED
      BY <1>8, <2>3, <2>4, <3>1 DEF IsOpen
  <2>5. ~IsOpen(rows[e]) => r = rows[e]
    BY <1>4, <2>3
  <2>6. e \notin Events(sessions, DOMAIN sessions) =>
          e \notin Events(sessions', DOMAIN sessions')
    BY <1>1, <1>2, PollSets DEF Events
  <2>7. ASSUME NEW k \in noEnd, sessions[k].eid = e
        PROVE  r = rows[e]
    <3>1. k \in DOMAIN sessions /\ k \notin Stay(snap) /\ Stay(snap) \subseteq DOMAIN sessions
      BY <2>7, PollSets DEF Polled
    <3>2. e \notin Events(sessions', DOMAIN sessions')
      BY <1>1, <1>2, <2>7, <3>1 DEF Events, Apart
    <3>3. QED
      BY <1>4, <2>3, <2>7, <3>2
  <2>8. \A k \in Ending(snap) \ noEnd : sessions[k].eid = e =>
          ~IsOpen(r) /\ r.lastSeen = sessions[k].lastSeen /\ r.who = rows[e].who
    BY <1>4, <2>3
  <2>9. QED
    BY <1>4, <1>10, <2>1, <2>2, <2>3, <2>4, <2>5, <2>6, <2>7, <2>8
<1>11. QED
  BY <1>6, <1>9, <1>10

\* ... and what the new ones are.
LEMMA PollNewRow ==
  ASSUME SInv, NEW snap, NEW started, NEW noEnd, NEW noName, NEW ids, NEW saved,
         Polled(snap, started, noEnd, noName, ids, saved)
  PROVE  /\ Ids' = Ids \cup Events(sessions', started)
         /\ \A k \in started : rows'[ids[k]] = NewRow(sessions'[k].who, clock)
<1> DEFINE table == PolledRows(snap, started, noEnd, noName)
<1>1. /\ DOMAIN sessions' = Stay(snap) \cup started
      /\ \A k \in started : sessions'[k].eid = ids[k]
      /\ Apart(sessions', DOMAIN sessions')
  <2>1. DOMAIN sessions' = Stay(snap) \cup started /\ Apart(sessions', DOMAIN sessions')
    BY PollIds
  <2>2. \A k \in started : sessions'[k].eid = ids[k]
    BY PollStarts
  <2>3. QED
    BY <2>1, <2>2
<1>2. DOMAIN RenamedRows(snap, noEnd, noName) = Ids
  BY DEF EndedRows, RenamedRows, EndedAt, Renamed, Ids
<1>3. DOMAIN table = Ids \cup Events(sessions', started)
  BY <1>2, ArgumentDomains DEF PolledRows, Inserted
<1>4. ASSUME NEW k \in started
      PROVE  table[ids[k]] = NewRow(sessions'[k].who, clock) /\ ids[k] \in DOMAIN table
  <2>1. Apart(sessions', started)
    BY <1>1 DEF Apart
  <2>2. ids[k] \in Events(sessions', started)
    BY <1>1, <1>4 DEF Events
  <2>3. NewOf(sessions', started)[sessions'[k].eid] = [who |-> sessions'[k].who, at |-> clock]
    BY <1>4, <2>1, NewArguments
  <2>4. table[ids[k]] = NewRow(NewOf(sessions', started)[ids[k]].who,
                               NewOf(sessions', started)[ids[k]].at)
    BY <1>3, <2>2, ArgumentDomains DEF PolledRows, Inserted
  <2>5. QED
    BY <1>1, <1>3, <1>4, <2>2, <2>3, <2>4
<1> HIDE DEF table
<1>5. saved \in BOOLEAN /\ rows' = IF saved THEN Touched(table, LastSeenOf(sessions', DOMAIN sessions'))
                                 ELSE table
  BY DEF Polled, table
<1>6. CASE ~saved
  BY <1>3, <1>4, <1>5, <1>6 DEF Ids
<1>7. CASE saved
  <2>1. rows' = Touched(table, LastSeenOf(sessions', DOMAIN sessions'))
    BY <1>5, <1>7
  <2>2. Ids' = Ids \cup Events(sessions', started)
    BY <1>3, <2>1 DEF Ids, Touched
  <2>3. ASSUME NEW k \in started
        PROVE  rows'[ids[k]] = NewRow(sessions'[k].who, clock)
    <3>1. /\ k \in DOMAIN sessions' /\ sessions'[k].lastSeen = clock /\ clock \in Nat
          /\ ids[k] \in Events(sessions', DOMAIN sessions')
      BY <1>1, <2>3, PollStarts DEF SInv, Environment, Events
    <3>2. LastSeenOf(sessions', DOMAIN sessions')[sessions'[k].eid] = sessions'[k].lastSeen
      BY <1>1, <3>1, Arguments
    <3>3. Later(clock, clock) = clock
      BY <3>1 DEF Later
    <3>4. table[ids[k]] = NewRow(sessions'[k].who, clock) /\ ids[k] \in DOMAIN table
      BY <1>4, <2>3
    <3>5. rows'[ids[k]] = IF IsOpen(table[ids[k]])
            THEN [table[ids[k]] EXCEPT !.lastSeen = Later(table[ids[k]].lastSeen, clock)]
            ELSE table[ids[k]]
      BY <1>1, <2>1, <2>3, <3>1, <3>2, <3>4, ArgumentDomains DEF Touched
    <3>6. QED
      BY <3>3, <3>4, <3>5 DEF NewRow
  <2>4. QED
    BY <2>2, <2>3
<1>8. QED
  BY <1>5, <1>6, <1>7

\* The rest of a poll: the moment it notes, and what it cost.
Marked(snap, started, noEnd, saved) ==
  /\ UNCHANGED <<inventory, running, clock, before>>
  /\ fresh' = TRUE /\ lastPoll' = clock /\ fetched' = Null
  /\ lastCheckpoint' = IF lastCheckpoint = Null \/ saved THEN clock ELSE lastCheckpoint
  /\ observed' = [e \in DOMAIN observed \cup Events(sessions', started) |->
                    IF e \notin DOMAIN observed THEN {clock}
                    ELSE IF e \in Events(sessions, Kept(snap))
                    THEN observed[e] \cup {clock} ELSE observed[e]]
  /\ absent' = [k \in Keys |-> IF k \in DOMAIN snap THEN 0
                               ELSE IF absent[k] = 2 THEN 2 ELSE absent[k] + 1]
  /\ NoFaults' /\ CheckpointDue => saved
  /\ left' \in [Kinds -> Nat] /\ left'["fault"] <= Budget["fault"]
  /\ IsFiniteSet(noEnd) /\ left'["fault"] + Cardinality(noEnd) <= left["fault"]

LEMMA PollParts ==
  ASSUME SInv, Poll
  PROVE  \E started, noEnd, noName, ids, saved :
           /\ Polled(fetched.streams, started, noEnd, noName, ids, saved)
           /\ Marked(fetched.streams, started, noEnd, saved)
<1> DEFINE snap == fetched.streams
<1>1. /\ running = "up" /\ DOMAIN snap \subseteq Keys
  BY DEF Poll, SInv, Environment
<1>2. PICK noEnd \in SUBSET Ending(snap), noStart \in SUBSET Unknowns(snap),
           noName \in SUBSET Kept(snap), noTouch \in {FALSE, CheckpointDue} :
        /\ Spend("fault", Cardinality(noEnd) + Cardinality(noStart)
                          + Cardinality(noName) + IF noTouch THEN 1 ELSE 0)
        /\ \E ids \in NewIds(Unknowns(snap) \ noStart) :
             PollApplied(noEnd, noStart, noName, noTouch, ids)
  BY DEF Poll
<1>3. PICK ids \in NewIds(Unknowns(snap) \ noStart) :
        PollApplied(noEnd, noStart, noName, noTouch, ids)
  BY <1>2
<1> DEFINE started == Unknowns(snap) \ noStart
           saved == CheckpointDue /\ ~noTouch
<1>4. Polled(snap, started, noEnd, noName, ids, saved)
  <2>1. saved \in BOOLEAN
    OBVIOUS
  <2>2. /\ sessions' = PolledSessions(snap, started, ids, noName)
        /\ nextId' = nextId + Cardinality(started)
        /\ rows' = IF saved THEN Touched(PolledRows(snap, started, noEnd, noName),
                                         LastSeenOf(sessions', DOMAIN sessions'))
                   ELSE PolledRows(snap, started, noEnd, noName)
    BY <1>3 DEF PollApplied, PolledRows, RenamedRows, EndedRows, Checkpoint
  <2> HIDE DEF saved
  <2>3. QED
    BY <1>1, <1>2, <1>3, <2>1, <2>2 DEF Polled
<1>5. /\ Cardinality(noEnd) \in Nat /\ Cardinality(noStart) \in Nat
      /\ Cardinality(noName) \in Nat /\ IsFiniteSet(noEnd)
  <2>1. noEnd \subseteq Keys /\ noStart \subseteq Keys /\ noName \subseteq Keys
    BY <1>1, <1>2, PollSets DEF SInv, Memory, Unknowns
  <2>2. QED
    BY <2>1, KeysAssumption, FS_Subset, FS_CardinalityType
<1> DEFINE cost == Cardinality(noEnd) + Cardinality(noStart)
                   + Cardinality(noName) + IF noTouch THEN 1 ELSE 0
<1>6. cost \in Nat /\ cost >= Cardinality(noEnd) /\ (noTouch => cost >= 1)
  BY <1>5
<1>7. Spend("fault", cost)
  BY <1>2
<1> HIDE DEF cost
<1>8. /\ left' \in [Kinds -> Nat] /\ left'["fault"] <= Budget["fault"]
      /\ left'["fault"] = left["fault"] - cost
  BY <1>6, <1>7, Spending DEF SInv, Kinds
<1>9. /\ left["fault"] \in Nat /\ left'["fault"] \in Nat /\ Budget["fault"] \in Nat
      /\ left["fault"] <= Budget["fault"]
  BY <1>8, BudgetAssumption DEF SInv, Environment, Kinds
<1>10. /\ left'["fault"] + Cardinality(noEnd) <= left["fault"]
       /\ NoFaults' => ~noTouch
  BY <1>5, <1>6, <1>8, <1>9 DEF NoFaults
<1>11. Marked(snap, started, noEnd, saved)
  <2>1. /\ UNCHANGED <<inventory, running, clock, before>>
        /\ fresh' = TRUE /\ lastPoll' = clock /\ fetched' = Null
        /\ lastCheckpoint' = IF lastCheckpoint = Null \/ saved THEN clock ELSE lastCheckpoint
    BY <1>3 DEF PollApplied
  <2>2. observed' = [e \in DOMAIN observed \cup Events(sessions', started) |->
                       IF e \notin DOMAIN observed THEN {clock}
                       ELSE IF e \in Events(sessions, Kept(snap))
                       THEN observed[e] \cup {clock} ELSE observed[e]]
    BY <1>3 DEF PollApplied
  <2>3. absent' = [k \in Keys |-> IF k \in DOMAIN snap THEN 0
                                  ELSE IF absent[k] = 2 THEN 2 ELSE absent[k] + 1]
    BY <1>3 DEF PollApplied
  <2>4. NoFaults' /\ CheckpointDue => saved
    BY <1>10
  <2> HIDE DEF saved, started, snap
  <2>5. QED
    BY <1>5, <1>8, <1>10, <2>1, <2>2, <2>3, <2>4 DEF Marked
<1>12. QED
  BY <1>4, <1>11

\* What the history says of a session after a poll.
LEMMA PollObserved ==
  ASSUME SInv, NEW snap, NEW started, NEW noEnd, NEW noName, NEW ids, NEW saved,
         Polled(snap, started, noEnd, noName, ids, saved), Marked(snap, started, noEnd, saved)
  PROVE  /\ DOMAIN observed' = Ids'
         /\ \A e \in Ids : observed[e] \subseteq observed'[e]
         /\ \A k \in started : observed'[ids[k]] = {clock}
         /\ \A k \in Stay(snap) : observed'[sessions[k].eid] =
              IF k \in Kept(snap) THEN observed[sessions[k].eid] \cup {clock}
              ELSE observed[sessions[k].eid]
         /\ \A e \in Ids : e \notin Events(sessions, Stay(snap)) => observed'[e] = observed[e]
<1>1. /\ Ids' = Ids \cup Events(sessions', started) /\ DOMAIN observed = Ids
  BY PollNewRow DEF SInv, Observations, Ids
<1>2. observed' = [e \in Ids' |->
                    IF e \notin Ids THEN {clock}
                    ELSE IF e \in Events(sessions, Kept(snap))
                    THEN observed[e] \cup {clock} ELSE observed[e]]
  BY <1>1 DEF Marked
<1>3. \A k \in started : ids[k] \notin Ids
  BY PollIds
<1>4. \A k \in started : ids[k] \in Ids'
  <2>1. \A k \in started : sessions'[k].eid = ids[k]
    BY PollStarts
  <2>2. QED
    BY <1>1, <2>1 DEF Events
<1>5. \A k \in Stay(snap) : sessions[k].eid \in Ids
  BY PollIds
<1>6. Kept(snap) \subseteq Stay(snap) /\ Stay(snap) \subseteq DOMAIN sessions
  BY PollSets
<1>10. Apart(sessions, DOMAIN sessions)
  BY PollIds
<1>7. \A k \in Stay(snap) : sessions[k].eid \in Events(sessions, Kept(snap)) <=> k \in Kept(snap)
  BY <1>6, <1>10 DEF Events, Apart
<1>8. \A e \in Ids : e \notin Events(sessions, Stay(snap)) => e \notin Events(sessions, Kept(snap))
  BY <1>6 DEF Events
<1>9. QED
  BY <1>1, <1>2, <1>3, <1>4, <1>5, <1>7, <1>8

LEMMA PollSInv ==
  ASSUME SInv, Poll
  PROVE  SInv'
<1> DEFINE snap == fetched.streams
<1>1. PICK started, noEnd, noName, ids, saved :
        /\ Polled(snap, started, noEnd, noName, ids, saved)
        /\ Marked(snap, started, noEnd, saved)
  BY PollParts
<1> HIDE DEF snap
<1>2. /\ DOMAIN sessions' = Stay(snap) \cup started /\ Stay(snap) \subseteq DOMAIN sessions
      /\ Apart(sessions', DOMAIN sessions') /\ Apart(sessions, DOMAIN sessions)
      /\ nextId' \in Nat \ {0} /\ nextId <= nextId'
  BY <1>1, PollIds, PollSets
<1>3. \A k \in Stay(snap) : /\ sessions'[k].eid = sessions[k].eid /\ sessions[k].eid \in Ids
                            /\ fresh /\ (k \notin Kept(snap) => k \notin DOMAIN snap)
  BY <1>1, <1>2, PollIds, PollSets
<1>4. \A k \in started :
        ids[k] \in Nat \ {0} /\ ids[k] \notin Ids /\ ids[k] \in 1 .. (nextId' - 1)
  <2>1. \A k \in started : ids[k] \in Nat \ {0} /\ ids[k] \notin Ids
    BY <1>1, PollIds
  <2>2. \A k \in started : ids[k] \in 1 .. (nextId' - 1)
    BY <1>1, PollIds
  <2>3. QED
    BY <2>1, <2>2
<1>5. \A k \in started :
        /\ IsSession(sessions'[k]) /\ sessions'[k].eid = ids[k]
        /\ sessions'[k].misses = 0 /\ sessions'[k].lastSeen = clock
  BY <1>1, PollStarts
<1>6. \A k \in Stay(snap) :
        /\ IsSession(sessions'[k])
        /\ k \in Kept(snap) => sessions'[k].misses = 0 /\ sessions'[k].lastSeen = clock
        /\ k \notin Kept(snap) => /\ sessions'[k].misses = 1
                                  /\ sessions'[k].lastSeen = sessions[k].lastSeen
  BY <1>1, PollKeeps
<1>7. /\ Ids' = Ids \cup Events(sessions', started)
      /\ \A k \in started : rows'[ids[k]] = NewRow(sessions'[k].who, clock)
  BY <1>1, PollNewRow
<1>8. \A e \in Ids :
        /\ IsRow(rows'[e])
        /\ e \notin Events(sessions, DOMAIN sessions) => rows'[e] = rows[e]
        /\ \A k \in noEnd : sessions[k].eid = e => rows'[e] = rows[e]
        /\ \A k \in Ending(snap) \ noEnd : sessions[k].eid = e =>
             rows'[e].lastSeen = sessions[k].lastSeen
        /\ \A k \in Stay(snap) : sessions[k].eid = e =>
             /\ IsOpen(rows'[e]) /\ rows'[e].who = sessions'[k].who
             /\ rows'[e].lastSeen = IF saved THEN sessions'[k].lastSeen ELSE rows[e].lastSeen
  BY <1>1, PollOldRow
<1>9. /\ DOMAIN observed' = Ids'
      /\ \A e \in Ids : observed[e] \subseteq observed'[e]
      /\ \A k \in started : observed'[ids[k]] = {clock}
      /\ \A k \in Stay(snap) : observed'[sessions[k].eid] =
           IF k \in Kept(snap) THEN observed[sessions[k].eid] \cup {clock}
           ELSE observed[sessions[k].eid]
  BY <1>1, PollObserved
<1>10. /\ clock \in Nat /\ clock' = clock /\ running = "up" /\ running' = "up"
       /\ DOMAIN snap \subseteq Keys /\ saved \in BOOLEAN
       /\ started \subseteq DOMAIN snap /\ noEnd \subseteq Ending(snap)
  BY <1>1 DEF Marked, Polled, SInv, Environment, Unknowns
<1>11. \A k \in Stay(snap) :
         /\ rows[sessions[k].eid].lastSeen \in Nat /\ sessions[k].lastSeen \in Nat
         /\ rows[sessions[k].eid].lastSeen <= sessions[k].lastSeen
         /\ sessions[k].lastSeen <= clock /\ k \in Keys
  BY <1>2, <1>3 DEF SInv, Memory, Session, IsSession, Tables, IsRow, Ids
<1>12. Tables'
  <2>1. ASSUME NEW k \in started PROVE IsRow(rows'[ids[k]])
    <3>1. rows'[ids[k]] = [who |-> sessions'[k].who, started |-> clock,
                           lastSeen |-> clock, ended |-> Null]
      BY <1>7, <2>1 DEF NewRow
    <3>2. QED
      BY <1>10, <3>1 DEF IsRow
  <2>2. \A e \in Ids' : e \in Ids \/ \E k \in started : e = ids[k]
    BY <1>5, <1>7 DEF Events
  <2>3. Ids \subseteq 1 .. (nextId' - 1)
    BY <1>2 DEF SInv, Tables, Ids
  <2>4. Ids' \subseteq 1 .. (nextId' - 1)
    BY <1>4, <2>2, <2>3
  <2>5. \A e \in Ids' : IsRow(rows'[e])
    BY <1>8, <2>1, <2>2
  <2>6. QED
    BY <1>2, <2>4, <2>5 DEF Tables, Ids
<1>13. Environment'
  <2>1. absent' \in [Keys -> 0 .. 2]
    BY <1>1 DEF Marked, SInv, Environment
  <2>2. /\ lastPoll' = clock /\ fetched' = Null /\ fresh' = TRUE
        /\ lastCheckpoint' = IF lastCheckpoint = Null \/ saved THEN clock ELSE lastCheckpoint
        /\ left' \in [Kinds -> Nat] /\ left'["fault"] <= Budget["fault"]
        /\ inventory' = inventory
    BY <1>1 DEF Marked
  <2>3. QED
    BY <1>10, <2>1, <2>2 DEF SInv, Environment
<1>14. ASSUME NEW k \in Stay(snap)
       PROVE  /\ Session(k)' /\ IsOpen(rows'[sessions[k].eid])
              /\ rows'[sessions[k].eid].lastSeen <= sessions'[k].lastSeen
  <2>1. /\ IsOpen(rows'[sessions[k].eid]) /\ rows'[sessions[k].eid].who = sessions'[k].who
        /\ rows'[sessions[k].eid].lastSeen =
             IF saved THEN sessions'[k].lastSeen ELSE rows[sessions[k].eid].lastSeen
    BY <1>3, <1>8, <1>14
  <2>2. /\ sessions'[k].lastSeen = clock \/ sessions'[k].lastSeen = sessions[k].lastSeen
        /\ IsSession(sessions'[k])
    BY <1>6, <1>14
  <2>3. rows'[sessions[k].eid].lastSeen <= sessions'[k].lastSeen /\ sessions'[k].lastSeen <= clock
    BY <1>10, <1>11, <1>14, <2>1, <2>2
  <2>4. sessions'[k].eid = sessions[k].eid /\ sessions[k].eid \in DOMAIN rows'
    BY <1>3, <1>7, <1>14 DEF Ids
  <2>5. QED
    BY <1>10, <2>1, <2>2, <2>3, <2>4 DEF Session
<1>15. ASSUME NEW k \in started
       PROVE  Session(k)' /\ IsOpen(rows'[ids[k]])
  <2>1. rows'[ids[k]] = NewRow(sessions'[k].who, clock)
    BY <1>7, <1>15
  <2>2. ids[k] \in DOMAIN rows'
    BY <1>5, <1>7, <1>15 DEF Events, Ids
  <2>3. QED
    BY <1>5, <1>10, <1>15, <2>1, <2>2 DEF Session, NewRow, IsOpen
<1>16. Memory'
  <2>1. \A k \in DOMAIN sessions' : Session(k)' /\ IsOpen(rows'[sessions'[k].eid]) /\ k \in Keys
    BY <1>2, <1>3, <1>5, <1>10, <1>11, <1>14, <1>15
  <2>2. QED
    BY <1>2, <1>10, <2>1 DEF Memory, Apart
<1>17. ASSUME NEW e \in Ids
       PROVE  rows'[e].lastSeen \in observed'[e]
  <2>1. rows[e].lastSeen \in observed'[e]
    BY <1>9, <1>17 DEF SInv, Observations, Ids
  <2>2. CASE e \notin Events(sessions, DOMAIN sessions)
    BY <1>8, <1>17, <2>1, <2>2
  <2>3. CASE e \in Events(sessions, DOMAIN sessions)
    <3>1. PICK k \in DOMAIN sessions : sessions[k].eid = e
      BY <2>3 DEF Events
    <3>2. sessions[k].lastSeen \in observed'[e]
      BY <1>9, <1>17, <3>1 DEF SInv, Observations
    <3>3. k \in noEnd \/ k \in Ending(snap) \ noEnd \/ k \in Stay(snap)
      BY <3>1, PollSets
    <3>4. CASE k \in Stay(snap)
      <4>1. sessions'[k].lastSeen \in observed'[e]
        BY <1>6, <1>9, <3>1, <3>2, <3>4
      <4>2. QED
        BY <1>8, <1>17, <2>1, <3>1, <3>4, <4>1
    <3>5. QED
      BY <1>8, <1>17, <2>1, <3>1, <3>2, <3>3, <3>4
  <2>4. QED
    BY <2>2, <2>3
<1>18. ASSUME NEW k \in DOMAIN sessions'
       PROVE  /\ sessions'[k].lastSeen \in observed'[sessions'[k].eid]
              /\ \A t \in observed'[sessions'[k].eid] : t \in Nat /\ t <= sessions'[k].lastSeen
              /\ sessions'[k].eid \notin DOMAIN before /\ sessions'[k].misses <= absent'[k]
  <2>1. CASE k \in started
    <3>1. /\ sessions'[k].eid = ids[k] /\ sessions'[k].lastSeen = clock
          /\ observed'[ids[k]] = {clock} /\ sessions'[k].misses = 0
      BY <1>5, <1>9, <2>1
    <3>2. ids[k] \notin DOMAIN before
      BY <1>4, <2>1 DEF SInv, Observations, Ids
    <3>3. absent'[k] \in 0 .. 2
      BY <1>10, <1>13, <2>1 DEF Environment
    <3>4. QED
      BY <1>10, <3>1, <3>2, <3>3
  <2>2. CASE k \in Stay(snap)
    <3>1. /\ sessions[k].lastSeen \in observed[sessions[k].eid]
          /\ \A t \in observed[sessions[k].eid] : t \in Nat /\ t <= sessions[k].lastSeen
          /\ sessions[k].eid \notin DOMAIN before /\ sessions'[k].eid = sessions[k].eid
      BY <1>2, <1>3, <2>2 DEF SInv, Observations
    <3>2. CASE k \in Kept(snap)
      <4>1. /\ observed'[sessions[k].eid] = observed[sessions[k].eid] \cup {clock}
            /\ sessions'[k].lastSeen = clock /\ sessions'[k].misses = 0
        BY <1>6, <1>9, <2>2, <3>2
      <4>2. absent'[k] \in 0 .. 2
        BY <1>11, <1>13, <2>2 DEF Environment
      <4>3. QED
        BY <1>10, <1>11, <2>2, <3>1, <4>1, <4>2
    <3>3. CASE k \notin Kept(snap)
      <4>1. /\ observed'[sessions[k].eid] = observed[sessions[k].eid]
            /\ sessions'[k].lastSeen = sessions[k].lastSeen /\ sessions'[k].misses = 1
        BY <1>6, <1>9, <2>2, <3>3
      <4>2. absent'[k] = IF absent[k] = 2 THEN 2 ELSE absent[k] + 1
        BY <1>1, <1>3, <1>11, <2>2, <3>3 DEF Marked
      <4>3. absent[k] \in 0 .. 2
        BY <1>11, <2>2 DEF SInv, Environment
      <4>4. QED
        BY <3>1, <4>1, <4>2, <4>3
    <3>4. QED
      BY <3>2, <3>3
  <2>3. QED
    BY <1>2, <1>18, <2>1, <2>2
<1>19. Observations'
  <2>1. ASSUME NEW k \in started PROVE rows'[ids[k]].lastSeen \in observed'[ids[k]]
    <3>1. rows'[ids[k]] = NewRow(sessions'[k].who, clock) /\ observed'[ids[k]] = {clock}
      BY <1>7, <1>9, <2>1
    <3>2. QED
      BY <3>1 DEF NewRow
  <2>2. \A e \in Ids' : rows'[e].lastSeen \in observed'[e]
    BY <1>5, <1>7, <1>17, <2>1 DEF Events
  <2>3. before' = before /\ DOMAIN before \subseteq Ids'
    BY <1>1, <1>7 DEF Marked, SInv, Observations, Ids
  <2>4. QED
    BY <1>9, <1>18, <2>2, <2>3 DEF Observations, Ids
<1>20. Checkpointed'
  <2>1. SUFFICES ASSUME NoFaults', NEW k \in DOMAIN sessions'
                 PROVE  /\ lastPoll' \in Nat /\ lastCheckpoint' \in Nat
                        /\ lastPoll' < lastCheckpoint' + Interval
                        /\ \A t \in observed'[sessions'[k].eid] :
                             t < lastCheckpoint' => t <= rows'[sessions'[k].eid].lastSeen
    BY DEF Checkpointed
  <2>2. /\ lastPoll' = clock /\ (NoFaults' /\ CheckpointDue => saved)
        /\ lastCheckpoint' = IF lastCheckpoint = Null \/ saved THEN clock ELSE lastCheckpoint
    BY <1>1 DEF Marked
  <2>3. lastCheckpoint \in Nat \cup {Null} /\ (lastCheckpoint # Null => lastCheckpoint <= clock)
    BY DEF SInv, Environment
  <2>4. Interval \in Nat \ {0}
    BY TimeAssumption
  <2>5. lastPoll' \in Nat /\ lastCheckpoint' \in Nat /\ lastPoll' < lastCheckpoint' + Interval
    <3>1. CASE lastCheckpoint = Null \/ saved
      BY <1>10, <2>2, <2>4, <3>1
    <3>2. CASE ~(lastCheckpoint = Null \/ saved)
      <4>1. lastCheckpoint \in Nat /\ lastCheckpoint' = lastCheckpoint /\ ~CheckpointDue
        BY <2>1, <2>2, <2>3, <3>2
      <4>2. clock - lastCheckpoint < Interval
        BY <1>10, <2>4, <3>2, <4>1 DEF CheckpointDue
      <4>3. QED
        BY <1>10, <2>2, <2>4, <4>1, <4>2
    <3>3. QED
      BY <3>1, <3>2
  <2>6. NoFaults
    <3>1. left'["fault"] <= left["fault"]
      <4>1. /\ Cardinality(noEnd) \in Nat /\ left'["fault"] + Cardinality(noEnd) <= left["fault"]
            /\ left["fault"] \in Nat /\ left'["fault"] \in Nat
        BY <1>1, FS_CardinalityType DEF Marked, SInv, Environment, Kinds
      <4>2. QED
        BY <4>1
    <3>2. QED
      BY <1>13, <2>1, <3>1, NoFaultsYet
  <2>7. ASSUME NEW t \in observed'[sessions'[k].eid], t < lastCheckpoint'
        PROVE  t <= rows'[sessions'[k].eid].lastSeen
    <3>1. CASE k \in started
      <4>1. sessions'[k].eid = ids[k] /\ observed'[ids[k]] = {clock}
        BY <1>5, <1>9, <3>1
      <4>2. rows'[ids[k]] = NewRow(sessions'[k].who, clock)
        BY <1>7, <3>1
      <4>3. rows'[sessions'[k].eid].lastSeen = clock
        BY <4>1, <4>2 DEF NewRow
      <4>4. t = clock
        BY <2>7, <4>1
      <4>5. QED
        BY <1>10, <4>3, <4>4
    <3>2. CASE k \in Stay(snap) /\ saved
      <4>1. rows'[sessions'[k].eid].lastSeen = sessions'[k].lastSeen
        BY <1>3, <1>8, <3>2
      <4>2. QED
        BY <1>18, <2>1, <2>7, <4>1
    <3>3. CASE k \in Stay(snap) /\ ~saved
      <4>1. /\ rows'[sessions'[k].eid].lastSeen = rows[sessions[k].eid].lastSeen
            /\ sessions'[k].eid = sessions[k].eid /\ k \in DOMAIN sessions
        BY <1>2, <1>3, <1>8, <3>3
      <4>2. /\ lastCheckpoint \in Nat
            /\ \A u \in observed[sessions[k].eid] :
                 u < lastCheckpoint => u <= rows[sessions[k].eid].lastSeen
        BY <2>6, <4>1 DEF SInv, Checkpointed
      <4>3. lastCheckpoint' = lastCheckpoint /\ lastCheckpoint <= clock
        BY <2>2, <2>3, <3>3, <4>2, NullAssumption
      <4>7. \/ observed'[sessions[k].eid] = observed[sessions[k].eid] \cup {clock}
            \/ observed'[sessions[k].eid] = observed[sessions[k].eid]
        BY <1>9, <3>3
      <4>8. t \in observed'[sessions[k].eid]
        BY <2>7, <4>1
      <4>4. t \in observed[sessions[k].eid] \/ t = clock
        BY <4>7, <4>8
      <4>5. t # clock
        BY <1>10, <2>7, <4>2, <4>3
      <4>6. QED
        BY <2>7, <4>1, <4>2, <4>3, <4>4, <4>5
    <3>4. QED
      BY <1>2, <1>10, <2>1, <3>1, <3>2, <3>3
  <2>8. QED
    BY <2>5, <2>7
<1>21. QED
  BY <1>12, <1>13, <1>16, <1>19, <1>20 DEF SInv

LEMMA NextSInv ==
  ASSUME SInv, [Next]_vars
  PROVE  SInv'
<1>1. CASE UNCHANGED vars
  <2>1. UNCHANGED <<inventory, fetched, sessions, fresh, lastPoll, lastCheckpoint, rows, nextId,
                    running, clock, left, observed, absent, before>>
    BY <1>1 DEF vars
  <2>2. QED
    BY <2>1 DEF SInv, Tables, Environment, Memory, Session, Observations, Checkpointed, NoFaults
<1>2. CASE Next
  BY <1>2, Go2rtcSInv, OutageSInv, PollSInv, SignalSInv, CloseSInv, DeathSInv, BootSInv DEF Next
<1>3. QED
  BY <1>1, <1>2

\* The invariant: what memory and rows know of each other, and what is on disk.
THEOREM StreamInvariance == Spec => []SInv
<1>1. Init => SInv
  BY InitSInv
<1>2. SInv /\ [Next]_vars => SInv'
  BY NextSInv
<1>3. QED
  BY <1>1, <1>2, PTL DEF Spec

-------------------------------------------------------------------------------
\* MemoryInStep: poll, RecordSignal and their failing store calls keep each session
\* with an open row of its own that names the same person.
THEOREM StreamMemoryInStep == Spec => []MemoryInStep
<1>1. SInv => MemoryInStep
  BY DEF SInv, Memory, Session, MemoryInStep, OpenRows
<1>2. QED
  BY <1>1, StreamInvariance, PTL

LEMMA RecoveredRow ==
  ASSUME SInv, Boot, NEW e \in Ids
  PROVE  /\ Ids' = Ids /\ ~IsOpen(rows'[e]) /\ rows'[e].who = rows[e].who
         /\ rows'[e].lastSeen = rows[e].lastSeen
         /\ ~IsOpen(rows[e]) => rows'[e] = rows[e]
<1>1. IsRow(rows[e]) /\ clock \in Nat /\ clock # Null
  BY NullAssumption DEF SInv, Tables, Environment, Ids
<1>2. Ids' = Ids
  BY DEF Boot, Recovered, Ids
<1>3. rows'[e] = IF IsOpen(rows[e])
                 THEN [rows[e] EXCEPT !.ended = clock, !.lastSeen = rows[e].lastSeen]
                 ELSE rows[e]
  BY <1>1, NullAssumption DEF Boot, Recovered, IsRow, Ids
<1>4. QED
  BY <1>1, <1>2, <1>3 DEF IsRow, IsOpen

LEMMA ClosedRow ==
  ASSUME SInv, NEW noEnd \in SUBSET DOMAIN sessions, CloseTracked(noEnd), NEW e \in Ids
  PROVE  /\ Ids' = Ids /\ rows'[e].who = rows[e].who
         /\ e \notin Events(sessions, DOMAIN sessions \ noEnd) \/ ~IsOpen(rows[e]) =>
              rows'[e] = rows[e]
         /\ \A k \in DOMAIN sessions \ noEnd : sessions[k].eid = e =>
              ~IsOpen(rows'[e]) /\ rows'[e].lastSeen = sessions[k].lastSeen
<1>1. PICK K : K = DOMAIN sessions \ noEnd
  OBVIOUS
<1>2. K \in SUBSET DOMAIN sessions /\ rows' = EndedAt(rows, clock, LastSeenOf(sessions, K))
  BY <1>1 DEF CloseTracked
<1>3. Ids' = Ids
  BY <1>2 DEF EndedAt, Ids
<1>4. PICK r : r = rows'[e]
  OBVIOUS
<1>5. r = EndedAt(rows, clock, LastSeenOf(sessions, K))[e]
  BY <1>2, <1>4
<1>6. /\ IsRow(r) /\ r.who = rows[e].who
      /\ e \notin Events(sessions, K) \/ ~IsOpen(rows[e]) => r = rows[e]
      /\ \A k \in K : sessions[k].eid = e => ~IsOpen(r) /\ r.lastSeen = sessions[k].lastSeen
  BY <1>2, <1>5, EndedRow
<1>7. QED
  BY <1>1, <1>3, <1>4, <1>6

\* Of a row that a poll names anew: its session is the one that stays.
LEMMA PollWho ==
  ASSUME SInv, Poll, NEW e \in Ids
  PROVE  rows'[e].who = rows[e].who \/ rows'[e].who.conf > rows[e].who.conf
<1>1. PICK started, noEnd, noName, ids, saved :
        Polled(fetched.streams, started, noEnd, noName, ids, saved)
  BY PollParts
<1>2. PICK snap : snap = fetched.streams
  OBVIOUS
<1>3. Polled(snap, started, noEnd, noName, ids, saved)
  BY <1>1, <1>2
<1>4. /\ e \notin Events(sessions, DOMAIN sessions) => rows'[e] = rows[e]
      /\ \A k \in noEnd : sessions[k].eid = e => rows'[e] = rows[e]
      /\ \A k \in Ending(snap) \ noEnd : sessions[k].eid = e => rows'[e].who = rows[e].who
      /\ \A k \in Stay(snap) : sessions[k].eid = e => rows'[e].who = sessions'[k].who
  BY <1>3, PollOldRow
<1>5. CASE e \in Events(sessions, DOMAIN sessions)
  <2>1. PICK k \in DOMAIN sessions : sessions[k].eid = e
    BY <1>5 DEF Events
  <2>2. CASE k \in Stay(snap)
    <3>1. sessions'[k].who = sessions[k].who \/ sessions'[k].who.conf > sessions[k].who.conf
      BY <1>3, <2>2, PollKeeps
    <3>2. rows[e].who = sessions[k].who
      BY <1>3, <2>1 DEF Polled, SInv, Memory, Session
    <3>3. QED
      BY <1>4, <2>1, <2>2, <3>1, <3>2
  <2>3. CASE k \notin Stay(snap)
    <3>1. k \in noEnd \/ k \in Ending(snap) \ noEnd
      BY <2>3, PollSets
    <3>2. QED
      BY <1>4, <2>1, <3>1
  <2>4. QED
    BY <2>2, <2>3
<1>6. QED
  BY <1>4, <1>5

\* AttributionOnlyRises: whoever signals, whatever the store refuses and however the
\* daemon ends, an interval changes hands only for a better founded name.
THEOREM StreamAttribution == Spec => AttributionOnlyRises
<1> DEFINE Step == \A e \in DOMAIN rows : \/ rows'[e].who = rows[e].who
                                          \/ rows'[e].who.conf > rows[e].who.conf
<1>1. SInv /\ [Next]_vars => [Step]_vars
  <2> SUFFICES ASSUME SInv, Next, NEW e \in Ids
               PROVE  rows'[e].who = rows[e].who \/ rows'[e].who.conf > rows[e].who.conf
    BY DEF Ids
  <2>1. CASE Poll
    BY <2>1, PollWho
  <2>2. ASSUME NEW r \in Signallers, NEW c \in Cameras, NEW noName, NEW at,
               RecordSignal(r, c, at, noName)
        PROVE  rows'[e].who = rows[e].who \/ rows'[e].who.conf > rows[e].who.conf
    BY <2>2, SignalRows
  <2>3. ASSUME NEW noEnd \in SUBSET DOMAIN sessions, CloseTracked(noEnd)
        PROVE  rows'[e].who = rows[e].who
    BY <2>3, ClosedRow
  <2>4. CASE Boot
    BY <2>4, RecoveredRow
  <2>5. CASE Exit \/ Crash
    BY <2>5 DEF Exit, Crash, Die, store
  <2>6. CASE \/ \E k \in Keys, d \in Descs : Connect(k, d)
             \/ \E k \in Keys : Disconnect(k)
             \/ Tick \/ Fetch \/ FetchFails \/ PollFailed
    BY <2>6 DEF Connect, Disconnect, Tick, Fetch, FetchFails, PollFailed, store
  <2>7. QED
    BY <2>1, <2>2, <2>3, <2>4, <2>5, <2>6 DEF Next
<1>2. QED
  BY <1>1, StreamInvariance, PTL DEF Spec, AttributionOnlyRises

\* TwoMissesToEnd: what a poll ends while it trusts its memory has been missed twice
\* or replaced under its id.
LEMMA PollEnds ==
  ASSUME SInv, Poll, fresh, NEW k \in DOMAIN sessions
  PROVE  \/ k \in DOMAIN sessions' /\ sessions'[k].eid = sessions[k].eid
         \/ absent'[k] = 2
         \/ absent'[k] = 0 /\ fetched.streams[k] # sessions[k].desc
<1>1. PICK snap : snap = fetched.streams
  OBVIOUS
<1>2. PICK started, noEnd, noName, ids, saved :
        /\ Polled(snap, started, noEnd, noName, ids, saved)
        /\ Marked(snap, started, noEnd, saved)
  BY <1>1, PollParts
<1>3. k \in Keys /\ absent[k] \in 0 .. 2
  BY DEF SInv, Memory, Environment
<1>4. absent'[k] = IF k \in DOMAIN snap THEN 0 ELSE IF absent[k] = 2 THEN 2 ELSE absent[k] + 1
  BY <1>2, <1>3 DEF Marked
<1>5. CASE k \in Stay(snap)
  <2>1. DOMAIN sessions' = Stay(snap) \cup started
    BY <1>2, PollIds
  <2>2. sessions'[k].eid = sessions[k].eid
    BY <1>2, <1>5, PollKeeps
  <2>3. QED
    BY <1>5, <2>1, <2>2
<1>6. CASE k \in Reused(snap)
  <2>1. k \in DOMAIN snap /\ snap[k] # sessions[k].desc
    BY <1>6 DEF Reused, Kept, Alive
  <2>2. QED
    BY <1>1, <1>4, <2>1
<1>7. CASE k \in Gone(snap)
  <2>1. k \notin DOMAIN snap /\ sessions[k].misses + 1 >= 2
    BY <1>7 DEF Gone, Alive
  <2>2. sessions[k].misses \in 0 .. 1 /\ sessions[k].misses <= absent[k]
    BY DEF SInv, Memory, Session, IsSession, Observations
  <2>3. QED
    BY <1>3, <1>4, <2>1, <2>2
<1>8. DOMAIN sessions \ DOMAIN Alive = {}
  BY DEF Alive
<1>9. QED
  BY <1>5, <1>6, <1>7, <1>8 DEF Stay, Ending

THEOREM StreamTwoMisses == Spec => TwoMissesToEnd
<1> DEFINE Accounted(k) ==
             \/ k \in DOMAIN sessions' /\ sessions'[k].eid = sessions[k].eid
             \/ absent'[k] = 2
             \/ absent'[k] = 0 /\ fetched.streams[k] # sessions[k].desc
           Step == fresh /\ running = "up" /\ running' = "up" =>
                     \A k \in DOMAIN sessions : Accounted(k)
<1>1. SInv /\ [Next]_vars => [Step]_vars
  <2> SUFFICES ASSUME SInv, Next, fresh, running = "up", running' = "up",
                      NEW k \in DOMAIN sessions
               PROVE  Accounted(k)
    OBVIOUS
  <2>1. CASE Poll
    BY <2>1, PollEnds
  <2>2. ASSUME NEW r \in Signallers, NEW c \in Cameras, NEW noName, NEW at,
               RecordSignal(r, c, at, noName)
        PROVE  k \in DOMAIN sessions' /\ sessions'[k].eid = sessions[k].eid
    BY <2>2, SignalSessions
  <2>3. CASE Exit \/ Crash \/ Boot \/ \E noEnd \in SUBSET DOMAIN sessions : CloseTracked(noEnd)
    BY <2>3 DEF Exit, Crash, Die, Boot, CloseTracked
  <2>4. CASE \/ \E j \in Keys, d \in Descs : Connect(j, d)
             \/ \E j \in Keys : Disconnect(j)
             \/ Tick \/ Fetch \/ FetchFails \/ PollFailed
    BY <2>4 DEF Connect, Disconnect, Tick, Fetch, FetchFails, PollFailed, manager
  <2>5. QED
    BY <2>1, <2>2, <2>3, <2>4 DEF Next
<1>2. QED
  BY <1>1, StreamInvariance, PTL DEF Spec, TwoMissesToEnd

-------------------------------------------------------------------------------
\* The open rows that no session will end, and what they are allowed to be.
Held == IF running = "closing" THEN {} ELSE Events(sessions, DOMAIN sessions)
Orphans == OpenRows \ Held
OInv == SInv /\ NoOrphanRows

LEMMA OrphanCount ==
  ASSUME SInv
  PROVE  /\ IsFiniteSet(Orphans) /\ Cardinality(Orphans) \in Nat
         /\ NoOrphanRows <=>
              (running # "down" => Cardinality(Orphans) <= Budget["fault"] - left["fault"])
         /\ left["fault"] \in Nat /\ Budget["fault"] \in Nat
<1>1. Orphans \subseteq 1 .. (nextId - 1) /\ nextId \in Nat
  BY DEF SInv, Tables, Orphans, OpenRows
<1>2. IsFiniteSet(1 .. (nextId - 1))
  BY <1>1, FS_Interval
<1>3. IsFiniteSet(Orphans) /\ Cardinality(Orphans) \in Nat
  BY <1>1, <1>2, FS_Subset, FS_CardinalityType
<1>4. left["fault"] \in Nat /\ Budget["fault"] \in Nat
  BY BudgetAssumption DEF SInv, Environment, Kinds
<1>5. QED
  BY <1>3, <1>4 DEF NoOrphanRows, Orphans, Held

\* The events of some sessions are no more than the sessions.
LEMMA EventCount ==
  ASSUME NEW ss, NEW K, IsFiniteSet(K)
  PROVE  IsFiniteSet(Events(ss, K)) /\ Cardinality(Events(ss, K)) <= Cardinality(K)
<1> DEFINE f == [k \in K |-> ss[k].eid]
<1>1. f \in Surjection(K, Events(ss, K))
  BY DEF Surjection, Events
<1> HIDE DEF f
<1>2. QED
  BY <1>1, FS_Surjection

\* A step that leaves no more orphans than it had failures to end a stream.
LEMMA FewOrphans ==
  ASSUME OInv, SInv', running # "down", NEW noEnd, IsFiniteSet(noEnd),
         left'["fault"] + Cardinality(noEnd) <= left["fault"],
         Orphans' \subseteq Orphans \cup Events(sessions, noEnd)
  PROVE  NoOrphanRows'
<1>1. /\ IsFiniteSet(Orphans) /\ Cardinality(Orphans) \in Nat
      /\ Cardinality(Orphans) <= Budget["fault"] - left["fault"]
      /\ left["fault"] \in Nat /\ Budget["fault"] \in Nat
  BY OrphanCount DEF OInv
<1>2. /\ IsFiniteSet(Events(sessions, noEnd))
      /\ Cardinality(Events(sessions, noEnd)) <= Cardinality(noEnd)
      /\ Cardinality(Events(sessions, noEnd)) \in Nat /\ Cardinality(noEnd) \in Nat
  BY EventCount, FS_CardinalityType
<1>3. PICK A, B, C, D : /\ A = Orphans /\ B = Events(sessions, noEnd)
                        /\ C = A \cap B /\ D = A \cup B
  OBVIOUS
<1>4. IsFiniteSet(C) /\ Cardinality(C) \in Nat
  BY <1>1, <1>3, FS_Subset, FS_CardinalityType
<1>5. IsFiniteSet(D) /\ Cardinality(D) = Cardinality(A) + Cardinality(B) - Cardinality(C)
  BY <1>1, <1>2, <1>3, FS_Union
<1>6. PICK E : E = Orphans'
  OBVIOUS
<1>7. E \subseteq D
  BY <1>3, <1>6
<1>8. IsFiniteSet(E) /\ Cardinality(E) <= Cardinality(D) /\ Cardinality(E) \in Nat
  BY <1>5, <1>7, FS_Subset, FS_CardinalityType
<1>9. left'["fault"] \in Nat
  BY DEF SInv, Environment, Kinds
<1>10. Cardinality(E) <= Budget["fault"] - left'["fault"]
  BY <1>1, <1>2, <1>3, <1>4, <1>5, <1>8, <1>9
<1>11. QED
  BY <1>6, <1>10 DEF NoOrphanRows, Orphans, Held

LEMMA PollOrphans ==
  ASSUME OInv, Poll
  PROVE  NoOrphanRows'
<1>1. PICK snap : snap = fetched.streams
  OBVIOUS
<1>2. PICK started, noEnd, noName, ids, saved :
        /\ Polled(snap, started, noEnd, noName, ids, saved)
        /\ Marked(snap, started, noEnd, saved)
  BY <1>1, PollParts DEF OInv
<1>3. SInv /\ SInv' /\ running = "up" /\ running' = "up" /\ noEnd \subseteq Ending(snap)
  BY <1>2, PollSInv DEF OInv, Marked, Polled
<1>4. Ids' = Ids \cup Events(sessions', started)
  BY <1>2, <1>3, PollNewRow
<1>5. DOMAIN sessions' = Stay(snap) \cup started
  BY <1>2, <1>3, PollIds
<1>6. \A k \in Stay(snap) : sessions'[k].eid = sessions[k].eid
  BY <1>2, <1>3, PollKeeps
<1>7. ASSUME NEW e \in Orphans'
      PROVE  e \in Orphans \cup Events(sessions, noEnd)
  <2>1. e \in Ids' /\ IsOpen(rows'[e]) /\ e \notin Events(sessions', DOMAIN sessions')
    BY <1>3, <1>7 DEF Orphans, OpenRows, Held, Ids
  <2>2. e \in Ids /\ e \notin Events(sessions, Stay(snap))
    BY <1>4, <1>5, <1>6, <2>1 DEF Events
  <2>3. /\ ~IsOpen(rows[e]) => rows'[e] = rows[e]
        /\ \A k \in Ending(snap) \ noEnd : sessions[k].eid = e => ~IsOpen(rows'[e])
    BY <1>2, <1>3, <2>2, PollOldRow
  <2>4. CASE e \in Events(sessions, DOMAIN sessions)
    <3>1. PICK k \in DOMAIN sessions : sessions[k].eid = e
      BY <2>4 DEF Events
    <3>2. k \notin Stay(snap)
      BY <2>2, <3>1 DEF Events
    <3>3. k \in Ending(snap)
      BY <1>3, <3>2, PollSets
    <3>4. k \in noEnd
      BY <2>1, <2>3, <3>1, <3>3
    <3>5. QED
      BY <3>1, <3>4 DEF Events
  <2>5. CASE e \notin Events(sessions, DOMAIN sessions)
    BY <1>3, <2>1, <2>2, <2>3, <2>5 DEF Orphans, OpenRows, Held, Ids
  <2>6. QED
    BY <2>4, <2>5
<1>8. IsFiniteSet(noEnd) /\ left'["fault"] + Cardinality(noEnd) <= left["fault"]
  BY <1>2 DEF Marked
<1>9. Orphans' \subseteq Orphans \cup Events(sessions, noEnd)
  BY <1>7
<1>10. QED
  BY <1>3, <1>8, <1>9, FewOrphans

LEMMA CloseOrphans ==
  ASSUME OInv, NEW noEnd \in SUBSET DOMAIN sessions, CloseTracked(noEnd)
  PROVE  NoOrphanRows'
<1>1. SInv /\ SInv' /\ running = "up" /\ running' = "closing"
  BY CloseSInv DEF OInv, CloseTracked
<1>2. IsFiniteSet(noEnd) /\ Cardinality(noEnd) \in Nat
  BY <1>1, KeysAssumption, FS_Subset, FS_CardinalityType DEF SInv, Memory
<1>3. left'["fault"] = left["fault"] - Cardinality(noEnd) /\ left["fault"] \in Nat
  BY <1>1 DEF CloseTracked, SInv, Environment, Kinds
<1>4. ASSUME NEW e \in Orphans'
      PROVE  e \in Orphans \cup Events(sessions, noEnd)
  <2>1. e \in Ids' /\ IsOpen(rows'[e])
    BY <1>4 DEF Orphans, OpenRows, Ids
  <2>2. e \in Ids
    BY <2>1 DEF CloseTracked, EndedAt, Ids
  <2>3. /\ ~IsOpen(rows[e]) => rows'[e] = rows[e]
        /\ \A k \in DOMAIN sessions \ noEnd : sessions[k].eid = e => ~IsOpen(rows'[e])
    BY <1>1, <2>2, ClosedRow
  <2>4. QED
    BY <1>1, <2>1, <2>2, <2>3 DEF Orphans, OpenRows, Held, Ids, Events
<1>5. Orphans' \subseteq Orphans \cup Events(sessions, noEnd)
  BY <1>4
<1>6. left'["fault"] + Cardinality(noEnd) <= left["fault"]
  BY <1>2, <1>3
<1>7. QED
  BY <1>1, <1>2, <1>5, <1>6, FewOrphans

\* RecordSignal opens and ends nothing.
LEMMA SignalOrphans ==
  ASSUME OInv, NEW r, NEW camera, NEW at, NEW noName, RecordSignal(r, camera, at, noName)
  PROVE  NoOrphanRows'
<1>1. SInv /\ SInv' /\ running' = running /\ running # "down"
  <2>1. SInv /\ SInv'
    BY SignalSInv DEF OInv
  <2>2. QED
    BY <2>1 DEF RecordSignal
<1>2. Ids' = Ids
  BY DEF RecordSignal, Renamed, Ids
<1>3. \A e \in Ids : rows'[e].ended = rows[e].ended
  BY <1>1, SignalRows
<1>4. DOMAIN sessions' = DOMAIN sessions
  BY DEF RecordSignal
<1>5. \A k \in DOMAIN sessions : sessions'[k].eid = sessions[k].eid
  BY <1>1, SignalSessions
<1>6. Orphans' \subseteq Orphans \cup Events(sessions, {})
  BY <1>1, <1>2, <1>3, <1>4, <1>5 DEF Orphans, OpenRows, Held, Ids, Events, IsOpen
<1>7. Cardinality(noName) \in Nat
  BY <1>1, KeysAssumption, FS_Subset, FS_CardinalityType DEF SInv, Memory, RecordSignal
<1>8. left'["fault"] = left["fault"] - Cardinality(noName) /\ left["fault"] \in Nat
  BY <1>1 DEF RecordSignal, SInv, Environment, Kinds
<1>9. left'["fault"] + Cardinality({}) <= left["fault"] /\ IsFiniteSet({})
  BY <1>7, <1>8, FS_EmptySet
<1>10. QED
  BY <1>1, <1>6, <1>9, FewOrphans

LEMMA NextOrphans ==
  ASSUME OInv, [Next]_vars
  PROVE  NoOrphanRows'
<1>1. SInv /\ SInv'
  BY NextSInv DEF OInv
<1>2. CASE \/ UNCHANGED vars \/ PollFailed \/ Tick \/ Fetch \/ FetchFails
           \/ \E k \in Keys, d \in Descs : Connect(k, d)
           \/ \E k \in Keys : Disconnect(k)
  <2>1. UNCHANGED <<rows, sessions, running>>
    BY <1>2 DEF vars, PollFailed, Tick, Fetch, FetchFails, Connect, Disconnect, store, manager
  <2>2. left'["fault"] = left["fault"]
    <3>1. left["churn"] - 1 \in Int /\ left["outage"] - 1 \in Int /\ left \in [Kinds -> Nat]
      BY <1>1 DEF SInv, Environment, Kinds
    <3>2. QED
      BY <1>2, <3>1 DEF vars, PollFailed, Tick, Fetch, FetchFails, Connect, Disconnect, env,
                        Spend, Kinds
  <2>3. QED
    BY <2>1, <2>2 DEF OInv, NoOrphanRows, OpenRows
<1>3. CASE Exit \/ Crash
  BY <1>3 DEF Exit, Crash, Die, NoOrphanRows
<1>4. CASE Boot
  <2>1. \A e \in Ids : ~IsOpen(rows'[e])
    BY <1>1, <1>4, RecoveredRow
  <2>2. Ids' = Ids
    BY <1>4 DEF Boot, Recovered, Ids
  <2>3. Orphans' = {}
    BY <2>1, <2>2 DEF Orphans, OpenRows, Ids
  <2>4. left'["fault"] \in Nat /\ Budget["fault"] \in Nat /\ left'["fault"] <= Budget["fault"]
    BY <1>1, BudgetAssumption DEF SInv, Environment, Kinds
  <2>5. QED
    BY <2>3, <2>4, FS_EmptySet DEF NoOrphanRows, Orphans, Held
<1>5. CASE Poll
  BY <1>5, PollOrphans
<1>6. ASSUME NEW r \in Signallers, NEW c \in Cameras, NEW noName, NEW at,
             RecordSignal(r, c, at, noName)
      PROVE  NoOrphanRows'
  BY <1>6, SignalOrphans
<1>7. ASSUME NEW noEnd \in SUBSET DOMAIN sessions, CloseTracked(noEnd)
      PROVE  NoOrphanRows'
  BY <1>7, CloseOrphans
<1>8. QED
  BY <1>2, <1>3, <1>4, <1>5, <1>6, <1>7 DEF Next

THEOREM StreamOrphans == Spec => []OInv
<1>1. Init => OInv
  BY InitSInv DEF Init, OInv, NoOrphanRows
<1>2. OInv /\ [Next]_vars => OInv'
  BY NextSInv, NextOrphans DEF OInv
<1>3. QED
  BY <1>1, <1>2, PTL DEF Spec

\* NoOrphanRows: an open row that no session will end has a failed store call to
\* answer for it, over any sequence of polls, closings, deaths and restarts.
THEOREM StreamNoOrphanRows == Spec => []NoOrphanRows
<1>1. OInv => NoOrphanRows
  BY DEF OInv
<1>2. QED
  BY <1>1, StreamOrphans, PTL

-------------------------------------------------------------------------------
\* KeepsAuditLog.  Without failing store calls there are no orphans, and the log
\* reads the last observation of an interval from its session or else from its row.
Quiet == Budget["fault"] = 0
Rises(old, new) == new = old \/ new.conf > old.conf
Continues(e) ==
  IF ~IsOpen(rows[e])
  THEN /\ ~IsOpen(rows'[e]) /\ rows'[e].who = rows[e].who
       /\ observed'[e] = observed[e] /\ Known(e)' = Known(e)
  ELSE /\ Rises(rows[e].who, rows'[e].who)
       /\ \/ observed'[e] = observed[e] /\ Known(e)' = Known(e)
          \/ /\ e \notin DOMAIN before /\ IsOpen(rows'[e])
             /\ observed'[e] = observed[e] \cup {lastPoll'} /\ Known(e)' = lastPoll'
Begins(e) ==
  IsOpen(rows'[e]) /\ observed'[e] = {lastPoll'} /\ Known(e)' = lastPoll'

LEMMA QuietFacts ==
  ASSUME OInv, Quiet
  PROVE  /\ NoFaults /\ SInv /\ left["fault"] = 0
         /\ running # "down" => OpenRows \subseteq Held
<1>1. SInv /\ left["fault"] = 0
  BY DEF OInv, SInv, Environment, Kinds, Quiet
<1>2. running # "down" => Orphans = {}
  BY <1>1, OrphanCount, FS_EmptySet DEF OInv, Quiet
<1>3. QED
  BY <1>1, <1>2 DEF NoFaults, Quiet, Orphans

LEMMA KnownSession ==
  ASSUME SInv, NEW k \in DOMAIN sessions
  PROVE  Known(sessions[k].eid) = sessions[k].lastSeen
<1>1. Apart(sessions, DOMAIN sessions)
  BY DEF SInv, Memory, Apart
<1>2. /\ sessions[k].eid \in Events(sessions, DOMAIN sessions)
      /\ KeyOf(sessions, DOMAIN sessions, sessions[k].eid) = k
  BY <1>1, Arguments
<1>3. QED
  BY <1>2 DEF Known

LEMMA KnownSessionNext ==
  ASSUME SInv', NEW k \in DOMAIN sessions', NEW e, e = sessions'[k].eid
  PROVE  Known(e)' = sessions'[k].lastSeen
<1>1. Apart(sessions', DOMAIN sessions')
  BY DEF SInv, Memory, Apart
<1>2. /\ sessions'[k].eid \in Events(sessions', DOMAIN sessions')
      /\ KeyOf(sessions', DOMAIN sessions', sessions'[k].eid) = k
  BY <1>1, Arguments
<1>3. QED
  BY <1>2 DEF Known

LEMMA ObserveStep ==
  ASSUME Ids \subseteq Ids', before' = before, \A e \in Ids : Continues(e),
         \A e \in Ids' \ Ids : Begins(e)
  PROVE  Log!Observe
<1> DEFINE entries == [e \in DOMAIN rows |-> [who |-> rows[e].who, seen |-> observed[e],
                                              lastSeen |-> Known(e), open |-> IsOpen(rows[e])]]
<1>1. ASSUME NEW e \in Ids
      PROVE  /\ entries[e].who = rows[e].who /\ entries[e].seen = observed[e]
             /\ entries[e].lastSeen = Known(e) /\ entries[e].open = IsOpen(rows[e])
  BY <1>1 DEF Ids
<1>2. ASSUME NEW e \in Ids'
      PROVE  /\ entries'[e].who = rows'[e].who /\ entries'[e].seen = observed'[e]
             /\ entries'[e].lastSeen = Known(e)' /\ entries'[e].open = IsOpen(rows'[e])
  BY <1>2 DEF Ids
<1>3. ASSUME NEW e \in Ids
      PROVE  IF ~entries[e].open THEN entries'[e] = entries[e]
             ELSE /\ entries'[e].who = entries[e].who \/ entries'[e].who.conf > entries[e].who.conf
                  /\ \/ entries'[e].seen = entries[e].seen /\ entries'[e].lastSeen = entries[e].lastSeen
                     \/ /\ e \notin DOMAIN before /\ entries'[e].open
                        /\ entries'[e].lastSeen = lastPoll'
                        /\ entries'[e].seen = entries[e].seen \cup {lastPoll'}
  <2>1. Continues(e) /\ e \in Ids'
    BY <1>3
  <2>2. CASE IsOpen(rows[e])
    BY <1>1, <1>2, <2>1, <2>2 DEF Continues, Rises
  <2>3. CASE ~IsOpen(rows[e])
    <3>1. /\ rows'[e].who = rows[e].who /\ observed'[e] = observed[e]
          /\ Known(e)' = Known(e) /\ IsOpen(rows'[e]) = IsOpen(rows[e])
      BY <2>1, <2>3 DEF Continues, IsOpen
    <3>2. entries'[e] = entries[e]
      BY <1>3, <2>1, <3>1 DEF Ids
    <3>3. QED
      BY <1>1, <2>3, <3>2
  <2>4. QED
    BY <2>2, <2>3
<1>4. ASSUME NEW e \in Ids' \ Ids
      PROVE  entries'[e].open /\ entries'[e].seen = {lastPoll'} /\ entries'[e].lastSeen = lastPoll'
  BY <1>2, <1>4 DEF Begins
<1>5. DOMAIN entries = Ids /\ DOMAIN entries' = Ids'
  BY DEF Ids
<1>6. QED
  BY <1>3, <1>4, <1>5 DEF Log!Observe, Log!Advance, Log!Renamed, Log!Unseen, Log!Seen

\* Steps of the log.  Requests name intervals; closeTracked and RecoverOpen end them
\* with what was known of them.
LEMMA SignalLog ==
  ASSUME OInv, NEW r, NEW camera, NEW at, NEW noName, RecordSignal(r, camera, at, noName)
  PROVE  Log!Observe
<1>1. SInv /\ SInv'
  BY SignalSInv DEF OInv
<1>2. /\ UNCHANGED history /\ Ids' = Ids /\ DOMAIN sessions' = DOMAIN sessions
  BY DEF RecordSignal, Renamed, Ids
<1>3. ASSUME NEW k \in DOMAIN sessions
      PROVE  sessions'[k].eid = sessions[k].eid /\ sessions'[k].lastSeen = sessions[k].lastSeen
  BY <1>1, <1>3, SignalSessions
<1>4. ASSUME NEW e \in Ids
      PROVE  Continues(e)
  <2>1. /\ rows'[e].lastSeen = rows[e].lastSeen /\ rows'[e].ended = rows[e].ended
        /\ ~IsOpen(rows[e]) => rows'[e] = rows[e]
        /\ rows'[e].who = rows[e].who \/ rows'[e].who.conf > rows[e].who.conf
    BY <1>1, <1>4, SignalRows
  <2>2. Known(e)' = Known(e)
    <3>1. CASE e \in Events(sessions, DOMAIN sessions)
      <4>1. PICK k \in DOMAIN sessions : sessions[k].eid = e
        BY <3>1 DEF Events
      <4>2. Known(sessions[k].eid) = sessions[k].lastSeen
        BY <1>1, <4>1, KnownSession
      <4>3. k \in DOMAIN sessions' /\ e = sessions'[k].eid
        BY <1>2, <1>3, <4>1
      <4>4. Known(e)' = sessions'[k].lastSeen
        BY <1>1, <4>3, KnownSessionNext
      <4>5. QED
        BY <1>3, <4>1, <4>2, <4>4
    <3>2. CASE e \notin Events(sessions, DOMAIN sessions)
      <4>1. e \notin Events(sessions', DOMAIN sessions')
        BY <1>2, <1>3, <3>2 DEF Events
      <4>2. QED
        BY <2>1, <3>2, <4>1 DEF Known
    <3>3. QED
      BY <3>1, <3>2
  <2>3. observed'[e] = observed[e]
    BY <1>2 DEF history
  <2>4. QED
    BY <2>1, <2>2, <2>3 DEF Continues, Rises, IsOpen
<1>5. before' = before /\ Ids \subseteq Ids' /\ \A e \in Ids' \ Ids : Begins(e)
  BY <1>2 DEF history
<1>6. QED
  BY <1>4, <1>5, ObserveStep

LEMMA CloseLog ==
  ASSUME OInv, NEW noEnd \in SUBSET DOMAIN sessions, CloseTracked(noEnd)
  PROVE  Log!Observe
<1>1. SInv
  BY DEF OInv
<1>2. UNCHANGED <<sessions, history>> /\ Ids' = Ids
  BY DEF CloseTracked, EndedAt, Ids
<1>3. ASSUME NEW e \in Ids
      PROVE  Continues(e)
  <2>1. /\ rows'[e].who = rows[e].who
        /\ e \notin Events(sessions, DOMAIN sessions \ noEnd) \/ ~IsOpen(rows[e]) =>
             rows'[e] = rows[e]
    BY <1>1, <1>3, ClosedRow
  <2>2. Known(e)' = Known(e)
    <3>1. CASE e \in Events(sessions, DOMAIN sessions)
      BY <1>2, <3>1 DEF Known
    <3>2. CASE e \notin Events(sessions, DOMAIN sessions)
      <4>1. rows'[e] = rows[e]
        BY <2>1, <3>2 DEF Events
      <4>2. QED
        BY <1>2, <3>2, <4>1 DEF Known
    <3>3. QED
      BY <3>1, <3>2
  <2>3. QED
    BY <1>2, <2>1, <2>2 DEF Continues, Rises, history
<1>4. before' = before /\ Ids \subseteq Ids' /\ \A e \in Ids' \ Ids : Begins(e)
  BY <1>2 DEF history
<1>5. QED
  BY <1>3, <1>4, ObserveStep

LEMMA BootLog ==
  ASSUME OInv, Boot
  PROVE  Log!Observe
<1>1. SInv /\ DOMAIN sessions = {}
  BY DEF OInv, SInv, Memory, Boot
<1>2. UNCHANGED <<sessions, history>> /\ Ids' = Ids
  BY DEF Boot, Recovered, Ids
<1>3. ASSUME NEW e \in Ids
      PROVE  Continues(e)
  <2>1. /\ ~IsOpen(rows'[e]) /\ rows'[e].who = rows[e].who
        /\ rows'[e].lastSeen = rows[e].lastSeen
    BY <1>1, <1>3, RecoveredRow
  <2>2. Known(e)' = Known(e)
    BY <1>1, <1>2, <2>1 DEF Known, Events
  <2>3. QED
    BY <1>2, <2>1, <2>2 DEF Continues, Rises, history
<1>4. before' = before /\ Ids \subseteq Ids' /\ \A e \in Ids' \ Ids : Begins(e)
  BY <1>2 DEF history
<1>5. QED
  BY <1>3, <1>4, ObserveStep

\* A poll observes: it extends what it keeps, ends what it saw the last of, and
\* begins what is new.
LEMMA PollLog ==
  ASSUME OInv, Quiet, Poll
  PROVE  Log!Observe
<1>1. PICK snap : snap = fetched.streams
  OBVIOUS
<1>2. PICK started, noEnd, noName, ids, saved :
        /\ Polled(snap, started, noEnd, noName, ids, saved)
        /\ Marked(snap, started, noEnd, saved)
  BY <1>1, PollParts DEF OInv
<1>3. SInv /\ SInv' /\ running = "up" /\ left["fault"] = 0
  BY <1>2, PollSInv, QuietFacts DEF OInv, Polled
<1>4. noEnd = {} /\ lastPoll' = clock /\ before' = before
  <2>1. /\ IsFiniteSet(noEnd) /\ left'["fault"] + Cardinality(noEnd) <= left["fault"]
        /\ lastPoll' = clock /\ before' = before
    BY <1>2 DEF Marked
  <2>2. left'["fault"] \in Nat /\ Cardinality(noEnd) \in Nat
    BY <1>3, <2>1, FS_CardinalityType DEF SInv, Environment, Kinds
  <2>3. Cardinality(noEnd) = 0
    BY <1>3, <2>1, <2>2
  <2>4. QED
    BY <2>1, <2>3, FS_EmptySet
<1>5. /\ Ids' = Ids \cup Events(sessions', started)
      /\ \A k \in started : rows'[ids[k]] = NewRow(sessions'[k].who, clock)
  BY <1>2, <1>3, PollNewRow
<1>6. DOMAIN sessions' = Stay(snap) \cup started
  BY <1>2, <1>3, PollIds
<1>7. \A k \in started : sessions'[k].eid = ids[k] /\ sessions'[k].lastSeen = clock
  BY <1>2, <1>3, PollStarts
<1>8. \A k \in started : ids[k] \notin Ids
  BY <1>2, <1>3, PollIds
<1>9. /\ \A k \in started : observed'[ids[k]] = {clock}
      /\ \A k \in Stay(snap) : observed'[sessions[k].eid] =
           IF k \in Kept(snap) THEN observed[sessions[k].eid] \cup {clock}
           ELSE observed[sessions[k].eid]
      /\ \A e \in Ids : e \notin Events(sessions, Stay(snap)) => observed'[e] = observed[e]
  <2>1. \A k \in started : observed'[ids[k]] = {clock}
    BY <1>2, <1>3, PollObserved
  <2>2. \A k \in Stay(snap) : observed'[sessions[k].eid] =
           IF k \in Kept(snap) THEN observed[sessions[k].eid] \cup {clock}
           ELSE observed[sessions[k].eid]
    BY <1>2, <1>3, PollObserved
  <2>3. \A e \in Ids : e \notin Events(sessions, Stay(snap)) => observed'[e] = observed[e]
    BY <1>2, <1>3, PollObserved
  <2>4. QED
    BY <2>1, <2>2, <2>3
<1>10. Apart(sessions, DOMAIN sessions) /\ Stay(snap) \subseteq DOMAIN sessions
  BY <1>3, PollSets DEF SInv, Memory, Apart
<1>11. \A k \in Stay(snap) :
         /\ sessions'[k].eid = sessions[k].eid
         /\ k \in Kept(snap) => sessions'[k].lastSeen = clock
         /\ k \notin Kept(snap) => sessions'[k].lastSeen = sessions[k].lastSeen
         /\ sessions'[k].who = sessions[k].who \/ sessions'[k].who.conf > sessions[k].who.conf
  BY <1>2, <1>3, PollKeeps
<1>12. ASSUME NEW e \in Ids' \ Ids
       PROVE  Begins(e)
  <2>1. PICK k \in started : e = sessions'[k].eid
    BY <1>5, <1>12 DEF Events
  <2>2. e = ids[k] /\ k \in DOMAIN sessions'
    BY <1>6, <1>7, <2>1
  <2>3. Known(e)' = sessions'[k].lastSeen
    BY <1>3, <2>1, <2>2, KnownSessionNext
  <2>4. rows'[e] = NewRow(sessions'[k].who, clock) /\ observed'[e] = {clock}
    BY <1>5, <1>9, <2>1, <2>2
  <2>5. QED
    BY <1>4, <1>7, <2>1, <2>3, <2>4 DEF Begins, NewRow, IsOpen
<1>13. ASSUME NEW e \in Ids
       PROVE  Continues(e)
  <2>1. /\ ~IsOpen(rows[e]) => rows'[e] = rows[e]
        /\ e \notin Events(sessions, DOMAIN sessions) => rows'[e] = rows[e]
        /\ \A k \in Ending(snap) \ noEnd : sessions[k].eid = e =>
             ~IsOpen(rows'[e]) /\ rows'[e].lastSeen = sessions[k].lastSeen
             /\ rows'[e].who = rows[e].who
        /\ \A k \in Stay(snap) : sessions[k].eid = e =>
             IsOpen(rows'[e]) /\ rows'[e].who = sessions'[k].who
    BY <1>2, <1>3, <1>13, PollOldRow
  <2>2. e \notin Events(sessions', started)
    BY <1>7, <1>8, <1>13 DEF Events
  <2>3. CASE e \notin Events(sessions, DOMAIN sessions)
    <3>1. e \notin Events(sessions', DOMAIN sessions') /\ e \notin Events(sessions, Stay(snap))
      BY <1>6, <1>10, <1>11, <2>2, <2>3 DEF Events
    <3>2. rows'[e] = rows[e] /\ observed'[e] = observed[e]
      BY <1>9, <1>13, <2>1, <2>3, <3>1
    <3>3. Known(e)' = Known(e)
      BY <2>3, <3>1, <3>2 DEF Known
    <3>4. QED
      BY <3>2, <3>3 DEF Continues, Rises
  <2>4. ASSUME NEW k \in DOMAIN sessions, sessions[k].eid = e
        PROVE  /\ Known(e) = sessions[k].lastSeen /\ rows[e].who = sessions[k].who
               /\ IsOpen(rows[e])
    <3>1. Known(sessions[k].eid) = sessions[k].lastSeen
      BY <1>3, <2>4, KnownSession
    <3>2. QED
      BY <1>3, <2>4, <3>1 DEF SInv, Memory, Session
  <2>5. ASSUME NEW k \in Stay(snap), sessions[k].eid = e
        PROVE  Continues(e)
    <3>1. /\ Known(e) = sessions[k].lastSeen /\ rows[e].who = sessions[k].who
          /\ IsOpen(rows[e]) /\ k \in DOMAIN sessions
      BY <1>10, <2>4, <2>5
    <3>2. k \in DOMAIN sessions' /\ e = sessions'[k].eid
      BY <1>6, <1>11, <2>5
    <3>3. Known(e)' = sessions'[k].lastSeen
      BY <1>3, <3>2, KnownSessionNext
    <3>4. IsOpen(rows'[e]) /\ Rises(rows[e].who, rows'[e].who)
      <4>1. IsOpen(rows'[e]) /\ rows'[e].who = sessions'[k].who
        BY <2>1, <2>5
      <4>2. sessions'[k].who = sessions[k].who \/ sessions'[k].who.conf > sessions[k].who.conf
        BY <1>11, <2>5
      <4>3. QED
        BY <3>1, <4>1, <4>2 DEF Rises
    <3>5. CASE k \in Kept(snap)
      <4>1. observed'[e] = observed[e] \cup {clock} /\ Known(e)' = clock
        BY <1>9, <1>11, <2>5, <3>3, <3>5
      <4>2. fresh
        BY <1>3, <2>5, PollSets
      <4>3. e \notin DOMAIN before
        BY <1>3, <2>5, <3>1, <4>2 DEF SInv, Observations
      <4>4. QED
        BY <1>4, <3>1, <3>4, <4>1, <4>3 DEF Continues
    <3>6. CASE k \notin Kept(snap)
      <4>1. observed'[e] = observed[e]
        BY <1>9, <2>5, <3>6
      <4>2. Known(e)' = Known(e)
        BY <1>11, <2>5, <3>1, <3>3, <3>6
      <4>3. QED
        BY <3>1, <3>4, <4>1, <4>2 DEF Continues
    <3>7. QED
      BY <3>5, <3>6
  <2>6. ASSUME NEW k \in Ending(snap), k \in DOMAIN sessions, k \notin Stay(snap),
               sessions[k].eid = e
        PROVE  Continues(e)
    <3>1. /\ Known(e) = sessions[k].lastSeen /\ IsOpen(rows[e])
      BY <2>4, <2>6
    <3>2. e \notin Events(sessions, Stay(snap))
      BY <1>10, <2>6 DEF Events, Apart
    <3>3. e \notin Events(sessions', DOMAIN sessions')
      BY <1>6, <1>11, <2>2, <3>2 DEF Events
    <3>4. rows'[e].lastSeen = sessions[k].lastSeen /\ rows'[e].who = rows[e].who
      BY <1>4, <2>1, <2>6
    <3>5. Known(e)' = Known(e)
      BY <3>1, <3>3, <3>4 DEF Known
    <3>6. observed'[e] = observed[e]
      BY <1>9, <1>13, <3>2
    <3>7. QED
      BY <3>1, <3>4, <3>5, <3>6 DEF Continues, Rises
  <2>7. CASE e \in Events(sessions, DOMAIN sessions)
    <3>1. PICK k \in DOMAIN sessions : sessions[k].eid = e
      BY <2>7 DEF Events
    <3>2. k \in Stay(snap) \/ (k \in Ending(snap) /\ k \notin Stay(snap))
      BY <1>3, <3>1, PollSets
    <3>3. QED
      BY <2>5, <2>6, <3>1, <3>2
  <2>8. QED
    BY <2>3, <2>7
<1>14. Ids \subseteq Ids'
  BY <1>5
<1>15. QED
  BY <1>4, <1>12, <1>13, <1>14, ObserveStep

\* A death loses what memory had seen since the last checkpoint.
Loses(e) ==
  IF ~IsOpen(rows[e]) THEN Known(e)' = Known(e)
  ELSE /\ Known(e)' \in observed[e] /\ Known(e)' <= Known(e)
       /\ \A t \in observed[e] : t + Interval <= lastPoll => t <= Known(e)'

LEMMA DieStep ==
  ASSUME UNCHANGED <<rows, observed>>, DOMAIN before' = Ids, \A e \in Ids : Loses(e)
  PROVE  Log!Die
<1> DEFINE entries == [e \in DOMAIN rows |-> [who |-> rows[e].who, seen |-> observed[e],
                                              lastSeen |-> Known(e), open |-> IsOpen(rows[e])]]
<1>1. ASSUME NEW e \in Ids
      PROVE  /\ entries[e].who = rows[e].who /\ entries[e].seen = observed[e]
             /\ entries[e].lastSeen = Known(e) /\ entries[e].open = IsOpen(rows[e])
  BY <1>1 DEF Ids
<1>2. ASSUME NEW e \in Ids
      PROVE  /\ entries'[e].who = rows[e].who /\ entries'[e].seen = observed[e]
             /\ entries'[e].lastSeen = Known(e)' /\ entries'[e].open = IsOpen(rows[e])
  BY <1>2 DEF Ids, IsOpen
<1>3. ASSUME NEW e \in Ids
      PROVE  IF ~entries[e].open THEN entries'[e] = entries[e]
             ELSE /\ entries'[e].who = entries[e].who /\ entries'[e].open
                  /\ entries'[e].seen = entries[e].seen
                  /\ entries'[e].lastSeen \in entries[e].seen
                  /\ entries'[e].lastSeen <= entries[e].lastSeen
                  /\ \A t \in entries[e].seen :
                       t + Interval <= lastPoll => t <= entries'[e].lastSeen
  <2>1. Loses(e)
    BY <1>3
  <2>2. CASE IsOpen(rows[e])
    <3>1. /\ Known(e)' \in observed[e] /\ Known(e)' <= Known(e)
          /\ \A t \in observed[e] : t + Interval <= lastPoll => t <= Known(e)'
      BY <2>1, <2>2 DEF Loses
    <3> HIDE DEF entries
    <3>2. QED
      BY <1>1, <1>2, <1>3, <2>2, <3>1
  <2>3. CASE ~IsOpen(rows[e])
    <3>1. Known(e)' = Known(e)
      BY <2>1, <2>3 DEF Loses
    <3>2. entries'[e] = entries[e]
      BY <1>3, <3>1 DEF Ids, IsOpen
    <3>3. QED
      BY <1>1, <2>3, <3>2
  <2>4. QED
    BY <2>2, <2>3
<1>4. DOMAIN entries = Ids /\ DOMAIN entries' = Ids
  BY DEF Ids
<1>5. QED
  BY <1>3, <1>4 DEF Log!Die, Log!Lose

LEMMA DeathLog ==
  ASSUME OInv, Quiet, Exit \/ Crash
  PROVE  Log!Die
<1>1. Die /\ running # "down"
  BY DEF Exit, Crash
<1>2. UNCHANGED <<rows, observed>> /\ DOMAIN before' = Ids /\ DOMAIN sessions' = {}
  BY <1>1 DEF Die, store, Nothing, OInv, SInv, Observations, Ids
<1>3. SInv /\ NoFaults /\ OpenRows \subseteq Held
  BY <1>1, QuietFacts
<1>4. ASSUME NEW e \in Ids
      PROVE  Loses(e)
  <2>1. Known(e)' = rows[e].lastSeen
    BY <1>2 DEF Known, Events
  <2>2. CASE ~IsOpen(rows[e])
    <3>1. ASSUME NEW k \in DOMAIN sessions, sessions[k].eid = e
          PROVE  Known(e) = rows[e].lastSeen
      <4>1. Known(sessions[k].eid) = sessions[k].lastSeen
        BY <1>3, <3>1, KnownSession
      <4>2. QED
        BY <1>3, <2>2, <3>1, <4>1 DEF SInv, Memory, Session
    <3>2. e \notin Events(sessions, DOMAIN sessions) => Known(e) = rows[e].lastSeen
      BY DEF Known
    <3>3. Known(e) = rows[e].lastSeen
      BY <3>1, <3>2 DEF Events
    <3>4. QED
      BY <2>1, <2>2, <3>3 DEF Loses
  <2>3. CASE IsOpen(rows[e])
    <3>1. e \in Events(sessions, DOMAIN sessions)
      BY <1>3, <2>3 DEF OpenRows, Held, Ids
    <3>2. PICK k \in DOMAIN sessions : sessions[k].eid = e
      BY <3>1 DEF Events
    <3>3. Known(sessions[k].eid) = sessions[k].lastSeen
      BY <1>3, <3>2, KnownSession
    <3>4. rows[e].lastSeen \in observed[e] /\ rows[e].lastSeen <= sessions[k].lastSeen
      BY <1>3, <3>2 DEF SInv, Memory, Session, Observations, Ids
    <3>5. /\ lastPoll \in Nat /\ lastCheckpoint \in Nat /\ lastPoll < lastCheckpoint + Interval
          /\ \A t \in observed[e] : t < lastCheckpoint => t <= rows[e].lastSeen
          /\ \A t \in observed[e] : t \in Nat
      BY <1>3, <3>2 DEF SInv, Checkpointed, Observations
    <3>6. \A t \in observed[e] : t + Interval <= lastPoll => t <= rows[e].lastSeen
      BY <3>5, TimeAssumption
    <3>7. QED
      BY <2>1, <2>3, <3>2, <3>3, <3>4, <3>6 DEF Loses
  <2>4. QED
    BY <2>2, <2>3
<1>5. QED
  BY <1>2, <1>4, DieStep

LEMMA OutageLog ==
  ASSUME OInv, PollFailed
  PROVE  Log!Interrupt
<1>1. UNCHANGED <<rows, observed, sessions, lastPoll>> /\ before' = observed
  BY DEF PollFailed, store
<1>2. DOMAIN before' = DOMAIN rows
  BY <1>1 DEF OInv, SInv, Observations
<1>3. QED
  BY <1>1, <1>2 DEF Log!Interrupt, Known, Events, KeyOf, IsOpen

LEMMA IdleLog ==
  ASSUME UNCHANGED <<rows, observed, sessions, lastPoll, before>>
  PROVE  UNCHANGED Log!logVars
BY DEF Log!logVars, Known, Events, KeyOf, IsOpen

\* Over any outages, deaths and restarts, the rows and the memory of the daemon are
\* an audit log, as long as the store does not fail.
THEOREM StreamKeepsAuditLog ==
  ASSUME Budget["fault"] = 0
  PROVE  Spec => KeepsAuditLog
<1>1. Init => Log!Init
  BY DEF Init, Nothing, Log!Init
<1>2. OInv /\ [Next]_vars => [Log!Next]_Log!logVars
  <2> SUFFICES ASSUME OInv, [Next]_vars
               PROVE  [Log!Next]_Log!logVars
    OBVIOUS
  <2> Quiet
    BY DEF Quiet
  <2>1. CASE Poll
    BY <2>1, PollLog DEF Log!Next
  <2>2. ASSUME NEW r \in Signallers, NEW c \in Cameras, NEW noName, NEW at,
               RecordSignal(r, c, at, noName)
        PROVE  Log!Observe
    BY <2>2, SignalLog
  <2>3. ASSUME NEW noEnd \in SUBSET DOMAIN sessions, CloseTracked(noEnd)
        PROVE  Log!Observe
    BY <2>3, CloseLog
  <2>4. CASE Boot
    BY <2>4, BootLog DEF Log!Next
  <2>5. CASE Exit \/ Crash
    BY <2>5, DeathLog DEF Log!Next
  <2>6. CASE PollFailed
    BY <2>6, OutageLog DEF Log!Next
  <2>7. CASE \/ UNCHANGED vars \/ Tick \/ Fetch \/ FetchFails
             \/ \E k \in Keys, d \in Descs : Connect(k, d)
             \/ \E k \in Keys : Disconnect(k)
    <3>1. UNCHANGED <<rows, observed, sessions, lastPoll, before>>
      BY <2>7 DEF vars, Tick, Fetch, FetchFails, Connect, Disconnect, store, manager, history
    <3>2. QED
      BY <3>1, IdleLog
  <2>8. QED
    BY <2>1, <2>2, <2>3, <2>4, <2>5, <2>6, <2>7 DEF Next, Log!Next
<1>3. QED
  BY <1>1, <1>2, StreamOrphans, PTL DEF Spec, KeepsAuditLog, Log!Spec

-------------------------------------------------------------------------------
\* The stream table of the history page, for every number of rows, every page size,
\* and any steps of the daemon between the page's two reads.

\* The order of the page is a strict total order of the rows.
Dates(seen, K) == DOMAIN seen = K /\ \A e \in K : seen[e] \in Nat
LEMMA NewerOrders ==
  ASSUME NEW K, K \subseteq Nat, NEW seen, Dates(seen, K), NEW c \in K, NEW d \in K, NEW e \in K
  PROVE  /\ ~Newer(seen, d, d)
         /\ Newer(seen, c, d) /\ Newer(seen, d, e) => Newer(seen, c, e)
         /\ d # e => Newer(seen, d, e) \/ Newer(seen, e, d)
<1>1. seen[c] \in Nat /\ seen[d] \in Nat /\ seen[e] \in Nat /\ c \in Nat /\ d \in Nat /\ e \in Nat
  BY DEF Dates
<1>2. QED
  BY <1>1 DEF Newer

\* A finite set of rows can be put in that order: the place of a row is one more
\* than the number of the newer ones.
LEMMA OrderExists ==
  ASSUME NEW K, K \subseteq Nat, IsFiniteSet(K), NEW seen, Dates(seen, K)
  PROVE  \E ids \in [1 .. Cardinality(K) -> K] :
           /\ \A i, j \in DOMAIN ids : i < j => Newer(seen, ids[i], ids[j])
           /\ \A e \in K : \E i \in DOMAIN ids : ids[i] = e
<1> DEFINE Ahead(e) == {d \in K : Newer(seen, d, e)}
           n == Cardinality(K)
           place == [e \in K |-> Cardinality(Ahead(e)) + 1]
<1>1. n \in Nat /\ IsFiniteSet(1 .. n) /\ Cardinality(1 .. n) = n
  <2>1. n \in Nat
    BY FS_CardinalityType
  <2>2. PICK m \in Int : m = n
    BY <2>1
  <2>3. IsFiniteSet(1 .. m) /\ Cardinality(1 .. m) = IF 1 > m THEN 0 ELSE m - 1 + 1
    BY FS_Interval
  <2>4. QED
    BY <2>1, <2>2, <2>3
<1>2. ASSUME NEW e \in K
      PROVE  /\ IsFiniteSet(Ahead(e)) /\ Cardinality(Ahead(e)) \in Nat
             /\ Cardinality(Ahead(e)) < n
  <2>1. PICK A : A = Ahead(e)
    OBVIOUS
  <2>2. A \in SUBSET K /\ e \notin A
    BY <1>2, <2>1, NewerOrders
  <2>3. /\ IsFiniteSet(A) /\ Cardinality(A) <= Cardinality(K)
        /\ Cardinality(K) = Cardinality(A) => K = A
    BY <2>2, FS_Subset
  <2>4. Cardinality(A) \in Nat /\ Cardinality(A) # Cardinality(K)
    BY <2>2, <2>3, <1>2, FS_CardinalityType
  <2>5. QED
    BY <1>1, <2>1, <2>3, <2>4
<1>3. ASSUME NEW d \in K, NEW e \in K, Newer(seen, d, e)
      PROVE  place[d] < place[e]
  <2>1. PICK A, B : A = Ahead(d) /\ B = Ahead(e)
    OBVIOUS
  <2>2. A \in SUBSET B /\ d \in B /\ d \notin A
    BY <1>3, <2>1, NewerOrders
  <2>3. /\ IsFiniteSet(B) /\ Cardinality(B) \in Nat /\ Cardinality(A) \in Nat
    BY <1>2, <2>1
  <2>4. Cardinality(A) <= Cardinality(B) /\ (Cardinality(B) = Cardinality(A) => B = A)
    BY <2>2, <2>3, FS_Subset
  <2>5. Cardinality(A) < Cardinality(B)
    BY <2>2, <2>3, <2>4
  <2>6. place[d] = Cardinality(A) + 1 /\ place[e] = Cardinality(B) + 1
    BY <2>1
  <2>7. QED
    BY <2>3, <2>5, <2>6
<1>4. place \in [K -> 1 .. n]
  <2>1. ASSUME NEW e \in K PROVE Cardinality(Ahead(e)) + 1 \in 1 .. n
    <3>1. PICK c : c = Cardinality(Ahead(e))
      OBVIOUS
    <3>2. PICK m : m = n
      OBVIOUS
    <3>3. c \in Nat /\ m \in Nat /\ c < m
      BY <1>1, <1>2, <3>1, <3>2
    <3>4. c + 1 \in 1 .. m
      BY <3>3
    <3>5. QED
      BY <3>1, <3>2, <3>4
  <2>2. QED
    BY <2>1
<1> HIDE DEF place, n, Ahead
<1>5. place \in Injection(K, 1 .. n)
  <2>1. ASSUME NEW d \in K, NEW e \in K, place[d] = place[e] PROVE d = e
    <3>1. place[d] \in Nat /\ place[e] \in Nat
      BY <1>1, <1>4
    <3>2. ~(place[d] < place[e]) /\ ~(place[e] < place[d])
      BY <2>1, <3>1
    <3>3. QED
      BY <1>3, <3>2, NewerOrders
  <2>2. QED
    BY <1>4, <2>1 DEF Injection, IsInjective
<1>6. place \in Surjection(K, 1 .. n)
  BY <1>1, <1>5, FS_Injection DEF n
<1> DEFINE ids == [i \in 1 .. n |-> CHOOSE e \in K : place[e] = i]
<1>7. ASSUME NEW i \in 1 .. n
      PROVE  ids[i] \in K /\ place[ids[i]] = i
  BY <1>6 DEF Surjection
<1>8. ids \in [1 .. n -> K]
  BY <1>7
<1>9. ASSUME NEW i \in 1 .. n, NEW j \in 1 .. n, i < j
      PROVE  Newer(seen, ids[i], ids[j])
  <2>1. PICK d, e : d = ids[i] /\ e = ids[j]
    OBVIOUS
  <2>2. d \in K /\ e \in K /\ place[d] = i /\ place[e] = j
    BY <1>7, <2>1
  <2>3. i \in Int /\ j \in Int
    BY <1>1
  <2>4. d # e /\ ~(place[e] < place[d])
    BY <1>9, <2>2, <2>3
  <2>5. QED
    BY <1>3, <2>1, <2>2, <2>4, NewerOrders
<1>10. ASSUME NEW e \in K
       PROVE  \E i \in 1 .. n : ids[i] = e
  <2>1. place[e] \in 1 .. n
    BY <1>4
  <2>2. ids[place[e]] \in K /\ place[ids[place[e]]] = place[e]
    BY <1>7, <2>1
  <2>3. ids[place[e]] = e
    BY <1>5, <2>2 DEF Injection, IsInjective
  <2>4. QED
    BY <2>1, <2>3
<1> HIDE DEF ids
<1>11. DOMAIN ids = 1 .. n
  BY <1>8
<1>12. QED
  BY <1>8, <1>9, <1>10, <1>11 DEF n

LEMMA NewestFirstOrders ==
  ASSUME NEW K, K \subseteq Nat, IsFiniteSet(K), NEW seen, Dates(seen, K),
         NEW ids, ids = NewestFirst(seen, K)
  PROVE  /\ ids \in [1 .. Cardinality(K) -> K]
         /\ \A i, j \in DOMAIN ids : i < j => Newer(seen, ids[i], ids[j])
BY OrderExists DEF NewestFirst

-------------------------------------------------------------------------------
\* While a request is served, memory and rows only move on from what it has read:
\* a row that memory spoke for has been seen at that moment; one that it did not is
\* no older than then, and over.
Past ==
  /\ DOMAIN view.then \subseteq Ids /\ DOMAIN view.live \subseteq DOMAIN view.then
  /\ \A e \in DOMAIN view.then : view.then[e] \in Nat
  /\ \A e \in DOMAIN view.live : view.live[e] = view.then[e] /\ view.live[e] \in observed[e]
  /\ \A e \in DOMAIN view.then \ DOMAIN view.live :
       /\ view.then[e] <= rows[e].lastSeen
       /\ NoFaults => ~IsOpen(rows[e])
VInv == (running = "down" => view = Null) /\ (view # Null => Past)

\* A step of the daemon loses no row, no observation and no time, and opens nothing
\* that has ended.
MovesOn(e) ==
  /\ e \in Ids' /\ rows[e].lastSeen <= rows'[e].lastSeen
  /\ observed[e] \subseteq observed'[e]
  /\ ~IsOpen(rows[e]) => ~IsOpen(rows'[e])

LEMMA PollMovesOn ==
  ASSUME SInv, Poll, NEW e \in Ids
  PROVE  MovesOn(e)
<1>1. PICK snap : snap = fetched.streams
  OBVIOUS
<1>2. PICK started, noEnd, noName, ids, saved :
        /\ Polled(snap, started, noEnd, noName, ids, saved)
        /\ Marked(snap, started, noEnd, saved)
  BY <1>1, PollParts
<1>3. /\ e \in Ids' /\ IsRow(rows'[e])
      /\ ~IsOpen(rows[e]) => rows'[e] = rows[e]
      /\ e \notin Events(sessions, DOMAIN sessions) => rows'[e] = rows[e]
      /\ \A k \in noEnd : sessions[k].eid = e => rows'[e] = rows[e]
      /\ \A k \in Ending(snap) \ noEnd : sessions[k].eid = e =>
           rows'[e].lastSeen = sessions[k].lastSeen
      /\ \A k \in Stay(snap) : sessions[k].eid = e =>
           rows'[e].lastSeen = IF saved THEN sessions'[k].lastSeen ELSE rows[e].lastSeen
  BY <1>2, PollOldRow
<1>4. observed[e] \subseteq observed'[e]
  BY <1>2, PollObserved
<1>5. rows[e].lastSeen \in Nat /\ clock \in Nat
  BY DEF SInv, Tables, Environment, Ids, IsRow
<1>6. rows[e].lastSeen <= rows'[e].lastSeen
  <2>1. CASE e \notin Events(sessions, DOMAIN sessions)
    BY <1>3, <1>5, <2>1
  <2>2. CASE e \in Events(sessions, DOMAIN sessions)
    <3>1. PICK k \in DOMAIN sessions : sessions[k].eid = e
      BY <2>2 DEF Events
    <3>2. /\ rows[e].lastSeen <= sessions[k].lastSeen /\ sessions[k].lastSeen <= clock
          /\ sessions[k].lastSeen \in Nat
      BY <3>1 DEF SInv, Memory, Session, IsSession
    <3>3. CASE k \in Stay(snap)
      <4>1. sessions'[k].lastSeen \in {clock, sessions[k].lastSeen}
        BY <1>2, <3>3, PollKeeps
      <4>2. QED
        BY <1>3, <1>5, <3>1, <3>2, <3>3, <4>1
    <3>4. CASE k \notin Stay(snap)
      <4>1. k \in Ending(snap)
        BY <3>4, PollSets
      <4>2. QED
        BY <1>3, <1>5, <3>1, <3>2, <4>1
    <3>5. QED
      BY <3>3, <3>4
  <2>3. QED
    BY <2>1, <2>2
<1>7. QED
  BY <1>3, <1>4, <1>6 DEF MovesOn

LEMMA NextMovesOn ==
  ASSUME SInv, [Next]_vars, NEW e \in Ids
  PROVE  MovesOn(e)
<1>1. rows[e].lastSeen \in Nat
  BY DEF SInv, Tables, Ids, IsRow
<1>2. CASE Poll
  BY <1>2, PollMovesOn
<1>3. ASSUME NEW r \in Signallers, NEW c \in Cameras, NEW noName, NEW at,
             RecordSignal(r, c, at, noName)
      PROVE  MovesOn(e)
  <2>1. /\ Ids' = Ids /\ rows'[e].lastSeen = rows[e].lastSeen
        /\ ~IsOpen(rows[e]) => rows'[e] = rows[e]
    BY <1>3, SignalRows
  <2>2. observed' = observed
    BY <1>3 DEF RecordSignal, history
  <2>3. QED
    BY <1>1, <2>1, <2>2 DEF MovesOn
<1>4. ASSUME NEW noEnd \in SUBSET DOMAIN sessions, CloseTracked(noEnd)
      PROVE  MovesOn(e)
  <2>1. /\ Ids' = Ids
        /\ e \notin Events(sessions, DOMAIN sessions \ noEnd) \/ ~IsOpen(rows[e]) =>
             rows'[e] = rows[e]
        /\ \A k \in DOMAIN sessions \ noEnd : sessions[k].eid = e =>
             rows'[e].lastSeen = sessions[k].lastSeen
    BY <1>4, ClosedRow
  <2>2. observed' = observed
    BY <1>4 DEF CloseTracked, history
  <2>3. \A k \in DOMAIN sessions : sessions[k].eid = e => rows[e].lastSeen <= sessions[k].lastSeen
    BY DEF SInv, Memory, Session
  <2>4. QED
    BY <1>1, <2>1, <2>2, <2>3 DEF MovesOn, Events
<1>5. CASE Boot
  <2>1. /\ Ids' = Ids /\ rows'[e].lastSeen = rows[e].lastSeen /\ ~IsOpen(rows'[e])
    BY <1>5, RecoveredRow
  <2>2. observed' = observed
    BY <1>5 DEF Boot, history
  <2>3. QED
    BY <1>1, <2>1, <2>2 DEF MovesOn
<1>6. CASE \/ \E k \in Keys, d \in Descs : Connect(k, d)
           \/ \E k \in Keys : Disconnect(k)
           \/ Tick \/ Fetch \/ FetchFails \/ PollFailed \/ Exit \/ Crash \/ UNCHANGED vars
  <2>1. UNCHANGED <<rows, observed>>
    BY <1>6 DEF Connect, Disconnect, Tick, Fetch, FetchFails, PollFailed, Exit, Crash, Die,
                store, history, vars
  <2>2. QED
    BY <1>1, <2>1 DEF MovesOn, Ids
<1>7. QED
  BY <1>2, <1>3, <1>4, <1>5, <1>6 DEF Next

\* Failures are never given back.
LEMMA FaultsOnlyGrow ==
  ASSUME SInv, [Next]_vars
  PROVE  left'["fault"] <= left["fault"]
<1>1. left \in [Kinds -> Nat] /\ left["fault"] \in Nat
  BY DEF SInv, Environment, Kinds
<1>2. CASE Poll
  <2>1. PICK started, noEnd, noName, ids, saved : Marked(fetched.streams, started, noEnd, saved)
    BY <1>2, PollParts
  <2>2. IsFiniteSet(noEnd) /\ left'["fault"] + Cardinality(noEnd) <= left["fault"]
    BY <2>1 DEF Marked
  <2>3. Cardinality(noEnd) \in Nat
    BY <2>2, FS_CardinalityType
  <2>4. left'["fault"] \in Nat
    BY <1>2, PollSInv DEF SInv, Environment, Kinds
  <2>5. QED
    BY <1>1, <2>2, <2>3, <2>4
<1>3. ASSUME NEW K, K \subseteq DOMAIN sessions
      PROVE  Cardinality(K) \in Nat
  BY <1>3, KeysAssumption, FS_Subset, FS_CardinalityType DEF SInv, Memory
<1>4. ASSUME NEW r \in Signallers, NEW c \in Cameras, NEW noName, NEW at,
             RecordSignal(r, c, at, noName)
      PROVE  left'["fault"] <= left["fault"]
  <2>1. Cardinality(noName) \in Nat
    BY <1>3, <1>4 DEF RecordSignal
  <2>2. left'["fault"] = left["fault"] - Cardinality(noName)
    BY <1>1, <1>4 DEF RecordSignal, Kinds
  <2>3. QED
    BY <1>1, <2>1, <2>2
<1>5. ASSUME NEW noEnd \in SUBSET DOMAIN sessions, CloseTracked(noEnd)
      PROVE  left'["fault"] <= left["fault"]
  <2>1. Cardinality(noEnd) \in Nat
    BY <1>3
  <2>2. left'["fault"] = left["fault"] - Cardinality(noEnd)
    BY <1>1, <1>5 DEF CloseTracked, Kinds
  <2>3. QED
    BY <1>1, <2>1, <2>2
<1>6. CASE \/ \E k \in Keys, d \in Descs : Connect(k, d)
           \/ \E k \in Keys : Disconnect(k)
           \/ Tick \/ Fetch \/ FetchFails \/ PollFailed \/ Exit \/ Crash \/ Boot
           \/ UNCHANGED vars
  <2>1. left["churn"] - 1 \in Int /\ left["outage"] - 1 \in Int /\ left["death"] - 1 \in Int
    BY <1>1 DEF Kinds
  <2>2. left'["fault"] = left["fault"]
    BY <1>1, <1>6, <2>1 DEF Connect, Disconnect, Tick, Fetch, FetchFails, PollFailed, Exit,
       Crash, Boot, vars, env, Spend, Kinds
  <2>3. QED
    BY <1>1, <2>2
<1>7. QED
  BY <1>2, <1>4, <1>5, <1>6 DEF Next

\* Manager.Current: what it reads is so at that moment, and with no failures every
\* open row has its session.
LEMMA LookPast ==
  ASSUME OInv, Look
  PROVE  Past'
<1>1. /\ SInv /\ running # "down" /\ UNCHANGED vars
      /\ view' = [live |-> LastSeenOf(sessions, DOMAIN sessions),
                  then |-> [e \in DOMAIN rows |-> Known(e)]]
  BY DEF OInv, Look
<1>2. UNCHANGED <<rows, observed, left>>
  BY <1>1 DEF vars
<1>3. PICK live, then : /\ live = LastSeenOf(sessions, DOMAIN sessions)
                        /\ then = [e \in DOMAIN rows |-> Known(e)]
  OBVIOUS
<1>4. view'.live = live /\ view'.then = then
  BY <1>1, <1>3
<1>5. DOMAIN live = Events(sessions, DOMAIN sessions) /\ DOMAIN then = Ids
  BY <1>3, ArgumentDomains DEF Ids
<1>6. ASSUME NEW e \in DOMAIN live
      PROVE  e \in DOMAIN then /\ live[e] = then[e] /\ live[e] \in Nat /\ live[e] \in observed[e]
  <2>1. PICK k \in DOMAIN sessions : sessions[k].eid = e
    BY <1>5, <1>6 DEF Events
  <2>2. /\ e \in Ids /\ sessions[k].lastSeen \in Nat /\ sessions[k].lastSeen \in observed[e]
        /\ Apart(sessions, DOMAIN sessions)
    BY <1>1, <2>1 DEF SInv, Memory, Session, IsSession, Observations, Ids, Apart
  <2>3. live[e] = sessions[k].lastSeen
    BY <1>3, <2>1, <2>2, Arguments
  <2>4. Known(sessions[k].eid) = sessions[k].lastSeen
    BY <1>1, <2>1, KnownSession
  <2>5. then[e] = Known(e)
    BY <1>3, <2>2 DEF Ids
  <2>6. QED
    BY <1>5, <2>1, <2>2, <2>3, <2>4, <2>5
<1>7. ASSUME NEW e \in DOMAIN then \ DOMAIN live
      PROVE  /\ then[e] \in Nat /\ then[e] <= rows[e].lastSeen
             /\ NoFaults => ~IsOpen(rows[e])
  <2>1. e \in Ids /\ e \notin Events(sessions, DOMAIN sessions)
    BY <1>5, <1>7
  <2>2. then[e] = rows[e].lastSeen /\ rows[e].lastSeen \in Nat
    BY <1>1, <1>3, <2>1 DEF Known, Ids, SInv, Tables, IsRow
  <2>3. ASSUME NoFaults PROVE ~IsOpen(rows[e])
    <3>1. /\ IsFiniteSet(Orphans) /\ Cardinality(Orphans) \in Nat
          /\ Cardinality(Orphans) <= Budget["fault"] - left["fault"]
          /\ left["fault"] \in Nat /\ Budget["fault"] \in Nat
      BY <1>1, OrphanCount DEF OInv
    <3>2. Cardinality(Orphans) = 0
      BY <2>3, <3>1 DEF NoFaults
    <3>3. Orphans = {}
      BY <3>1, <3>2, FS_EmptySet
    <3>4. QED
      BY <2>1, <3>3 DEF Orphans, OpenRows, Held, Ids
  <2>4. QED
    BY <2>2, <2>3
<1>8. DOMAIN then \subseteq Ids' /\ (NoFaults' => NoFaults)
  BY <1>2, <1>5 DEF Ids, NoFaults
<1>9. QED
  BY <1>2, <1>4, <1>6, <1>7, <1>8 DEF Past

LEMMA NextVInv ==
  ASSUME OInv, VInv, [ViewNext]_viewVars
  PROVE  VInv'
<1>1. SInv /\ SInv' /\ [Next]_vars
  <2>1. SInv /\ [Next]_vars
    BY DEF OInv, ViewNext, viewVars, Look, Answer
  <2>2. QED
    BY <2>1, NextSInv
<1>2. CASE Look
  <2>1. Past'
    BY <1>2, LookPast
  <2>2. running' # "down"
    BY <1>2 DEF Look, vars
  <2>3. QED
    BY <2>1, <2>2 DEF VInv
<1>3. CASE Answer
  BY <1>3 DEF Answer, VInv
<1>4. CASE view' = Null
  BY <1>4 DEF VInv
<1>5. CASE view' = view /\ view # Null /\ (running' = "down" => view' = Null)
  <2>1. Past
    BY <1>5 DEF VInv
  <2>2. \A e \in Ids : MovesOn(e)
    BY <1>1, NextMovesOn
  <2>3. NoFaults' => NoFaults
    <3>1. left'["fault"] <= left["fault"]
      BY <1>1, FaultsOnlyGrow
    <3>2. QED
      BY <1>1, <3>1, NoFaultsYet DEF SInv
  <2>4. DOMAIN view.then \subseteq Ids'
    BY <2>1, <2>2 DEF Past, MovesOn
  <2>5. ASSUME NEW e \in DOMAIN view.live
        PROVE  view.live[e] \in observed'[e]
    BY <2>1, <2>2, <2>5 DEF Past, MovesOn
  <2>6. ASSUME NEW e \in DOMAIN view.then \ DOMAIN view.live
        PROVE  view.then[e] <= rows'[e].lastSeen /\ (NoFaults' => ~IsOpen(rows'[e]))
    <3>1. /\ e \in Ids /\ view.then[e] <= rows[e].lastSeen /\ view.then[e] \in Nat
          /\ NoFaults => ~IsOpen(rows[e])
      BY <2>1, <2>6 DEF Past
    <3>4. rows[e].lastSeen \in Nat /\ rows'[e].lastSeen \in Nat
      BY <1>1, <2>2, <3>1 DEF SInv, Tables, Ids, IsRow, MovesOn
    <3>2. /\ e \in Ids' /\ rows[e].lastSeen <= rows'[e].lastSeen
          /\ ~IsOpen(rows[e]) => ~IsOpen(rows'[e])
      BY <2>2, <3>1 DEF MovesOn
    <3>3. QED
      BY <2>3, <3>1, <3>2, <3>4
  <2>7. Past'
    BY <1>5, <2>1, <2>4, <2>5, <2>6 DEF Past
  <2>8. QED
    BY <1>5, <2>7 DEF VInv
<1>6. \/ Look \/ Answer \/ view' = IF running' = "down" THEN Null ELSE view
      \/ view' = view /\ running' = running
  BY DEF ViewNext, viewVars, vars
<1>7. QED
  BY <1>2, <1>3, <1>4, <1>5, <1>6 DEF VInv

-------------------------------------------------------------------------------
\* RecentStreams is part of the table, and the page is in the order of what it shows.
LEMMA RecentStreamsAreRows ==
  ASSUME SInv
  PROVE  /\ RecentStreams \subseteq Ids /\ Ids \subseteq Nat /\ IsFiniteSet(Ids)
         /\ IsFiniteSet(RecentStreams)
<1>1. Ids \subseteq 1 .. (nextId - 1) /\ nextId \in Nat
  BY DEF SInv, Tables, Ids
<1>2. Ids \subseteq Nat /\ IsFiniteSet(Ids)
  <2>1. PICK m \in Int : m = nextId - 1
    BY <1>1
  <2>2. IsFiniteSet(1 .. m)
    BY FS_Interval
  <2>3. Ids \in SUBSET (1 .. m)
    BY <1>1, <2>1
  <2>4. IsFiniteSet(Ids)
    BY <2>2, <2>3, FS_Subset
  <2>5. Ids \subseteq Nat
    BY <2>3
  <2>6. QED
    BY <2>4, <2>5
<1>3. PICK all : all = NewestFirst(Stored, DOMAIN rows)
  OBVIOUS
<1>4. Dates(Stored, Ids)
  BY DEF Dates, Stored, Ids, SInv, Tables, IsRow
<1>5. PICK n \in Nat : n = Cardinality(Ids)
  BY <1>2, FS_CardinalityType
<1>6. all \in [1 .. n -> Ids]
  <2>1. all = NewestFirst(Stored, Ids)
    BY <1>3 DEF Ids
  <2>2. all \in [1 .. Cardinality(Ids) -> Ids]
    BY <1>2, <1>4, <2>1, NewestFirstOrders
  <2>3. QED
    BY <1>5, <2>2
<1>7. all \in Seq(Ids) /\ Len(all) = n
  BY <1>6
<1>8. PICK m : m = IF Len(all) < Limit THEN Len(all) ELSE Limit
  OBVIOUS
<1>9. m \in 0 .. n
  BY <1>7, <1>8, LimitAssumption
<1>10. \A i \in DOMAIN SubSeq(all, 1, m) : SubSeq(all, 1, m)[i] \in Ids
  BY <1>6, <1>7, <1>9
<1>11. RecentStreams = ToSet(SubSeq(all, 1, m))
  BY <1>3, <1>8 DEF RecentStreams
<1>12. RecentStreams \subseteq Ids
  BY <1>10, <1>11 DEF ToSet
<1>13. QED
  BY <1>2, <1>12, FS_Subset

\* What a request that has read memory will show of a row.
LEMMA ShownDate ==
  ASSUME SInv, Past, NEW e \in Ids
  PROVE  /\ Shown(e).id = e /\ (Shown(e).live <=> e \in DOMAIN view.live)
         /\ Shown(e).lastSeen = IF e \in DOMAIN view.live THEN view.live[e] ELSE rows[e].lastSeen
         /\ Shown(e).lastSeen \in Nat /\ Shown(e).lastSeen \in observed[e]
<1>1. rows[e].lastSeen \in Nat /\ rows[e].lastSeen \in observed[e]
  BY DEF SInv, Tables, Observations, Ids, IsRow
<1>2. e \in DOMAIN view.live => view.live[e] \in Nat /\ view.live[e] \in observed[e]
  BY DEF Past
<1>3. QED
  BY <1>1, <1>2 DEF Shown

LEMMA VInvPage ==
  ASSUME SInv, VInv
  PROVE  PageIsARead
<1> SUFFICES ASSUME view # Null PROVE PageIsARead
  BY DEF PageIsARead
<1>1. Past
  BY DEF VInv
<1>2. PICK K : K = RecentStreams
  OBVIOUS
<1>3. K \subseteq Ids /\ K \subseteq Nat /\ IsFiniteSet(K)
  BY <1>2, RecentStreamsAreRows
<1>4. PICK seen : seen = [e \in K |-> Shown(e).lastSeen]
  OBVIOUS
<1>5. Dates(seen, K) /\ \A e \in K : seen[e] = Shown(e).lastSeen
  BY <1>1, <1>3, <1>4, ShownDate DEF Dates
<1>6. PICK ids : ids = NewestFirst(seen, K)
  OBVIOUS
<1>7. PICK n : n = Cardinality(K)
  OBVIOUS
<1>8. /\ ids \in [1 .. n -> K]
      /\ \A i, j \in DOMAIN ids : i < j => Newer(seen, ids[i], ids[j])
  BY <1>3, <1>5, <1>6, <1>7, NewestFirstOrders
<1>9. PICK page : page = Page
  OBVIOUS
<1>10. page = [i \in 1 .. n |-> Shown(ids[i])]
  BY <1>2, <1>4, <1>6, <1>8, <1>9 DEF Page
<1>11. ASSUME NEW i \in DOMAIN page
       PROVE  LET row == page[i] IN
              /\ row.lastSeen \in observed[row.id]
              /\ row.id \in DOMAIN view.then => row.lastSeen >= view.then[row.id]
              /\ row.live => row.lastSeen = view.then[row.id]
              /\ ~row.live /\ NoFaults /\ row.id \in DOMAIN view.then => ~IsOpen(rows[row.id])
  <2>1. PICK e \in K : page[i] = Shown(e)
    BY <1>8, <1>10, <1>11
  <2>2. /\ page[i].id = e /\ (page[i].live <=> e \in DOMAIN view.live)
        /\ page[i].lastSeen = IF e \in DOMAIN view.live THEN view.live[e] ELSE rows[e].lastSeen
        /\ page[i].lastSeen \in Nat /\ page[i].lastSeen \in observed[e]
    BY <1>1, <1>3, <2>1, ShownDate
  <2>3. CASE e \in DOMAIN view.live
    <3>1. e \in DOMAIN view.then /\ view.then[e] \in Nat /\ view.live[e] = view.then[e]
      BY <1>1, <2>3 DEF Past
    <3>2. QED
      BY <2>2, <2>3, <3>1
  <2>4. CASE e \notin DOMAIN view.live
    <3>1. e \in DOMAIN view.then =>
            /\ view.then[e] \in Nat /\ view.then[e] <= rows[e].lastSeen
            /\ NoFaults => ~IsOpen(rows[e])
      BY <1>1, <2>4 DEF Past
    <3>2. QED
      BY <2>2, <2>4, <3>1
  <2>5. QED
    BY <2>3, <2>4
<1>12. ASSUME NEW i \in DOMAIN page, NEW j \in DOMAIN page, i < j
       PROVE  page[i].lastSeen >= page[j].lastSeen
  <2>1. PICK d, e : d = ids[i] /\ e = ids[j]
    OBVIOUS
  <2>2. /\ d \in K /\ e \in K /\ page[i] = Shown(d) /\ page[j] = Shown(e)
        /\ Newer(seen, d, e)
    BY <1>8, <1>10, <1>12, <2>1
  <2>3. seen[d] \in Nat /\ seen[e] \in Nat
    BY <1>5, <2>2 DEF Dates
  <2>4. seen[d] >= seen[e]
    BY <2>2, <2>3 DEF Newer
  <2>5. QED
    BY <1>5, <2>2, <2>4
<1>13. QED
  BY <1>9, <1>11, <1>12 DEF PageIsARead

\* PageIsARead: however polls, signals, disconnects, outages, a shutdown or a crash
\* come between Manager.Current and RecentStreams (handler.go), the page shows of
\* every row a moment at which its consumer was seen, for every page size.
THEOREM HistoryPageIsARead == ViewSpec => []PageIsARead
<1>1. Init /\ view = Null => OInv /\ VInv
  BY InitSInv DEF Init, OInv, NoOrphanRows, VInv
<1>2. OInv /\ VInv /\ [ViewNext]_viewVars => OInv' /\ VInv'
  <2>1. [ViewNext]_viewVars => [Next]_vars
    BY DEF ViewNext, viewVars, Look, Answer
  <2>2. QED
    BY <2>1, NextSInv, NextOrphans, NextVInv DEF OInv
<1>3. OInv /\ VInv => PageIsARead
  BY VInvPage DEF OInv
<1>4. QED
  BY <1>1, <1>2, <1>3, PTL DEF ViewSpec

-------------------------------------------------------------------------------
\* Correlation: what the recent signals make of the sessions.
Signals ==
  [camera : Cameras, actor : {r.actor : r \in Signallers}, conf : {Correlated},
   host : {r.host : r \in Signallers}, ua : {r.ua : r \in Signallers}, at : Nat]

\* The largest of a finite set of numbers is the first in the order of the page.
LEMMA Largest ==
  ASSUME NEW K, K \subseteq Nat, IsFiniteSet(K), K # {}
  PROVE  \E m \in K : \A k \in K : k <= m
<1>1. PICK seen : seen = [e \in K |-> 0]
  OBVIOUS
<1>2. Dates(seen, K)
  BY <1>1 DEF Dates
<1> HIDE DEF Newer
<1>3. PICK ids \in [1 .. Cardinality(K) -> K] :
        /\ \A i, j \in DOMAIN ids : i < j => Newer(seen, ids[i], ids[j])
        /\ \A e \in K : \E i \in DOMAIN ids : ids[i] = e
  BY <1>2, OrderExists, ZenonT(60)
<1>4. PICK n \in Nat : n = Cardinality(K)
  BY FS_CardinalityType
<1>5. 1 \in DOMAIN ids /\ DOMAIN ids = 1 .. n
  <2>1. DOMAIN ids = 1 .. n
    BY <1>4
  <2>2. PICK i \in DOMAIN ids : TRUE
    BY <1>3
  <2>3. QED
    BY <2>1, <2>2
<1>6. ASSUME NEW k \in K
      PROVE  k <= ids[1]
  <2>1. PICK i \in DOMAIN ids : ids[i] = k
    BY <1>3
  <2>2. i = 1 \/ 1 < i
    BY <1>5
  <2>3. CASE 1 < i
    <3>1. Newer(seen, ids[1], k)
      BY <1>3, <1>5, <2>1, <2>3
    <3>2. ids[1] \in K /\ ids[1] \in Nat /\ k \in Nat
      BY <1>3, <1>5
    <3>3. seen[ids[1]] = 0 /\ seen[k] = 0
      BY <1>1, <3>2
    <3>4. QED
      BY <3>1, <3>2, <3>3 DEF Newer
  <2>4. QED
    BY <2>1, <2>2, <2>3
<1>7. QED
  BY <1>3, <1>5, <1>6

\* pruneSignalsLocked: what is left was there before.
LEMMA UnexpiredSignals ==
  ASSUME NEW S, NEW ss \in Seq(S), NEW now
  PROVE  /\ Unexpired(ss, now) \in Seq(S)
         /\ \A i \in DOMAIN Unexpired(ss, now) :
              \E j \in DOMAIN ss : Unexpired(ss, now)[i] = ss[j]
<1> DEFINE inside == {i \in DOMAIN ss : ss[i].at > now - Window}
           InOrder(f) == \A i, j \in DOMAIN f : i < j => f[i] < f[j]
           order == CHOOSE f \in [1 .. Cardinality(inside) -> inside] : InOrder(f)
<1>1. PICK len \in Nat : len = Len(ss) /\ DOMAIN ss = 1 .. len
  OBVIOUS
<1>2. inside \subseteq 1 .. len /\ IsFiniteSet(inside) /\ Cardinality(inside) \in Nat
  <2>1. IsFiniteSet(1 .. len)
    BY FS_Interval
  <2>2. inside \in SUBSET (1 .. len)
    BY <1>1
  <2>3. QED
    BY <2>1, <2>2, FS_Subset, FS_CardinalityType
<1> HIDE DEF inside
<1>3. \E f \in [1 .. Cardinality(inside) -> inside] : InOrder(f)
  <2>1. PICK seen : seen = [i \in inside |-> len - i]
    OBVIOUS
  <2>2. inside \subseteq Nat /\ Dates(seen, inside)
    BY <1>2, <2>1 DEF Dates
  <2>3. PICK ids \in [1 .. Cardinality(inside) -> inside] :
          \A i, j \in DOMAIN ids : i < j => Newer(seen, ids[i], ids[j])
    BY <1>2, <2>2, OrderExists
  <2>4. ASSUME NEW i \in DOMAIN ids, NEW j \in DOMAIN ids, i < j
        PROVE  ids[i] < ids[j]
    <3>1. ids[i] \in 1 .. len /\ ids[j] \in 1 .. len /\ Newer(seen, ids[i], ids[j])
      BY <1>2, <2>3, <2>4
    <3>2. seen[ids[i]] = len - ids[i] /\ seen[ids[j]] = len - ids[j]
      BY <2>1, <2>3
    <3>3. QED
      BY <3>1, <3>2 DEF Newer
  <2>5. QED
    BY <2>3, <2>4
<1>4. order \in [1 .. Cardinality(inside) -> inside]
  BY <1>3
<1> HIDE DEF order, InOrder
<1>5. DOMAIN order = 1 .. Cardinality(inside)
      /\ \A i \in DOMAIN order : order[i] \in DOMAIN ss
  BY <1>1, <1>2, <1>4
<1>6. Unexpired(ss, now) = [i \in DOMAIN order |-> ss[order[i]]]
  BY DEF Unexpired, order, inside, InOrder
<1>7. QED
  BY <1>2, <1>5, <1>6

\* matchSignal: one of the recent signals of the camera, and if any of them matches
\* the consumer outright, the newest of those.
LEMMA Matching ==
  ASSUME NEW S, NEW ss \in Seq(S), NEW camera, NEW desc, NEW now
  PROVE  /\ \A s \in MatchSignal(ss, camera, desc, now) : s \in S
         /\ \A i \in Candidates(ss, camera, now) :
              Strong(ss[i], desc) => MatchSignal(ss, camera, desc, now) # {}
<1> DEFINE all == Candidates(ss, camera, now)
           strong == {i \in all : Strong(ss[i], desc)}
           Newest(I) == {ss[i] : i \in {j \in I : \A k \in I : k <= j}}
<1>1. all \subseteq DOMAIN ss
  BY DEF Candidates
<1>2. \A s \in MatchSignal(ss, camera, desc, now) : s \in S
  <2>1. \A i \in all : ss[i] \in S
    BY <1>1
  <2>2. QED
    BY <2>1 DEF MatchSignal
<1>3. ASSUME NEW i \in all, Strong(ss[i], desc)
      PROVE  MatchSignal(ss, camera, desc, now) # {}
  <2>1. PICK len \in Nat : DOMAIN ss = 1 .. len
    OBVIOUS
  <2>2. IsFiniteSet(strong) /\ strong \subseteq Nat /\ strong # {}
    <3>1. strong \in SUBSET (1 .. len) /\ i \in strong
      BY <1>1, <1>3, <2>1
    <3>2. IsFiniteSet(1 .. len)
      BY FS_Interval
    <3> HIDE DEF strong
    <3>3. IsFiniteSet(strong)
      BY <3>1, <3>2, FS_Subset
    <3>4. QED
      BY <3>1, <3>3
  <2> HIDE DEF strong
  <2>3. PICK m \in strong : \A k \in strong : k <= m
    BY <2>2, Largest
  <2>4. ss[m] \in Newest(strong)
    BY <2>3
  <2>5. MatchSignal(ss, camera, desc, now) = Newest(strong)
    BY <2>2 DEF MatchSignal, strong
  <2>6. QED
    BY <2>4, <2>5
<1>4. QED
  BY <1>2, <1>3

LEMMA UpgradeCounts ==
  ASSUME NEW who, who.conf \in Int, NEW found, \A s \in found : s \in Signals
  PROVE  /\ Upgraded(who, found).conf \in Int
         /\ who.conf <= Upgraded(who, found).conf
         /\ found # {} => Correlated <= Upgraded(who, found).conf
<1> DEFINE higher == {s \in found : ShouldUpgrade(who.conf, s.conf)}
           best == CHOOSE s \in higher : TRUE
<1>1. \A s \in found : s.conf = Correlated
  BY DEF Signals
<1>2. CASE higher = {}
  <2>1. Upgraded(who, found) = who
    BY <1>2 DEF Upgraded
  <2>2. found # {} => Correlated <= who.conf
    BY <1>1, <1>2 DEF ShouldUpgrade, Correlated
  <2>3. QED
    BY <2>1, <2>2
<1>3. CASE higher # {}
  <2>1. best \in higher /\ Upgraded(who, found) = IdentityOf(best)
    BY <1>3 DEF Upgraded
  <2>2. best.conf = Correlated /\ Correlated > who.conf
    BY <1>1, <2>1 DEF ShouldUpgrade
  <2>3. QED
    BY <2>1, <2>2 DEF IdentityOf, Correlated
<1>4. QED
  BY <1>2, <1>3

\* While no store call has failed, a session that any signal in memory matches
\* outright is named by no weaker evidence than a signal.
StrongSignalsCount ==
  NoFaults =>
    \A k \in DOMAIN sessions, i \in DOMAIN signals :
      i \in Candidates(signals, Camera[k], clock) /\ Strong(signals[i], sessions[k].desc) =>
        Correlated <= sessions[k].who.conf

CorrelationInv ==
  /\ \A k \in DOMAIN inventory : inventory[k] \in Descs
  /\ fetched # Null => \A k \in DOMAIN fetched.streams : fetched.streams[k] \in Descs
  /\ signals \in Seq(Signals) /\ \A i \in DOMAIN signals : signals[i].at <= clock
  /\ \A k \in DOMAIN sessions : sessions[k].who.conf \in Int
  /\ StrongSignalsCount

\* A signal comes in: of the sessions of its camera each takes the best match, and
\* the sessions of the others hear of no new signal.
LEMMA SignalCorrelation ==
  ASSUME SInv, SInv', CorrelationInv, NEW r \in Signallers, NEW camera \in Cameras,
         NEW noName \in SUBSET DOMAIN sessions, NEW at \in 0 .. clock,
         RecordSignal(r, camera, at, noName)
  PROVE  CorrelationInv'
<1> DEFINE new == [camera |-> camera, actor |-> r.actor, conf |-> Correlated,
                   host |-> r.host, ua |-> r.ua, at |-> at]
<1>1. clock \in Nat /\ at \in Nat /\ at <= clock /\ Window \in Nat /\ Correlated \in Int
  BY TimeAssumption DEF SInv, Environment, Correlated
<1>2. new \in Signals /\ new.camera = camera /\ new.at = at
  BY <1>1 DEF Signals
<1>3. signals \in Seq(Signals) /\ Unexpired(signals, at) \in Seq(Signals)
  BY UnexpiredSignals DEF CorrelationInv
<1>4. signals' = Append(Unexpired(signals, at), new)
  BY DEF RecordSignal
<1> HIDE DEF new
<1>5. signals' \in Seq(Signals)
  BY <1>2, <1>3, <1>4
<1>6. ASSUME NEW i \in DOMAIN signals'
      PROVE  signals'[i] = new \/ \E j \in DOMAIN signals : signals'[i] = signals[j]
  <2>1. signals'[i] = new \/ \E j \in DOMAIN Unexpired(signals, at) :
                               signals'[i] = Unexpired(signals, at)[j]
    BY <1>2, <1>3, <1>4
  <2>2. QED
    BY <1>3, <2>1, UnexpiredSignals
<1>7. \A i \in DOMAIN signals' : signals'[i] \in Signals /\ signals'[i].at <= clock
  BY <1>1, <1>2, <1>5, <1>6 DEF CorrelationInv
<1>8. UNCHANGED <<inventory, fetched, clock>> /\ DOMAIN sessions' = DOMAIN sessions
  BY DEF RecordSignal
<1>9. ASSUME NEW k \in DOMAIN sessions
      PROVE  /\ sessions'[k].desc = sessions[k].desc /\ sessions'[k].who.conf \in Int
             /\ sessions[k].who.conf <= sessions'[k].who.conf
             /\ Camera[k] = camera /\ k \notin noName
                /\ MatchSignal(signals', camera, sessions[k].desc, at) # {} =>
                     Correlated <= sessions'[k].who.conf
  <2> DEFINE found == MatchSignal(signals', camera, sessions[k].desc, at)
  <2>1. IsSession(sessions[k]) /\ sessions[k].who.conf \in Int
    BY DEF SInv, Memory, Session, CorrelationInv
  <2>2. sessions'[k] = IF Camera[k] # camera \/ k \in noName THEN sessions[k]
                       ELSE [sessions[k] EXCEPT !.who = Upgraded(sessions[k].who, found)]
    BY DEF RecordSignal, UpgradedSession
  <2>3. \A s \in found : s \in Signals
    BY <1>5, Matching
  <2> HIDE DEF found
  <2>4. /\ Upgraded(sessions[k].who, found).conf \in Int
        /\ sessions[k].who.conf <= Upgraded(sessions[k].who, found).conf
        /\ found # {} => Correlated <= Upgraded(sessions[k].who, found).conf
    BY <2>1, <2>3, UpgradeCounts
  <2>5. CASE Camera[k] # camera \/ k \in noName
    <3>1. sessions'[k] = sessions[k]
      BY <2>2, <2>5
    <3>2. QED
      BY <2>1, <2>5, <3>1
  <2>6. CASE ~(Camera[k] # camera \/ k \in noName)
    <3>1. sessions'[k] = [sessions[k] EXCEPT !.who = Upgraded(sessions[k].who, found)]
      BY <2>2, <2>6
    <3>2. /\ sessions'[k].desc = sessions[k].desc
          /\ sessions'[k].who = Upgraded(sessions[k].who, found)
      BY <2>1, <3>1 DEF IsSession
    <3>3. QED
      BY <2>4, <3>2 DEF found
  <2>7. QED
    BY <2>5, <2>6
<1>10. NoFaults' => NoFaults /\ noName = {}
  <2>1. noName \in SUBSET Keys /\ IsFiniteSet(noName) /\ Cardinality(noName) \in Nat
    BY KeysAssumption, FS_Subset, FS_CardinalityType DEF SInv, Memory
  <2>2. /\ left["fault"] \in Nat /\ Budget["fault"] \in Nat
        /\ left["fault"] <= Budget["fault"]
    BY BudgetAssumption DEF SInv, Environment, Kinds
  <2>3. left'["fault"] = left["fault"] - Cardinality(noName)
    BY DEF RecordSignal, SInv, Environment, Kinds
  <2>4. NoFaults' => left["fault"] = Budget["fault"] /\ Cardinality(noName) = 0
    BY <2>1, <2>2, <2>3 DEF NoFaults
  <2>5. QED
    BY <2>1, <2>4, FS_EmptySet DEF NoFaults
<1>11. ASSUME NoFaults', NEW k \in DOMAIN sessions, NEW i \in DOMAIN signals',
              i \in Candidates(signals', Camera[k], clock),
              Strong(signals'[i], sessions[k].desc)
       PROVE  Correlated <= sessions'[k].who.conf
  <2>1. CASE Camera[k] = camera
    <3>1. i \in Candidates(signals', camera, at)
      BY <1>1, <1>7, <1>11, <2>1 DEF Candidates, Live, Signals
    <3>2. MatchSignal(signals', camera, sessions[k].desc, at) # {}
      BY <1>5, <1>11, <3>1, Matching
    <3>3. QED
      BY <1>9, <1>10, <1>11, <2>1, <3>2
  <2>2. CASE Camera[k] # camera
    <3>1. PICK j \in DOMAIN signals : signals'[i] = signals[j]
      BY <1>2, <1>6, <1>11, <2>2 DEF Candidates
    <3>2. j \in Candidates(signals, Camera[k], clock) /\ Strong(signals[j], sessions[k].desc)
      BY <1>11, <3>1 DEF Candidates
    <3>3. Correlated <= sessions[k].who.conf
      BY <1>10, <1>11, <3>1, <3>2 DEF CorrelationInv, StrongSignalsCount
    <3>4. sessions[k].who.conf \in Int
      BY DEF CorrelationInv
    <3>5. QED
      BY <1>1, <1>9, <3>3, <3>4
  <2>3. QED
    BY <2>1, <2>2
<1>12. StrongSignalsCount'
  BY <1>8, <1>9, <1>11 DEF StrongSignalsCount
<1>13. QED
  BY <1>5, <1>7, <1>8, <1>9, <1>12 DEF CorrelationInv

\* A poll: what it starts is named by the best match, what it keeps by no less than
\* before, and no signal is added.
LEMMA PollCorrelation ==
  ASSUME SInv, SInv', CorrelationInv, Poll
  PROVE  CorrelationInv'
<1>1. PICK started, noEnd, noName, ids, saved :
        Polled(fetched.streams, started, noEnd, noName, ids, saved)
  BY PollParts
<1>2. PICK snap : snap = fetched.streams
  OBVIOUS
<1>3. Polled(snap, started, noEnd, noName, ids, saved) /\ started \subseteq DOMAIN snap
  BY <1>1, <1>2 DEF Polled, Unknowns
<1>4. /\ UNCHANGED <<inventory, clock>> /\ fetched' = Null /\ fetched # Null
      /\ signals' = Unexpired(signals, clock)
  BY DEF Poll, PollApplied
<1>5. left'["fault"] <= left["fault"]
  BY FaultsOnlyGrow DEF Next
<1>6. NoFaults' => NoFaults
  BY <1>5, NoFaultsYet DEF SInv
<1>7. /\ signals \in Seq(Signals) /\ signals' \in Seq(Signals)
      /\ \A i \in DOMAIN signals' : \E j \in DOMAIN signals : signals'[i] = signals[j]
  BY <1>4, UnexpiredSignals DEF CorrelationInv
<1>8. ASSUME NEW k \in started
      PROVE  /\ sessions'[k].desc = snap[k] /\ sessions'[k].who.conf \in Int
             /\ MatchSignal(signals, Camera[k], snap[k], clock) # {} =>
                  Correlated <= sessions'[k].who.conf
  <2> DEFINE found == MatchSignal(signals, Camera[k], snap[k], clock)
             best == CHOOSE s \in found : TRUE
  <2>1. sessions'[k] = [eid |-> ids[k], desc |-> snap[k], who |-> Identify(k, snap[k]),
                        misses |-> 0, lastSeen |-> clock]
    BY <1>3 DEF Polled, PolledSessions
  <2>2. CASE found = {}
    <3>1. snap[k] \in Descs /\ Identify(k, snap[k]) = Classified[snap[k]]
      BY <1>2, <1>3, <1>4, <2>2 DEF CorrelationInv, Identify
    <3>2. Classified[snap[k]].conf \in Int
      BY <3>1, IdentityAssumption DEF ServiceDevice, Exact
    <3>3. QED
      BY <2>1, <2>2, <3>1, <3>2
  <2>3. CASE found # {}
    <3>1. best \in found /\ Identify(k, snap[k]) = IdentityOf(best)
      BY <2>3 DEF Identify
    <3>2. \A s \in found : s \in Signals
      BY <1>7, Matching
    <3>3. best.conf = Correlated
      BY <3>1, <3>2 DEF Signals
    <3>4. QED
      BY <2>1, <3>1, <3>3 DEF IdentityOf, Correlated
  <2>4. QED
    BY <2>2, <2>3
<1>9. ASSUME NEW k \in Stay(snap)
      PROVE  /\ k \in DOMAIN sessions /\ sessions'[k].desc = sessions[k].desc
             /\ sessions[k].who.conf \in Int /\ sessions'[k].who.conf \in Int
             /\ sessions[k].who.conf <= sessions'[k].who.conf
  <2> DEFINE found == MatchSignal(signals, Camera[k], snap[k], clock)
             better == Upgraded(sessions[k].who, found)
  <2>1. /\ k \in DOMAIN sessions /\ k \notin started /\ IsSession(sessions[k])
        /\ sessions[k].who.conf \in Int
    BY <1>3, <1>9, PollSets DEF SInv, Memory, Session, Polled, CorrelationInv
  <2>2. \A s \in found : s \in Signals
    BY <1>7, Matching
  <2> HIDE DEF found
  <2>3. better.conf \in Int /\ sessions[k].who.conf <= better.conf
    BY <2>1, <2>2, UpgradeCounts
  <2> HIDE DEF better
  <2>4. \/ sessions'[k] = [sessions[k] EXCEPT !.misses = sessions[k].misses + 1]
        \/ sessions'[k] = [sessions[k] EXCEPT !.misses = 0, !.lastSeen = clock]
        \/ sessions'[k] = [[sessions[k] EXCEPT !.misses = 0, !.lastSeen = clock]
                             EXCEPT !.who = better]
    <3>1. [sessions[k] EXCEPT !.misses = 0, !.lastSeen = clock].who = sessions[k].who
      BY <2>1 DEF IsSession
    <3>2. QED
      BY <1>3, <1>9, <2>1, <3>1
         DEF Polled, PolledSessions, UpgradedSession, better, found
  <2>5. /\ sessions'[k].desc = sessions[k].desc
        /\ sessions'[k].who = sessions[k].who \/ sessions'[k].who = better
    BY <2>1, <2>4 DEF IsSession
  <2>6. QED
    BY <2>1, <2>3, <2>5
<1>10. DOMAIN sessions' = Stay(snap) \cup started
  BY <1>3, PollDomain
<1>11. ASSUME NoFaults', NEW k \in DOMAIN sessions', NEW i \in DOMAIN signals',
              i \in Candidates(signals', Camera[k], clock),
              Strong(signals'[i], sessions'[k].desc)
       PROVE  Correlated <= sessions'[k].who.conf
  <2>1. PICK j \in DOMAIN signals : signals'[i] = signals[j]
    BY <1>7
  <2>2. j \in Candidates(signals, Camera[k], clock) /\ Strong(signals[j], sessions'[k].desc)
    BY <1>11, <2>1 DEF Candidates
  <2>3. CASE k \in started
    <3>1. Strong(signals[j], snap[k])
      BY <1>8, <2>2, <2>3
    <3>2. MatchSignal(signals, Camera[k], snap[k], clock) # {}
      BY <1>7, <2>2, <3>1, Matching
    <3>3. QED
      BY <1>8, <2>3, <3>2
  <2>4. CASE k \in Stay(snap)
    <3>1. Correlated <= sessions[k].who.conf
      BY <1>6, <1>9, <1>11, <2>2, <2>4 DEF CorrelationInv, StrongSignalsCount
    <3>2. Correlated \in Int
      BY DEF Correlated
    <3>3. QED
      BY <1>9, <2>4, <3>1, <3>2
  <2>5. QED
    BY <1>10, <2>3, <2>4
<1>12. StrongSignalsCount'
  BY <1>4, <1>11 DEF StrongSignalsCount
<1>13. \A i \in DOMAIN signals' : signals'[i].at <= clock
  BY <1>7 DEF CorrelationInv
<1>14. QED
  BY <1>4, <1>7, <1>8, <1>9, <1>10, <1>12, <1>13 DEF CorrelationInv

\* Every other step forgets the sessions, or leaves sessions and signals alone while
\* the clock may go on.
LEMMA OtherCorrelation ==
  ASSUME SInv, SInv', CorrelationInv, left'["fault"] <= left["fault"], clock <= clock',
         \A k \in DOMAIN inventory' : inventory'[k] \in Descs,
         fetched' # Null => \A k \in DOMAIN fetched'.streams : fetched'.streams[k] \in Descs,
         \/ UNCHANGED <<sessions, signals>>
         \/ DOMAIN sessions' = {} /\ signals' = <<>>
  PROVE  CorrelationInv'
<1>1. NoFaults' => NoFaults
  BY NoFaultsYet DEF SInv
<1>2. clock \in Nat /\ clock' \in Nat /\ Window \in Nat
  BY TimeAssumption DEF SInv, Environment
<1>3. CASE UNCHANGED <<sessions, signals>>
  <2>1. \A i \in DOMAIN signals : signals[i].at \in Nat
    <3>1. \A i \in DOMAIN signals : signals[i] \in Signals
      BY DEF CorrelationInv
    <3>2. QED
      BY <3>1 DEF Signals
  <2>2. \A i \in DOMAIN signals : signals[i].at <= clock'
    BY <1>2, <2>1 DEF CorrelationInv
  <2>3. \A c : Candidates(signals, c, clock') \subseteq Candidates(signals, c, clock)
    BY <1>2, <2>1 DEF Candidates, Live
  <2>4. StrongSignalsCount'
    BY <1>1, <1>3, <2>3 DEF StrongSignalsCount, CorrelationInv
  <2>5. QED
    BY <1>3, <2>2, <2>4 DEF CorrelationInv
<1>4. CASE DOMAIN sessions' = {} /\ signals' = <<>>
  <2>1. signals' \in Seq(Signals) /\ DOMAIN signals' = {}
    BY <1>4
  <2>2. QED
    BY <1>4, <2>1 DEF CorrelationInv, StrongSignalsCount
<1>5. QED
  BY <1>3, <1>4

LEMMA NextCorrelation ==
  ASSUME SInv, SInv', CorrelationInv, [Next]_vars
  PROVE  CorrelationInv'
<1>1. CASE UNCHANGED vars
  BY <1>1 DEF vars, CorrelationInv, StrongSignalsCount, NoFaults
<1>2. CASE Poll
  BY <1>2, PollCorrelation
<1>3. CASE \E r \in Signallers, c \in Cameras :
             \E noName \in SUBSET DOMAIN sessions,
                at \in {t \in 0 .. clock : t + Skew >= clock} : RecordSignal(r, c, at, noName)
  BY <1>3, SignalCorrelation
<1>4. ASSUME Next, ~Poll,
             ~ \E r \in Signallers, c \in Cameras :
                 \E noName \in SUBSET DOMAIN sessions,
                    at \in {t \in 0 .. clock : t + Skew >= clock} :
                   RecordSignal(r, c, at, noName)
      PROVE  CorrelationInv'
  <2>1. left'["fault"] <= left["fault"]
    BY <1>4, FaultsOnlyGrow
  <2>2. clock \in Nat
    BY DEF SInv, Environment
  <2> SUFFICES /\ clock <= clock'
               /\ \A k \in DOMAIN inventory' : inventory'[k] \in Descs
               /\ fetched' # Null =>
                    \A k \in DOMAIN fetched'.streams : fetched'.streams[k] \in Descs
               /\ \/ UNCHANGED <<sessions, signals>>
                  \/ DOMAIN sessions' = {} /\ signals' = <<>>
    BY <2>1, OtherCorrelation
  <2>3. CASE \E k \in Keys, d \in Descs : Connect(k, d)
    BY <2>2, <2>3 DEF Connect, CorrelationInv, manager
  <2>4. CASE \E k \in Keys : Disconnect(k)
    BY <2>2, <2>4 DEF Disconnect, CorrelationInv, manager
  <2>5. CASE Tick
    BY <2>2, <2>5 DEF Tick, CorrelationInv, manager
  <2>6. CASE Fetch
    <3>1. fetched'.streams = inventory
      BY <2>6 DEF Fetch
    <3>2. QED
      BY <2>2, <2>6, <3>1 DEF Fetch, CorrelationInv, env
  <2>7. CASE FetchFails
    <3>1. DOMAIN fetched'.streams = {}
      BY <2>7 DEF FetchFails, Nothing
    <3>2. QED
      BY <2>2, <2>7, <3>1 DEF FetchFails, CorrelationInv
  <2>8. CASE PollFailed
    BY <2>2, <2>8 DEF PollFailed, CorrelationInv, env
  <2>9. CASE \E noEnd \in SUBSET DOMAIN sessions : CloseTracked(noEnd)
    BY <2>2, <2>9 DEF CloseTracked, CorrelationInv
  <2>10. CASE Exit \/ Crash
    <3>1. DOMAIN sessions' = {} /\ signals' = <<>> /\ fetched' = Null
          /\ UNCHANGED <<inventory, clock>>
      BY <2>10 DEF Exit, Crash, Die, Nothing
    <3>2. QED
      BY <2>2, <3>1 DEF CorrelationInv
  <2>11. CASE Boot
    BY <2>2, <2>11 DEF Boot, CorrelationInv, env
  <2>12. QED
    BY <1>4, <2>3, <2>4, <2>5, <2>6, <2>7, <2>8, <2>9, <2>10, <2>11 DEF Next
<1>5. QED
  BY <1>1, <1>2, <1>3, <1>4

\* "An exact person identity observed during ... signaling may replace the generic
\* identity of a matching go2rtc consumer" (docs/architecture.md:130) does not hold of
\* two signals of equal rank (PersonReplacesGeneric), but this does: in whatever order
\* the consumer appears, go2rtc is polled, the consumer is missed for a poll, requests
\* signal with the time they came in, and signals expire, a session that a recent
\* signal of its camera matches outright never stays with what classify made of the
\* consumer: it is attributed with at least the confidence of a signal, until a call
\* to the store fails.
THEOREM StreamStrongSignalsCount == Spec => []StrongSignalsCount
<1>1. Init => CorrelationInv
  <2> SUFFICES ASSUME Init PROVE CorrelationInv
    OBVIOUS
  <2>1. \A k \in DOMAIN inventory : inventory[k] \in Descs
    BY InventoriesAssumption DEF Init
  <2>2. fetched = Null /\ DOMAIN sessions = {} /\ signals = <<>>
    BY DEF Init, Nothing
  <2>3. signals \in Seq(Signals) /\ DOMAIN signals = {}
    BY <2>2
  <2>4. QED
    BY <2>1, <2>2, <2>3 DEF CorrelationInv, StrongSignalsCount
<1>2. SInv /\ SInv' /\ CorrelationInv /\ [Next]_vars => CorrelationInv'
  BY NextCorrelation
<1>3. CorrelationInv => StrongSignalsCount
  BY DEF CorrelationInv
<1>4. QED
  BY <1>1, <1>2, <1>3, StreamInvariance, PTL DEF Spec
===============================================================================
