------------------------------ MODULE HttpProofs ------------------------------
(***************************************************************************)
(* The audit of requests, for any number of goroutines, requests and       *)
(* people, any windows, and any failures, crashes and shutdowns.           *)
(***************************************************************************)
EXTENDS HttpAudit, Gateway, TLAPS, FiniteSetTheorems, WellFoundedInduction

\* The last three stages are those of ExportDownloads, before an access starts.
Stages == {"idle", "activity", "touch", "access", "renew", "offer", "register", "serve",
           "close", "next", "lookup", "fetch", "cache"}
Person(a) == [actor |-> a, kind |-> "activity"]
Whos == Requests \cup {Person(r.actor) : r \in Requests}
Ids == 1 .. (nextId - 1)

Goroutine == [at : Stages, req : Requests \cup {Null}, now : Nat \cup {Null}, eid : Nat,
              eids : SUBSET Nat, todo : Nat]
RowTypes ==
  rows \in [Ids -> [who : Whos, started : Nat, lastSeen : Nat, ended : Nat \cup {Null}]]
\* The table, with the latest request of each row.
Tables ==
  /\ RowTypes /\ nextId \in Nat \ {0} /\ offers \in [Ids -> Nat] /\ latest \in [Ids -> Nat]
  /\ \A e \in Ids : latest[e] <= clock
Environment ==
  /\ clock \in Nat /\ fired \in Nat \cup {Null} /\ (fired # Null => fired <= clock)
  /\ left \in [Causes -> Nat] /\ \A c \in Causes : left[c] <= Budget[c]
  /\ running \in {"down", "up", "closing"}

\* Where a goroutine may stand: its time is that of its request, at most Slow
\* ago while it does not wait for the proxy.
Timed(p) ==
  /\ ~At(p, "idle") => procs[p].req \in Requests /\ procs[p].now \in Nat /\ procs[p].now <= clock
  /\ procs[p].at \notin {"idle", "serve"} => clock <= procs[p].now + Slow

\* The rows it has in hand are its request's, and not those of leases.
InHand(p, e) ==
  /\ e \in Ids /\ rows[e].who = procs[p].req /\ HttpLease(procs[p].req.kind) = 0
  /\ procs[p].at # "serve" => latest[e] <= procs[p].now
Duty(p) ==
  /\ At(p, "idle") => procs[p].eids = {}
  /\ procs[p].at \in {"access", "renew", "offer", "register", "lookup", "fetch", "cache"} =>
       procs[p].todo >= 1
  /\ \A e \in procs[p].eids : InHand(p, e)
  /\ At(p, "register") => InHand(p, procs[p].eid)
  /\ At(p, "close") => procs[p].eid \in procs[p].eids
  /\ At(p, "offer") => /\ procs[p].eid \in Ids /\ rows[procs[p].eid].who = procs[p].req
                       /\ IsRecordingActivity(procs[p].req.kind)
                       /\ HttpLease(procs[p].req.kind) = 0 => InHand(p, procs[p].eid)

\* A live request has one row.
Single(p) ==
  ~At(p, "idle") /\ procs[p].req.kind = "live" =>
    IF procs[p].at \in {"serve", "close", "next"}
    THEN \A e, f \in procs[p].eids : e = f
    ELSE procs[p].eids = {} /\ procs[p].todo <= 1
Handler(p) == Timed(p) /\ Duty(p) /\ Single(p)

\* What the maps hold is somebody's interval, and the time in it is hardly
\* older than the latest request.
Activity(a) ==
  /\ activities[a] \in [eid : Nat, lastSeen : Nat]
  /\ activities[a].eid # 0 =>
       /\ activities[a].eid \in Ids /\ rows[activities[a].eid].who = Person(a)
       /\ latest[activities[a].eid] <= activities[a].lastSeen + Slow
LeaseOf(r) ==
  /\ r \in Requests /\ leases[r] \in [eid : Nat, expires : Nat] /\ HttpLease(r.kind) > 0
  /\ leases[r].eid \in Ids /\ rows[leases[r].eid].who = r
  /\ latest[leases[r].eid] + HttpLease(r.kind) <= leases[r].expires + Slow
Maps ==
  /\ \A a \in DOMAIN activities : Activity(a)
  /\ \A r \in DOMAIN leases : LeaseOf(r)
  /\ liveHTTP \subseteq Ids

\* A stopped process has no memory.
Off ==
  running = "down" =>
    /\ \A p \in Procs : At(p, "idle")
    /\ DOMAIN activities = {} /\ DOMAIN leases = {} /\ liveHTTP = {}

HInv ==
  /\ Tables /\ Environment /\ Maps /\ Off /\ procs \in [Procs -> Goroutine]
  /\ \A p \in Procs : Handler(p)

-------------------------------------------------------------------------------
\* Null, the lease of a kind, and what makes a row that of a request.
LEMMA Leased ==
  ASSUME NEW r \in Requests
  PROVE  /\ HttpLease(r.kind) \in Nat /\ r.kind # "activity"
         /\ HttpLease(r.kind) > 0 <=> r.kind \in {"snapshot", "playback"}
         /\ r.kind \in {"snapshot", "playback"} <=> r.kind \in Rolling
         /\ HttpLease(r.kind) > 0 => HttpLease(r.kind) >= Slow
         /\ HttpLease(r.kind) = IF r.kind = "snapshot" THEN Lease
                                ELSE IF r.kind = "playback" THEN Window ELSE 0
BY RequestAssumption, TimeAssumption DEF HttpLease, Kinds, Rolling

\* Every statement of the store but Start leaves ids, identities and beginnings
\* alone.
SameRows ==
  /\ DOMAIN rows' = DOMAIN rows
  /\ \A e \in DOMAIN rows : rows'[e].who = rows[e].who /\ rows'[e].started = rows[e].started

LEMMA EndedSame ==
  ASSUME RowTypes, nextId' = nextId, NEW at \in Nat, NEW seen,
         \A e \in DOMAIN seen : seen[e] \in Nat,
         rows' = EndedAt(rows, at, seen)
  PROVE  /\ RowTypes' /\ SameRows
         /\ \A e \in DOMAIN rows : rows'[e] # rows[e] => e \in DOMAIN seen /\ IsOpen(rows[e])
         /\ \A e \in DOMAIN rows \cap DOMAIN seen : IsOpen(rows[e]) => seen[e] <= rows'[e].lastSeen
<1>1. \A e \in DOMAIN rows : rows'[e] =
        IF e \in DOMAIN seen /\ IsOpen(rows[e])
        THEN [rows[e] EXCEPT !.ended = at, !.lastSeen = Later(rows[e].lastSeen, seen[e])]
        ELSE rows[e]
  BY DEF EndedAt
<1>2. \A e \in DOMAIN rows \cap DOMAIN seen :
        Later(rows[e].lastSeen, seen[e]) \in Nat /\ seen[e] <= Later(rows[e].lastSeen, seen[e])
  BY NullAssumption DEF RowTypes, Ids, Later, TimeBefore
<1>3. DOMAIN rows' = Ids' /\ DOMAIN rows = Ids' /\ SameRows
  BY <1>1 DEF RowTypes, Ids, EndedAt, SameRows
<1>4. RowTypes'
  BY <1>1, <1>2, <1>3 DEF RowTypes, EndedAt
<1>5. QED
  BY <1>1, <1>2, <1>3, <1>4 DEF RowTypes

LEMMA TouchedSame ==
  ASSUME RowTypes, nextId' = nextId, NEW seen,
         \A e \in DOMAIN seen : seen[e] \in Nat,
         rows' = Touched(rows, seen)
  PROVE  /\ RowTypes' /\ SameRows
         /\ \A e \in DOMAIN rows : rows'[e].ended = rows[e].ended
BY NullAssumption DEF RowTypes, Ids, Touched, IsOpen, Later, TimeBefore, SameRows

LEMMA EndedEachSame ==
  ASSUME RowTypes, nextId' = nextId, NEW ends,
         \A e \in DOMAIN ends : ends[e] \in Nat,
         rows' = EndedEach(ends)
  PROVE  /\ RowTypes' /\ SameRows
         /\ \A e \in DOMAIN rows : rows'[e] # rows[e] => e \in DOMAIN ends /\ IsOpen(rows[e])
         /\ \A e \in DOMAIN rows \cap DOMAIN ends :
              IsOpen(rows[e]) => ends[e] <= rows'[e].lastSeen /\ ~IsOpen(rows'[e])
<1>1. \A e \in DOMAIN rows : rows'[e] =
        IF e \in DOMAIN ends /\ IsOpen(rows[e])
        THEN [rows[e] EXCEPT !.ended = ends[e], !.lastSeen = Later(rows[e].lastSeen, ends[e])]
        ELSE rows[e]
  BY DEF EndedEach, EndedAt
<1>2. \A e \in DOMAIN rows \cap DOMAIN ends :
        Later(rows[e].lastSeen, ends[e]) \in Nat /\ ends[e] <= Later(rows[e].lastSeen, ends[e])
  BY NullAssumption DEF RowTypes, Ids, Later, TimeBefore
<1>3. DOMAIN rows' = Ids' /\ DOMAIN rows = Ids' /\ SameRows
  BY <1>1 DEF RowTypes, Ids, EndedEach, SameRows
<1>4. RowTypes'
  <2>1. rows' = [e \in DOMAIN rows |-> rows'[e]]
    BY DEF EndedEach
  <2>2. ASSUME NEW e \in DOMAIN rows
        PROVE  rows'[e] \in [who : Whos, started : Nat, lastSeen : Nat, ended : Nat \cup {Null}]
    <3>1. rows[e] \in [who : Whos, started : Nat, lastSeen : Nat, ended : Nat \cup {Null}]
      BY DEF RowTypes
    <3>2. CASE e \in DOMAIN ends /\ IsOpen(rows[e])
      <4>1. ends[e] \in Nat /\ Later(rows[e].lastSeen, ends[e]) \in Nat
        BY <1>2, <3>2
      <4>2. rows'[e] = [rows[e] EXCEPT !.ended = ends[e],
                                       !.lastSeen = Later(rows[e].lastSeen, ends[e])]
        BY <1>1, <3>2
      <4> HIDE DEF Later
      <4>3. QED
        BY <3>1, <4>1, <4>2
    <3>3. CASE ~(e \in DOMAIN ends /\ IsOpen(rows[e]))
      BY <1>1, <3>1, <3>3
    <3>4. QED
      BY <3>2, <3>3
  <2>3. QED
    BY <1>3, <2>1, <2>2 DEF RowTypes
<1>5. \A e \in DOMAIN rows \cap DOMAIN ends :
        IsOpen(rows[e]) => ends[e] <= rows'[e].lastSeen /\ ~IsOpen(rows'[e])
  BY <1>1, <1>2, NullAssumption DEF RowTypes, IsOpen
<1>6. QED
  BY <1>1, <1>3, <1>4, <1>5

LEMMA RecoveredSame ==
  ASSUME RowTypes, nextId' = nextId, NEW at \in Nat, rows' = Recovered(rows, at)
  PROVE  RowTypes' /\ SameRows /\ \A e \in DOMAIN rows : ~IsOpen(rows'[e])
BY NullAssumption DEF RowTypes, Ids, Recovered, IsOpen, SameRows

LEMMA InsertedRow ==
  ASSUME RowTypes, nextId \in Nat \ {0}, nextId' = nextId + 1,
         NEW who \in Whos, NEW at \in Nat,
         rows' = Inserted(rows, [i \in {nextId} |-> [who |-> who, at |-> at]])
  PROVE  /\ RowTypes' /\ Ids' = Ids \cup {nextId} /\ nextId \notin Ids
         /\ rows'[nextId] = [who |-> who, started |-> at, lastSeen |-> at, ended |-> Null]
         /\ \A e \in Ids : rows'[e] = rows[e]
<1>1. Ids' = Ids \cup {nextId} /\ nextId \notin Ids
  BY DEF Ids
<1>2. QED
  BY <1>1 DEF RowTypes, Inserted, NewRow

-------------------------------------------------------------------------------
LEMMA InitHInv == Init => HInv
<1> SUFFICES ASSUME Init PROVE HInv
  OBVIOUS
<1>1. Ids = {}
  BY DEF Init, Ids
<1>2. Tables /\ Environment
  BY <1>1, BudgetAssumption DEF Init, Tables, Environment, RowTypes, Nothing, Causes
<1>3. procs \in [Procs -> Goroutine]
  BY DEF Init, Idle, Stages, Goroutine
<1>4. QED
  BY <1>2, <1>3 DEF Init, HInv, Handler, Maps, Off, Timed, Duty, Single, At, Idle, Nothing

\* What happens elsewhere: rows are added, ended and touched, and intervals
\* that roll are renewed.
Rolls(e) == rows[e].who.kind \in Rolling
Around ==
  /\ Ids \subseteq Ids' /\ \A e \in Ids : rows'[e].who = rows[e].who
  /\ \A e \in Ids : latest'[e] = latest[e] \/ Rolls(e)

LEMMA InHandKept ==
  ASSUME HInv, Around, NEW q \in Procs, ~At(q, "idle"), NEW e, InHand(q, e),
         procs'[q].req = procs[q].req, procs'[q].now = procs[q].now,
         procs[q].at # "serve" \/ procs'[q].at = "serve"
  PROVE  InHand(q, e)'
<1>1. procs[q].req \in Requests
  BY DEF HInv, Handler, Timed
<1>2. ~Rolls(e)
  BY <1>1, Leased DEF InHand, Rolls
<1>3. QED
  BY <1>2 DEF Around, InHand

LEMMA Bystander ==
  ASSUME HInv, Around, NEW q \in Procs, procs'[q] = procs[q], clock' = clock
  PROVE  Handler(q)'
<1>1. Handler(q)
  BY DEF HInv
<1>2. Timed(q)' /\ Single(q)'
  BY <1>1 DEF Handler, Timed, Single, At
<1>3. Duty(q)'
  <2>1. CASE At(q, "idle")
    BY <1>1, <2>1 DEF Handler, Duty, At
  <2>2. CASE ~At(q, "idle")
    <3>1. \A e : InHand(q, e) => InHand(q, e)'
      BY <2>2, InHandKept
    <3>2. At(q, "offer") => /\ procs[q].eid \in Ids'
                            /\ rows'[procs[q].eid].who = rows[procs[q].eid].who
      BY <1>1 DEF Handler, Duty, Around
    <3>3. QED
      BY <1>1, <2>2, <3>1, <3>2 DEF Handler, Duty, At
  <2>3. QED
    BY <2>1, <2>2
<1>4. QED
  BY <1>2, <1>3 DEF Handler

\* A step of one goroutine.
Others(p) == \A q \in Procs \ {p} : procs'[q] = procs[q]

LEMMA Going ==
  ASSUME procs \in [Procs -> Goroutine], NEW p \in Procs,
         NEW at \in Stages, NEW eid \in Nat, Go(p, at, eid)
  PROVE  /\ procs' \in [Procs -> Goroutine] /\ Others(p)
         /\ procs'[p].at = at /\ procs'[p].eid = eid
         /\ procs'[p].req = procs[p].req /\ procs'[p].now = procs[p].now
         /\ procs'[p].eids = procs[p].eids /\ procs'[p].todo = procs[p].todo
<1>1. procs[p] \in Goroutine
  OBVIOUS
<1>2. QED
  BY <1>1 DEF Goroutine, Go, Others

LEMMA Starting ==
  ASSUME procs \in [Procs -> Goroutine], NEW p \in Procs,
         NEW ids, ids \subseteq Nat, procs[p].todo >= 1, Started(p, ids)
  PROVE  /\ procs' \in [Procs -> Goroutine] /\ Others(p)
         /\ procs'[p].at = IF procs[p].todo > 1 THEN "access" ELSE "serve"
         /\ procs'[p].req = procs[p].req /\ procs'[p].now = procs[p].now /\ procs'[p].eid = 0
         /\ procs'[p].eids = procs[p].eids \cup ids /\ procs'[p].todo = procs[p].todo - 1
<1>1. procs[p] \in Goroutine
  OBVIOUS
<1>2. procs[p].todo \in Nat /\ procs[p].eids \subseteq Nat
  BY <1>1 DEF Goroutine
<1>3. procs[p].todo - 1 \in Nat
  BY <1>2
<1>4. procs[p].eids \cup ids \subseteq Nat
  BY <1>2
<1>5. QED
  BY <1>1, <1>2, <1>3, <1>4 DEF Goroutine, Started, Others, Stages

LEMMA Stepped ==
  ASSUME HInv, NEW p \in Procs, Around, Others(p), clock' = clock, running' = running,
         ~At(p, "idle") \/ running # "down", procs' \in [Procs -> Goroutine],
         Tables', Environment', Maps', Handler(p)'
  PROVE  HInv'
<1>1. \A q \in Procs : Handler(q)'
  BY Bystander DEF Others
<1>2. Off'
  BY DEF HInv, Off
<1>3. QED
  BY <1>1, <1>2 DEF HInv

LEMMA Trying ==
  ASSUME Environment, NEW ok \in BOOLEAN, Try(ok)
  PROVE  Environment' /\ clock' = clock /\ running' = running
<1>1. left' \in [Causes -> Nat] /\ \A c \in Causes : left'[c] <= left[c]
  BY DEF Environment, Try, Spend, Causes
<1>2. QED
  BY <1>1, BudgetAssumption DEF Environment, Try

LEMMA Starts ==
  ASSUME Tables, NEW p \in Procs, procs[p].now \in Nat, procs[p].now <= clock, clock \in Nat,
         clock' = clock, NEW who \in Whos, Start(p, who)
  PROVE  /\ Tables' /\ Around /\ Ids' = Ids \cup {nextId} /\ nextId \notin Ids /\ nextId \in Nat
         /\ rows'[nextId] = [who |-> who, started |-> procs[p].now,
                             lastSeen |-> procs[p].now, ended |-> Null]
         /\ offers'[nextId] = 0 /\ latest'[nextId] = procs[p].now
         /\ \A e \in Ids : rows'[e] = rows[e] /\ offers'[e] = offers[e] /\ latest'[e] = latest[e]
<1>1. /\ RowTypes' /\ Ids' = Ids \cup {nextId} /\ nextId \notin Ids
      /\ rows'[nextId] = [who |-> who, started |-> procs[p].now,
                          lastSeen |-> procs[p].now, ended |-> Null]
      /\ \A e \in Ids : rows'[e] = rows[e]
  BY InsertedRow DEF Tables, Start
<1>2. /\ offers' \in [Ids' -> Nat] /\ offers'[nextId] = 0
      /\ \A e \in Ids : offers'[e] = offers[e]
  BY <1>1 DEF Tables, Start, With
<1>3. /\ latest' \in [Ids' -> Nat] /\ latest'[nextId] = procs[p].now
      /\ \A e \in Ids : latest'[e] = latest[e]
  BY <1>1 DEF Tables, Start, With
<1>4. nextId' \in Nat \ {0}
  BY DEF Tables, Start
<1>5. QED
  BY <1>1, <1>2, <1>3, <1>4 DEF Tables, Around

\* A request joins an interval.
LEMMA Joining ==
  ASSUME Tables, NEW p \in Procs, procs[p].now \in Nat, procs[p].now <= clock, clock \in Nat,
         clock' = clock, NEW eid, eid \in Ids => Rolls(eid), Joins(p, eid)
  PROVE  /\ Tables' /\ Around /\ Ids' = Ids /\ rows' = rows
         /\ \A e \in Ids : \/ e # eid /\ latest'[e] = latest[e]
                           \/ e = eid /\ latest'[e] \in {latest[e], procs[p].now}
<1>1. Ids' = Ids /\ rows' = rows /\ nextId' = nextId /\ offers' = offers
  BY DEF Joins, store, Ids
<1>2. \A e \in Ids : latest'[e] = IF e = eid /\ latest[e] < procs[p].now
                                  THEN procs[p].now ELSE latest[e]
  BY DEF Tables, Joins
<1>3. latest' \in [Ids -> Nat]
  BY <1>2 DEF Tables, Joins
<1>4. QED
  BY <1>1, <1>2, <1>3 DEF Tables, Around, RowTypes

\* Maps that a step leaves alone, and whose intervals nobody joins.
LEMMA MapsKept ==
  ASSUME HInv, Around, Tables', tracked' = tracked, \A e \in Ids : latest'[e] = latest[e]
  PROVE  Maps'
<1>1. activities' = activities /\ leases' = leases /\ liveHTTP' = liveHTTP
  BY DEF tracked
<1>2. \A a \in DOMAIN activities : Activity(a)'
  BY <1>1 DEF HInv, Maps, Activity, Around
<1>3. \A r \in DOMAIN leases : LeaseOf(r)'
  BY <1>1 DEF HInv, Maps, LeaseOf, Around
<1>4. QED
  BY <1>1, <1>2, <1>3 DEF HInv, Maps, Around

LEMMA Busy ==
  ASSUME HInv, NEW p \in Procs, ~At(p, "idle")
  PROVE  /\ procs[p] \in Goroutine /\ procs[p].req \in Requests /\ procs[p].now \in Nat
         /\ procs[p].now <= clock /\ procs[p].eid \in Nat /\ procs[p].eids \subseteq Nat
         /\ procs[p].todo \in Nat /\ clock \in Nat /\ running # "down"
         /\ procs[p].at # "serve" => clock <= procs[p].now + Slow
BY DEF HInv, Handler, Timed, At, Goroutine, Environment, Off

\* A step that only the goroutine itself can see.
LEMMA Quiet ==
  ASSUME HInv, clock' = clock, UNCHANGED <<tracked, store, history>>
  PROVE  Around /\ Tables' /\ Maps'
<1>1. rows' = rows /\ nextId' = nextId /\ offers' = offers /\ latest' = latest /\ Ids' = Ids
  BY DEF store, history, Ids
<1>2. Around /\ Tables'
  BY <1>1 DEF HInv, Around, Tables, RowTypes
<1>3. Maps'
  BY <1>1, <1>2, MapsKept
<1>4. QED
  BY <1>2, <1>3

LEMMA Spends ==
  ASSUME Environment, NEW cause \in Causes, NEW n \in Nat, Spend(cause, n),
         UNCHANGED <<clock, running, fired>>
  PROVE  Environment'
<1>1. left' \in [Causes -> Nat] /\ \A c \in Causes : left'[c] <= left[c]
  BY DEF Environment, Spend
<1>2. QED
  BY <1>1, BudgetAssumption DEF Environment

LEMMA ArriveStep ==
  ASSUME HInv, NEW p \in Procs, NEW r \in Requests, Arrive(p, r)
  PROVE  HInv'
<1>1. Around /\ Tables' /\ Maps'
  BY Quiet DEF Arrive, history
<1>2. Accesses(r.kind) \in Nat /\ (r.kind = "live" => Accesses(r.kind) = 1)
  BY BatchAssumption DEF Accesses
<1>3. Environment'
  BY <1>2, Spends DEF Arrive, Causes, HInv
<1>4. /\ procs' \in [Procs -> Goroutine] /\ Others(p)
      /\ procs'[p].at \in {"activity", "access", "serve"} /\ procs'[p].req = r
      /\ procs'[p].now = clock /\ procs'[p].eids = {} /\ procs'[p].todo = Accesses(r.kind)
      /\ procs'[p].at = "access" => Accesses(r.kind) > 0
  BY <1>2 DEF Arrive, HInv, Idle, Goroutine, Stages, Others, Environment, Accesses
<1>5. Handler(p)'
  BY <1>2, <1>4, TimeAssumption DEF Handler, Timed, Duty, Single, At, Arrive, HInv, Environment
<1>6. QED
  BY <1>1, <1>3, <1>4, <1>5, Stepped DEF Arrive

\* What the maps hold are different rows.
LEMMA MapsApart ==
  ASSUME Maps
  PROVE  /\ \A a, b \in DOMAIN activities :
              activities[a].eid # 0 /\ activities[a].eid = activities[b].eid => a = b
         /\ \A q, r \in DOMAIN leases : leases[q].eid = leases[r].eid => q = r
         /\ \A a \in DOMAIN activities, r \in DOMAIN leases :
              activities[a].eid # 0 => activities[a].eid # leases[r].eid
<1> \A a : Person(a).actor = a
  BY DEF Person
<1>1. \A a, b \in DOMAIN activities :
        activities[a].eid # 0 /\ activities[a].eid = activities[b].eid => a = b
  BY DEF Maps, Activity
<1>2. \A q, r \in DOMAIN leases : leases[q].eid = leases[r].eid => q = r
  BY DEF Maps, LeaseOf
<1>3. \A a \in DOMAIN activities, r \in DOMAIN leases :
        activities[a].eid # 0 => activities[a].eid # leases[r].eid
  <2>1. SUFFICES ASSUME NEW a \in DOMAIN activities, NEW r \in DOMAIN leases,
                        activities[a].eid # 0, activities[a].eid = leases[r].eid
                 PROVE  FALSE
    OBVIOUS
  <2>2. r = Person(a) /\ r \in Requests
    BY <2>1 DEF Maps, Activity, LeaseOf
  <2>3. QED
    BY <2>2, Leased DEF Person
<1>4. QED
  BY <1>1, <1>2, <1>3

LEMMA RecordActivityStep ==
  ASSUME HInv, NEW p \in Procs, NEW ok \in BOOLEAN, RecordActivity(p, ok),
         NEW a, a = procs[p].req.actor
  PROVE  HInv'
<1> DEFINE found == a \in DOMAIN activities
           eid == IF found THEN activities[a].eid ELSE IF ok THEN nextId ELSE 0
<1>1. /\ procs[p].req \in Requests /\ procs[p].now \in Nat /\ procs[p].now <= clock
      /\ clock \in Nat /\ running # "down" /\ clock <= procs[p].now + Slow
  BY Busy DEF RecordActivity, At
<1>2. /\ Try(ok) /\ Environment' /\ clock' = clock /\ running' = running
      /\ leases' = leases /\ liveHTTP' = liveHTTP
      /\ activities' = With(activities, a, [eid |-> eid, lastSeen |-> procs[p].now])
      /\ Go(p, "touch", eid)
  BY Trying DEF HInv, RecordActivity
<1>3. /\ Tables' /\ Around /\ eid \in Nat
      /\ eid # 0 => /\ eid \in Ids' /\ rows'[eid].who = Person(a)
                    /\ latest'[eid] <= procs[p].now + Slow
      /\ \A e \in Ids : e # eid => latest'[e] = latest[e]
  <2>1. CASE found
    <3>1. Activity(a) /\ Joins(p, eid)
      BY <2>1 DEF HInv, Maps, RecordActivity
    <3>2. eid \in Ids => Rolls(eid) /\ eid # 0
      BY <2>1, <3>1 DEF Activity, Rolls, Rolling, Person, Ids
    <3>3. /\ Tables' /\ Around /\ Ids' = Ids /\ rows' = rows
          /\ \A e \in Ids : \/ e # eid /\ latest'[e] = latest[e]
                            \/ e = eid /\ latest'[e] \in {latest[e], procs[p].now}
      BY <1>1, <1>2, <3>1, <3>2, Joining DEF HInv
    <3>4. eid # 0 => /\ eid \in Ids /\ rows[eid].who = Person(a)
                     /\ latest[eid] \in Nat /\ latest[eid] <= clock
      BY <2>1, <3>1 DEF Activity, HInv, Tables
    <3>5. QED
      BY <1>1, <2>1, <3>1, <3>3, <3>4, TimeAssumption DEF Activity
  <2>2. CASE ~found /\ ok
    <3>1. Person(a) \in Whos /\ Start(p, Person(a))
      BY <1>1, <2>2 DEF Whos, RecordActivity, Person
    <3>2. /\ Tables' /\ Around /\ Ids' = Ids \cup {nextId} /\ nextId \notin Ids /\ nextId \in Nat
          /\ rows'[nextId] = [who |-> Person(a), started |-> procs[p].now,
                              lastSeen |-> procs[p].now, ended |-> Null]
          /\ latest'[nextId] = procs[p].now
          /\ \A e \in Ids : latest'[e] = latest[e]
      BY <1>1, <1>2, <3>1, Starts DEF HInv
    <3>3. QED
      BY <1>1, <2>2, <3>2, TimeAssumption
  <2>3. CASE ~found /\ ~ok
    <3>1. UNCHANGED <<store, history>> /\ eid = 0
      BY <2>3 DEF RecordActivity, StartFails
    <3>2. rows' = rows /\ nextId' = nextId /\ offers' = offers /\ latest' = latest /\ Ids' = Ids
      BY <3>1 DEF store, history, Ids
    <3>3. QED
      BY <1>2, <3>1, <3>2 DEF HInv, Tables, RowTypes, Around
  <2>4. QED
    BY <2>1, <2>2, <2>3
<1> HIDE DEF eid
<1>4. Maps'
  <2>1. Activity(a)'
    <3>1. activities'[a] = [eid |-> eid, lastSeen |-> procs[p].now]
      BY <1>2 DEF With
    <3>2. QED
      BY <1>1, <1>3, <3>1 DEF Activity
  <2>2. ASSUME NEW b \in DOMAIN activities, b # a
        PROVE  Activity(b)'
    <3>1. activities'[b] = activities[b] /\ Activity(b)
      BY <1>2, <2>2 DEF With, HInv, Maps
    <3>2. CASE activities[b].eid = 0
      BY <3>1, <3>2 DEF Activity
    <3>3. CASE activities[b].eid # 0
      <4>1. activities[b].eid # eid
        BY <1>3, <2>2, <3>1, <3>3 DEF Activity, Around, Person
      <4>2. QED
        BY <1>3, <3>1, <3>3, <4>1 DEF Activity, Around
    <3>4. QED
      BY <3>2, <3>3
  <2>3. ASSUME NEW r \in DOMAIN leases
        PROVE  LeaseOf(r)'
    <3>1. leases'[r] = leases[r] /\ LeaseOf(r)
      BY <1>2 DEF HInv, Maps
    <3>2. leases[r].eid # eid
      BY <1>3, <3>1, Leased DEF LeaseOf, Around, Person, Ids
    <3>3. QED
      BY <1>3, <3>1, <3>2 DEF LeaseOf, Around
  <2>4. DOMAIN activities' = DOMAIN activities \cup {a}
    BY <1>2 DEF With
  <2>5. QED
    BY <1>2, <1>3, <2>1, <2>2, <2>3, <2>4 DEF Maps, HInv, Around
<1>5. /\ procs' \in [Procs -> Goroutine] /\ Others(p)
      /\ procs'[p].at = "touch" /\ procs'[p].eid = eid
      /\ procs'[p].req = procs[p].req /\ procs'[p].now = procs[p].now
      /\ procs'[p].eids = procs[p].eids /\ procs'[p].todo = procs[p].todo
  BY <1>2, <1>3, Going DEF HInv, Stages
<1>6. Handler(p) /\ At(p, "activity")
  BY DEF HInv, RecordActivity
<1>7. \A e \in procs[p].eids : InHand(p, e)'
  BY <1>3, <1>5, <1>6, InHandKept DEF Handler, Duty, At
<1>8. Handler(p)'
  BY <1>2, <1>5, <1>6, <1>7 DEF Handler, Timed, Duty, Single, At
<1>9. QED
  BY <1>1, <1>2, <1>3, <1>4, <1>5, <1>8, Stepped

\* A step of a goroutine after which it serves or starts its next access.
LEMMA StartedStep ==
  ASSUME HInv, NEW p \in Procs, procs[p].at \in {"access", "renew", "offer", "register"},
         Around, clock' = clock,
         NEW ids, ids \subseteq Nat, Started(p, ids), \A e \in ids : InHand(p, e),
         procs[p].req.kind = "live" /\ ids # {} => \E e : ids = {e}
  PROVE  procs' \in [Procs -> Goroutine] /\ Others(p) /\ Handler(p)'
<1>1. Handler(p) /\ procs[p].todo \in Nat /\ procs[p].todo >= 1
  BY Busy DEF HInv, At, Handler, Duty
<1>2. /\ procs' \in [Procs -> Goroutine] /\ Others(p)
      /\ procs'[p].at = IF procs[p].todo > 1 THEN "access" ELSE "serve"
      /\ procs'[p].req = procs[p].req /\ procs'[p].now = procs[p].now /\ procs'[p].eid = 0
      /\ procs'[p].eids = procs[p].eids \cup ids /\ procs'[p].todo = procs[p].todo - 1
  BY <1>1, Starting DEF HInv
<1>3. \A e \in procs'[p].eids : InHand(p, e)'
  BY <1>1, <1>2, InHandKept DEF Handler, Duty, At
<1>4. Timed(p)'
  BY <1>1, <1>2 DEF Handler, Timed, At
<1>5. Duty(p)'
  BY <1>1, <1>2, <1>3 DEF Handler, Duty, At
<1>6. Single(p)'
  <2>1. CASE procs[p].req.kind = "live"
    <3>1. procs[p].todo = 1 /\ procs'[p].at = "serve"
      BY <1>1, <1>2, <2>1, <1>3 DEF Handler, Single, At, Duty
    <3>2. QED
      BY <1>1, <1>2, <2>1, <3>1 DEF Handler, Single, At
  <2>2. CASE procs[p].req.kind # "live"
    BY <1>2, <2>2 DEF Single
  <2>3. QED
    BY <2>1, <2>2
<1>7. QED
  BY <1>2, <1>4, <1>5, <1>6 DEF Handler

LEMMA TouchStep ==
  ASSUME HInv, NEW p \in Procs, NEW ok \in BOOLEAN, Touch(p, ok)
  PROVE  HInv'
<1>1. /\ ~At(p, "idle") /\ ~At(p, "serve") /\ running # "down"
      /\ procs[p].now \in Nat /\ procs[p].todo \in Nat /\ Handler(p)
  BY Busy DEF Touch, At, HInv
<1>2. Environment' /\ clock' = clock /\ running' = running
  BY Trying DEF HInv, Touch
<1>3. tracked' = tracked /\ nextId' = nextId /\ offers' = offers /\ latest' = latest /\ Ids' = Ids
  BY DEF Touch, history, Ids
<1>4. RowTypes' /\ SameRows
  <2>1. CASE ok
    <3> DEFINE seen == [i \in {procs[p].eid} |-> procs[p].now]
    <3>1. rows' = Touched(rows, seen) /\ \A e \in DOMAIN seen : seen[e] \in Nat
      BY <1>1, <2>1 DEF Touch
    <3> HIDE DEF seen
    <3>2. QED
      BY <1>3, <3>1, TouchedSame DEF HInv, Tables
  <2>2. CASE ~ok
    BY <1>3, <2>2 DEF Touch, HInv, Tables, RowTypes, SameRows
  <2>3. QED
    BY <2>1, <2>2
<1>5. Tables' /\ Around
  BY <1>2, <1>3, <1>4 DEF HInv, Tables, RowTypes, SameRows, Around
<1>6. Maps'
  BY <1>3, <1>5, MapsKept
<1>7. procs' \in [Procs -> Goroutine] /\ Others(p) /\ Handler(p)'
  <2>1. CASE At(p, "renew")
    <3>1. Started(p, {})
      BY <2>1 DEF Touch
    <3>2. QED
      BY <1>2, <1>5, <2>1, <3>1, StartedStep DEF At
  <2>2. CASE At(p, "touch")
    <3>1. /\ procs' \in [Procs -> Goroutine] /\ Others(p)
          /\ procs'[p].at = IF procs[p].todo > 0 THEN "access" ELSE "serve"
          /\ procs'[p].req = procs[p].req /\ procs'[p].now = procs[p].now
          /\ procs'[p].eids = procs[p].eids /\ procs'[p].todo = procs[p].todo
      <4>1. Go(p, IF procs[p].todo > 0 THEN "access" ELSE "serve", 0)
        BY <2>2 DEF Touch, At
      <4>2. CASE procs[p].todo > 0
        BY <4>1, <4>2, Going DEF HInv, Stages
      <4>3. CASE ~(procs[p].todo > 0)
        BY <4>1, <4>3, Going DEF HInv, Stages
      <4>4. QED
        BY <4>2, <4>3
    <3>2. \A e \in procs[p].eids : InHand(p, e)'
      BY <1>1, <1>5, <3>1, InHandKept DEF Handler, Duty, At
    <3>3. Timed(p)' /\ Duty(p)'
      BY <1>1, <1>2, <2>2, <3>1, <3>2 DEF Handler, Timed, Duty, At
    <3>4. Single(p)'
      BY <1>1, <2>2, <3>1 DEF Handler, Single, At
    <3>5. QED
      BY <3>1, <3>3, <3>4 DEF Handler
  <2>3. QED
    BY <2>1, <2>2 DEF Touch, At
<1>8. QED
  BY <1>1, <1>2, <1>5, <1>6, <1>7, Stepped

\* A step of a goroutine that has found or inserted the row of its access.
LEMMA FoundStep ==
  ASSUME HInv, NEW p \in Procs, At(p, "access"), Around, clock' = clock,
         NEW at \in {"renew", "offer", "register"}, NEW eid \in Nat, Go(p, at, eid),
         at # "renew" => /\ eid \in Ids' /\ rows'[eid].who = procs[p].req
                         /\ latest'[eid] <= procs[p].now,
         at = "offer" => IsRecordingActivity(procs[p].req.kind),
         at = "register" => HttpLease(procs[p].req.kind) = 0
  PROVE  procs' \in [Procs -> Goroutine] /\ Others(p) /\ Handler(p)'
<1>1. Handler(p)
  BY DEF HInv
<1>2. /\ procs' \in [Procs -> Goroutine] /\ Others(p)
      /\ procs'[p].at = at /\ procs'[p].eid = eid
      /\ procs'[p].req = procs[p].req /\ procs'[p].now = procs[p].now
      /\ procs'[p].eids = procs[p].eids /\ procs'[p].todo = procs[p].todo
  BY Going DEF HInv, Stages
<1>3. \A e \in procs'[p].eids : InHand(p, e)'
  BY <1>1, <1>2, InHandKept DEF Handler, Duty, At
<1>4. Timed(p)' /\ Single(p)'
  BY <1>1, <1>2 DEF Handler, Timed, Single, At
<1>5. at # "renew" /\ HttpLease(procs[p].req.kind) = 0 => InHand(p, eid)'
  BY <1>2 DEF InHand
<1>6. Duty(p)'
  BY <1>1, <1>2, <1>3, <1>5 DEF Handler, Duty, At
<1>7. QED
  BY <1>2, <1>4, <1>6 DEF Handler

LEMMA RenewStep ==
  ASSUME HInv, NEW p \in Procs, Renew(p), NEW r, r = procs[p].req
  PROVE  HInv'
<1> DEFINE eid == leases[r].eid
<1>1. /\ r \in Requests /\ procs[p].now \in Nat /\ procs[p].now <= clock
      /\ clock \in Nat /\ running # "down" /\ clock <= procs[p].now + Slow
  BY Busy DEF Renew, At
<1>2. clock' = clock /\ running' = running /\ Environment'
  BY DEF Renew, env, HInv, Environment
<1>3. LeaseOf(r) /\ r \in DOMAIN leases
  BY DEF HInv, Maps, Renew
<1>4. HttpLease(r.kind) \in Nat /\ HttpLease(r.kind) > 0 /\ eid \in Ids /\ eid \in Nat /\ Rolls(eid)
  BY <1>1, <1>3, Leased DEF LeaseOf, Rolls, Ids
<1>5. /\ Tables' /\ Around /\ Ids' = Ids /\ rows' = rows
      /\ \A e \in Ids : \/ e # eid /\ latest'[e] = latest[e]
                        \/ e = eid /\ latest'[e] \in {latest[e], procs[p].now}
  BY <1>1, <1>2, <1>4, Joining DEF Renew, HInv
<1>6. /\ leases' = [leases EXCEPT ![r].expires = procs[p].now + HttpLease(r.kind)]
      /\ activities' = activities /\ liveHTTP' = liveHTTP /\ Go(p, "renew", eid)
  BY DEF Renew
<1>7. Maps'
  <2>1. LeaseOf(r)'
    <3>1. /\ leases'[r] \in [eid : Nat, expires : Nat] /\ leases'[r].eid = eid
          /\ leases'[r].expires = procs[p].now + HttpLease(r.kind)
      BY <1>1, <1>3, <1>4, <1>6 DEF LeaseOf
    <3>2. latest'[eid] \in Nat /\ latest'[eid] <= procs[p].now + Slow
      BY <1>1, <1>4, <1>5, TimeAssumption DEF HInv, Tables
    <3>3. latest'[eid] + HttpLease(r.kind) <= procs[p].now + HttpLease(r.kind) + Slow
      BY <1>1, <1>4, <3>2, TimeAssumption
    <3>4. QED
      BY <1>1, <1>3, <1>4, <1>5, <3>1, <3>3 DEF LeaseOf
  <2>2. ASSUME NEW q \in DOMAIN leases, q # r
        PROVE  LeaseOf(q)'
    <3>1. LeaseOf(q) /\ leases'[q] = leases[q] /\ leases[q].eid # eid
      BY <1>3, <1>6, <2>2, MapsApart DEF HInv, Maps
    <3>2. QED
      BY <1>5, <3>1 DEF LeaseOf
  <2>3. ASSUME NEW a \in DOMAIN activities
        PROVE  Activity(a)'
    <3>1. Activity(a) /\ (activities[a].eid # 0 => activities[a].eid # eid)
      BY <1>3, MapsApart DEF HInv, Maps
    <3>2. QED
      BY <1>5, <1>6, <3>1 DEF Activity
  <2>4. DOMAIN leases' = DOMAIN leases
    BY <1>6
  <2>5. QED
    BY <1>5, <1>6, <2>1, <2>2, <2>3, <2>4 DEF Maps, HInv
<1>8. procs' \in [Procs -> Goroutine] /\ Others(p) /\ Handler(p)'
  BY <1>2, <1>4, <1>5, <1>6, FoundStep DEF Renew
<1>9. QED
  BY <1>1, <1>2, <1>5, <1>7, <1>8, Stepped

LEMMA StartLeaseStep ==
  ASSUME HInv, NEW p \in Procs, NEW ok \in BOOLEAN, StartLease(p, ok), NEW r, r = procs[p].req
  PROVE  HInv'
<1>1. /\ r \in Requests /\ procs[p].now \in Nat /\ procs[p].now <= clock
      /\ clock \in Nat /\ running # "down" /\ clock <= procs[p].now + Slow
      /\ At(p, "access") /\ r \notin DOMAIN leases
      /\ HttpLease(r.kind) \in Nat /\ HttpLease(r.kind) > 0
  BY Busy, Leased DEF StartLease, At
<1>2. Environment' /\ clock' = clock /\ running' = running
  BY Trying DEF HInv, StartLease
<1>3. CASE ok
  <2>1. /\ Start(p, r) /\ activities' = activities /\ liveHTTP' = liveHTTP
        /\ leases' = With(leases, r, [eid |-> nextId,
                                      expires |-> procs[p].now + HttpLease(r.kind)])
        /\ IF IsRecordingActivity(r.kind) THEN Go(p, "offer", nextId) ELSE Started(p, {})
    BY <1>3 DEF StartLease
  <2>2. /\ Tables' /\ Around /\ Ids' = Ids \cup {nextId} /\ nextId \notin Ids /\ nextId \in Nat
        /\ rows'[nextId] = [who |-> r, started |-> procs[p].now,
                            lastSeen |-> procs[p].now, ended |-> Null]
        /\ latest'[nextId] = procs[p].now
        /\ \A e \in Ids : rows'[e] = rows[e] /\ latest'[e] = latest[e]
    BY <1>1, <1>2, <2>1, Starts DEF HInv, Whos
  <2>3. Maps'
    <3>1. LeaseOf(r)'
      <4>1. leases'[r] = [eid |-> nextId, expires |-> procs[p].now + HttpLease(r.kind)]
        BY <2>1 DEF With
      <4>2. procs[p].now + HttpLease(r.kind) \in Nat
        BY <1>1
      <4>3. procs[p].now + HttpLease(r.kind) <= procs[p].now + HttpLease(r.kind) + Slow
        BY <1>1, TimeAssumption
      <4>4. QED
        BY <1>1, <2>2, <4>1, <4>2, <4>3 DEF LeaseOf
    <3>2. ASSUME NEW q \in DOMAIN leases
          PROVE  LeaseOf(q)'
      BY <1>1, <2>1, <2>2 DEF LeaseOf, HInv, Maps, With
    <3>3. \A a \in DOMAIN activities : Activity(a)'
      BY <2>1, <2>2 DEF Activity, HInv, Maps
    <3>4. DOMAIN leases' = DOMAIN leases \cup {r}
      BY <2>1 DEF With
    <3>5. QED
      BY <2>1, <2>2, <3>1, <3>2, <3>3, <3>4 DEF Maps, HInv
  <2>4. procs' \in [Procs -> Goroutine] /\ Others(p) /\ Handler(p)'
    <3>1. CASE IsRecordingActivity(r.kind)
      <4>1. latest'[nextId] <= procs[p].now /\ nextId \in Ids' /\ rows'[nextId].who = r
        BY <1>1, <2>2
      <4>2. QED
        BY <1>1, <1>2, <2>1, <2>2, <3>1, <4>1, FoundStep
    <3>2. CASE ~IsRecordingActivity(r.kind)
      BY <1>1, <1>2, <2>1, <2>2, <3>2, StartedStep DEF At
    <3>3. QED
      BY <3>1, <3>2
  <2>5. QED
    BY <1>1, <1>2, <2>2, <2>3, <2>4, Stepped DEF At
<1>4. CASE ~ok
  <2>1. UNCHANGED <<tracked, store, history>> /\ Started(p, {})
    BY <1>4 DEF StartLease, StartFails, tracked
  <2>2. Around /\ Tables' /\ Maps'
    BY <1>2, <2>1, Quiet
  <2>3. procs' \in [Procs -> Goroutine] /\ Others(p) /\ Handler(p)'
    BY <1>1, <1>2, <2>1, <2>2, StartedStep DEF At
  <2>4. QED
    BY <1>1, <1>2, <2>2, <2>3, Stepped DEF At
<1>5. QED
  BY <1>3, <1>4

LEMMA StartAccessStep ==
  ASSUME HInv, NEW p \in Procs, NEW ok \in BOOLEAN, StartAccess(p, ok)
  PROVE  HInv'
<1> DEFINE r == procs[p].req
<1>1. /\ r \in Requests /\ procs[p].now \in Nat /\ procs[p].now <= clock /\ clock \in Nat
      /\ running # "down" /\ At(p, "access") /\ HttpLease(r.kind) = 0
  BY Busy DEF StartAccess, At
<1>2. /\ Environment' /\ clock' = clock /\ running' = running /\ UNCHANGED tracked
  BY Trying DEF HInv, StartAccess
<1>3. CASE ok
  <2>1. /\ Start(p, r)
        /\ Go(p, IF IsRecordingActivity(r.kind) THEN "offer" ELSE "register", nextId)
    BY <1>3 DEF StartAccess
  <2>2. /\ Tables' /\ Around /\ Ids' = Ids \cup {nextId} /\ nextId \notin Ids /\ nextId \in Nat
        /\ rows'[nextId] = [who |-> r, started |-> procs[p].now,
                            lastSeen |-> procs[p].now, ended |-> Null]
        /\ latest'[nextId] = procs[p].now
        /\ \A e \in Ids : rows'[e] = rows[e] /\ latest'[e] = latest[e]
    BY <1>1, <1>2, <2>1, Starts DEF HInv, Whos
  <2>3. Maps'
    BY <1>2, <2>2, MapsKept
  <2>4. nextId \in Ids' /\ rows'[nextId].who = r /\ latest'[nextId] <= procs[p].now
    BY <1>1, <2>2
  <2>5. procs' \in [Procs -> Goroutine] /\ Others(p) /\ Handler(p)'
    <3>1. CASE IsRecordingActivity(r.kind)
      BY <1>1, <1>2, <2>1, <2>2, <2>4, <3>1, FoundStep
    <3>2. CASE ~IsRecordingActivity(r.kind)
      BY <1>1, <1>2, <2>1, <2>2, <2>4, <3>2, FoundStep
    <3>3. QED
      BY <3>1, <3>2
  <2>6. QED
    BY <1>1, <1>2, <2>2, <2>3, <2>5, Stepped DEF At
<1>4. CASE ~ok
  <2>1. UNCHANGED <<tracked, store, history>> /\ Started(p, {})
    BY <1>2, <1>4 DEF StartAccess, StartFails
  <2>2. Around /\ Tables' /\ Maps'
    BY <1>2, <2>1, Quiet
  <2>3. procs' \in [Procs -> Goroutine] /\ Others(p) /\ Handler(p)'
    BY <1>1, <1>2, <2>1, <2>2, StartedStep DEF At
  <2>4. QED
    BY <1>1, <1>2, <2>2, <2>3, Stepped DEF At
<1>5. QED
  BY <1>3, <1>4

LEMMA OfferStep ==
  ASSUME HInv, NEW p \in Procs, Offer(p)
  PROVE  HInv'
<1> DEFINE r == procs[p].req
           ids == IF HttpLease(r.kind) > 0 THEN {} ELSE {procs[p].eid}
<1>1. /\ r \in Requests /\ running # "down" /\ At(p, "offer") /\ procs[p].eid \in Nat
      /\ HttpLease(r.kind) \in Nat /\ Handler(p)
  BY Busy, Leased DEF Offer, At, HInv
<1>2. Environment' /\ clock' = clock /\ running' = running
  BY DEF Offer, env, HInv, Environment
<1>3. /\ tracked' = tracked /\ rows' = rows /\ nextId' = nextId /\ Ids' = Ids /\ latest' = latest
      /\ procs[p].eid \in Ids /\ offers' = [offers EXCEPT ![procs[p].eid] = @ + 1]
  BY <1>1 DEF Offer, store, Ids, Handler, Duty
<1>4. Tables' /\ Around
  BY <1>2, <1>3 DEF HInv, Tables, RowTypes, Around
<1>5. Maps'
  BY <1>3, <1>4, MapsKept
<1>6. /\ ids \subseteq Nat /\ Started(p, ids) /\ \A e \in ids : InHand(p, e)
      /\ ids # {} => \E e : ids = {e}
  <2>1. HttpLease(r.kind) = 0 => InHand(p, procs[p].eid)
    BY <1>1 DEF Handler, Duty
  <2>2. Started(p, ids)
    BY DEF Offer
  <2>3. CASE HttpLease(r.kind) > 0
    BY <2>2, <2>3
  <2>4. CASE ~(HttpLease(r.kind) > 0)
    <3>1. HttpLease(r.kind) = 0 /\ ids = {procs[p].eid}
      BY <1>1, <2>4
    <3>2. QED
      BY <1>1, <2>1, <2>2, <3>1
  <2>5. QED
    BY <2>3, <2>4
<1>7. procs' \in [Procs -> Goroutine] /\ Others(p) /\ Handler(p)'
  <2> HIDE DEF ids
  <2>1. QED
    BY <1>1, <1>2, <1>4, <1>6, StartedStep DEF At
<1>8. QED
  BY <1>1, <1>2, <1>4, <1>5, <1>7, Stepped DEF At

LEMMA EndSignalStep ==
  ASSUME HInv, NEW p \in Procs, NEW ok \in BOOLEAN, EndSignal(p, ok)
  PROVE  HInv'
<1>1. /\ At(p, "register") /\ running # "down" /\ procs[p].now \in Nat
  BY Busy DEF EndSignal, At
<1>2. Environment' /\ clock' = clock /\ running' = running
  BY Trying DEF HInv, EndSignal
<1>3. tracked' = tracked /\ nextId' = nextId /\ offers' = offers /\ latest' = latest /\ Ids' = Ids
  BY DEF EndSignal, history, Ids
<1>4. RowTypes' /\ SameRows
  <2> DEFINE end == [i \in {procs[p].eid} |-> procs[p].now]
  <2>1. CASE ok
    <3>1. rows' = EndedAt(rows, procs[p].now, end) /\ \A e \in DOMAIN end : end[e] \in Nat
      BY <1>1, <2>1 DEF EndSignal
    <3> HIDE DEF end
    <3>2. QED
      BY <1>1, <1>3, <3>1, EndedSame DEF HInv, Tables
  <2>2. CASE ~ok
    BY <1>3, <2>2 DEF EndSignal, HInv, Tables, RowTypes, SameRows
  <2>3. QED
    BY <2>1, <2>2
<1>5. Tables' /\ Around
  BY <1>2, <1>3, <1>4 DEF HInv, Tables, RowTypes, SameRows, Around
<1>6. Maps'
  BY <1>3, <1>5, MapsKept
<1>7. procs' \in [Procs -> Goroutine] /\ Others(p) /\ Handler(p)'
  BY <1>1, <1>2, <1>5, StartedStep DEF EndSignal, At
<1>8. QED
  BY <1>1, <1>2, <1>5, <1>6, <1>7, Stepped DEF At

LEMMA RegisterStep ==
  ASSUME HInv, NEW p \in Procs, Register(p)
  PROVE  HInv'
<1>1. /\ At(p, "register") /\ running # "down" /\ InHand(p, procs[p].eid)
      /\ procs[p].eid \in Nat /\ procs[p].eid \in Ids
  BY Busy DEF Register, At, HInv, Handler, Duty, InHand
<1>2. Environment' /\ clock' = clock /\ running' = running
  BY DEF Register, env, HInv, Environment
<1>3. /\ rows' = rows /\ nextId' = nextId /\ offers' = offers /\ latest' = latest /\ Ids' = Ids
      /\ activities' = activities /\ leases' = leases
  BY DEF Register, store, history, Ids
<1>4. Tables' /\ Around
  BY <1>2, <1>3 DEF HInv, Tables, RowTypes, Around
<1>5. Maps'
  <2>1. liveHTTP' \subseteq Ids'
    BY <1>1, <1>3 DEF Register, HInv, Maps
  <2>2. QED
    BY <1>3, <2>1 DEF HInv, Maps, Activity, LeaseOf
<1>6. Started(p, {procs[p].eid})
  BY DEF Register
<1>7. procs' \in [Procs -> Goroutine] /\ Others(p) /\ Handler(p)'
  <2> DEFINE ids == {procs[p].eid}
  <2>1. /\ ids \subseteq Nat /\ Started(p, ids) /\ \A e \in ids : InHand(p, e)
        /\ \E e : ids = {e}
    BY <1>1, <1>6
  <2> HIDE DEF ids
  <2>2. QED
    BY <1>1, <1>2, <1>4, <2>1, StartedStep DEF At
<1>8. QED
  BY <1>1, <1>2, <1>4, <1>5, <1>7, Stepped DEF At

\* What EndHTTP ends next is one of the rows.
LEMMA FirstRow ==
  ASSUME NEW p, procs[p].eids # {}, procs[p].eids \subseteq Nat
  PROVE  First(p) \in procs[p].eids
<1>1. PICK e \in procs[p].eids : \A f \in procs[p].eids : ~(<<f, e>> \in OpToRel(<, Nat))
  BY WFMin, NatLessThanWellFounded
<1>2. ASSUME NEW f \in procs[p].eids
      PROVE  e <= f
  <2>1. ~(f < e) /\ e \in Nat /\ f \in Nat
    BY <1>1 DEF OpToRel
  <2>2. QED
    BY <2>1
<1>3. QED
  BY <1>2 DEF First

\* A goroutine that is done.
LEMMA DoneStep ==
  ASSUME HInv, NEW p \in Procs, procs' = [procs EXCEPT ![p] = Idle]
  PROVE  procs' \in [Procs -> Goroutine] /\ Others(p) /\ Handler(p)'
<1>1. procs' \in [Procs -> Goroutine] /\ Others(p) /\ procs'[p] = Idle
  BY DEF HInv, Idle, Goroutine, Stages, Others
<1>2. QED
  BY <1>1 DEF Handler, Timed, Duty, Single, At, Idle

LEMMA EndHTTPStep ==
  ASSUME HInv, NEW p \in Procs, EndHTTP(p)
  PROVE  HInv'
<1>1. /\ procs[p].at \in {"serve", "next"} /\ ~At(p, "idle") /\ running # "down" /\ Handler(p)
      /\ procs[p].eids \subseteq Nat /\ clock \in Nat /\ procs[p] \in Goroutine
  BY Busy DEF EndHTTP, At, HInv
<1>2. Environment' /\ clock' = clock /\ running' = running
  BY DEF EndHTTP, env, HInv, Environment
<1>3. /\ rows' = rows /\ nextId' = nextId /\ offers' = offers /\ latest' = latest /\ Ids' = Ids
      /\ activities' = activities /\ leases' = leases /\ liveHTTP' \subseteq liveHTTP
  BY DEF EndHTTP, store, history, Ids
<1>4. Tables' /\ Around
  BY <1>2, <1>3 DEF HInv, Tables, RowTypes, Around
<1>5. Maps'
  BY <1>3 DEF HInv, Maps, Activity, LeaseOf
<1>6. procs' \in [Procs -> Goroutine] /\ Others(p) /\ Handler(p)'
  <2>1. CASE procs[p].eids = {}
    BY <2>1, DoneStep DEF EndHTTP, Proxied
  <2>2. CASE procs[p].eids # {}
    <3>1. First(p) \in procs[p].eids
      BY <1>1, <2>2, FirstRow
    <3>2. procs' = [procs EXCEPT ![p].at = "close", ![p].eid = First(p),
                      ![p].now = IF At(p, "serve") THEN clock ELSE procs[p].now]
      BY <2>2 DEF EndHTTP, Proxied
    <3>3. /\ procs' \in [Procs -> Goroutine] /\ Others(p)
          /\ procs'[p].at = "close" /\ procs'[p].eid = First(p) /\ procs'[p].req = procs[p].req
          /\ procs'[p].now = (IF At(p, "serve") THEN clock ELSE procs[p].now)
          /\ procs'[p].eids = procs[p].eids
      BY <1>1, <3>1, <3>2 DEF HInv, Goroutine, Stages, Others
    <3>4. Timed(p)'
      BY <1>1, <1>2, <3>3, TimeAssumption DEF Handler, Timed, At
    <3>5. \A e \in procs[p].eids : InHand(p, e)'
      BY <1>1, <1>3, <3>3 DEF Handler, Duty, At, InHand, HInv, Tables
    <3>6. Duty(p)' /\ Single(p)'
      BY <1>1, <3>1, <3>3, <3>5 DEF Handler, Duty, Single, At
    <3>7. QED
      BY <3>3, <3>4, <3>6 DEF Handler
  <2>3. QED
    BY <2>1, <2>2
<1>7. QED
  BY <1>1, <1>2, <1>4, <1>5, <1>6, Stepped

LEMMA EndRowStep ==
  ASSUME HInv, NEW p \in Procs, NEW ok \in BOOLEAN, EndRow(p, ok)
  PROVE  HInv'
<1>1. /\ At(p, "close") /\ ~At(p, "idle") /\ running # "down" /\ procs[p].now \in Nat
      /\ procs[p] \in Goroutine /\ Handler(p)
  BY Busy DEF EndRow, At, HInv
<1>2. Environment' /\ clock' = clock /\ running' = running
  BY Trying DEF HInv, EndRow
<1>3. tracked' = tracked /\ nextId' = nextId /\ offers' = offers /\ latest' = latest /\ Ids' = Ids
  BY DEF EndRow, history, Ids
<1>4. RowTypes' /\ SameRows
  <2> DEFINE end == [i \in {procs[p].eid} |-> procs[p].now]
  <2>1. CASE ok
    <3>1. rows' = EndedAt(rows, procs[p].now, end) /\ \A e \in DOMAIN end : end[e] \in Nat
      BY <1>1, <2>1 DEF EndRow
    <3> HIDE DEF end
    <3>2. QED
      BY <1>1, <1>3, <3>1, EndedSame DEF HInv, Tables
  <2>2. CASE ~ok
    BY <1>3, <2>2 DEF EndRow, HInv, Tables, RowTypes, SameRows
  <2>3. QED
    BY <2>1, <2>2
<1>5. Tables' /\ Around
  BY <1>2, <1>3, <1>4 DEF HInv, Tables, RowTypes, SameRows, Around
<1>6. Maps'
  BY <1>3, <1>5, MapsKept
<1>7. procs' \in [Procs -> Goroutine] /\ Others(p) /\ Handler(p)'
  <2> DEFINE rest == procs[p].eids \ {procs[p].eid}
  <2>1. CASE rest = {}
    BY <2>1, DoneStep DEF EndRow
  <2>2. CASE rest # {}
    <3>1. procs' = [procs EXCEPT ![p].at = "next", ![p].eid = 0, ![p].eids = rest]
      BY <2>2 DEF EndRow
    <3>2. rest \in SUBSET Nat
      BY <1>1 DEF Goroutine
    <3>3. /\ procs' \in [Procs -> Goroutine] /\ Others(p)
          /\ procs'[p].at = "next" /\ procs'[p].req = procs[p].req
          /\ procs'[p].now = procs[p].now /\ procs'[p].eids = rest
      BY <1>1, <3>1, <3>2 DEF HInv, Goroutine, Stages, Others
    <3>4. \A e \in rest : InHand(p, e)'
      BY <1>1, <1>5, <3>3, InHandKept DEF Handler, Duty, At
    <3>5. Timed(p)' /\ Duty(p)' /\ Single(p)'
      BY <1>1, <1>2, <3>3, <3>4 DEF Handler, Timed, Duty, Single, At
    <3>6. QED
      BY <3>3, <3>5 DEF Handler
  <2>3. QED
    BY <2>1, <2>2
<1>8. QED
  BY <1>1, <1>2, <1>5, <1>6, <1>7, Stepped

LEMMA SomeIds ==
  ASSUME nextId \in Nat, NEW S \in SUBSET Ids
  PROVE  IsFiniteSet(S) /\ Cardinality(S) \in Nat /\ (Cardinality(S) = 0 <=> S = {})
<1>1. IsFiniteSet(Ids)
  BY FS_Interval DEF Ids
<1>2. IsFiniteSet(S)
  BY <1>1, FS_Subset
<1>3. QED
  BY <1>2, FS_CardinalityType, FS_EmptySet

LEMMA AbortStep ==
  ASSUME HInv, NEW p \in Procs, Abort(p)
  PROVE  HInv'
<1>1. ~At(p, "idle") /\ running # "down"
  BY Busy DEF Abort, At
<1>2. procs[p].eids \subseteq Ids
  BY DEF HInv, Handler, Duty, InHand
<1>3. Cardinality(procs[p].eids) \in Nat
  BY <1>2, SomeIds DEF HInv, Tables
<1>4. Environment'
  BY <1>3, Spends DEF Abort, HInv, Causes
<1>5. Around /\ Tables' /\ Maps'
  BY Quiet DEF Abort
<1>6. QED
  BY <1>1, <1>4, <1>5, DoneStep, Stepped DEF Abort

\* A step of the process that the goroutines do not notice.
LEMMA ProcessStep ==
  ASSUME HInv, Around, procs' = procs, clock' = clock, running # "down", running' # "down",
         Tables', Environment', Maps'
  PROVE  HInv'
<1>1. \A q \in Procs : Handler(q)'
  BY Bystander
<1>2. QED
  BY <1>1 DEF HInv, Off

\* What a tick ends: rows that maps hold, none before its latest request and
\* none before that is out of the window, up to Slow.
Length(kind) == IF kind = "snapshot" THEN Lease ELSE Window
LEMMA Expiries ==
  ASSUME HInv, fired # Null
  PROVE  /\ fired \in Nat /\ DOMAIN ExpiryEnds(fired) \subseteq Ids
         /\ \A e \in DOMAIN ExpiryEnds(fired) :
              /\ ExpiryEnds(fired)[e] \in Nat /\ latest[e] <= ExpiryEnds(fired)[e]
              /\ fired - latest[e] > Length(rows[e].who.kind) - Slow
<1> DEFINE stale == {activities[a].eid : a \in StaleActivities(fired)} \ {0}
           expired == {leases[r].eid : r \in ExpiredLeases(fired)}
<1>1. fired \in Nat
  BY DEF HInv, Environment
<1>2. DOMAIN ExpiryEnds(fired) = stale \cup expired
  BY DEF ExpiryEnds
<1>3. ASSUME NEW r \in ExpiredLeases(fired)
      PROVE  /\ leases[r].eid \in Ids /\ leases[r].expires \in Nat
             /\ latest[leases[r].eid] <= leases[r].expires
             /\ fired - latest[leases[r].eid] > Length(rows[leases[r].eid].who.kind) - Slow
  <2>1. LeaseOf(r) /\ fired > leases[r].expires /\ r \in Requests
    BY <1>3 DEF ExpiredLeases, HInv, Maps, LeaseOf
  <2>2. /\ HttpLease(r.kind) \in Nat /\ HttpLease(r.kind) >= Slow
        /\ HttpLease(r.kind) = Length(r.kind)
    BY <2>1, Leased DEF LeaseOf, Length
  <2>3. latest[leases[r].eid] \in Nat /\ leases[r].expires \in Nat
    BY <2>1 DEF LeaseOf, HInv, Tables
  <2>4. QED
    BY <1>1, <2>1, <2>2, <2>3, TimeAssumption DEF LeaseOf
<1>4. ASSUME NEW a \in StaleActivities(fired), activities[a].eid # 0
      PROVE  /\ activities[a].eid \in Ids /\ activities[a].lastSeen + Window \in Nat
             /\ latest[activities[a].eid] <= activities[a].lastSeen + Window
             /\ fired - latest[activities[a].eid]
                  > Length(rows[activities[a].eid].who.kind) - Slow
  <2>1. Activity(a) /\ fired - activities[a].lastSeen > Window
    BY <1>4 DEF StaleActivities, HInv, Maps
  <2>2. latest[activities[a].eid] \in Nat /\ activities[a].lastSeen \in Nat
    BY <1>4, <2>1 DEF Activity, HInv, Tables
  <2>3. rows[activities[a].eid].who.kind = "activity"
    BY <1>4, <2>1 DEF Activity, Person
  <2>4. QED
    BY <1>1, <1>4, <2>1, <2>2, <2>3, TimeAssumption DEF Activity, Length
<1>5. ASSUME NEW e \in DOMAIN ExpiryEnds(fired)
      PROVE  /\ e \in Ids /\ ExpiryEnds(fired)[e] \in Nat /\ latest[e] <= ExpiryEnds(fired)[e]
             /\ fired - latest[e] > Length(rows[e].who.kind) - Slow
  <2>1. CASE \E r \in ExpiredLeases(fired) : leases[r].eid = e
    <3> DEFINE r == CHOOSE q \in ExpiredLeases(fired) : leases[q].eid = e
    <3>1. r \in ExpiredLeases(fired) /\ leases[r].eid = e
      BY <2>1
    <3>2. ExpiryEnds(fired)[e] = leases[r].expires
      BY <1>5, <2>1 DEF ExpiryEnds
    <3> HIDE DEF r
    <3>3. QED
      BY <1>3, <3>1, <3>2
  <2>2. CASE ~\E r \in ExpiredLeases(fired) : leases[r].eid = e
    <3> DEFINE a == CHOOSE b \in StaleActivities(fired) : activities[b].eid = e
    <3>1. a \in StaleActivities(fired) /\ activities[a].eid = e /\ e # 0
      BY <1>2, <1>5, <2>2
    <3>2. ExpiryEnds(fired)[e] = activities[a].lastSeen + Window
      BY <1>5, <2>2 DEF ExpiryEnds
    <3> HIDE DEF a
    <3>3. QED
      BY <1>4, <3>1, <3>2
  <2>3. QED
    BY <2>1, <2>2
<1>6. QED
  BY <1>1, <1>5

LEMMA TickStep ==
  ASSUME HInv, NEW noEnd, Tick(noEnd)
  PROVE  HInv'
<1> DEFINE ends == [e \in DOMAIN ExpiryEnds(fired) \ noEnd |-> ExpiryEnds(fired)[e]]
<1>1. running = "up" /\ fired # Null /\ noEnd \subseteq DOMAIN ExpiryEnds(fired)
  BY DEF Tick
<1>2. noEnd \subseteq Ids /\ \A e \in DOMAIN ends : ends[e] \in Nat
  BY <1>1, Expiries
<1>3. /\ nextId' = nextId /\ offers' = offers /\ latest' = latest /\ liveHTTP' = liveHTTP
      /\ Ids' = Ids /\ clock' = clock /\ procs' = procs /\ running' = running
      /\ rows' = EndedEach(ends)
  BY DEF Tick, history, Ids
<1>4. RowTypes' /\ SameRows
  <2> HIDE DEF ends
  <2>1. QED
    BY <1>2, <1>3, EndedEachSame DEF HInv, Tables
<1>5. Tables' /\ Around
  BY <1>3, <1>4 DEF HInv, Tables, RowTypes, SameRows, Around
<1>6. Environment'
  <2>1. Cardinality(noEnd) \in Nat
    BY <1>2, SomeIds DEF HInv, Tables
  <2>2. left' \in [Causes -> Nat] /\ \A c \in Causes : left'[c] <= left[c]
    BY <2>1 DEF Tick, Spend, HInv, Environment, Causes
  <2>3. fired' = Null
    BY DEF Tick
  <2>4. QED
    BY <1>3, <2>2, <2>3, BudgetAssumption DEF HInv, Environment
<1>7. Maps'
  <2>1. \A a \in DOMAIN activities' : a \in DOMAIN activities /\ activities'[a] = activities[a]
    BY DEF Tick
  <2>2. \A r \in DOMAIN leases' : r \in DOMAIN leases /\ leases'[r] = leases[r]
    BY DEF Tick
  <2>3. \A a \in DOMAIN activities' : Activity(a)'
    BY <1>3, <1>5, <2>1 DEF HInv, Maps, Activity, Around
  <2>4. \A r \in DOMAIN leases' : LeaseOf(r)'
    BY <1>3, <1>5, <2>2 DEF HInv, Maps, LeaseOf, Around
  <2>5. QED
    BY <1>3, <2>3, <2>4 DEF HInv, Maps
<1>8. QED
  BY <1>1, <1>3, <1>5, <1>6, <1>7, ProcessStep

LEMMA TrackedIds ==
  ASSUME HInv
  PROVE  TrackedEvents \subseteq Ids
BY DEF HInv, Maps, Activity, LeaseOf, TrackedEvents

LEMMA CloseTrackedStep ==
  ASSUME HInv, NEW noEnd, CloseTracked(noEnd)
  PROVE  HInv'
<1> DEFINE seen == [e \in TrackedEvents \ noEnd |-> clock]
<1>1. /\ nextId' = nextId /\ offers' = offers /\ latest' = latest /\ Ids' = Ids /\ clock' = clock
      /\ procs' = procs /\ running = "up" /\ running' = "closing" /\ fired' = fired
      /\ tracked' = tracked /\ clock \in Nat /\ rows' = EndedAt(rows, clock, seen)
  BY DEF CloseTracked, history, Ids, HInv, Environment
<1>2. RowTypes' /\ SameRows
  <2>1. \A e \in DOMAIN seen : seen[e] \in Nat
    BY <1>1
  <2> HIDE DEF seen
  <2>2. QED
    BY <1>1, <2>1, EndedSame DEF HInv, Tables
<1>3. Tables' /\ Around
  BY <1>1, <1>2 DEF HInv, Tables, RowTypes, SameRows, Around
<1>4. Environment'
  <2>1. Cardinality(noEnd) \in Nat
    BY TrackedIds, SomeIds DEF HInv, Tables, CloseTracked
  <2>2. left' \in [Causes -> Nat] /\ \A c \in Causes : left'[c] <= left[c]
    <3>1. left \in [Causes -> Nat] /\ "fault" \in Causes /\ "death" \in Causes
      BY DEF HInv, Environment, Causes
    <3>2. /\ left["death"] > 0 /\ left["fault"] >= Cardinality(noEnd)
          /\ left' = [left EXCEPT !["death"] = @ - 1, !["fault"] = @ - Cardinality(noEnd)]
      BY DEF CloseTracked
    <3>3. left["death"] - 1 \in Nat /\ left["fault"] - Cardinality(noEnd) \in Nat
      BY <2>1, <3>1, <3>2
    <3>4. QED
      BY <2>1, <3>1, <3>2, <3>3
  <2>3. QED
    BY <1>1, <2>2, BudgetAssumption DEF HInv, Environment
<1>5. Maps'
  BY <1>1, <1>3, MapsKept
<1>6. QED
  BY <1>1, <1>3, <1>4, <1>5, ProcessStep

LEMMA DieStep ==
  ASSUME HInv, Die, \/ left' = left
                    \/ Spend("death", 1)
  PROVE  HInv'
<1>1. /\ rows' = rows /\ nextId' = nextId /\ offers' = offers /\ latest' = latest /\ Ids' = Ids
      /\ clock' = clock /\ running' = "down" /\ fired' = Null
  BY DEF Die, store, history, Ids
<1>2. Tables'
  BY <1>1 DEF HInv, Tables, RowTypes
<1>3. Environment'
  <2>1. left' \in [Causes -> Nat] /\ \A c \in Causes : left'[c] <= left[c]
    BY DEF HInv, Environment, Spend
  <2>2. QED
    BY <1>1, <2>1, BudgetAssumption DEF HInv, Environment
<1>4. procs' \in [Procs -> Goroutine] /\ \A p \in Procs : procs'[p] = Idle
  BY DEF Die, Idle, Goroutine, Stages
<1>5. Maps' /\ Off'
  BY <1>4 DEF Die, Nothing, Maps, Off, At, Idle
<1>6. \A p \in Procs : Handler(p)'
  BY <1>4 DEF Handler, Timed, Duty, Single, At, Idle
<1>7. QED
  BY <1>2, <1>3, <1>4, <1>5, <1>6 DEF HInv

LEMMA BootStep ==
  ASSUME HInv, Boot
  PROVE  HInv'
<1>1. /\ nextId' = nextId /\ offers' = offers /\ latest' = latest /\ Ids' = Ids /\ clock' = clock
      /\ procs' = procs /\ running = "down" /\ running' = "up" /\ fired' = fired /\ left' = left
      /\ tracked' = tracked /\ rows' = Recovered(rows, clock) /\ clock \in Nat
  BY DEF Boot, history, Ids, HInv, Environment
<1>2. RowTypes' /\ SameRows
  BY <1>1, RecoveredSame DEF HInv, Tables
<1>3. Tables' /\ Around
  BY <1>1, <1>2 DEF HInv, Tables, RowTypes, SameRows, Around
<1>4. Environment'
  BY <1>1 DEF HInv, Environment
<1>5. Maps'
  BY <1>1, <1>3, MapsKept
<1>6. \A p \in Procs : Handler(p)'
  BY <1>1, <1>3, Bystander
<1>7. QED
  BY <1>1, <1>3, <1>4, <1>5, <1>6 DEF HInv, Off

LEMMA PassStep ==
  ASSUME HInv, Pass
  PROVE  HInv'
<1>1. /\ nextId' = nextId /\ offers' = offers /\ latest' = latest /\ Ids' = Ids /\ rows' = rows
      /\ procs' = procs /\ running' = running /\ left' = left
      /\ activities' = activities /\ leases' = leases /\ liveHTTP' = liveHTTP
      /\ clock \in Nat /\ clock' = clock + 1
  BY DEF Pass, tracked, store, history, Ids, HInv, Environment
<1>2. Tables'
  BY <1>1 DEF HInv, Tables, RowTypes
<1>3. Environment'
  BY <1>1, NullAssumption DEF Pass, HInv, Environment
<1>4. Maps'
  BY <1>1 DEF HInv, Maps, Activity, LeaseOf
<1>5. Off'
  BY <1>1 DEF HInv, Off, At
<1>6. ASSUME NEW p \in Procs
      PROVE  Handler(p)'
  <2>1. Handler(p) /\ procs[p].now \in Nat \cup {Null}
    BY DEF HInv, Goroutine
  <2>2. Timed(p)'
    BY <1>1, <2>1, TimeAssumption DEF Handler, Timed, At, Pass
  <2>3. Duty(p)' /\ Single(p)'
    BY <1>1, <2>1 DEF Handler, Duty, Single, InHand, At
  <2>4. QED
    BY <2>2, <2>3 DEF Handler
<1>7. QED
  BY <1>1, <1>2, <1>3, <1>4, <1>5, <1>6 DEF HInv

LEMMA StepHInv ==
  ASSUME HInv, [Next]_vars
  PROVE  HInv'
<1>1. ASSUME NEW p \in Procs, Step(p)
      PROVE  HInv'
  BY <1>1, RecordActivityStep, TouchStep, StartLeaseStep, StartAccessStep, RenewStep, OfferStep,
     RegisterStep, EndHTTPStep, EndSignalStep, EndRowStep DEF Step
<1>2. CASE UNCHANGED vars
  <2>1. Around /\ Tables' /\ Maps'
    BY <1>2, Quiet DEF vars, tracked, store, history
  <2>2. \A p \in Procs : Handler(p)'
    BY <1>2, <2>1, Bystander DEF vars
  <2>3. QED
    BY <1>2, <2>1, <2>2 DEF vars, HInv, Environment, Off, At
<1>3. CASE \E p \in Procs, r \in Requests : Arrive(p, r)
  BY <1>3, ArriveStep
<1>4. CASE \E p \in Procs : Abort(p)
  BY <1>4, AbortStep
<1>5. CASE TickSome
  BY <1>5, TickStep DEF TickSome
<1>6. CASE \E noEnd \in SUBSET TrackedEvents : CloseTracked(noEnd)
  BY <1>6, CloseTrackedStep
<1>7. CASE Exit \/ Crash
  BY <1>7, DieStep DEF Exit, Crash
<1>8. CASE Boot
  BY <1>8, BootStep
<1>9. CASE Pass
  BY <1>9, PassStep
<1>10. QED
  BY <1>1, <1>2, <1>3, <1>4, <1>5, <1>6, <1>7, <1>8, <1>9 DEF Next, Rest

\* The invariant: what each goroutine has in hand, what the maps hold, and how
\* old the time in them is.
THEOREM HttpInvariance == Spec => []HInv
<1>1. HInv /\ [Next]_vars => HInv'
  BY StepHInv
<1>2. QED
  BY InitHInv, <1>1, PTL DEF Spec

-------------------------------------------------------------------------------
\* A goroutine ends only a row that it has in hand, and not before its latest
\* request.
LEMMA RowEnded ==
  ASSUME HInv, NEW p \in Procs, NEW ok \in BOOLEAN, EndSignal(p, ok) \/ EndRow(p, ok),
         NEW e \in Ids, rows'[e] # rows[e]
  PROVE  ~Rolls(e) /\ latest[e] <= rows'[e].lastSeen
<1> DEFINE end == [i \in {procs[p].eid} |-> procs[p].now]
<1>1. procs[p].at \in {"register", "close"} /\ ok /\ rows' = EndedAt(rows, procs[p].now, end)
  BY DEF EndSignal, EndRow, At
<1>2. procs[p].req \in Requests /\ procs[p].now \in Nat /\ nextId' = nextId
  BY <1>1, Busy DEF At, EndSignal, EndRow
<1>3. InHand(p, procs[p].eid)
  BY <1>1 DEF HInv, Handler, Duty, At
<1>4. e = procs[p].eid /\ procs[p].now <= rows'[e].lastSeen
  <2>1. DOMAIN end = {procs[p].eid} /\ end[procs[p].eid] = procs[p].now
    OBVIOUS
  <2>2. \A i \in DOMAIN end : end[i] \in Nat
    BY <1>2, <2>1
  <2> HIDE DEF end
  <2>3. e \in DOMAIN end /\ IsOpen(rows[e]) /\ end[e] <= rows'[e].lastSeen
    BY <1>1, <1>2, <2>2, EndedSame DEF HInv, Tables, RowTypes
  <2>4. QED
    BY <2>1, <2>3
<1>5. rows[e].who = procs[p].req /\ HttpLease(procs[p].req.kind) = 0 /\ latest[e] <= procs[p].now
  BY <1>1, <1>3, <1>4 DEF InHand
<1>6. ~Rolls(e)
  BY <1>2, <1>5, Leased DEF Rolls
<1>7. rows'[e].lastSeen \in Nat /\ latest[e] \in Nat
  <2>1. RowTypes'
    BY EndSignalStep, EndRowStep DEF HInv, Tables
  <2>2. Ids' = Ids
    BY <1>2 DEF Ids
  <2>3. QED
    BY <2>1, <2>2 DEF RowTypes, HInv, Tables
<1>8. QED
  BY <1>2, <1>4, <1>5, <1>6, <1>7

LEMMA TickEnded ==
  ASSUME HInv, NEW noEnd, Tick(noEnd), NEW e \in Ids, rows'[e] # rows[e]
  PROVE  /\ latest[e] <= rows'[e].lastSeen
         /\ fired - latest[e] > Length(rows[e].who.kind) - Slow
<1> DEFINE ends == [i \in DOMAIN ExpiryEnds(fired) \ noEnd |-> ExpiryEnds(fired)[i]]
<1>1. fired # Null /\ nextId' = nextId /\ Ids' = Ids /\ rows' = EndedEach(ends)
  BY DEF Tick, Ids
<1>2. \A i \in DOMAIN ends : /\ i \in DOMAIN ExpiryEnds(fired) /\ ends[i] = ExpiryEnds(fired)[i]
                             /\ ends[i] \in Nat
  BY <1>1, Expiries
<1>3. e \in DOMAIN ends /\ ends[e] <= rows'[e].lastSeen
  <2> HIDE DEF ends
  <2>1. QED
    BY <1>1, <1>2, EndedEachSame DEF HInv, Tables, RowTypes
<1>4. /\ ends[e] \in Nat /\ latest[e] <= ends[e]
      /\ fired - latest[e] > Length(rows[e].who.kind) - Slow
  BY <1>1, <1>2, <1>3, Expiries
<1>5. rows'[e].lastSeen \in Nat /\ latest[e] \in Nat
  BY <1>1, TickStep DEF HInv, Tables, RowTypes
<1>6. QED
  BY <1>3, <1>4, <1>5

LEMMA ClosedAtEnd ==
  ASSUME HInv, NEW noEnd, CloseTracked(noEnd), NEW e \in Ids, rows'[e] # rows[e]
  PROVE  latest[e] <= rows'[e].lastSeen
<1> DEFINE seen == [i \in TrackedEvents \ noEnd |-> clock]
<1>1. nextId' = nextId /\ clock \in Nat /\ rows' = EndedAt(rows, clock, seen) /\ Ids' = Ids
  BY DEF CloseTracked, HInv, Environment, Ids
<1>2. \A i \in DOMAIN seen : seen[i] = clock /\ seen[i] \in Nat
  BY <1>1
<1>3. clock <= rows'[e].lastSeen
  <2> HIDE DEF seen
  <2>1. e \in DOMAIN seen /\ IsOpen(rows[e]) /\ seen[e] <= rows'[e].lastSeen
    BY <1>1, <1>2, EndedSame DEF HInv, Tables, RowTypes
  <2>2. QED
    BY <1>2, <2>1
<1>4. rows'[e].lastSeen \in Nat /\ latest[e] \in Nat /\ latest[e] <= clock
  BY <1>1, CloseTrackedStep DEF HInv, Tables, RowTypes
<1>5. QED
  BY <1>1, <1>3, <1>4

\* Which step ends a row.
LEMMA EndsBy ==
  ASSUME HInv, [Next]_vars, running = "up", NEW e \in Ids, IsOpen(rows[e]), ~IsOpen(rows'[e])
  PROVE  \/ \E p \in Procs, ok \in BOOLEAN : EndSignal(p, ok) \/ EndRow(p, ok)
         \/ \E noEnd : Tick(noEnd)
         \/ running' = "closing" /\ \E noEnd : CloseTracked(noEnd)
<1>1. rows'[e] # rows[e]
  OBVIOUS
<1>2. CASE rows' = rows
  BY <1>1, <1>2
<1>3. ASSUME NEW p \in Procs, NEW ok \in BOOLEAN, Touch(p, ok)
      PROVE  IsOpen(rows'[e])
  <2> DEFINE seen == [i \in {procs[p].eid} |-> procs[p].now]
  <2>1. CASE ok
    <3>1. procs[p].now \in Nat /\ nextId' = nextId /\ rows' = Touched(rows, seen)
      BY <1>3, <2>1, Busy DEF Touch, At
    <3>2. \A i \in DOMAIN seen : seen[i] \in Nat
      BY <3>1
    <3> HIDE DEF seen
    <3>3. rows'[e].ended = rows[e].ended
      BY <3>1, <3>2, TouchedSame DEF HInv, Tables, RowTypes
    <3>4. QED
      BY <3>3 DEF IsOpen
  <2>2. CASE ~ok
    BY <1>3, <2>2 DEF Touch
  <2>3. QED
    BY <2>1, <2>2
<1>4. ASSUME NEW p \in Procs, NEW who, Start(p, who)
      PROVE  rows'[e] = rows[e]
  BY <1>4 DEF Start, Inserted, HInv, Tables, RowTypes, Ids
<1>5. CASE \E p \in Procs, r \in Requests : Arrive(p, r)
  BY <1>2, <1>5 DEF Arrive, store
<1>6. CASE \E p \in Procs : Abort(p)
  BY <1>2, <1>6 DEF Abort, store
<1>7. CASE TickSome
  BY <1>7 DEF TickSome
<1>8. CASE \E noEnd \in SUBSET TrackedEvents : CloseTracked(noEnd)
  BY <1>8 DEF CloseTracked
<1>9. CASE Exit \/ Crash \/ Boot \/ Pass \/ Rest \/ UNCHANGED vars
  BY <1>2, <1>9 DEF Exit, Crash, Die, Boot, Pass, Rest, vars, store
<1>10. ASSUME NEW p \in Procs, NEW ok \in BOOLEAN,
              RecordActivity(p, ok) \/ StartLease(p, ok) \/ StartAccess(p, ok)
       PROVE  rows'[e] = rows[e]
  BY <1>4, <1>10 DEF RecordActivity, StartLease, StartAccess, StartFails, Joins, store
<1>11. ASSUME NEW p \in Procs, Renew(p) \/ Offer(p) \/ Register(p) \/ EndHTTP(p)
       PROVE  rows' = rows
  BY <1>11 DEF Renew, Offer, Register, EndHTTP, Joins, store
<1>12. QED
  BY <1>1, <1>2, <1>3, <1>5, <1>6, <1>7, <1>8, <1>9, <1>10, <1>11 DEF Next, Step

LEMMA OpenIds ==
  ASSUME HInv
  PROVE  OpenRows \subseteq Ids /\ \A e \in OpenRows : IsOpen(rows[e])
BY DEF HInv, Tables, RowTypes, OpenRows, IsOpenRow

\* An interval that the process ends covers all its requests, whatever calls to
\* the store have failed before.
THEOREM HttpCoversRequests == Spec => CoversRequests
<1>1. ASSUME HInv, [Next]_vars, running = "up", running' # "down",
             NEW e \in OpenRows, ~IsOpen(rows'[e])
      PROVE  latest[e] <= rows'[e].lastSeen
  <2>1. e \in Ids /\ IsOpen(rows[e]) /\ rows'[e] # rows[e]
    BY <1>1, OpenIds
  <2>2. CASE \E p \in Procs, ok \in BOOLEAN : EndSignal(p, ok) \/ EndRow(p, ok)
    BY <1>1, <2>1, <2>2, RowEnded
  <2>3. CASE \E noEnd : Tick(noEnd)
    BY <1>1, <2>1, <2>3, TickEnded
  <2>4. CASE \E noEnd : CloseTracked(noEnd)
    BY <1>1, <2>1, <2>4, ClosedAtEnd
  <2>5. QED
    BY <1>1, <2>1, <2>2, <2>3, <2>4, EndsBy
<1>2. HInv /\ [Next]_vars =>
        [running = "up" /\ running' # "down" =>
           \A e \in OpenRows : ~IsOpen(rows'[e]) => latest[e] <= rows'[e].lastSeen]_vars
  BY <1>1
<1>3. QED
  BY <1>2, HttpInvariance, PTL DEF Spec, CoversRequests

\* Only the tick ends a rolling interval.
LEMMA StepRollingEnd ==
  ASSUME HInv, [Next]_vars, running = "up", running' = "up", NEW e \in OpenRows,
         rows[e].who.kind \in Rolling, ~IsOpen(rows'[e])
  PROVE  fired - latest[e] > Length(rows[e].who.kind) - Slow
<1>1. e \in Ids /\ IsOpen(rows[e]) /\ rows'[e] # rows[e] /\ Rolls(e)
  BY OpenIds DEF Rolls
<1>2. CASE \E p \in Procs, ok \in BOOLEAN : EndSignal(p, ok) \/ EndRow(p, ok)
  BY <1>1, <1>2, RowEnded
<1>3. CASE \E noEnd : Tick(noEnd)
  BY <1>1, <1>3, TickEnded
<1>4. QED
  BY <1>1, <1>2, <1>3, EndsBy

\* A rolling interval ends only when its last request is out of the window, up
\* to the lateness of the goroutines, for any windows that are not shorter.
THEOREM HttpRollingEnd == Spec => RollingEnd
<1>1. HInv /\ [Next]_vars =>
        [running = "up" /\ running' = "up" =>
           \A e \in OpenRows : rows[e].who.kind \in Rolling /\ ~IsOpen(rows'[e]) =>
             LET length == IF rows[e].who.kind = "snapshot" THEN Lease ELSE Window
             IN  fired - latest[e] > length - Slow]_vars
  BY StepRollingEnd DEF Length
<1>2. QED
  BY <1>1, HttpInvariance, PTL DEF Spec, RollingEnd

-------------------------------------------------------------------------------
\* Rows stay, are always of the same request or person, and are not reopened.
SameWho ==
  /\ Ids \subseteq Ids'
  /\ \A e \in Ids : rows'[e].who = rows[e].who /\ (IsOpen(rows'[e]) => IsOpen(rows[e]))
  /\ \A e \in Ids : rows'[e].started = rows[e].started

LEMMA StepSameWho ==
  ASSUME HInv, [Next]_vars
  PROVE  SameWho
<1>1. RowTypes /\ nextId \in Nat /\ clock \in Nat
  BY DEF HInv, Tables, Environment
<1>2. CASE UNCHANGED store
  BY <1>2 DEF store, SameWho, Ids
<1>3. ASSUME NEW p \in Procs, NEW who, Start(p, who)
      PROVE  SameWho
  BY <1>1, <1>3 DEF Start, Inserted, RowTypes, Ids, SameWho
<1>4. /\ SameRows /\ nextId' = nextId
      /\ \A e \in DOMAIN rows : IsOpen(rows'[e]) => IsOpen(rows[e])
      => SameWho
  BY <1>1 DEF SameRows, SameWho, RowTypes, Ids
<1>5. ASSUME NEW p \in Procs, NEW ok \in BOOLEAN, EndSignal(p, ok) \/ EndRow(p, ok) \/ Touch(p, ok)
      PROVE  SameWho
  <2> DEFINE now == [i \in {procs[p].eid} |-> procs[p].now]
  <2>1. procs[p].now \in Nat /\ nextId' = nextId
    BY <1>5, Busy DEF EndSignal, EndRow, Touch, At
  <2>2. \A i \in DOMAIN now : now[i] \in Nat
    BY <2>1
  <2>3. rows' = rows \/ rows' = Touched(rows, now) \/ rows' = EndedAt(rows, procs[p].now, now)
    BY <1>5 DEF EndSignal, EndRow, Touch
  <2> HIDE DEF now
  <2>4. CASE rows' = rows
    BY <1>4, <2>1, <2>4 DEF SameRows
  <2>5. CASE rows' = Touched(rows, now)
    BY <1>1, <1>4, <2>1, <2>2, <2>5, TouchedSame DEF IsOpen
  <2>6. CASE rows' = EndedAt(rows, procs[p].now, now)
    BY <1>1, <1>4, <2>1, <2>2, <2>6, EndedSame
  <2>7. QED
    BY <2>3, <2>4, <2>5, <2>6
<1>6. ASSUME NEW noEnd, Tick(noEnd)
      PROVE  SameWho
  <2> DEFINE ends == [e \in DOMAIN ExpiryEnds(fired) \ noEnd |-> ExpiryEnds(fired)[e]]
  <2>1. nextId' = nextId /\ rows' = EndedEach(ends)
    BY <1>6 DEF Tick
  <2>2. \A e \in DOMAIN ends : ends[e] \in Nat
    BY <1>6, Expiries DEF Tick
  <2> HIDE DEF ends
  <2>3. QED
    BY <1>1, <1>4, <2>1, <2>2, EndedEachSame
<1>7. ASSUME NEW noEnd, CloseTracked(noEnd)
      PROVE  SameWho
  <2> DEFINE seen == [e \in TrackedEvents \ noEnd |-> clock]
  <2>1. nextId' = nextId /\ rows' = EndedAt(rows, clock, seen)
    BY <1>7 DEF CloseTracked
  <2>2. \A e \in DOMAIN seen : seen[e] \in Nat
    BY <1>1
  <2> HIDE DEF seen
  <2>3. QED
    BY <1>1, <1>4, <2>1, <2>2, EndedSame
<1>8. CASE Boot
  BY <1>1, <1>4, <1>8, RecoveredSame DEF Boot
<1>9. ASSUME NEW p \in Procs, NEW ok \in BOOLEAN,
             RecordActivity(p, ok) \/ StartLease(p, ok) \/ StartAccess(p, ok)
      PROVE  SameWho
  BY <1>2, <1>3, <1>9 DEF RecordActivity, StartLease, StartAccess, StartFails, Joins
<1>10. ASSUME NEW p \in Procs, Renew(p) \/ Offer(p) \/ Register(p) \/ EndHTTP(p) \/ Abort(p)
       PROVE  SameWho
  BY <1>2, <1>10 DEF Renew, Offer, Register, EndHTTP, Abort, Joins
<1>11. CASE Exit \/ Crash \/ Pass \/ Rest \/ UNCHANGED vars
  BY <1>2, <1>11 DEF Exit, Crash, Die, Pass, Rest, vars, store
<1>12. CASE \E p \in Procs, r \in Requests : Arrive(p, r)
  BY <1>2, <1>12 DEF Arrive
<1>13. QED
  BY <1>5, <1>6, <1>7, <1>8, <1>9, <1>10, <1>11, <1>12 DEF Next, Step, TickSome

\* A goroutine's own steps leave the others alone.
LEMMA OthersStay ==
  ASSUME HInv, NEW p \in Procs,
         \/ \E at, eid : Go(p, at, eid)
         \/ \E ids : Started(p, ids)
         \/ procs' = [procs EXCEPT ![p] = Idle]
         \/ \E ids : procs' = [procs EXCEPT ![p].at = "next", ![p].eid = 0, ![p].eids = ids]
  PROVE  Others(p)
BY DEF HInv, Go, Started, Others

-------------------------------------------------------------------------------
\* Who is about to tell the observer has a row of its own that nobody told yet,
\* and as long as no process died nobody else is needed.
Pending(p, e) == At(p, "offer") /\ procs[p].eid = e
Told(e) ==
  IF IsRecordingActivity(rows[e].who.kind)
  THEN \/ offers[e] = 1
       \/ offers[e] = 0 /\ \E p \in Procs : Pending(p, e)
  ELSE offers[e] = 0
Alive == left["death"] = Budget["death"]
OfferInv ==
  /\ \A p \in Procs : At(p, "offer") => offers[procs[p].eid] = 0
  /\ \A p, q \in Procs : At(p, "offer") /\ Pending(q, procs[p].eid) => p = q
  /\ Alive => running # "closing" /\ \A e \in Ids : Told(e)

\* A step of which the observer hears nothing.
LEMMA Untold ==
  ASSUME HInv, OfferInv, SameWho, Alive' => Alive /\ running' # "closing",
         \A e \in Ids : offers'[e] = offers[e],
         \A e \in Ids' \ Ids : offers'[e] = 0 /\ ~IsRecordingActivity(rows'[e].who.kind),
         \A p \in Procs : /\ At(p, "offer") <=> procs'[p].at = "offer"
                          /\ At(p, "offer") => procs'[p].eid = procs[p].eid
  PROVE  OfferInv'
<1>1. \A p \in Procs : At(p, "offer") => procs[p].eid \in Ids
  BY DEF HInv, Handler, Duty
<1>2. \A p \in Procs : procs'[p].at = "offer" => offers'[procs'[p].eid] = 0
  BY <1>1 DEF OfferInv
<1>3. \A p, q \in Procs : At(p, "offer")' /\ Pending(q, procs[p].eid)' => p = q
  BY DEF OfferInv, Pending, At
<1>4. ASSUME Alive', NEW e \in Ids'
      PROVE  Told(e)'
  <2>1. CASE e \in Ids
    <3>1. Told(e) /\ rows'[e].who = rows[e].who /\ offers'[e] = offers[e]
      BY <1>4, <2>1 DEF OfferInv, SameWho
    <3>2. \A p \in Procs : Pending(p, e) => Pending(p, e)'
      BY DEF Pending, At
    <3>3. QED
      BY <3>1, <3>2 DEF Told
  <2>2. CASE e \notin Ids
    BY <1>4, <2>2 DEF Told
  <2>3. QED
    BY <2>1, <2>2
<1>5. QED
  BY <1>2, <1>3, <1>4 DEF OfferInv, Pending, At

LEMMA UntoldBy ==
  ASSUME HInv, OfferInv, SameWho, NEW p \in Procs, Others(p), ~At(p, "offer"),
         procs'[p].at # "offer", left'["death"] = left["death"], running' = running,
         \A e \in Ids : offers'[e] = offers[e],
         \A e \in Ids' \ Ids : offers'[e] = 0 /\ ~IsRecordingActivity(rows'[e].who.kind)
  PROVE  OfferInv'
<1>1. Alive' => Alive /\ running' # "closing"
  BY DEF Alive, OfferInv
<1>2. QED
  BY <1>1, Untold DEF Others, At

\* The row is inserted, and the observer is the next to hear of it.
LEMMA ToldNext ==
  ASSUME HInv, OfferInv, SameWho, NEW p \in Procs, Others(p), ~At(p, "offer"),
         procs'[p].at = "offer", procs'[p].eid = nextId, Ids' = Ids \cup {nextId}, nextId \notin Ids,
         left'["death"] = left["death"], running' = running,
         \A e \in Ids : offers'[e] = offers[e], offers'[nextId] = 0,
         IsRecordingActivity(rows'[nextId].who.kind)
  PROVE  OfferInv'
<1>1. \A q \in Procs \ {p} : At(q, "offer")' => At(q, "offer") /\ procs'[q] = procs[q]
                                                /\ procs[q].eid \in Ids
  BY DEF HInv, Handler, Duty, Others, At
<1>2. \A q \in Procs : At(q, "offer")' => offers'[procs'[q].eid] = 0
  BY <1>1 DEF OfferInv
<1>3. \A q, s \in Procs : At(q, "offer")' /\ At(s, "offer")' /\ procs'[s].eid = procs'[q].eid
                            => q = s
  BY <1>1 DEF OfferInv, Pending
<1>4. ASSUME Alive', NEW e \in Ids'
      PROVE  Told(e)'
  <2>1. CASE e \in Ids
    <3>1. Told(e) /\ rows'[e].who = rows[e].who /\ offers'[e] = offers[e]
      BY <1>4, <2>1 DEF OfferInv, SameWho, Alive
    <3>2. \A q \in Procs : Pending(q, e) => Pending(q, e)'
      BY DEF Pending, At, Others
    <3>3. QED
      BY <3>1, <3>2 DEF Told
  <2>2. CASE e = nextId
    <3>1. procs'[p].at = "offer" /\ procs'[p].eid = e
      BY <2>2
    <3>2. QED
      BY <2>2, <3>1 DEF Told, Pending, At
  <2>3. QED
    BY <2>1, <2>2
<1>5. Alive' => running' # "closing"
  BY DEF Alive, OfferInv
<1>6. QED
  BY <1>2, <1>3, <1>4, <1>5 DEF OfferInv, Pending

LEMMA AtGone ==
  ASSUME HInv, NEW p \in Procs, NEW at, NEW eid, Go(p, at, eid)
  PROVE  procs'[p].at = at /\ procs'[p].eid = eid
BY DEF HInv, Goroutine, Go

LEMMA GoneEids ==
  ASSUME HInv, NEW p \in Procs, NEW at, NEW eid, Go(p, at, eid)
  PROVE  Others(p) /\ procs'[p].eids = procs[p].eids
BY DEF HInv, Goroutine, Go, Others

LEMMA AtStarted ==
  ASSUME HInv, NEW p \in Procs, NEW ids, Started(p, ids)
  PROVE  procs'[p].at \in {"access", "serve"}
BY DEF HInv, Goroutine, Started

LEMMA StepOfferInv ==
  ASSUME HInv, OfferInv, [Next]_vars
  PROVE  OfferInv'
<1>1. SameWho
  BY StepSameWho
<1>2. ASSUME NEW p \in Procs, NEW ok \in BOOLEAN,
             \/ RecordActivity(p, ok) \/ StartLease(p, ok) \/ StartAccess(p, ok) \/ Renew(p)
             \/ Offer(p) \/ Touch(p, ok) \/ EndSignal(p, ok) \/ EndRow(p, ok) \/ Register(p)
             \/ EndHTTP(p) \/ Abort(p) \/ \E r \in Requests : Arrive(p, r)
      PROVE  left'["death"] = left["death"] /\ running' = running
  BY <1>2 DEF RecordActivity, StartLease, StartAccess, Renew, Offer, Touch, EndSignal, EndRow,
              Register, EndHTTP, Abort, Arrive, Try, Spend, env, HInv, Environment, Causes
<1>3. ASSUME NEW p \in Procs, NEW ok \in BOOLEAN,
             \/ Renew(p) \/ Touch(p, ok) \/ EndSignal(p, ok) \/ EndRow(p, ok) \/ Register(p)
             \/ EndHTTP(p) \/ Abort(p) \/ \E r \in Requests : Arrive(p, r)
      PROVE  OfferInv'
  <2>1. ~At(p, "offer") /\ offers' = offers /\ nextId' = nextId
    BY <1>3 DEF Renew, Touch, EndSignal, EndRow, Register, EndHTTP, Abort, Arrive, Joins,
                store, history, At
  <2>2. Others(p) /\ procs'[p].at # "offer"
    <3>1. procs \in [Procs -> Goroutine]
      BY DEF HInv
    <3>2. CASE Renew(p) \/ Touch(p, ok) \/ EndSignal(p, ok) \/ Register(p)
      <4>1. (\E ids : Started(p, ids)) \/ \E eid : \E at \in {"renew", "access", "serve"} : Go(p, at, eid)
        BY <3>2 DEF Renew, Touch, EndSignal, Register
      <4>2. CASE \E ids : Started(p, ids)
        BY <4>2, OthersStay, AtStarted
      <4>3. CASE \E eid : \E at \in {"renew", "access", "serve"} : Go(p, at, eid)
        BY <4>3, OthersStay, AtGone
      <4>4. QED
        BY <4>1, <4>2, <4>3
    <3>3. CASE EndRow(p, ok)
      <4>1. CASE procs' = [procs EXCEPT ![p] = Idle]
        BY <3>1, <4>1 DEF Others, Idle
      <4>2. CASE \E ids : procs' = [procs EXCEPT ![p].at = "next", ![p].eid = 0, ![p].eids = ids]
        BY <3>1, <4>2 DEF Others, Goroutine
      <4>3. QED
        BY <3>3, <4>1, <4>2 DEF EndRow
    <3>4. CASE EndHTTP(p)
      <4>1. CASE procs' = [procs EXCEPT ![p] = Idle]
        BY <3>1, <4>1 DEF Others, Idle
      <4>2. CASE \E eid, now : procs' = [procs EXCEPT ![p].at = "close", ![p].eid = eid,
                                                     ![p].now = now]
        BY <3>1, <4>2 DEF Others, Goroutine
      <4>3. \/ procs' = [procs EXCEPT ![p] = Idle]
            \/ procs' = [procs EXCEPT ![p].at = "close", ![p].eid = First(p),
                           ![p].now = IF At(p, "serve") THEN clock ELSE procs[p].now]
        BY <3>4 DEF EndHTTP, Proxied
      <4>4. QED
        BY <4>1, <4>2, <4>3
    <3>5. CASE Abort(p)
      BY <3>1, <3>5 DEF Abort, Others, Idle
    <3>6. CASE \E r \in Requests : Arrive(p, r)
      BY <3>1, <3>6 DEF Arrive, Others, Idle
    <3>7. QED
      BY <1>3, <3>2, <3>3, <3>4, <3>5, <3>6
  <2>3. Ids' = Ids
    BY <2>1 DEF Ids
  <2>4. QED
    BY <1>1, <1>2, <1>3, <2>1, <2>2, <2>3, UntoldBy
<1>4. ASSUME NEW p \in Procs, ~At(p, "offer"), UNCHANGED <<store, history>>,
             left'["death"] = left["death"], running' = running,
             Started(p, {})
      PROVE  OfferInv'
  <2>1. Others(p) /\ procs'[p].at # "offer" /\ offers' = offers /\ Ids' = Ids
    BY <1>4 DEF Started, Others, HInv, store, history, Ids
  <2>2. QED
    BY <1>1, <1>4, <2>1, UntoldBy
<1>5. ASSUME NEW p \in Procs, NEW who \in Whos, ~At(p, "idle"), Start(p, who), clock' = clock
      PROVE  /\ Ids' = Ids \cup {nextId} /\ nextId \notin Ids /\ nextId \in Nat
             /\ rows'[nextId].who = who /\ offers'[nextId] = 0
             /\ \A e \in Ids : offers'[e] = offers[e]
  <2>1. /\ Ids' = Ids \cup {nextId} /\ nextId \notin Ids /\ nextId \in Nat
        /\ rows'[nextId] = [who |-> who, started |-> procs[p].now,
                            lastSeen |-> procs[p].now, ended |-> Null]
        /\ offers'[nextId] = 0 /\ \A e \in Ids : offers'[e] = offers[e]
    BY <1>5, Busy, Starts DEF HInv
  <2>2. QED
    BY <2>1
<1>6. ASSUME NEW p \in Procs, NEW ok \in BOOLEAN, RecordActivity(p, ok)
      PROVE  OfferInv'
  <2>1. /\ ~At(p, "offer") /\ ~At(p, "idle") /\ clock' = clock /\ procs[p].req \in Requests
        /\ left'["death"] = left["death"] /\ running' = running
    BY <1>2, <1>6, Busy DEF RecordActivity, At, Try
  <2>2. Others(p) /\ procs'[p].at # "offer"
    BY <1>6 DEF RecordActivity, Go, Others, HInv
  <2>3. CASE Start(p, Person(procs[p].req.actor))
    <3>1. Person(procs[p].req.actor) \in Whos
      BY <2>1 DEF Whos
    <3>2. ~IsRecordingActivity(Person(procs[p].req.actor).kind)
      BY DEF IsRecordingActivity, Person
    <3>3. QED
      BY <1>1, <1>5, <2>1, <2>2, <2>3, <3>1, <3>2, UntoldBy
  <2>4. CASE offers' = offers /\ nextId' = nextId
    <3>1. Ids' = Ids
      BY <2>4 DEF Ids
    <3>2. QED
      BY <1>1, <2>1, <2>2, <2>4, <3>1, UntoldBy
  <2>5. QED
    BY <1>6, <2>3, <2>4 DEF RecordActivity, Person, StartFails, Joins, store, history
<1>7. ASSUME NEW p \in Procs, NEW ok \in BOOLEAN, StartLease(p, ok) \/ StartAccess(p, ok)
      PROVE  OfferInv'
  <2>1. /\ ~At(p, "offer") /\ ~At(p, "idle") /\ clock' = clock /\ procs[p].req \in Requests
        /\ left'["death"] = left["death"] /\ running' = running
    BY <1>2, <1>7, Busy DEF StartLease, StartAccess, At, Try
  <2>2. CASE ~ok
    BY <1>4, <1>7, <2>1, <2>2 DEF StartLease, StartAccess, StartFails
  <2>3. CASE ok
    <3>1. Start(p, procs[p].req)
      BY <1>7, <2>3 DEF StartLease, StartAccess
    <3>2. procs[p].req \in Whos
      BY <2>1 DEF Whos
    <3>3. /\ Ids' = Ids \cup {nextId} /\ nextId \notin Ids /\ nextId \in Nat
          /\ rows'[nextId].who = procs[p].req /\ offers'[nextId] = 0
          /\ \A e \in Ids : offers'[e] = offers[e]
      BY <1>5, <2>1, <3>1, <3>2
    <3>4. CASE IsRecordingActivity(procs[p].req.kind)
      <4>1. Go(p, "offer", nextId)
        BY <1>7, <2>3, <3>4 DEF StartLease, StartAccess
      <4>2. Others(p) /\ procs'[p].at = "offer" /\ procs'[p].eid = nextId
        BY <4>1, <3>3, Going DEF HInv, Stages
      <4>3. QED
        BY <1>1, <2>1, <3>3, <3>4, <4>2, ToldNext
    <3>5. CASE ~IsRecordingActivity(procs[p].req.kind)
      <4>1. Go(p, "register", nextId) \/ Started(p, {})
        BY <1>7, <2>3, <3>5 DEF StartLease, StartAccess
      <4>2. Others(p) /\ procs'[p].at # "offer"
        <5>1. CASE Go(p, "register", nextId)
          BY <5>1, OthersStay, AtGone
        <5>2. CASE Started(p, {})
          BY <5>2, OthersStay, AtStarted
        <5>3. QED
          BY <4>1, <5>1, <5>2
      <4>3. QED
        BY <1>1, <2>1, <3>3, <3>5, <4>2, UntoldBy
    <3>6. QED
      BY <3>4, <3>5
  <2>4. QED
    BY <2>2, <2>3
<1>8. ASSUME NEW p \in Procs, Offer(p)
      PROVE  OfferInv'
  <2>1. /\ At(p, "offer") /\ procs[p].eid \in Ids /\ offers[procs[p].eid] = 0
        /\ rows[procs[p].eid].who = procs[p].req /\ IsRecordingActivity(procs[p].req.kind)
    BY <1>8 DEF Offer, OfferInv, HInv, Handler, Duty
  <2>2. /\ offers' = [offers EXCEPT ![procs[p].eid] = @ + 1] /\ rows' = rows /\ Ids' = Ids
        /\ left' = left /\ running' = running
    BY <1>8 DEF Offer, store, env, Ids
  <2>3. Others(p) /\ procs'[p].at # "offer"
    BY <1>8 DEF Offer, Started, Others, HInv
  <2>4. \A e \in Ids : offers'[e] = IF e = procs[p].eid THEN 1 ELSE offers[e]
    BY <2>1, <2>2 DEF HInv, Tables
  <2>5. \A q \in Procs : At(q, "offer")' => /\ At(q, "offer") /\ procs'[q] = procs[q]
                                            /\ procs[q].eid \in Ids /\ procs[q].eid # procs[p].eid
    BY <2>1, <2>3 DEF OfferInv, Pending, HInv, Handler, Duty, Others, At
  <2>6. ASSUME Alive', NEW e \in Ids'
        PROVE  Told(e)'
    <3>1. Told(e) /\ e \in Ids
      BY <2>2, <2>6 DEF OfferInv, Alive
    <3>2. CASE e = procs[p].eid
      <4>1. rows'[e].who = procs[p].req /\ offers'[e] = 1
        BY <2>1, <2>2, <2>4, <3>1, <3>2
      <4>2. IsRecordingActivity(rows'[e].who.kind)
        BY <2>1, <4>1 DEF IsRecordingActivity
      <4>3. QED
        BY <4>1, <4>2 DEF Told, IsRecordingActivity
    <3>3. CASE e # procs[p].eid
      <4>1. \A q \in Procs : Pending(q, e) => Pending(q, e)'
        BY <2>3, <3>3 DEF Pending, At, Others
      <4>2. offers'[e] = offers[e]
        BY <2>4, <3>1, <3>3
      <4>3. QED
        BY <2>2, <3>1, <4>1, <4>2 DEF Told
    <3>4. QED
      BY <3>2, <3>3
  <2>7. \A q \in Procs : At(q, "offer")' => offers'[procs'[q].eid] = 0
    BY <2>4, <2>5 DEF OfferInv
  <2>8. \A q, s \in Procs : At(q, "offer")' /\ At(s, "offer")' /\ procs'[s].eid = procs'[q].eid
                              => q = s
    BY <2>5 DEF OfferInv, Pending
  <2>9. QED
    BY <2>2, <2>6, <2>7, <2>8 DEF OfferInv, Pending, Alive
<1>9. CASE TickSome \/ (\E noEnd : CloseTracked(noEnd)) \/ Boot \/ Pass \/ Rest \/ UNCHANGED vars
  <2>1. procs' = procs /\ offers' = offers /\ nextId' = nextId
    <3>1. CASE TickSome
      BY <3>1 DEF TickSome, Tick, history
    <3>2. CASE \E noEnd : CloseTracked(noEnd)
      BY <3>2 DEF CloseTracked, history
    <3>3. CASE Boot \/ Pass \/ Rest \/ UNCHANGED vars
      BY <3>3 DEF Boot, Pass, Rest, vars, history, store
    <3>4. QED
      BY <1>9, <3>1, <3>2, <3>3
  <2>2. Alive' => Alive /\ running' # "closing"
    <3>1. CASE \E noEnd : CloseTracked(noEnd)
      <4>1. PICK noEnd : CloseTracked(noEnd)
        BY <3>1
      <4>2. left["death"] <= Budget["death"] /\ left["death"] \in Nat /\ Budget["death"] \in Nat
        BY BudgetAssumption DEF HInv, Environment, Causes
      <4>3. left'["death"] = left["death"] - 1
        BY <4>1 DEF CloseTracked, HInv, Environment, Causes
      <4>4. QED
        BY <4>2, <4>3 DEF Alive
    <3>2. CASE TickSome \/ Boot \/ Pass \/ Rest \/ UNCHANGED vars
      <4>1. left'["death"] = left["death"] /\ running' \in {running, "up"}
        BY <3>2 DEF TickSome, Tick, Spend, Boot, Pass, Rest, vars, HInv, Environment, Causes
      <4>2. QED
        BY <4>1 DEF Alive, OfferInv
    <3>3. QED
      BY <1>9, <3>1, <3>2
  <2>3. Ids' = Ids
    BY <2>1 DEF Ids
  <2>4. QED
    BY <1>1, <2>1, <2>2, <2>3, Untold DEF At
<1>10. CASE Exit \/ Crash
  <2>1. \A p \in Procs : ~At(p, "offer")'
    BY <1>10 DEF Exit, Crash, Die, Idle, At
  <2>2. ~Alive'
    <3>1. left["death"] <= Budget["death"] /\ left["death"] \in Nat /\ Budget["death"] \in Nat
      BY BudgetAssumption DEF HInv, Environment, Causes
    <3>2. CASE Exit
      BY <3>2 DEF Exit, Alive, OfferInv
    <3>3. CASE Crash
      <4>1. left'["death"] = left["death"] - 1
        BY <3>3 DEF Crash, Spend, HInv, Environment, Causes
      <4>2. QED
        BY <3>1, <4>1 DEF Alive
    <3>4. QED
      BY <1>10, <3>2, <3>3
  <2>3. QED
    BY <2>1, <2>2 DEF OfferInv
<1>11. QED
  BY <1>3, <1>6, <1>7, <1>8, <1>9, <1>10 DEF Next, Step

LEMMA InitOfferInv == Init => OfferInv
<1> SUFFICES ASSUME Init PROVE OfferInv
  OBVIOUS
<1>1. Ids = {} /\ running = "down" /\ \A p \in Procs : ~At(p, "offer")
  BY DEF Init, Ids, At, Idle
<1>2. QED
  BY <1>1 DEF OfferInv

LEMMA ToldOnce == HInv /\ OfferInv => OfferedOnce
BY DEF HInv, Tables, RowTypes, OfferInv, OfferedOnce, Told, Alive, Pending

\* The observer hears of a logical recording access once, in a process that
\* does not die.
THEOREM HttpOfferedOnce == Spec => []OfferedOnce
<1>1. HInv /\ OfferInv /\ [Next]_vars => OfferInv'
  BY StepOfferInv
<1>2. QED
  BY <1>1, InitOfferInv, ToldOnce, HttpInvariance, PTL DEF Spec

-------------------------------------------------------------------------------
\* An open interval that rolls is the one that a map holds for its person or
\* request; a failed End of tick is what can change that.
InMap(e) ==
  IF rows[e].who.kind = "activity"
  THEN /\ rows[e].who.actor \in DOMAIN activities
       /\ activities[rows[e].who.actor].eid = e
  ELSE rows[e].who \in DOMAIN leases /\ leases[rows[e].who].eid = e
Mapped == running = "up" => \A e \in Ids : IsOpen(rows[e]) /\ Rolls(e) => InMap(e)
MapInv == NoFaults => Mapped

LEMMA LeftShrinks ==
  ASSUME HInv, [Next]_vars
  PROVE  left'["fault"] <= left["fault"] /\ left'["abort"] <= left["abort"]
<1>1. left \in [Causes -> Nat] /\ {"request", "fault", "abort", "death"} \subseteq Causes
  BY DEF HInv, Environment, Causes
<1>2. ASSUME NEW cause \in Causes, NEW n \in Nat, Spend(cause, n)
      PROVE  \A c \in Causes : left'[c] = IF c = cause THEN left[c] - n ELSE left[c]
  BY <1>1, <1>2 DEF Spend
<1>3. ASSUME NEW cause \in Causes, NEW n \in Nat, Spend(cause, n)
      PROVE  left'["fault"] <= left["fault"] /\ left'["abort"] <= left["abort"]
  BY <1>1, <1>2, <1>3
<1>4. CASE left' = left
  BY <1>1, <1>4
<1>5. ASSUME NEW p \in Procs, Step(p)
      PROVE  left'["fault"] <= left["fault"] /\ left'["abort"] <= left["abort"]
  <2>1. (\E ok \in BOOLEAN : Try(ok)) \/ left' = left
    BY <1>5 DEF Step, RecordActivity, Touch, StartLease, StartAccess, Renew, Offer, Register,
                EndHTTP, EndSignal, EndRow, env
  <2>2. QED
    BY <1>1, <1>3, <1>4, <2>1 DEF Try
<1>6. ASSUME NEW p \in Procs, NEW r \in Requests, Arrive(p, r)
      PROVE  left'["fault"] <= left["fault"] /\ left'["abort"] <= left["abort"]
  <2>1. Accesses(r.kind) \in Nat
    BY BatchAssumption DEF Accesses
  <2>2. QED
    BY <1>1, <1>3, <1>6, <2>1 DEF Arrive
<1>7. ASSUME NEW p \in Procs, Abort(p)
      PROVE  left'["fault"] <= left["fault"] /\ left'["abort"] <= left["abort"]
  <2>1. procs[p].eids \subseteq Ids
    BY DEF HInv, Handler, Duty, InHand
  <2>2. Cardinality(procs[p].eids) \in Nat
    BY <2>1, SomeIds DEF HInv, Tables
  <2>3. QED
    BY <1>1, <1>3, <1>7, <2>2 DEF Abort
<1>8. ASSUME NEW noEnd, Tick(noEnd)
      PROVE  left'["fault"] <= left["fault"] /\ left'["abort"] <= left["abort"]
  <2>1. noEnd \subseteq Ids
    BY <1>8, Expiries DEF Tick
  <2>2. Cardinality(noEnd) \in Nat
    BY <2>1, SomeIds DEF HInv, Tables
  <2>3. QED
    BY <1>1, <1>3, <1>8, <2>2 DEF Tick
<1>9. ASSUME NEW noEnd \in SUBSET TrackedEvents, CloseTracked(noEnd)
      PROVE  left'["fault"] <= left["fault"] /\ left'["abort"] <= left["abort"]
  <2>1. Cardinality(noEnd) \in Nat
    BY TrackedIds, SomeIds DEF HInv, Tables
  <2>2. left' = [left EXCEPT !["death"] = @ - 1, !["fault"] = @ - Cardinality(noEnd)]
    BY <1>9 DEF CloseTracked
  <2>3. QED
    BY <1>1, <2>1, <2>2
<1>10. CASE Exit \/ Crash
  BY <1>1, <1>3, <1>4, <1>10 DEF Exit, Crash
<1>11. CASE Boot \/ Pass \/ Rest \/ UNCHANGED vars
  BY <1>4, <1>11 DEF Boot, Pass, Rest, vars
<1>12. QED
  BY <1>5, <1>6, <1>7, <1>8, <1>9, <1>10, <1>11 DEF Next, TickSome

LEMMA MapKept ==
  ASSUME HInv, [Next]_vars, Mapped, running' = "up" => running = "up",
         running' = "up" => /\ \A e \in Ids : IsOpen(rows'[e]) /\ InMap(e) => InMap(e)'
                            /\ \A e \in Ids' \ Ids : Rolls(e)' => InMap(e)'
  PROVE  Mapped'
<1>1. SameWho
  BY StepSameWho
<1>2. ASSUME running' = "up", NEW e \in Ids', IsOpen(rows'[e]), Rolls(e)'
      PROVE  InMap(e)'
  <2>1. CASE e \in Ids
    <3>1. IsOpen(rows[e]) /\ Rolls(e)
      BY <1>1, <1>2, <2>1 DEF SameWho, Rolls
    <3>2. InMap(e)
      BY <1>2, <2>1, <3>1 DEF Mapped
    <3>3. QED
      BY <1>2, <2>1, <3>2
  <2>2. CASE e \notin Ids
    BY <1>2, <2>2
  <2>3. QED
    BY <2>1, <2>2
<1>3. QED
  BY <1>2 DEF Mapped

\* The maps keep their rows.
Remembered ==
  /\ \A a \in DOMAIN activities : a \in DOMAIN activities' /\ activities'[a].eid = activities[a].eid
  /\ \A r \in DOMAIN leases : r \in DOMAIN leases' /\ leases'[r].eid = leases[r].eid

LEMMA MapRemembered ==
  ASSUME HInv, [Next]_vars, Mapped, running' = "up" => running = "up", Remembered,
         running' = "up" => \A e \in Ids' \ Ids : Rolls(e)' => InMap(e)'
  PROVE  Mapped'
<1>1. \A e \in Ids : InMap(e) => InMap(e)'
  BY StepSameWho DEF SameWho, InMap, Remembered
<1>2. QED
  BY <1>1, MapKept

LEMMA StepMapped ==
  ASSUME HInv, Mapped, [Next]_vars, left'["fault"] >= left["fault"]
  PROVE  Mapped'
<1>1. ASSUME NEW p \in Procs, NEW who \in Whos, ~At(p, "idle"), Start(p, who), clock' = clock
      PROVE  /\ Ids' = Ids \cup {nextId} /\ nextId \notin Ids /\ nextId \in Nat
             /\ rows'[nextId].who = who
  <2>1. /\ Ids' = Ids \cup {nextId} /\ nextId \notin Ids /\ nextId \in Nat
        /\ rows'[nextId] = [who |-> who, started |-> procs[p].now,
                            lastSeen |-> procs[p].now, ended |-> Null]
    BY <1>1, Busy, Starts DEF HInv
  <2>2. QED
    BY <2>1
<1>2. CASE /\ nextId' = nextId /\ activities' = activities /\ leases' = leases
           /\ running' = "up" => running = "up"
  BY <1>2, MapRemembered DEF Remembered, Ids
<1>3. ASSUME NEW p \in Procs, NEW ok \in BOOLEAN,
             \/ Touch(p, ok) \/ Offer(p) \/ Register(p) \/ EndHTTP(p)
             \/ EndSignal(p, ok) \/ EndRow(p, ok) \/ Abort(p) \/ \E r \in Requests : Arrive(p, r)
      PROVE  Mapped'
  BY <1>2, <1>3 DEF Touch, Offer, Register, EndHTTP, EndSignal, EndRow, Abort, Arrive, tracked,
                    store, env, Try
<1>4. ASSUME NEW p \in Procs, NEW ok \in BOOLEAN, RecordActivity(p, ok), NEW a, a = procs[p].req.actor
      PROVE  Mapped'
  <2> DEFINE eid == IF a \in DOMAIN activities THEN activities[a].eid ELSE IF ok THEN nextId ELSE 0
  <2>1. /\ activities' = With(activities, a, [eid |-> eid, lastSeen |-> procs[p].now])
        /\ leases' = leases /\ running' = running /\ clock' = clock
        /\ ~At(p, "idle") /\ procs[p].req \in Requests
    BY <1>4, Busy DEF RecordActivity, Try, At
  <2>2. Remembered /\ a \in DOMAIN activities' /\ activities'[a].eid = eid
    BY <2>1 DEF With, Remembered
  <2>3. CASE Start(p, Person(a)) /\ a \notin DOMAIN activities /\ ok
    <3>1. Person(a) \in Whos
      BY <1>4, <2>1 DEF Whos
    <3>2. Ids' = Ids \cup {nextId} /\ rows'[nextId].who = Person(a)
      BY <1>1, <2>1, <2>3, <3>1
    <3>3. ASSUME NEW e \in Ids' \ Ids
          PROVE  InMap(e)'
      <4>1. e = nextId /\ rows'[e].who = Person(a) /\ activities'[a].eid = e
        BY <2>2, <2>3, <3>2
      <4>2. QED
        BY <2>2, <4>1 DEF InMap, Person
    <3>4. QED
      BY <2>1, <2>2, <3>3, MapRemembered
  <2>4. CASE nextId' = nextId
    BY <2>1, <2>2, <2>4, MapRemembered DEF Ids
  <2>5. QED
    BY <1>4, <2>3, <2>4 DEF RecordActivity, Person, StartFails, Joins, store
<1>5. ASSUME NEW p \in Procs, Renew(p)
      PROVE  Mapped'
  <2>1. Remembered /\ nextId' = nextId /\ running' = running
    BY <1>5 DEF Renew, Remembered, Joins, store, env, HInv, Maps, LeaseOf
  <2>2. QED
    BY <2>1, MapRemembered DEF Ids
<1>6. ASSUME NEW p \in Procs, NEW ok \in BOOLEAN, StartLease(p, ok), NEW r, r = procs[p].req
      PROVE  Mapped'
  <2>1. /\ activities' = activities /\ running' = running /\ clock' = clock
        /\ ~At(p, "idle") /\ r \in Requests /\ r \notin DOMAIN leases
    BY <1>6, Busy DEF StartLease, Try, At
  <2>2. CASE ok
    <3>1. /\ Start(p, r) /\ r \in Whos
          /\ leases' = With(leases, r, [eid |-> nextId, expires |-> procs[p].now + HttpLease(r.kind)])
      BY <1>6, <2>1, <2>2 DEF StartLease, Whos
    <3>2. Remembered /\ r \in DOMAIN leases' /\ leases'[r].eid = nextId
      BY <2>1, <3>1 DEF Remembered, With
    <3>3. Ids' = Ids \cup {nextId} /\ rows'[nextId].who = r
      BY <1>1, <2>1, <3>1
    <3>4. ASSUME NEW e \in Ids' \ Ids
          PROVE  InMap(e)'
      <4>1. e = nextId /\ rows'[e].who = r /\ leases'[r].eid = e
        BY <3>2, <3>3
      <4>2. QED
        BY <2>1, <3>2, <4>1, Leased DEF InMap
    <3>5. QED
      BY <2>1, <3>2, <3>4, MapRemembered
  <2>3. CASE ~ok
    <3>1. nextId' = nextId /\ leases' = leases
      BY <1>6, <2>3 DEF StartLease, StartFails, store
    <3>2. QED
      BY <1>2, <2>1, <3>1
  <2>4. QED
    BY <2>2, <2>3
<1>7. ASSUME NEW p \in Procs, NEW ok \in BOOLEAN, StartAccess(p, ok)
      PROVE  Mapped'
  <2>1. /\ activities' = activities /\ leases' = leases /\ running' = running /\ clock' = clock
        /\ ~At(p, "idle") /\ procs[p].req \in Requests /\ HttpLease(procs[p].req.kind) = 0
    BY <1>7, Busy DEF StartAccess, Try, At, tracked
  <2>2. CASE ok
    <3>1. Start(p, procs[p].req) /\ procs[p].req \in Whos
      BY <1>7, <2>1, <2>2 DEF StartAccess, Whos
    <3>2. Ids' = Ids \cup {nextId} /\ rows'[nextId].who = procs[p].req
      BY <1>1, <2>1, <3>1
    <3>3. \A e \in Ids' \ Ids : ~Rolls(e)'
      <4>1. procs[p].req.kind \notin Rolling
        BY <2>1, Leased DEF Rolling
      <4>2. QED
        BY <3>2, <4>1 DEF Rolls
    <3>4. QED
      BY <2>1, <3>3, MapRemembered DEF Remembered
  <2>3. CASE ~ok
    BY <1>2, <1>7, <2>1, <2>3 DEF StartAccess, StartFails, store
  <2>4. QED
    BY <2>2, <2>3
<1>8. ASSUME NEW noEnd, Tick(noEnd)
      PROVE  Mapped'
  <2> DEFINE ends == [i \in DOMAIN ExpiryEnds(fired) \ noEnd |-> ExpiryEnds(fired)[i]]
  <2>1. /\ fired # Null /\ nextId' = nextId /\ rows' = EndedEach(ends) /\ running' = running
        /\ noEnd \subseteq DOMAIN ExpiryEnds(fired) /\ Spend("fault", Cardinality(noEnd))
    BY <1>8 DEF Tick
  <2>2. \A i \in DOMAIN ends : ends[i] \in Nat
    BY <2>1, Expiries
  <2>3. noEnd = {}
    <3>1. noEnd \subseteq Ids
      BY <2>1, Expiries
    <3>2. Cardinality(noEnd) \in Nat /\ (Cardinality(noEnd) = 0 <=> noEnd = {})
      BY <3>1, SomeIds DEF HInv, Tables
    <3>3. left["fault"] \in Nat
      BY DEF HInv, Environment, Causes
    <3>4. left'["fault"] = left["fault"] - Cardinality(noEnd)
      BY <2>1 DEF Spend, HInv, Environment, Causes
    <3>5. QED
      BY <3>2, <3>3, <3>4
  <2>4. ASSUME NEW e \in Ids, IsOpen(rows'[e]), InMap(e)
        PROVE  InMap(e)'
    <3>1. SameWho /\ IsOpen(rows[e])
      BY <2>4, StepSameWho DEF SameWho
    <3>2. e \notin DOMAIN ends
      <4> HIDE DEF ends
      <4>1. QED
        BY <2>1, <2>2, <2>4, <3>1, EndedEachSame DEF HInv, Tables, RowTypes
    <3>3. e \notin DOMAIN ExpiryEnds(fired) /\ e # 0
      BY <2>3, <2>4, <3>2 DEF Ids
    <3>4. \A a \in StaleActivities(fired) : activities[a].eid # e
      BY <3>3 DEF ExpiryEnds
    <3>5. \A r \in ExpiredLeases(fired) : leases[r].eid # e
      BY <3>3 DEF ExpiryEnds
    <3>6. /\ activities' = [a \in DOMAIN activities \ StaleActivities(fired) |-> activities[a]]
          /\ leases' = [r \in DOMAIN leases \ ExpiredLeases(fired) |-> leases[r]]
      BY <1>8 DEF Tick
    <3>7. rows'[e].who = rows[e].who
      BY <2>4, <3>1 DEF SameWho
    <3>8. QED
      BY <2>4, <3>4, <3>5, <3>6, <3>7 DEF InMap
  <2>5. Ids' = Ids
    BY <2>1 DEF Ids
  <2>6. QED
    BY <2>1, <2>4, <2>5, MapKept
<1>9. CASE (\E noEnd : CloseTracked(noEnd)) \/ Exit \/ Crash
  BY <1>9 DEF CloseTracked, Exit, Crash, Die, Mapped
<1>10. CASE Boot
  <2>1. \A e \in Ids' : ~IsOpen(rows'[e])
    BY <1>10, RecoveredSame DEF Boot, HInv, Tables, Environment, RowTypes, Ids
  <2>2. QED
    BY <2>1 DEF Mapped
<1>11. CASE Pass \/ Rest \/ UNCHANGED vars
  BY <1>2, <1>11 DEF Pass, Rest, vars, tracked, store
<1>12. QED
  BY <1>3, <1>4, <1>5, <1>6, <1>7, <1>8, <1>9, <1>10, <1>11 DEF Next, Step, TickSome

LEMMA StepMapInv ==
  ASSUME HInv, MapInv, [Next]_vars
  PROVE  MapInv'
<1>1. SUFFICES ASSUME NoFaults' PROVE Mapped'
  BY DEF MapInv
<1>2. /\ left["fault"] <= Budget["fault"] /\ left["abort"] <= Budget["abort"]
      /\ left["fault"] \in Nat /\ left["abort"] \in Nat
      /\ Budget["fault"] \in Nat /\ Budget["abort"] \in Nat
  BY BudgetAssumption DEF HInv, Environment, Causes
<1>3. NoFaults /\ left'["fault"] >= left["fault"]
  BY <1>1, <1>2, LeftShrinks DEF NoFaults
<1>4. QED
  BY <1>3, StepMapped DEF MapInv

\* Two open intervals that roll are not of the same person or request.
LEMMA MappedOnce ==
  ASSUME HInv, Mapped, running = "up", NEW e \in OpenRows, NEW f \in OpenRows,
         rows[e].who = rows[f].who, rows[e].who.kind \in Rolling
  PROVE  e = f
<1>1. InMap(e) /\ InMap(f)
  BY OpenIds DEF Mapped, Rolls
<1>2. QED
  BY <1>1 DEF InMap

\* A person has one rolling session and one lease per access at a time, however
\* many goroutines ask for it at once.
THEOREM HttpOneInterval == Spec => []OneInterval
<1>1. Init => MapInv
  BY DEF Init, MapInv, Mapped
<1>2. HInv /\ MapInv /\ [Next]_vars => MapInv'
  BY StepMapInv
<1>3. HInv /\ MapInv => OneInterval
  BY MappedOnce DEF MapInv, OneInterval
<1>4. QED
  BY <1>1, <1>2, <1>3, HttpInvariance, PTL DEF Spec

-------------------------------------------------------------------------------
\* Whose row is whose: those a goroutine will end, and those of the maps.
Mine(p) ==
  procs[p].eids \cup
    IF At(p, "register") \/ (At(p, "offer") /\ HttpLease(procs[p].req.kind) = 0)
    THEN {procs[p].eid} ELSE {}
Owned(e) == e \in TrackedEvents \/ \E p \in Procs : e \in Mine(p)
Lost == {e \in Ids : IsOpen(rows[e]) /\ ~Owned(e)}

\* Each lost row and each person without a row has cost a failure.
Spent == (Budget["fault"] - left["fault"]) + (Budget["abort"] - left["abort"])
OwnInv ==
  /\ IsFiniteSet(DOMAIN activities)
  /\ running = "up" => Cardinality(Lost) + Cardinality(Unstored) <= Spent

LEMMA Grown ==
  ASSUME NEW S, NEW T, NEW X, IsFiniteSet(S), IsFiniteSet(X), T \subseteq S \cup X
  PROVE  Cardinality(T) \in Nat /\ Cardinality(T) <= Cardinality(S) + Cardinality(X)
<1>1. /\ IsFiniteSet(S \cup X)
      /\ Cardinality(S \cup X) = Cardinality(S) + Cardinality(X) - Cardinality(S \cap X)
  BY FS_Union
<1>2. IsFiniteSet(T) /\ Cardinality(T) <= Cardinality(S \cup X)
  BY <1>1, FS_Subset
<1>3. IsFiniteSet(S \cap X)
  BY FS_Subset
<1>4. /\ Cardinality(S) \in Nat /\ Cardinality(X) \in Nat /\ Cardinality(T) \in Nat
      /\ Cardinality(S \cap X) \in Nat /\ Cardinality(S \cup X) \in Nat
  BY <1>1, <1>2, <1>3, FS_CardinalityType
<1>5. QED
  BY <1>1, <1>2, <1>4

LEMMA Costs ==
  ASSUME HInv, HInv', OwnInv, [Next]_vars, running = "up",
         NEW X, NEW Y, IsFiniteSet(X), IsFiniteSet(Y), IsFiniteSet(DOMAIN activities'),
         Lost' \subseteq Lost \cup X, Unstored' \subseteq Unstored \cup Y,
         Cardinality(X) + Cardinality(Y)
           <= (left["fault"] - left'["fault"]) + (left["abort"] - left'["abort"])
  PROVE  OwnInv'
<1>1. IsFiniteSet(Lost)
  BY SomeIds DEF Lost, HInv, Tables
<1>2. IsFiniteSet(Unstored)
  BY FS_Subset DEF OwnInv, Unstored
<1>3. /\ Cardinality(Lost') <= Cardinality(Lost) + Cardinality(X)
      /\ Cardinality(Unstored') <= Cardinality(Unstored) + Cardinality(Y)
      /\ Cardinality(Lost') \in Nat /\ Cardinality(Unstored') \in Nat
  BY <1>1, <1>2, Grown
<1>4. /\ Cardinality(Lost) \in Nat /\ Cardinality(X) \in Nat
      /\ Cardinality(Unstored) \in Nat /\ Cardinality(Y) \in Nat
  BY <1>1, <1>2, FS_CardinalityType
<1>5. /\ left["fault"] \in Nat /\ left'["fault"] \in Nat /\ Budget["fault"] \in Nat
      /\ left["abort"] \in Nat /\ left'["abort"] \in Nat /\ Budget["abort"] \in Nat
  BY BudgetAssumption DEF HInv, Environment, Causes
<1>6. Cardinality(Lost) + Cardinality(Unstored)
        <= (Budget["fault"] - left["fault"]) + (Budget["abort"] - left["abort"])
  BY DEF OwnInv, Spent
<1>7. Cardinality(Lost') + Cardinality(Unstored')
        <= (Budget["fault"] - left'["fault"]) + (Budget["abort"] - left'["abort"])
  BY <1>3, <1>4, <1>5, <1>6
<1>8. QED
  BY <1>7 DEF OwnInv, Spent

\* A step of one goroutine that costs the rows X and the people Y.
LEMMA GoroutineCosts ==
  ASSUME HInv, HInv', OwnInv, [Next]_vars, running' = running, NEW p \in Procs, Others(p),
         NEW X, NEW Y, IsFiniteSet(X), IsFiniteSet(Y), IsFiniteSet(DOMAIN activities'),
         \A e \in Ids : IsOpen(rows'[e]) /\ (e \in TrackedEvents \/ e \in Mine(p))
                          => e \in TrackedEvents' \/ e \in Mine(p)' \/ e \in X,
         \A e \in Ids' \ Ids : e \in TrackedEvents' \/ e \in Mine(p)',
         Unstored' \subseteq Unstored \cup Y,
         Cardinality(X) + Cardinality(Y)
           <= (left["fault"] - left'["fault"]) + (left["abort"] - left'["abort"])
  PROVE  OwnInv'
<1>1. CASE running = "up"
  <2>1. ASSUME NEW q \in Procs, q # p
        PROVE  Mine(q)' = Mine(q)
    BY <2>1 DEF Others, Mine, At
  <2>2. ASSUME NEW e \in Lost'
        PROVE  e \in Lost \cup X
    <3>1. e \in Ids' /\ IsOpen(rows'[e]) /\ e \notin TrackedEvents' /\ \A q \in Procs : e \notin Mine(q)'
      BY <2>2 DEF Lost, Owned
    <3>2. e \in Ids /\ IsOpen(rows[e])
      BY <3>1, StepSameWho DEF SameWho
    <3>3. CASE Owned(e)
      BY <2>1, <3>1, <3>2, <3>3 DEF Owned
    <3>4. CASE ~Owned(e)
      BY <3>2, <3>4 DEF Lost
    <3>5. QED
      BY <3>3, <3>4
  <2>3. QED
    BY <1>1, <2>2, Costs
<1>2. CASE running # "up"
  BY <1>2 DEF OwnInv
<1>3. QED
  BY <1>1, <1>2

\* ... and one that costs nothing, in which the maps keep their rows.
LEMMA GoroutineKeeps ==
  ASSUME HInv, HInv', OwnInv, [Next]_vars, running' = running, NEW p \in Procs, Others(p),
         Remembered, IsFiniteSet(DOMAIN activities'), Unstored' \subseteq Unstored,
         liveHTTP \subseteq liveHTTP' \cup Mine(p)', Mine(p) \subseteq Mine(p)',
         \A e \in Ids' \ Ids : e \in TrackedEvents' \/ e \in Mine(p)'
  PROVE  OwnInv'
<1>1. TrackedEvents \subseteq TrackedEvents' \cup Mine(p)'
  BY DEF TrackedEvents, Remembered
<1>2. Cardinality({}) = 0 /\ IsFiniteSet({})
  BY FS_EmptySet
<1>3. /\ left["fault"] \in Nat /\ left'["fault"] \in Nat
      /\ left["abort"] \in Nat /\ left'["abort"] \in Nat
  BY DEF HInv, Environment, Causes
<1>4. 0 + 0 <= (left["fault"] - left'["fault"]) + (left["abort"] - left'["abort"])
  BY <1>3, LeftShrinks
<1>5. QED
  BY <1>1, <1>2, <1>4, GoroutineCosts

LEMMA StepOwnInv ==
  ASSUME HInv, HInv', OwnInv, [Next]_vars
  PROVE  OwnInv'
<1>1. /\ left \in [Causes -> Nat] /\ {"request", "fault", "abort", "death"} \subseteq Causes
      /\ IsFiniteSet(DOMAIN activities)
  BY DEF HInv, Environment, Causes, OwnInv
<1>2. Cardinality({}) = 0 /\ IsFiniteSet({}) /\ \A e : IsFiniteSet({e}) /\ Cardinality({e}) = 1
  BY FS_EmptySet, FS_Singleton
<1>3. ASSUME Try(FALSE)
      PROVE  left["fault"] - left'["fault"] = 1 /\ left["abort"] - left'["abort"] = 0
  BY <1>1, <1>3 DEF Try, Spend
<1>4. ASSUME NEW p \in Procs, NEW ok \in BOOLEAN, Touch(p, ok) \/ Offer(p) \/ Renew(p)
      PROVE  OwnInv'
  <2>1. /\ activities' = activities /\ liveHTTP' = liveHTTP /\ running' = running
        /\ nextId' = nextId
    BY <1>4 DEF Touch, Offer, Renew, tracked, Try, env, Joins, store
  <2>2. Remembered
    BY <1>4, <2>1 DEF Touch, Offer, Renew, tracked, Remembered, HInv, Maps, LeaseOf
  <2>3. Others(p)
    BY <1>4, OthersStay DEF Touch, Offer, Renew
  <2>4. Mine(p) \subseteq Mine(p)'
    <3>1. CASE Offer(p)
      <4>1. HttpLease(procs[p].req.kind) \in Nat
        BY <3>1, Busy, Leased DEF Offer, At
      <4>2. procs'[p].eids = procs[p].eids
              \cup IF HttpLease(procs[p].req.kind) > 0 THEN {} ELSE {procs[p].eid}
        BY <3>1 DEF Offer, Started, HInv, Goroutine
      <4>3. QED
        BY <3>1, <4>1, <4>2 DEF Offer, Mine, At
    <3>2. CASE Touch(p, ok) \/ Renew(p)
      <4>1. procs'[p].eids = procs[p].eids
        BY <3>2 DEF Touch, Renew, Go, Started, HInv, Goroutine
      <4>2. Mine(p) = procs[p].eids
        BY <3>2 DEF Touch, Renew, Mine, At
      <4>3. QED
        BY <4>1, <4>2 DEF Mine
    <3>3. QED
      BY <1>4, <3>1, <3>2
  <2>5. QED
    BY <1>1, <2>1, <2>2, <2>3, <2>4, GoroutineKeeps DEF Unstored, Ids
<1>5. ASSUME NEW p \in Procs, Register(p) \/ EndHTTP(p) \/ \E r \in Requests : Arrive(p, r)
      PROVE  OwnInv'
  <2>1. /\ activities' = activities /\ leases' = leases /\ running' = running
        /\ nextId' = nextId
    BY <1>5 DEF Register, EndHTTP, Arrive, tracked, env, store
  <2>2. CASE Register(p)
    <3>1. Others(p) /\ procs'[p].eids = procs[p].eids \cup {procs[p].eid} /\ liveHTTP \subseteq liveHTTP'
      BY <2>2, OthersStay DEF Register, Started, HInv, Goroutine
    <3>2. QED
      BY <1>1, <2>1, <3>1, GoroutineKeeps DEF Remembered, Unstored, Ids, Mine
  <2>3. CASE EndHTTP(p)
    <3>1. procs \in [Procs -> Goroutine] /\ procs[p].eids \subseteq Nat /\ ~At(p, "register") /\ ~At(p, "offer")
      BY <2>3, Busy DEF EndHTTP, At, HInv
    <3>2. Others(p)
      BY <2>3, <3>1 DEF EndHTTP, Proxied, Others
    <3>3. CASE procs[p].eids = {}
      BY <1>1, <2>1, <2>3, <3>1, <3>2, <3>3, GoroutineKeeps DEF Remembered, Unstored, Ids, Mine, EndHTTP
    <3>4. CASE procs[p].eids # {}
      <4>1. First(p) \in procs[p].eids
        BY <3>1, <3>4, FirstRow
      <4>2. procs' = [procs EXCEPT ![p].at = "close", ![p].eid = First(p),
                        ![p].now = IF At(p, "serve") THEN clock ELSE procs[p].now]
        BY <2>3, <3>4 DEF EndHTTP, Proxied
      <4>3. procs'[p].eids = procs[p].eids
        BY <3>1, <4>2 DEF Goroutine
      <4>4. liveHTTP' = liveHTTP \ {First(p)}
        BY <2>3, <3>4 DEF EndHTTP
      <4>5. QED
        BY <1>1, <2>1, <3>1, <3>2, <4>1, <4>3, <4>4, GoroutineKeeps DEF Remembered, Unstored, Ids, Mine
    <3>5. QED
      BY <3>3, <3>4
  <2>4. CASE \E r \in Requests : Arrive(p, r)
    <3>1. procs[p].eids = {} /\ At(p, "idle")
      BY <2>4 DEF Arrive, HInv, Handler, Duty
    <3>2. Others(p) /\ liveHTTP' = liveHTTP
      BY <2>4 DEF Arrive, Others, HInv, tracked
    <3>3. Mine(p) = {}
      BY <3>1 DEF Mine, At
    <3>4. QED
      BY <1>1, <2>1, <3>2, <3>3, GoroutineKeeps DEF Remembered, Unstored, Ids
  <2>5. QED
    BY <1>5, <2>2, <2>3, <2>4
<1>6. ASSUME NEW p \in Procs, NEW who \in Whos, ~At(p, "idle"), Start(p, who), clock' = clock
      PROVE  \A e \in Ids' \ Ids : e = nextId /\ e # 0
  <2>1. Ids' = Ids \cup {nextId} /\ nextId # 0
    BY <1>6, Busy, Starts DEF HInv, Tables
  <2>2. QED
    BY <2>1
<1>7. ASSUME NEW p \in Procs, NEW ok \in BOOLEAN, RecordActivity(p, ok), NEW a, a = procs[p].req.actor
      PROVE  OwnInv'
  <2> DEFINE eid == IF a \in DOMAIN activities THEN activities[a].eid ELSE IF ok THEN nextId ELSE 0
  <2>1. /\ activities' = With(activities, a, [eid |-> eid, lastSeen |-> procs[p].now])
        /\ leases' = leases /\ liveHTTP' = liveHTTP /\ running' = running /\ clock' = clock
        /\ ~At(p, "idle") /\ At(p, "activity") /\ procs[p].req \in Requests /\ Go(p, "touch", eid)
    BY <1>7, Busy DEF RecordActivity, Try, At
  <2>2. /\ Remembered /\ DOMAIN activities' = DOMAIN activities \cup {a}
        /\ activities'[a].eid = eid /\ \A b \in DOMAIN activities : activities'[b].eid = activities[b].eid
    BY <2>1 DEF With, Remembered
  <2>3. IsFiniteSet(DOMAIN activities')
    BY <1>1, <2>2, FS_AddElement
  <2>4. Others(p) /\ procs'[p].eids = procs[p].eids /\ Mine(p) = procs[p].eids /\ Mine(p) \subseteq Mine(p)'
    <3>1. Others(p) /\ procs'[p].eids = procs[p].eids
      BY <2>1, GoneEids
    <3>2. QED
      BY <2>1, <3>1 DEF Mine, At
  <2>5. CASE a \in DOMAIN activities
    <3>1. nextId' = nextId
      BY <1>7, <2>5 DEF RecordActivity, Joins, store
    <3>2. Unstored' = Unstored
      BY <2>2, <2>5 DEF Unstored
    <3>3. QED
      BY <2>1, <2>2, <2>3, <2>4, <3>1, <3>2, GoroutineKeeps DEF Ids
  <2>6. CASE a \notin DOMAIN activities /\ ok
    <3>1. Start(p, Person(a)) /\ Person(a) \in Whos
      BY <1>7, <2>1, <2>6 DEF RecordActivity, Person, Whos
    <3>2. nextId # 0 /\ eid = nextId
      BY <2>6 DEF HInv, Tables
    <3>3. Unstored' \subseteq Unstored
      BY <2>2, <3>2 DEF Unstored
    <3>4. \A e \in Ids' \ Ids : e \in TrackedEvents'
      BY <1>6, <2>1, <2>2, <3>1, <3>2 DEF TrackedEvents
    <3>5. QED
      BY <2>1, <2>2, <2>3, <2>4, <3>3, <3>4, GoroutineKeeps
  <2>7. CASE a \notin DOMAIN activities /\ ~ok
    <3>1. nextId' = nextId /\ Try(FALSE)
      BY <1>7, <2>7 DEF RecordActivity, StartFails, store
    <3>2. Unstored' \subseteq Unstored \cup {a}
      BY <2>2 DEF Unstored
    <3>3. TrackedEvents \subseteq TrackedEvents'
      BY <2>1, <2>2 DEF TrackedEvents, Remembered
    <3>4. Cardinality({}) + Cardinality({a})
            <= (left["fault"] - left'["fault"]) + (left["abort"] - left'["abort"])
      <4>1. Cardinality({}) = 0 /\ Cardinality({a}) = 1
        BY <1>2
      <4>2. left["fault"] - left'["fault"] = 1 /\ left["abort"] - left'["abort"] = 0
        BY <1>3, <3>1
      <4>3. QED
        BY <4>1, <4>2
    <3>5. QED
      BY <1>2, <2>1, <2>3, <2>4, <3>1, <3>2, <3>3, <3>4, GoroutineCosts DEF Ids
  <2>8. QED
    BY <2>5, <2>6, <2>7
<1>8. ASSUME NEW p \in Procs, NEW ok \in BOOLEAN, StartLease(p, ok) \/ StartAccess(p, ok),
             NEW r, r = procs[p].req
      PROVE  OwnInv'
  <2>1. /\ activities' = activities /\ liveHTTP' = liveHTTP /\ running' = running /\ clock' = clock
        /\ ~At(p, "idle") /\ At(p, "access") /\ r \in Requests /\ r \in Whos
    BY <1>8, Busy DEF StartLease, StartAccess, tracked, Try, At, Whos
  <2>2. Others(p) /\ procs'[p].eids = procs[p].eids
    <3>1. (\E at, eid : Go(p, at, eid)) \/ Started(p, {})
      BY <1>8 DEF StartLease, StartAccess
    <3>2. CASE Started(p, {})
      <4>1. procs'[p].eids = procs[p].eids
        BY <3>2 DEF Started, HInv, Goroutine
      <4>2. QED
        BY <3>2, <4>1, OthersStay
    <3>3. CASE \E at, eid : Go(p, at, eid)
      BY <3>3, GoneEids
    <3>4. QED
      BY <3>1, <3>2, <3>3
  <2>3. Mine(p) = procs[p].eids /\ Mine(p) \subseteq Mine(p)'
    BY <2>1, <2>2 DEF Mine, At
  <2>4. Remembered
    <3>1. \/ leases' = leases
          \/ r \notin DOMAIN leases /\ \E lease : leases' = With(leases, r, lease)
      BY <1>8 DEF StartLease, StartAccess, tracked
    <3>2. QED
      BY <2>1, <3>1 DEF With, Remembered
  <2>5. \A e \in Ids' \ Ids : e \in TrackedEvents' \/ e \in Mine(p)'
    <3>1. CASE ~ok
      BY <1>8, <3>1 DEF StartLease, StartAccess, StartFails, store, Ids
    <3>2. CASE ok
      <4>1. \A e \in Ids' \ Ids : e = nextId
        BY <1>6, <1>8, <2>1, <3>2 DEF StartLease, StartAccess
      <4>2. CASE StartLease(p, ok)
        <5>1. r \in DOMAIN leases' /\ leases'[r].eid = nextId
          BY <1>8, <3>2, <4>2 DEF StartLease, With
        <5>2. QED
          BY <4>1, <5>1 DEF TrackedEvents
      <4>3. CASE StartAccess(p, ok)
        <5>1. PICK at \in {"offer", "register"} : Go(p, at, nextId)
          BY <3>2, <4>3 DEF StartAccess
        <5>2. /\ procs'[p].at \in {"offer", "register"} /\ procs'[p].eid = nextId
              /\ procs'[p].req = r /\ HttpLease(r.kind) = 0
          BY <1>8, <4>3, <5>1, Going DEF StartAccess, HInv, Stages, Tables
        <5>3. QED
          BY <4>1, <5>2 DEF Mine, At
      <4>4. QED
        BY <1>8, <4>2, <4>3
    <3>3. QED
      BY <3>1, <3>2
  <2>6. QED
    BY <1>1, <2>1, <2>2, <2>3, <2>4, <2>5, GoroutineKeeps DEF Unstored
<1>9. ASSUME NEW p \in Procs, NEW ok \in BOOLEAN, EndSignal(p, ok) \/ EndRow(p, ok)
      PROVE  OwnInv'
  <2> DEFINE end == [i \in {procs[p].eid} |-> procs[p].now]
             X == IF ok THEN {} ELSE {procs[p].eid}
  <2>1. /\ tracked' = tracked /\ nextId' = nextId /\ Try(ok) /\ running' = running
        /\ rows' = IF ok THEN EndedAt(rows, procs[p].now, end) ELSE rows
    BY <1>9 DEF EndSignal, EndRow, Try
  <2>2. procs[p].now \in Nat /\ procs \in [Procs -> Goroutine] /\ procs[p].at \in {"register", "close"}
    BY <1>9, Busy DEF EndSignal, EndRow, At, HInv
  <2>3. TrackedEvents' = TrackedEvents /\ Unstored' = Unstored /\ Ids' = Ids
        /\ DOMAIN activities' = DOMAIN activities
    BY <2>1 DEF tracked, TrackedEvents, Unstored, Ids
  <2>4. Others(p)
    BY <1>9, OthersStay DEF EndSignal, EndRow
  <2>5. procs[p].eids \subseteq procs'[p].eids \cup {procs[p].eid}
    <3>1. CASE EndSignal(p, ok)
      BY <2>2, <3>1 DEF EndSignal, Started, Goroutine
    <3>2. CASE EndRow(p, ok)
      <4>1. CASE procs[p].eids \ {procs[p].eid} = {}
        BY <4>1
      <4>2. CASE procs[p].eids \ {procs[p].eid} # {}
        <5>1. procs' = [procs EXCEPT ![p].at = "next", ![p].eid = 0,
                                     ![p].eids = procs[p].eids \ {procs[p].eid}]
          BY <3>2, <4>2 DEF EndRow
        <5>2. QED
          BY <2>2, <5>1 DEF Goroutine
      <4>3. QED
        BY <4>1, <4>2
    <3>3. QED
      BY <1>9, <3>1, <3>2
  <2>6. Mine(p) \subseteq Mine(p)' \cup {procs[p].eid}
    BY <2>2, <2>5 DEF Mine, At
  <2>7. ok => ~IsOpen(rows'[procs[p].eid]) \/ procs[p].eid \notin Ids
    BY <2>1, <2>2, NullAssumption DEF EndedAt, IsOpen, HInv, Tables, RowTypes
  <2>8. /\ IsFiniteSet(X) /\ Cardinality(X) = IF ok THEN 0 ELSE 1
    BY <1>2
  <2>9. left["fault"] - left'["fault"] = (IF ok THEN 0 ELSE 1) /\ left["abort"] - left'["abort"] = 0
    BY <1>1, <1>3, <2>1 DEF Try, Spend
  <2>10. Cardinality(X) + Cardinality({})
           <= (left["fault"] - left'["fault"]) + (left["abort"] - left'["abort"])
    BY <1>2, <2>8, <2>9
  <2>11. \A e \in Ids : IsOpen(rows'[e]) /\ (e \in TrackedEvents \/ e \in Mine(p))
                          => e \in TrackedEvents' \/ e \in Mine(p)' \/ e \in X
    BY <2>3, <2>6, <2>7
  <2> HIDE DEF X
  <2>12. QED
    BY <1>1, <1>2, <2>1, <2>3, <2>4, <2>8, <2>10, <2>11, GoroutineCosts
<1>10. ASSUME NEW p \in Procs, Abort(p)
       PROVE  OwnInv'
  <2> DEFINE X == procs[p].eids
  <2>1. /\ UNCHANGED <<tracked, store>> /\ running' = running /\ Others(p)
        /\ Spend("abort", Cardinality(X)) /\ At(p, "serve")
    BY <1>10, OthersStay DEF Abort
  <2>2. X \subseteq Ids
    BY DEF HInv, Handler, Duty, InHand
  <2>3. IsFiniteSet(X) /\ Cardinality(X) \in Nat
    BY <2>2, SomeIds DEF HInv, Tables
  <2>4. left["fault"] - left'["fault"] = 0 /\ left["abort"] - left'["abort"] = Cardinality(X)
    BY <1>1, <2>1, <2>3 DEF Spend
  <2>5. Cardinality(X) + Cardinality({})
          <= (left["fault"] - left'["fault"]) + (left["abort"] - left'["abort"])
    BY <1>2, <2>3, <2>4
  <2>6. /\ TrackedEvents' = TrackedEvents /\ Unstored' = Unstored /\ Ids' = Ids
        /\ DOMAIN activities' = DOMAIN activities
    BY <2>1 DEF tracked, store, TrackedEvents, Unstored, Ids
  <2>7. Mine(p) = X
    BY <2>1 DEF Mine, At
  <2> HIDE DEF X
  <2>8. QED
    BY <1>1, <1>2, <2>1, <2>3, <2>5, <2>6, <2>7, GoroutineCosts
<1>11. ASSUME NEW noEnd, Tick(noEnd)
       PROVE  OwnInv'
  <2> DEFINE ends == [i \in DOMAIN ExpiryEnds(fired) \ noEnd |-> ExpiryEnds(fired)[i]]
  <2>1. /\ fired # Null /\ nextId' = nextId /\ rows' = EndedEach(ends) /\ running = "up"
        /\ noEnd \subseteq DOMAIN ExpiryEnds(fired) /\ Spend("fault", Cardinality(noEnd))
        /\ procs' = procs /\ liveHTTP' = liveHTTP
        /\ activities' = [a \in DOMAIN activities \ StaleActivities(fired) |-> activities[a]]
        /\ leases' = [r \in DOMAIN leases \ ExpiredLeases(fired) |-> leases[r]]
    BY <1>11 DEF Tick
  <2>2. noEnd \subseteq Ids /\ \A i \in DOMAIN ends : ends[i] \in Nat
    BY <2>1, Expiries
  <2>3. IsFiniteSet(noEnd) /\ Cardinality(noEnd) \in Nat
    BY <2>2, SomeIds DEF HInv, Tables
  <2>4. left["fault"] - left'["fault"] = Cardinality(noEnd) /\ left["abort"] - left'["abort"] = 0
    BY <1>1, <2>1, <2>3 DEF Spend
  <2>5. Cardinality(noEnd) + Cardinality({})
          <= (left["fault"] - left'["fault"]) + (left["abort"] - left'["abort"])
    BY <1>2, <2>3, <2>4
  <2>6. Unstored' \subseteq Unstored /\ Ids' = Ids
    BY <2>1 DEF Unstored, Ids
  <2>7. IsFiniteSet(DOMAIN activities')
    BY <1>1, <2>1, FS_Subset
  <2>8. ASSUME NEW e \in Lost'
        PROVE  e \in Lost \cup noEnd
    <3>1. e \in Ids /\ IsOpen(rows'[e]) /\ IsOpen(rows[e])
      BY <2>6, <2>8, StepSameWho DEF Lost, SameWho
    <3>2. e \notin DOMAIN ends
      <4> HIDE DEF ends
      <4>1. QED
        BY <2>1, <2>2, <3>1, EndedEachSame DEF HInv, Tables, RowTypes
    <3>3. CASE e \in TrackedEvents
      <4>1. e # 0 /\ e \notin TrackedEvents'
        BY <2>8, <3>1 DEF Lost, Owned, Ids
      <4>2. \/ \E a \in StaleActivities(fired) : activities[a].eid = e
            \/ \E r \in ExpiredLeases(fired) : leases[r].eid = e
        BY <2>1, <3>3, <4>1 DEF TrackedEvents
      <4>3. e \in DOMAIN ExpiryEnds(fired)
        BY <4>1, <4>2 DEF ExpiryEnds
      <4>4. QED
        BY <3>2, <4>3
    <3>4. CASE e \notin TrackedEvents
      <4>1. \A p \in Procs : Mine(p)' = Mine(p)
        BY <2>1 DEF Mine, At
      <4>2. QED
        BY <2>8, <3>1, <3>4, <4>1 DEF Lost, Owned
    <3>5. QED
      BY <3>3, <3>4
  <2>9. QED
    BY <1>2, <2>1, <2>3, <2>5, <2>6, <2>7, <2>8, Costs
<1>12. CASE (\E noEnd : CloseTracked(noEnd)) \/ Exit \/ Crash
  <2>1. running' # "up"
    BY <1>12 DEF CloseTracked, Exit, Crash, Die
  <2>2. DOMAIN activities' \in {DOMAIN activities, {}}
    BY <1>12 DEF CloseTracked, tracked, Exit, Crash, Die, Nothing
  <2>3. QED
    BY <1>1, <1>2, <2>1, <2>2 DEF OwnInv
<1>13. CASE Boot
  <2>1. \A e \in Ids' : ~IsOpen(rows'[e])
    BY <1>13, RecoveredSame DEF Boot, HInv, Tables, Environment, RowTypes, Ids
  <2>2. DOMAIN activities' = {}
    BY <1>13 DEF Boot, tracked, HInv, Off
  <2>3. Lost' = {} /\ Unstored' = {}
    BY <2>1, <2>2 DEF Lost, Unstored
  <2>4. /\ left'["fault"] <= Budget["fault"] /\ left'["abort"] <= Budget["abort"]
        /\ left'["fault"] \in Nat /\ left'["abort"] \in Nat
        /\ Budget["fault"] \in Nat /\ Budget["abort"] \in Nat
    BY BudgetAssumption DEF HInv, Environment, Causes
  <2>5. QED
    BY <1>2, <2>2, <2>3, <2>4 DEF OwnInv, Spent
<1>14. CASE Pass \/ Rest \/ UNCHANGED vars
  <2>1. /\ procs' = procs /\ activities' = activities /\ leases' = leases /\ liveHTTP' = liveHTTP
        /\ rows' = rows /\ nextId' = nextId /\ left' = left /\ running' = running
    BY <1>14 DEF Pass, Rest, vars, tracked, store
  <2>2. \A p \in Procs : Mine(p)' = Mine(p)
    BY <2>1 DEF Mine, At
  <2>3. Lost' = Lost /\ Unstored' = Unstored /\ Spent' = Spent
    BY <2>1, <2>2 DEF Lost, Unstored, Spent, Owned, TrackedEvents, Ids
  <2>4. QED
    BY <2>1, <2>3 DEF OwnInv
<1>15. QED
  BY <1>4, <1>5, <1>7, <1>8, <1>9, <1>10, <1>11, <1>12, <1>13, <1>14 DEF Next, Step, TickSome

\* No open row is out of reach and no person is tracked without a row, but for
\* one each failed store call or broken response.
THEOREM HttpOwnedWhileOpen == Spec => []OwnedWhileOpen
<1>1. Init => OwnInv
  BY FS_EmptySet DEF Init, OwnInv, Nothing
<1>2. HInv /\ HInv' /\ OwnInv /\ [Next]_vars => OwnInv'
  BY StepOwnInv
<1>3. HInv /\ OwnInv => OwnedWhileOpen
  <2>1. SUFFICES ASSUME HInv, OwnInv, running = "up"
                 PROVE  Cardinality(Unreachable) + Cardinality(Unstored)
                          <= (Budget["fault"] - left["fault"]) + (Budget["abort"] - left["abort"])
    BY DEF OwnedWhileOpen
  <2>2. \A p \in Procs : Mine(p) \subseteq Held(p)
    BY DEF Mine, Held
  <2>3. Unreachable \subseteq Lost
    BY <2>1, <2>2, OpenIds DEF Unreachable, Lost, Owned
  <2>4. IsFiniteSet(Lost) /\ Cardinality(Lost) \in Nat
    BY <2>1, SomeIds DEF Lost, HInv, Tables
  <2>5. Cardinality(Unreachable) <= Cardinality(Lost) /\ Cardinality(Unreachable) \in Nat
    BY <2>3, <2>4, FS_Subset, FS_CardinalityType
  <2>6. Cardinality(Unstored) \in Nat
    BY <2>1, FS_Subset, FS_CardinalityType DEF OwnInv, Unstored
  <2>7. /\ left["fault"] \in Nat /\ left["abort"] \in Nat
        /\ Budget["fault"] \in Nat /\ Budget["abort"] \in Nat
    BY <2>1, BudgetAssumption DEF HInv, Environment, Causes
  <2>8. QED
    BY <2>1, <2>4, <2>5, <2>6, <2>7 DEF OwnInv, Spent
<1>4. QED
  BY <1>1, <1>2, <1>3, HttpInvariance, PTL DEF Spec

-------------------------------------------------------------------------------
\* What is in liveHTTP is live, and has a goroutine that serves it or has cost
\* a response that broke off.
LiveInv ==
  /\ \A e \in liveHTTP : rows[e].who.kind = "live"
  /\ LiveIsServed

\* A step that leaves the entries X without their request.
LEMMA LiveCosts ==
  ASSUME HInv, HInv', LiveInv, [Next]_vars,
         \A e \in liveHTTP' : e \in liveHTTP \/ rows'[e].who.kind = "live",
         NEW X, IsFiniteSet(X), Outliving' \subseteq Outliving \cup X,
         Cardinality(X) <= left["abort"] - left'["abort"]
  PROVE  LiveInv'
<1>1. \A e \in liveHTTP' : rows'[e].who.kind = "live"
  BY StepSameWho DEF LiveInv, SameWho, HInv, Maps
<1>2. IsFiniteSet(Outliving)
  BY SomeIds DEF Outliving, HInv, Tables, Maps
<1>3. /\ Cardinality(Outliving') <= Cardinality(Outliving) + Cardinality(X)
      /\ Cardinality(Outliving') \in Nat
  BY <1>2, Grown
<1>4. Cardinality(Outliving) \in Nat /\ Cardinality(X) \in Nat
  BY <1>2, FS_CardinalityType
<1>5. left["abort"] \in Nat /\ left'["abort"] \in Nat /\ Budget["abort"] \in Nat
  BY BudgetAssumption DEF HInv, Environment, Causes
<1>6. Cardinality(Outliving) <= Budget["abort"] - left["abort"]
  BY DEF LiveInv, LiveIsServed
<1>7. Cardinality(Outliving') <= Budget["abort"] - left'["abort"]
  BY <1>3, <1>4, <1>5, <1>6
<1>8. QED
  BY <1>1, <1>7 DEF LiveInv, LiveIsServed

LEMMA LiveKept ==
  ASSUME HInv, HInv', LiveInv, [Next]_vars,
         \A e \in liveHTTP' : e \in liveHTTP \/ rows'[e].who.kind = "live",
         Outliving' \subseteq Outliving
  PROVE  LiveInv'
<1>1. IsFiniteSet({}) /\ Cardinality({}) = 0
  BY FS_EmptySet
<1>2. Cardinality({}) <= left["abort"] - left'["abort"]
  BY <1>1, LeftShrinks DEF HInv, Environment, Causes
<1>3. QED
  BY <1>1, <1>2, LiveCosts

\* Who serves an entry goes on to serve it as long as there is one.
LEMMA ServedStay ==
  ASSUME HInv, HInv', LiveInv, [Next]_vars, liveHTTP' \subseteq liveHTTP,
         \A e \in liveHTTP', p \in Procs :
           At(p, "serve") /\ e \in procs[p].eids => procs'[p].at = "serve" /\ e \in procs'[p].eids
  PROVE  LiveInv'
<1>1. Outliving' \subseteq Outliving
  BY DEF Outliving, At
<1>2. QED
  BY <1>1, LiveKept

LEMMA StepLiveInv ==
  ASSUME HInv, HInv', LiveInv, [Next]_vars
  PROVE  LiveInv'
<1>1. SameWho
  BY StepSameWho
<1>2. ASSUME NEW p \in Procs, ~At(p, "serve"), Others(p), liveHTTP' = liveHTTP
      PROVE  LiveInv'
  BY <1>2, ServedStay DEF Others, At
<1>3. ASSUME NEW p \in Procs, NEW ok \in BOOLEAN,
             \/ RecordActivity(p, ok) \/ StartLease(p, ok) \/ StartAccess(p, ok) \/ Renew(p)
             \/ Offer(p) \/ Touch(p, ok) \/ EndSignal(p, ok) \/ EndRow(p, ok)
      PROVE  LiveInv'
  <2>1. ~At(p, "serve") /\ liveHTTP' = liveHTTP
    BY <1>3 DEF RecordActivity, StartLease, StartAccess, Renew, Offer, Touch, EndSignal, EndRow,
                At, tracked
  <2>2. Others(p)
    BY <1>3, OthersStay DEF RecordActivity, StartLease, StartAccess, Renew, Offer, Touch, EndSignal, EndRow
  <2>3. QED
    BY <1>2, <2>1, <2>2
<1>4. ASSUME NEW p \in Procs, Register(p)
      PROVE  LiveInv'
  <2>1. /\ At(p, "register") /\ InHand(p, procs[p].eid) /\ Handler(p)
        /\ procs[p].eid \in Nat /\ procs[p].todo \in Nat /\ procs[p].todo >= 1
    BY <1>4, Busy DEF Register, At, HInv, Handler, Duty
  <2>2. /\ Others(p) /\ procs'[p].at = (IF procs[p].todo > 1 THEN "access" ELSE "serve")
        /\ procs'[p].eids = procs[p].eids \cup {procs[p].eid}
    <3>1. {procs[p].eid} \subseteq Nat /\ Started(p, {procs[p].eid})
      BY <1>4, <2>1 DEF Register
    <3>2. QED
      BY <2>1, <3>1, Starting DEF HInv
  <2>3. liveHTTP' = IF procs[p].req.kind = "live" THEN liveHTTP \cup {procs[p].eid} ELSE liveHTTP
    BY <1>4 DEF Register, HttpAccessAffectsPrivacy
  <2>4. CASE procs[p].req.kind = "live"
    <3>1. procs'[p].at = "serve" /\ procs[p].eid \in procs'[p].eids
      BY <2>1, <2>2, <2>4 DEF Handler, Single, At
    <3>2. rows'[procs[p].eid].who.kind = "live"
      BY <1>1, <2>1, <2>4 DEF InHand, SameWho
    <3>3. ASSUME NEW e \in Outliving'
          PROVE  e \in Outliving
      <4>1. e \in liveHTTP' /\ e # procs[p].eid
        BY <3>1, <3>3 DEF Outliving, At
      <4>2. ASSUME NEW q \in Procs, At(q, "serve")
            PROVE  e \notin procs[q].eids
        <5>1. procs'[q] = procs[q]
          BY <2>1, <2>2, <4>2 DEF Others, At
        <5>2. QED
          BY <3>3, <4>2, <5>1 DEF Outliving, At
      <4>3. QED
        BY <2>3, <2>4, <4>1, <4>2 DEF Outliving
    <3>4. \A e \in liveHTTP' : e \in liveHTTP \/ rows'[e].who.kind = "live"
      BY <2>3, <2>4, <3>2
    <3>5. Outliving' \subseteq Outliving
      BY <3>3
    <3>6. QED
      BY <3>4, <3>5, LiveKept
  <2>5. CASE procs[p].req.kind # "live"
    BY <1>2, <2>1, <2>2, <2>3, <2>5 DEF At
  <2>6. QED
    BY <2>4, <2>5
<1>5. ASSUME NEW p \in Procs, EndHTTP(p)
      PROVE  LiveInv'
  <2>1. ~At(p, "idle") /\ procs[p].eids \subseteq Nat /\ procs[p].at \in {"serve", "next"} /\ Handler(p)
    BY <1>5, Busy DEF EndHTTP, At, HInv
  <2>2. Others(p)
    BY <1>5 DEF EndHTTP, Proxied, Others, HInv
  <2>3. ASSUME NEW e \in liveHTTP', At(p, "serve"), e \in procs[p].eids
        PROVE  FALSE
    <3>1. e \in liveHTTP /\ e # First(p)
      BY <1>5, <2>3 DEF EndHTTP
    <3>2. First(p) \in procs[p].eids
      BY <2>1, <2>3, FirstRow
    <3>3. rows[e].who.kind = "live" /\ rows[e].who = procs[p].req
      BY <2>1, <2>3, <3>1 DEF LiveInv, Handler, Duty, InHand
    <3>4. QED
      BY <2>1, <2>3, <3>1, <3>2, <3>3 DEF Handler, Single, At
  <2>4. liveHTTP' \subseteq liveHTTP
    BY <1>5 DEF EndHTTP
  <2>5. QED
    BY <2>2, <2>3, <2>4, ServedStay DEF Others, At
<1>6. ASSUME NEW p \in Procs, Abort(p)
      PROVE  LiveInv'
  <2> DEFINE X == procs[p].eids
  <2>1. Others(p) /\ liveHTTP' = liveHTTP /\ Spend("abort", Cardinality(X))
    BY <1>6 DEF Abort, Others, tracked
  <2>2. X \subseteq Ids
    BY DEF HInv, Handler, Duty, InHand
  <2>3. IsFiniteSet(X) /\ Cardinality(X) \in Nat
    BY <2>2, SomeIds DEF HInv, Tables
  <2>4. left \in [Causes -> Nat] /\ "abort" \in Causes
    BY DEF HInv, Environment, Causes
  <2>5. Cardinality(X) <= left["abort"] - left'["abort"]
    <3> HIDE DEF X
    <3>1. QED
      BY <2>1, <2>3, <2>4 DEF Spend
  <2>6. Outliving' \subseteq Outliving \cup X
    BY <2>1 DEF Outliving, Others, At
  <2> HIDE DEF X
  <2>7. QED
    BY <2>1, <2>3, <2>5, <2>6, LiveCosts
<1>7. ASSUME NEW p \in Procs, NEW r \in Requests, Arrive(p, r)
      PROVE  LiveInv'
  <2>1. ~At(p, "serve") /\ Others(p) /\ liveHTTP' = liveHTTP
    BY <1>7 DEF Arrive, At, Others, tracked
  <2>2. QED
    BY <1>2, <2>1
<1>8. CASE TickSome \/ (\E noEnd : CloseTracked(noEnd)) \/ Boot \/ Pass \/ Rest \/ UNCHANGED vars
  <2>1. procs' = procs /\ liveHTTP' = liveHTTP
    BY <1>8 DEF TickSome, Tick, CloseTracked, Boot, Pass, Rest, vars, tracked
  <2>2. QED
    BY <2>1, ServedStay DEF At
<1>9. CASE Exit \/ Crash
  <2>1. liveHTTP' = {}
    BY <1>9 DEF Exit, Crash, Die
  <2>2. QED
    BY <2>1, ServedStay
<1>10. QED
  BY <1>3, <1>4, <1>5, <1>6, <1>7, <1>8, <1>9 DEF Next, Step

\* A live request lights a camera as long as it is served and no longer, but for
\* one each response that broke off (gateway.go:183-188, manager.go:654-660).
THEOREM HttpLiveIsServed == Spec => []LiveIsServed
<1>1. Init => LiveInv
  <2>1. SUFFICES ASSUME Init PROVE LiveInv
    OBVIOUS
  <2>2. Outliving = {} /\ liveHTTP = {} /\ left = Budget
    BY <2>1 DEF Init, Outliving
  <2>3. Cardinality(Outliving) = 0 /\ Budget["abort"] \in Nat
    BY <2>2, FS_EmptySet, BudgetAssumption DEF Causes
  <2>4. QED
    BY <2>2, <2>3 DEF LiveInv, LiveIsServed
<1>2. HInv /\ HInv' /\ LiveInv /\ [Next]_vars => LiveInv'
  BY StepLiveInv
<1>3. LiveInv => LiveIsServed
  BY DEF LiveInv
<1>4. QED
  BY <1>1, <1>2, <1>3, HttpInvariance, PTL DEF Spec

\* EndedAfterProxying of the documentation, which a response that breaks off refutes
\* (gateway.go:180-188): nothing else does. As long as no response has broken off and
\* no call to the store has failed, a row that lasts as long as its request is in the
\* hands of a goroutine that will end it, whatever the order of requests, ticks,
\* shutdowns and deaths.
THEOREM HttpEndedAfterProxying ==
  Spec => [](left["abort"] = Budget["abort"] => EndedAfterProxying)
<1>1. Init => OwnInv
  BY FS_EmptySet DEF Init, OwnInv, Nothing
<1>2. HInv /\ HInv' /\ OwnInv /\ [Next]_vars => OwnInv'
  BY StepOwnInv
<1>3. HInv /\ OwnInv /\ LiveIsServed /\ OwnedWhileOpen =>
        (left["abort"] = Budget["abort"] => EndedAfterProxying)
  <2>1. SUFFICES ASSUME HInv, OwnInv, LiveIsServed, OwnedWhileOpen, running = "up", NoFaults,
                        NEW e \in OpenRows, rows[e].who.kind \notin Rolling
                 PROVE  \E p \in Procs : e \in Held(p)
    BY DEF EndedAfterProxying, NoFaults
  <2>2. IsFiniteSet(Unreachable) /\ Cardinality(Unreachable) \in Nat
    <3>1. Unreachable \subseteq Ids
      BY <2>1, OpenIds DEF Unreachable
    <3>2. QED
      BY <2>1, <3>1, SomeIds DEF HInv, Tables
  <2>3. Cardinality(Unstored) \in Nat
    BY <2>1, FS_Subset, FS_CardinalityType DEF OwnInv, Unstored
  <2>4. Cardinality(Unreachable) = 0
    <3>1. /\ left["fault"] \in Nat /\ left["abort"] \in Nat
          /\ Budget["fault"] \in Nat /\ Budget["abort"] \in Nat
      BY <2>1, BudgetAssumption DEF HInv, Environment, Causes
    <3>2. QED
      BY <2>1, <2>2, <2>3, <3>1 DEF OwnedWhileOpen, NoFaults
  <2>5. Unreachable = {}
    BY <2>2, <2>4, FS_EmptySet
  <2>6. e \in TrackedEvents \/ \E p \in Procs : e \in Held(p)
    BY <2>5 DEF Unreachable
  <2>7. CASE \E a \in DOMAIN activities : e = activities[a].eid /\ e # 0
    <3>1. PICK a \in DOMAIN activities : e = activities[a].eid /\ e # 0
      BY <2>7
    <3>2. rows[e].who = Person(a)
      BY <2>1, <3>1 DEF HInv, Maps, Activity
    <3>3. QED
      BY <2>1, <3>2 DEF Person, Rolling
  <2>8. CASE \E r \in DOMAIN leases : e = leases[r].eid
    <3>1. PICK r \in DOMAIN leases : e = leases[r].eid
      BY <2>8
    <3>2. r \in Requests /\ HttpLease(r.kind) > 0 /\ rows[e].who = r
      BY <2>1, <3>1 DEF HInv, Maps, LeaseOf
    <3>3. QED
      BY <2>1, <3>2, Leased
  <2>9. CASE e \in liveHTTP
    <3>1. Cardinality(Outliving) \in Nat /\ (Cardinality(Outliving) = 0 <=> Outliving = {})
      BY <2>1, SomeIds DEF Outliving, HInv, Tables, Maps
    <3>2. left["abort"] = Budget["abort"] /\ Budget["abort"] \in Nat
      BY <2>1, BudgetAssumption DEF NoFaults, Causes
    <3>3. Outliving = {}
      BY <2>1, <3>1, <3>2 DEF LiveIsServed
    <3>4. QED
      BY <2>9, <3>3 DEF Outliving, Held
  <2>10. QED
    BY <2>6, <2>7, <2>8, <2>9 DEF TrackedEvents
<1>4. QED
  BY <1>1, <1>2, <1>3, HttpInvariance, HttpLiveIsServed, HttpOwnedWhileOpen, PTL DEF Spec
===============================================================================
