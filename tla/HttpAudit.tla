------------------------------- MODULE HttpAudit -------------------------------
(***************************************************************************)
(* The audit of HTTP requests: Gateway.ServeHTTP and the part of           *)
(* audit.Manager it calls.  Each request runs in a goroutine of its own,   *)
(* reads the clock once when it arrives, and goes through RecordActivity,  *)
(* StartHTTP, the proxy and EndHTTP; the mutex is held in some of the      *)
(* steps only, and the store is called inside and outside of it.           *)
(*                                                                         *)
(* A request is [actor, kind].  The kinds are the ways StartHTTP has of    *)
(* treating a route:                                                       *)
(*   plain     no camera: the person's activity only                       *)
(*   snapshot  snapshot_live, birdseye_live over http: a renewable lease   *)
(*   playback  recording_playback and both downloads: a longer lease, told *)
(*             to the recording observer                                   *)
(*   live      jsmpeg, mse, birdseye_live over ws: open while it is served *)
(*   signal    webrtc_signal: ended at once                                *)
(*   export    recording_export_requested: told, open while it is served   *)
(*   batch     one request, and as many of these as it has items           *)
(*   csv       audit_export_download: open while it is served; the daemon's *)
(*             own page, for people, and no activity in Frigate            *)
(***************************************************************************)
EXTENDS Integers, FiniteSets

CONSTANTS
  Null,
  Procs,       \* goroutines that serve requests
  Requests,    \* the requests there may be: [actor, kind]
  People,      \* the actors a trusted identity header names
  Window,      \* config activity_window
  Lease,       \* config snapshot_lease
  BatchItems,  \* how many exports a batch request asks for
  Slow,        \* bound on how late a goroutine gets to its next step
  MaxClock,    \* bound on the clock
  Horizon,     \* bound: when requests stop coming
  Budget       \* bounds on what the environment does: [causes -> Nat]

Causes == {"request", "fault", "abort", "death"}
Kinds  == {"plain", "snapshot", "playback", "live", "signal", "export", "batch", "csv"}

\* config.Load refuses a window or lease of zero.
ASSUME TimeAssumption ==
  /\ {Window, Lease} \subseteq Nat \ {0} /\ Slow \in Nat /\ MaxClock \in Nat
  /\ Slow <= Lease /\ Slow <= Window
ASSUME BatchAssumption == BatchItems \in Nat \ {0}
ASSUME NullAssumption == Null \notin Nat
ASSUME BudgetAssumption == Budget \in [Causes -> Nat]
ASSUME RequestAssumption == \A r \in Requests : r.kind \in Kinds

TimeBefore(a, b) == a < b
INSTANCE StoreOps WITH Before <- TimeBefore

VARIABLES
  procs,       \* Procs -> where each goroutine is: [at, req, now,
               \*   eid: the row it is about, eids: those it will end,
               \*   todo: the accesses it has yet to start]
  activities,  \* m.activities: actor -> [eid, lastSeen], eid 0 if not stored
  leases,      \* m.leases: request -> [eid, expires]
  liveHTTP,    \* m.liveHTTP: the set of its event ids
  rows, nextId,  \* the store
  fired,       \* the tick waiting in Run's state.C
  running,     \* "down", "up" or, after closeTracked, "closing"
  clock,
  left,        \* what remains of Budget
  offers,      \* history: event -> how often the observer was told of it
  latest       \* history: event -> the latest request it stands for

env     == <<clock, left, running, fired>>
tracked == <<activities, leases, liveHTTP>>
store   == <<rows, nextId>>
history == <<offers, latest>>
vars    == <<procs, activities, leases, liveHTTP, rows, nextId, fired, running,
             clock, left, offers, latest>>

Nothing == [x \in {} |-> Null]
With(f, x, v) == [y \in DOMAIN f \cup {x} |-> IF y = x THEN v ELSE f[y]]
Spend(cause, n) == left[cause] >= n /\ left' = [left EXCEPT ![cause] = left[cause] - n]

\* A store call that may fail, at the expense of the budget.
Try(ok) == Spend("fault", IF ok THEN 0 ELSE 1) /\ UNCHANGED <<clock, running, fired>>

Idle == [at |-> "idle", req |-> Null, now |-> Null, eid |-> 0, eids |-> {}, todo |-> 0]

Init ==
  /\ procs = [p \in Procs |-> Idle]
  /\ activities = Nothing /\ leases = Nothing /\ liveHTTP = {}
  /\ rows = Nothing /\ nextId = 1
  /\ fired = Null /\ running = "down" /\ clock = 0 /\ left = Budget
  /\ offers = Nothing /\ latest = Nothing

-------------------------------------------------------------------------------
\* httpLease, isRecordingActivity and httpAccessAffectsPrivacy.
HttpLease(kind) == CASE kind = "snapshot" -> Lease [] kind = "playback" -> Window
                     [] OTHER -> 0
IsRecordingActivity(kind) == kind \in {"playback", "export", "batch"}
HttpAccessAffectsPrivacy(kind) == kind = "live"

Go(p, at, eid) == procs' = [procs EXCEPT ![p].at = at, ![p].eid = eid]
At(p, at) == procs[p].at = at

\* A new row of this request, or of the person's activity.
Start(p, who) ==
  /\ rows' = Inserted(rows, [i \in {nextId} |-> [who |-> who, at |-> procs[p].now]])
  /\ nextId' = nextId + 1
  /\ offers' = With(offers, nextId, 0)
  /\ latest' = With(latest, nextId, procs[p].now)
StartFails == UNCHANGED <<store, history>>
Joins(p, eid) ==
  /\ latest' = [e \in DOMAIN latest |->
                  IF e = eid /\ latest[e] < procs[p].now THEN procs[p].now ELSE latest[e]]
  /\ UNCHANGED <<store, offers>>

\* requestAccesses, and the one access of the audit's own export.
Accesses(kind) == CASE kind = "plain" -> 0 [] kind = "batch" -> BatchItems [] OTHER -> 1

\* StartHTTP has returned, with the ids that EndHTTP will get.
Started(p, ids) ==
  procs' = [procs EXCEPT
    ![p].at = IF procs[p].todo > 1 THEN "access" ELSE "serve",
    ![p].eid = 0, ![p].eids = procs[p].eids \cup ids, ![p].todo = procs[p].todo - 1]

\* ServeHTTP takes its `now' before everything else.  (The budget counts accesses.)
Arrive(p, r) ==
  /\ At(p, "idle") /\ running # "down" /\ clock <= Horizon
  /\ Spend("request", IF r.kind = "plain" THEN 1 ELSE Accesses(r.kind))
  /\ procs' = [procs EXCEPT ![p] =
                 [Idle EXCEPT !.at = IF r.actor \in People /\ r.kind # "csv" THEN "activity"
                                     ELSE IF Accesses(r.kind) > 0 THEN "access" ELSE "serve",
                              !.req = r, !.now = clock, !.todo = Accesses(r.kind)]]
  /\ UNCHANGED <<tracked, store, clock, running, fired, history>>

\* Mutant: the row is inserted whether or not the map has one by then.
RecordActivityAnew(p, ok) ==
  LET actor == procs[p].req.actor IN
  /\ At(p, "activity")
  /\ IF ok THEN Start(p, [actor |-> actor, kind |-> "activity"]) ELSE StartFails
  /\ LET eid == IF ok THEN nextId ELSE 0 IN
     /\ activities' = With(activities, actor, [eid |-> eid, lastSeen |-> procs[p].now])
     /\ Go(p, "touch", eid)
  /\ Try(ok)
  /\ UNCHANGED <<leases, liveHTTP>>

\* RecordActivity under the mutex.  An activity whose row could not be stored
\* is tracked all the same, with the event id zero.
RecordActivity(p, ok) ==
  LET actor  == procs[p].req.actor
      exists == actor \in DOMAIN activities
      eid    == IF exists THEN activities[actor].eid ELSE IF ok THEN nextId ELSE 0
  IN
  /\ At(p, "activity")
  /\ exists => ok
  /\ IF exists THEN Joins(p, eid)
     ELSE IF ok THEN Start(p, [actor |-> actor, kind |-> "activity"]) ELSE StartFails
  /\ activities' = With(activities, actor, [eid |-> eid, lastSeen |-> procs[p].now])
  /\ Go(p, "touch", eid)
  /\ Try(ok)
  /\ UNCHANGED <<leases, liveHTTP>>

\* TouchEvent after the mutex is released, for an activity or for a lease.
Touch(p, ok) ==
  /\ procs[p].at \in {"touch", "renew"}
  /\ rows' = IF ok THEN Touched(rows, [i \in {procs[p].eid} |-> procs[p].now]) ELSE rows
  /\ IF At(p, "renew") THEN Started(p, {})
     ELSE Go(p, IF procs[p].todo > 0 THEN "access" ELSE "serve", 0)
  /\ Try(ok)
  /\ UNCHANGED <<tracked, nextId, history>>

\* Mutant: the copy of the lease is changed and not stored back.
RenewCopy(p) ==
  LET r == procs[p].req IN
  /\ At(p, "access") /\ r \in DOMAIN leases
  /\ Joins(p, leases[r].eid)
  /\ Go(p, "renew", leases[r].eid)
  /\ UNCHANGED <<activities, leases, liveHTTP, env>>

\* StartHTTP of a leased kind finds the lease and renews it, by its own `now'.
Renew(p) ==
  LET r == procs[p].req IN
  /\ At(p, "access") /\ r \in DOMAIN leases
  /\ leases' = [leases EXCEPT ![r].expires = procs[p].now + HttpLease(r.kind)]
  /\ Joins(p, leases[r].eid)
  /\ Go(p, "renew", leases[r].eid)
  /\ UNCHANGED <<activities, liveHTTP, env>>

\* Mutant: the lease is created whether or not another request did meanwhile.
StartLeaseAnew(p, ok) ==
  LET r == procs[p].req IN
  /\ At(p, "access") /\ HttpLease(r.kind) > 0
  /\ IF ok
     THEN /\ Start(p, r)
          /\ leases' = With(leases, r, [eid |-> nextId,
                                        expires |-> procs[p].now + HttpLease(r.kind)])
          /\ IF IsRecordingActivity(r.kind) THEN Go(p, "offer", nextId) ELSE Started(p, {})
     ELSE StartFails /\ leases' = leases /\ Started(p, {})
  /\ Try(ok)
  /\ UNCHANGED <<activities, liveHTTP>>

\* It finds none: "Keep the lookup and creation in one critical section so
\* concurrent identical requests cannot create an unreachable duplicate event"
\* (manager.go:576-577).
StartLease(p, ok) ==
  LET r == procs[p].req IN
  /\ At(p, "access") /\ HttpLease(r.kind) > 0 /\ r \notin DOMAIN leases
  /\ IF ok
     THEN /\ Start(p, r)
          /\ leases' = With(leases, r, [eid |-> nextId,
                                        expires |-> procs[p].now + HttpLease(r.kind)])
          /\ IF IsRecordingActivity(r.kind) THEN Go(p, "offer", nextId) ELSE Started(p, {})
     ELSE StartFails /\ leases' = leases /\ Started(p, {})
  /\ Try(ok)
  /\ UNCHANGED <<activities, liveHTTP>>

\* The other kinds insert without the mutex.
StartAccess(p, ok) ==
  LET r == procs[p].req IN
  /\ At(p, "access") /\ HttpLease(r.kind) = 0
  /\ IF ok THEN /\ Start(p, r)
                /\ Go(p, IF IsRecordingActivity(r.kind) THEN "offer" ELSE "register", nextId)
     ELSE StartFails /\ Started(p, {})
  /\ Try(ok)
  /\ UNCHANGED tracked

\* Mutant: a renewed lease is told again.
OfferRenewed(p) ==
  /\ \/ At(p, "offer")
     \/ At(p, "renew") /\ IsRecordingActivity(procs[p].req.kind)
  /\ offers' = [offers EXCEPT ![procs[p].eid] = @ + 1]
  /\ Started(p, IF HttpLease(procs[p].req.kind) > 0 THEN {} ELSE {procs[p].eid})
  /\ UNCHANGED <<tracked, store, env, latest>>

\* recordingObserver, without the mutex.  StartHTTP returns zero for a lease.
Offer(p) ==
  /\ At(p, "offer")
  /\ offers' = [offers EXCEPT ![procs[p].eid] = @ + 1]
  /\ Started(p, IF HttpLease(procs[p].req.kind) > 0 THEN {} ELSE {procs[p].eid})
  /\ UNCHANGED <<tracked, store, env, latest>>

\* The end of StartHTTP: a WebRTC signal is over, a live request is tracked,
\* the export of the audit itself is neither.
EndSignal(p, ok) ==
  /\ At(p, "register") /\ procs[p].req.kind = "signal"
  /\ LET end == [i \in {procs[p].eid} |-> procs[p].now]
     IN  rows' = IF ok THEN EndedAt(rows, procs[p].now, end) ELSE rows
  /\ Started(p, {})
  /\ Try(ok)
  /\ UNCHANGED <<tracked, nextId, history>>

Register(p) ==
  /\ At(p, "register") /\ procs[p].req.kind # "signal"
  /\ liveHTTP' = IF HttpAccessAffectsPrivacy(procs[p].req.kind)
                 THEN liveHTTP \cup {procs[p].eid} ELSE liveHTTP
  /\ Started(p, {procs[p].eid})
  /\ UNCHANGED <<activities, leases, store, env, history>>

\* The ids are slices in the order of the accesses, which is their own.
First(p) == CHOOSE e \in procs[p].eids : \A f \in procs[p].eids : e <= f
Proxied(p) ==
  IF procs[p].eids = {} THEN procs' = [procs EXCEPT ![p] = Idle]
  ELSE procs' = [procs EXCEPT
         ![p].at = "close", ![p].eid = First(p),
         ![p].now = IF At(p, "serve") THEN clock ELSE procs[p].now]

\* Mutant: EndHTTP leaves the live entry to the tick.
EndHTTPKeeping(p) ==
  /\ procs[p].at \in {"serve", "next"}
  /\ Proxied(p)
  /\ UNCHANGED <<tracked, store, env, history>>

\* The proxy returns, endedAt is read, and EndHTTP forgets the live request ...
EndHTTP(p) ==
  /\ procs[p].at \in {"serve", "next"}
  /\ liveHTTP' = liveHTTP \ IF procs[p].eids = {} THEN {} ELSE {First(p)}
  /\ Proxied(p)
  /\ UNCHANGED <<activities, leases, store, env, history>>

\* Mutant: the first row that cannot be ended ends the loop.
EndRowOrStop(p, ok) ==
  /\ At(p, "close")
  /\ LET end  == [i \in {procs[p].eid} |-> procs[p].now]
         rest == procs[p].eids \ {procs[p].eid}
     IN  /\ rows' = IF ok THEN EndedAt(rows, procs[p].now, end) ELSE rows
         /\ IF rest = {} \/ ~ok THEN procs' = [procs EXCEPT ![p] = Idle]
            ELSE procs' = [procs EXCEPT ![p].at = "next", ![p].eid = 0, ![p].eids = rest]
  /\ Try(ok)
  /\ UNCHANGED <<tracked, nextId, history>>

\* ... and then ends its row; so for each of the rows of a batch.
EndRow(p, ok) ==
  /\ At(p, "close")
  /\ LET end  == [i \in {procs[p].eid} |-> procs[p].now]
         rest == procs[p].eids \ {procs[p].eid}
     IN  /\ rows' = IF ok THEN EndedAt(rows, procs[p].now, end) ELSE rows
         /\ IF rest = {} THEN procs' = [procs EXCEPT ![p] = Idle]
            ELSE procs' = [procs EXCEPT ![p].at = "next", ![p].eid = 0, ![p].eids = rest]
  /\ Try(ok)
  /\ UNCHANGED <<tracked, nextId, history>>

\* ReverseProxy panics with http.ErrAbortHandler when the copy of a response
\* body breaks off; net/http recovers and nothing of ServeHTTP runs any more.
\* Only an upgraded connection is copied without a panic; a live request is one
\* by its path, and Frigate may answer it without an upgrade.  The export of the
\* audit is not proxied.  (The budget counts the rows the request held.)
Abort(p) ==
  /\ At(p, "serve") /\ procs[p].req.kind # "csv"
  /\ Spend("abort", Cardinality(procs[p].eids))
  /\ procs' = [procs EXCEPT ![p] = Idle]
  /\ UNCHANGED <<tracked, store, clock, running, fired, history>>

-------------------------------------------------------------------------------
\* End of several rows, each at a time of its own.
EndedEach(ends) ==
  [i \in DOMAIN rows |-> IF i \in DOMAIN ends THEN EndedAt(rows, ends[i], ends)[i]
                                              ELSE rows[i]]

StaleActivities(now) == {a \in DOMAIN activities : now - activities[a].lastSeen > Window}
ExpiredLeases(now) == {r \in DOMAIN leases : now > leases[r].expires}

\* Which End calls of tick there are, and when each says its row ended.
ExpiryEnds(now) ==
  [e \in ({activities[a].eid : a \in StaleActivities(now)} \ {0})
          \cup {leases[r].eid : r \in ExpiredLeases(now)} |->
     IF \E r \in ExpiredLeases(now) : leases[r].eid = e
     THEN leases[CHOOSE r \in ExpiredLeases(now) : leases[r].eid = e].expires
     ELSE activities[CHOOSE a \in StaleActivities(now) : activities[a].eid = e].lastSeen
            + Window]

\* The first half of tick; an entry is deleted whether End fails or not.
Tick(noEnd) ==
  /\ running = "up" /\ fired # Null
  /\ noEnd \subseteq DOMAIN ExpiryEnds(fired)
  /\ Spend("fault", Cardinality(noEnd))
  /\ LET ends == ExpiryEnds(fired) IN
       rows' = EndedEach([e \in DOMAIN ends \ noEnd |-> ends[e]])
  /\ activities' = [a \in DOMAIN activities \ StaleActivities(fired) |-> activities[a]]
  /\ leases' = [r \in DOMAIN leases \ ExpiredLeases(fired) |-> leases[r]]
  /\ fired' = Null
  /\ UNCHANGED <<procs, liveHTTP, nextId, running, clock, history>>

\* Everything closeTracked ends besides the streams.
TrackedEvents ==
  ({activities[a].eid : a \in DOMAIN activities} \ {0})
    \cup {leases[r].eid : r \in DOMAIN leases} \cup liveHTTP

CloseTracked(noEnd) ==
  /\ running = "up" /\ noEnd \subseteq TrackedEvents
  /\ left["death"] > 0 /\ left["fault"] >= Cardinality(noEnd)
  /\ left' = [left EXCEPT !["death"] = @ - 1, !["fault"] = @ - Cardinality(noEnd)]
  /\ running' = "closing"
  /\ rows' = EndedAt(rows, clock, [e \in TrackedEvents \ noEnd |-> clock])
  /\ UNCHANGED <<procs, tracked, nextId, fired, clock, history>>

\* Handlers and memory are lost with the process, also those of requests that
\* server.Shutdown does not wait for.
Die ==
  /\ running' = "down" /\ fired' = Null
  /\ procs' = [p \in Procs |-> Idle]
  /\ activities' = Nothing /\ leases' = Nothing /\ liveHTTP' = {}
  /\ UNCHANGED <<store, clock, history>>
Exit == running = "closing" /\ Die /\ UNCHANGED left
Crash == running # "down" /\ Spend("death", 1) /\ Die

\* Mutant: no RecoverOpen.
BootOnly ==
  /\ running = "down" /\ running' = "up"
  /\ UNCHANGED <<procs, tracked, store, fired, clock, left, history>>

\* main: store.Open, RecoverOpen, and a new manager.
Boot ==
  /\ running = "down" /\ running' = "up"
  /\ rows' = Recovered(rows, clock)
  /\ UNCHANGED <<procs, tracked, nextId, fired, clock, left, history>>

\* A second passes and the ticker fires; no goroutine is left standing longer
\* than Slow outside of the proxy.
Pass ==
  /\ clock < MaxClock
  /\ fired # Null => clock - fired < Slow
  /\ \A p \in Procs : procs[p].at \notin {"idle", "serve"} => clock - procs[p].now < Slow
  /\ clock' = clock + 1
  /\ fired' = IF running = "up" /\ fired = Null THEN clock' ELSE fired
  /\ UNCHANGED <<procs, tracked, store, running, left, history>>

\* The bounded clock has run out with nothing left to do.
Rest == clock = MaxClock /\ fired = Null /\ (\A p \in Procs : At(p, "idle"))
        /\ UNCHANGED vars

-------------------------------------------------------------------------------
Step(p) ==
  \/ \E ok \in BOOLEAN : RecordActivity(p, ok) \/ Touch(p, ok)
  \/ \E ok \in BOOLEAN : StartLease(p, ok) \/ StartAccess(p, ok)
  \/ Renew(p) \/ Offer(p) \/ Register(p) \/ EndHTTP(p)
  \/ \E ok \in BOOLEAN : EndSignal(p, ok) \/ EndRow(p, ok)

TickSome == \E noEnd \in SUBSET DOMAIN rows : Tick(noEnd)

Next ==
  \/ \E p \in Procs, r \in Requests : Arrive(p, r)
  \/ \E p \in Procs : Step(p) \/ Abort(p)
  \/ TickSome
  \/ \E noEnd \in SUBSET TrackedEvents : CloseTracked(noEnd)
  \/ Exit \/ Crash \/ Boot \/ Pass \/ Rest

Spec == Init /\ [][Next]_vars

\* Handlers get on, the proxy returns (clients close their streams), Run keeps
\* ticking; a shutdown ends in the exit of the process and a stopped process
\* is started again.
FairSpec == /\ Spec /\ WF_vars(Pass) /\ WF_vars(TickSome) /\ WF_vars(Exit)
            /\ WF_vars(Boot) /\ \A p \in Procs : WF_vars(Step(p))

-------------------------------------------------------------------------------
IsOpenRow(e) == IsOpen(rows[e])
OpenRows == {e \in DOMAIN rows : IsOpenRow(e)}
Rolling == {"activity", "snapshot", "playback"}
NoFaults == left["fault"] = Budget["fault"] /\ left["abort"] = Budget["abort"]
Held(p) == {procs[p].eid} \cup procs[p].eids

\* No open row is out of reach: a map of the manager or the goroutine that
\* will end it knows its id (the "unreachable duplicate event" of
\* manager.go:577, and every other way to lose an id), and no person is tracked
\* without a row.  What breaks this is a store call that failed or a response
\* that broke off, at the cost of one row or one person each.
Unreachable == OpenRows \ (TrackedEvents \cup UNION {Held(p) : p \in Procs})
Unstored == {a \in DOMAIN activities : activities[a].eid = 0}
OwnedWhileOpen ==
  running = "up" =>
    Cardinality(Unreachable) + Cardinality(Unstored)
      <= (Budget["fault"] - left["fault"]) + (Budget["abort"] - left["abort"])

\* A person has one rolling session and one lease per access at a time.
OneInterval ==
  running = "up" /\ NoFaults =>
    \A e, f \in OpenRows : rows[e].who = rows[f].who /\ rows[e].who.kind \in Rolling => e = f

\* The live requests that light a camera are those being served now
\* (manager.go:612-616, 654-660), but for one each response that broke off:
\* its request never gets to EndHTTP (gateway.go:183-188), and its entry keeps
\* the camera lit until the process ends.
Outliving ==
  {e \in liveHTTP : \A p \in Procs : At(p, "serve") => e \notin procs[p].eids}
LiveIsServed == Cardinality(Outliving) <= Budget["abort"] - left["abort"]

\* The recording observer hears of a logical recording access once, however
\* many segment or range requests it takes, unless the process dies first.
OfferedOnce ==
  left["death"] = Budget["death"] =>
    \A e \in DOMAIN rows :
      IF IsRecordingActivity(rows[e].who.kind)
      THEN \/ offers[e] = 1
           \/ offers[e] = 0 /\ \E p \in Procs : procs[p].eid = e /\ At(p, "offer")
      ELSE offers[e] = 0

\* A rolling interval is ended only when its last request is out of the
\* window, up to the lateness of the goroutines that renew it.
RollingEnd ==
  [][running = "up" /\ running' = "up" =>
       \A e \in OpenRows : rows[e].who.kind \in Rolling /\ ~IsOpen(rows'[e]) =>
         LET length == IF rows[e].who.kind = "snapshot" THEN Lease ELSE Window
         IN  fired - latest[e] > length - Slow]_vars

\* An interval that this process ends covers all its requests, also those
\* whose own update of last_seen_at failed or came too late.
CoversRequests ==
  [][running = "up" /\ running' # "down" =>
       \A e \in OpenRows : ~IsOpen(rows'[e]) => latest[e] <= rows'[e].lastSeen]_vars

\* docs/architecture.md:73-74, "Recognized camera routes are passed to
\* `Manager.StartHTTP` before proxying and to `Manager.EndHTTP` afterward": a
\* row that lasts as long as its request is not left open by it.
EndedAfterProxying ==
  running = "up" /\ left["fault"] = Budget["fault"] =>
    \A e \in OpenRows : rows[e].who.kind \notin Rolling => \E p \in Procs : e \in Held(p)

\* Every interval gets its end, through a crash, a shutdown and requests that
\* start rows while the process is shutting down.
EveryAccessEnds == []NoFaults => <>[](OpenRows = {})
===============================================================================
