# Formal model of camera-audit

TLA+ specifications of the camera-audit daemon, their model-checking
configurations, and machine-checked proofs. Paths such as `manager.go:687` refer
to the sources beside this directory (`internal/audit/manager.go` and so on).
`PROJECT.json` maps every definition to the lines it stands for.

## The system

camera-audit sits in front of Frigate as a reverse proxy, polls go2rtc for
stream consumers, and answers one question per camera: who is looking, since
when, and should the room be told. Its parts:

| Part | State | Operations | Talks to |
| --- | --- | --- | --- |
| `internal/store` | SQLite tables `events`, `activity` | open and migrate, `RecoverOpen`, `Start`, `End`, `EndStream`, `TouchEvent(s)`, `UpdateEventIdentity`, `TouchActivity`, `Prune`, reads | called by the manager and the audit pages |
| `audit.Manager`: streams | `sessions`, `signals`, `fresh`, `lastPoll`, `lastStreamCheckpoint` | `poll`, `RecordSignal`, checkpoints, `closeTracked` | go2rtc client, store |
| `audit.Manager`: requests | `activities`, `leases`, `liveHTTP` | `RecordActivity`, `StartHTTP`, `EndHTTP`, first half of `tick`, `closeTracked` | gateway, store, recording observer |
| `audit.Manager`: light | `privacy`, `zeroSince`, `birdseyeControlConns` | second half of `tick`, `BirdseyeControlOpened/Closed`, `UpdateBirdseyeLayout` | control sockets, privacy observer |
| `internal/mqttpub` | `states`, `available`; retained topics at the broker | `Set`, `SetAvailable`, `OnConnect`, clean-up handler, `Close` | paho, broker |
| `internal/telegram` | queue, window, message id, `dirty` | `Add`, `Run`, `publish` | Telegram Bot API |
| `internal/gateway`: requests | `exportCache` | `ServeHTTP`, trust boundary, route recognition, names of exports | manager, Frigate |
| `internal/gateway`: control sockets | two copying loops for each socket | `serveFrigateControlWebSocket`, `relayWebSocket` | manager, viewer, Frigate |
| `internal/auditweb` | none | overview, history, CSV | store, `Manager.Current` |
| `cmd/camera-audit` | goroutines, contexts | start, signal, shutdown in order | everything |
| `internal/go2rtc`, `config`, `presentation`, `model` | none | HTTP client, configuration, formatting, types | |

One mutex guards the manager. Five kinds of goroutine meet there: `Run` (polls,
ticks, pruning, and the observer calls), every HTTP request, the two copying
loops of each control socket, the MQTT callbacks (through their own mutex), and
the notifier (through a channel). What is hard is that a handler holds the mutex
in some of its steps only and calls the store in and out of it; that times are
read before the mutex is taken; that any store call may fail; and that only the
store survives the process.

What makes each part right:

* store: an ended row never changes; ids are unique for ever; no row survives a
  restart open; migration leaves no row without `last_seen_at`; `last_seen_at`
  follows the newest report; retention deletes old rows only.
* streams: intervals end after two misses, on reuse of an id and at an outage;
  none spans a gap; what was observed longer ago than the checkpoint interval is
  on disk; memory and row agree on who it was; attribution only improves; a
  history page shows what was observed, whenever it reads memory and store.
* requests: one interval per person and per lease, reachable while it is open,
  covering all its requests; a live request lights its camera as long as it is
  served; each recording access is told once; everything ends.
* gateway: a route means what it is documented to mean; only the trusted proxy
  is believed; the name in the audit is one its export bore.
* light: off only after the whole delay, told in order; the composite view lights
  what the open control socket that was counted last says, which is what its viewer
  was shown; it settles; a broken socket is given back.
* MQTT: what is retained is what the process holds; off after a shutdown.
* Telegram: no accepted action is forgotten; one message per window; a shutdown
  shows what the server waited for, and ends.

## Modules

| Module | Models | Lines |
| --- | --- | --- |
| `StoreOps` | each SQL statement as an operator on the table `events`; shared by every module that calls the store | store.go |
| `EventStore` | the store on its own: migration, recovery, all statements in any order with any past time, deaths | store.go |
| `AuditLog` | abstract: the log of intervals that streams are audited by; each holds observations of one consumer, never spans a gap, loses at most the checkpoint interval at a death, and never changes after its end | |
| `Correlation` | `matchSignal`, `shouldUpgradeIdentity`, pruning of signals | manager.go:312-326, 425-465, 541-551 |
| `StreamAudit` | reconciliation: `poll` in two steps, signals, checkpoints, shutdown, crash, restart; implements `AuditLog` | manager.go:197-465, 525-551 |
| `HistoryView` | a history page over `StreamAudit`: `Manager.Current`, then the query with its `LIMIT`, then the overlay | viewmodel.go:145-200 |
| `Gateway` | operators: whom a request is taken for, route recognition, batches, and what the documents say of both | gateway.go, manager.go:559-664 |
| `HttpAudit` | requests: goroutines stepping through `ServeHTTP` and the manager, expiry, shutdown, crash, restart | manager.go:197-217, 499-686; gateway.go:126-189 |
| `ExportDownloads` | `HttpAudit` with the lookup of export names before `StartHTTP` and its cache | gateway.go:390-470 |
| `Privacy` | the light, Birdseye layouts, the observer | manager.go:125-164, 666-778 |
| `ControlRelay` | `Privacy` with the relays that open its control sockets and send its layouts | websocket.go |
| `MqttPublisher` | the publisher, with paho and the broker | publisher.go |
| `TelegramNotifier` | the notifier, with the Bot API | notifier.go |
| `Lifecycle` | `TelegramNotifier` with `main`, the server's shutdown and the handlers that add actions | main.go |

Theorems are in `EventStoreProofs`, `StreamProofs` (`StreamAudit`, its refinement
of `AuditLog`, and `HistoryView`), `PrivacyProofs` (`Privacy` and its composition
`ControlRelay`), `GatewayProofs` (`Gateway`), `HttpProofs` (`HttpAudit`), `ExportProofs`
(`ExportDownloads`), `MqttProofs` (`MqttPublisher`) and `LifecycleProofs`
(`TelegramNotifier` and `Lifecycle`).

Each `MC` module gives constants their values for TLC. Names follow the source:
`zeroSince` is `m.zeroSince`, `CloseTracked` is `closeTracked`. Variables marked
*history* in a module record the past for properties and guide no action.

How the code's structure is kept:

* An action is a stretch of code under the mutex, or one external call. `poll`
  is `Fetch` and then `Poll`; `RecordActivity` is a step under the mutex and a
  `Touch` after it; `Set` is a step under the mutex and publishes after it.
* A failing call is an outcome of its action, paid from a `Budget`.
* Where a loop runs over a Go map its result is written as a set or function, or
  the order is chosen by `\E` if it can be seen (observer calls, publishes).
* Times are small naturals. `EventStore` alone keeps fractions of a second,
  because the stored text sorts wrongly there.
* Strings (user agents, topics, details) are model values; `classify` is a
  constant function. A path in `Gateway` is the sequence of its segments.
  `Mutant` operators are broken versions of a definition, each one refuted by a
  property, and are used by no specification.

Interfaces between the modules:

* `StreamAudit` and `HttpAudit` call the `StoreOps` that `EventStore` verifies.
* `StreamAudit` states `AuditLog` with `INSTANCE`: `log` is the table joined with
  what memory has observed since the last checkpoint (`KeepsAuditLog`).
* `HttpAudit` takes requests `[actor, kind]`. `Gateway!Served` is the function
  from a real request to that pair, so `http_faults` starts from documented URLs
  and callers, and checks that function on all of them.
* `ExportDownloads` refines what an access is: the name of the export is part of
  it, and so of the key of its lease. Its `Downloads` are members of `HttpAudit`'s
  `Requests`, those of a service that no proxy names; `HttpAudit` itself serves
  the people's requests around them.
* `Privacy.sources` stands for the sessions of `StreamAudit` and the leases and
  live requests of `HttpAudit`; an entry that outlives its request (`Outliving`) is a
  source that does not leave. Its sockets behave in any order; those of
  `ControlRelay` are served by relays, and its steps are steps of `Privacy`.
* The observer calls that `Privacy` makes one by one are the `Set` calls of
  `MqttPublisher`, which relies on them being changes (`ToldFollows`).
* The offers of `HttpAudit` are the `Add` calls of `TelegramNotifier`, which
  relies on `OfferedOnce`; `Lifecycle` says which of them a shutdown waits for.

## Runs

| Run | Question | Bounds |
| --- | --- | --- |
| `event_store` | does the store keep its promises from any old database, any order of calls, any death? | 2 rows, 2 seconds of 2 instants, 2 identities |
| `event_store_letter` (violation) | is `last_seen_at` monotonic to the nanosecond? | 1 row, 2 seconds of 2 instants |
| `stream_audit` | when does an interval end, and do rows and memory implement the audit log, through misses, reuse, an outage and a death? | 1 connection, watched when the process starts, 2 descriptions, 3 changes, 1 outage, 1 death, 3 s |
| `stream_signals` | who is it, what does a page show, and does every interval end, with signals racing polls, a crash or a shutdown, and a failing store? | 2 connections, 2 signals, stale times, 2 changes, 1 fault, 1 death and no outage (`stream_audit` has one), pages of 2 rows |
| `stream_generic` (violation) | does a person replace a generic identity? | 2 signals |
| `http_audit` | leases and activities by concurrent requests, ranges of a renamed export, what the recording observer is told | 2 goroutines, 3 requests, 1 renaming, 1 failed lookup, 5 s, requests and renamings in the first 2 |
| `http_faults` | whom is a request believed to be from and what is it taken for; then failing calls, a response that breaks off, death in the middle; does everything end? | 1,279 URLs of 8 cameras (named after routes, too) and 2 times, 144 callers; 2 goroutines, 2 accesses, batches of 2, 1 failure of each kind |
| `http_abort` (violation) | is every row ended after proxying, of an export or of a live request? | 2 accesses |
| `privacy` | delay, telling, late ticks, whose layout counts, what the relays do to it; does every light settle and every broken relay end? | 2 cameras, 2 viewers (one of them suppressed), 2 sockets whose 4 loops run next to each other, 2 layouts under way or counted, 1 command of the viewers, 7 s |
| `mqtt` | lost connection, repair, shutdown | 1 camera, 1 change, 1 loss |
| `mqtt_stale` (violation) | is the current state what is republished? | 1 camera, 2 changes |
| `telegram` | windows, retries, lost answers, a full queue, the order of the shutdown; does it end? | 3 actions, queue of 1, 1 failure, 1 lost answer |

Why the bounds are enough: the maps of the manager are independent per key, so
one or two keys show what a key can suffer and what two can do to each other;
the longest chain a property looks at (three observations around a miss, a lease
renewed and expired, a snapshot overtaken twice) fits the clock of its run; one
fault shows a partial failure, and its retry shows whether it is made good. Queues and budgets are at their limits within
the bounds. Runs whose bounded clock ends rest there (`Rest`), so that TLC's
deadlock check still finds a step that is stuck for another reason. `Slow` and
`Late` bound how long a goroutine may stand between two steps; without them no
statement about time holds, and the code gives none.

## Fairness

The specifications with fairness (`FairSpec`, those of the compositions, and
`Fairness` in `StreamAudit`) assume that: `Run`'s loop comes round (its calls
have timeouts: 5 s for go2rtc and for each publish); a handler that has its
response gets on; the proxy returns in the end, i.e. clients close their streams
(`http_faults` only); `main` and the notifier take their next step, for
`server.Shutdown` has a deadline of its own; a process told to stop exits, and one
that is gone is started again (`restart: unless-stopped` in the compose files);
paho reconnects (`SetAutoReconnect`); calls to Telegram end (10 s). A relay's
handler gets on once a loop has failed, and a loop gets on with what it has in
hand; that a peer ever sends or reads is not assumed, and `RelayEnds` holds
because the handler closes both connections. No fairness is assumed of viewers,
faults or crashes. Weak fairness is enough everywhere: none of these steps is
disabled by others again and again.

## What the violations show

Each of these checks a sentence of the documentation and is refuted by the code. What
remains true of the sentence is proved.

* `event_store_letter`: text order of RFC3339Nano lets `last_seen_at` go back by
  less than a second. No statement takes it to an earlier second, nor to `NULL`
  (`LastSeenMonotonicToTheSecond`).
* `stream_generic`: an anonymous browser's signal ranks as high as a person's and
  keeps the person's name off the session. But any signal that matches a session
  outright takes it out of the hands of `classify` (`StreamStrongSignalsCount`).
* `http_abort`: `EndHTTP` is not deferred; a `ReverseProxy` panic skips it. Nothing
  else does (`HttpEndedAfterProxying`). An export's row is then out of reach. A live
  request is recognised by its path (gateway.go:260-273): answered without an upgrade,
  and broken off, it leaves its entry in `liveHTTP` too, which lights the camera until
  the process ends. `LiveIsServed` counts such entries and has no others.
* `mqtt_stale`: values are read under the mutex and published after it, by several
  goroutines, so a reconnection can leave an old value at the broker.
  `InStepAtRest` and `ClosedOff` hold when no value changes while an older one is
  under way, and say how the next connection repairs the rest.

Other places where the code gives less than one might expect are not runs of
their own:

* A viewer between two one-second samples of `tick` is not seen by the light: that
  is the design, and `OffNeedsQuiet` says what the samples guarantee.
* A failed call loses a row or a person's session for as long as it lasts;
  `OwnedWhileOpen` and `NoOrphanRows` say how many.
* "Repeated range requests ... renew one audit lease" (README.md:14) holds while the
  export keeps its name and lookups succeed; `RowsPerDownload` counts the rest.
* "a shutdown makes a final update attempt" (README.md:89) for the window that is
  open: a window whose timer fires as the context is cancelled is given up
  (`FinalAttempt` says for whom the attempt is made).
* A full page takes its rows in stored order: a live stream whose last checkpoint
  is old can be cut off by its `LIMIT` (`PageIsARead` is about what is shown).
* A camera named `vod`, `event`, `events` or `review` is hidden behind the route of
  that name, one named `clip.mp4` behind the clips, and `birdseye` is a composite;
  `RoutesAsDocumented` is about other names (`Reserved`).

## Proofs

`EventStoreProofs` proves, for every number of events, users and instants, all
the safety properties of `event_store`. The inductive invariant is `IInv`: the
types, the history being empty while nothing serves, and the three invariants.
`LastSeenToTheSecond` is not inductive without the types of the history (what
`Later` returns depends on both times being instants), and `NoForeignOpen` needs
that a row of the history is one of this process. `Invariance` proves
`Spec => []IInv` with one step per action; the action properties follow from it
action by action, and so does `LastSeenMonotonicToTheSecond`, which gives a bound to
what `event_store_letter` refutes. The proofs rest on the assumptions named in `EventStore`: one
to ten instants per second, a positive retention, and `Null` not being an
instant.

`StreamProofs` proves `MemoryInStep`, `AttributionOnlyRises`, `TwoMissesToEnd`,
`NoOrphanRows` and `KeepsAuditLog` for any finite set of connections, any consumers
and signals, every checkpoint interval and any outages and deaths. What they share
is `SInv`: a session owns a row that is never ahead of it and that, once ended,
holds its last observation (`Memory`); while memory is trusted its intervals are
not those of before an interruption, and a session's misses are real absences
(`Observations`); and what was seen before the last checkpoint is in the row
(`Checkpointed`, while no store call has failed). `NoOrphanRows` adds a count: a
step leaves at most as many rows behind as it had failures to end a stream
(`FewOrphans`). `StreamKeepsAuditLog` is the simulation of `AuditLog`: polls,
signals, the closing and the recovery are its `Observe`, a failed poll its
`Interrupt`, a death its `Die`, and the rest stutters. It assumes that no store
call fails, which is what the run assumes; the other four do not.

The last part of `StreamProofs` proves `PageIsARead` for every number of rows and every page size,
with any steps of the daemon between the two reads. What makes it true is that a
step loses no row, no observation and no time, and opens nothing that has ended
(`NextMovesOn`), so that what a request has read stays in the past of what it will
show (`Past`); that a row memory does not speak for is over comes from the count of
`NoOrphanRows`. `NewestFirst` is a choice among the ways to put rows in order, and
`OrderExists` shows that there is one: the place of a row is one more than the
number of the newer ones, and a map of that kind is a bijection.

`StreamStrongSignalsCount` is about `matchSignal`: whichever comes first, the consumer,
the poll or the signal, and whatever is pruned in between, a session that a signal in
memory matches outright has at least the confidence of a signal. `CorrelationInv` adds
the types of signals and that none is dated after the clock, so that what explains a
consumer now did so at the earlier time of the request that signals next
(`SignalCorrelation`). `Matching` is why a strong signal is never lost among weaker
ones: a finite set of indices has a largest. The theorem assumes that no store call
has failed, since a failing `UpdateEventIdentity` leaves both the row and memory with
the old name. `Unexpired` is a choice of an order, like `NewestFirst`, because
`SelectSeq` is recursive and says nothing to the provers (`UnexpiredSignals`).

`PrivacyProofs` proves `OffNeedsQuiet` and `ToldFollows` for every set of cameras
and viewers, every delay and every lateness of the ticks. `OffNeedsQuiet` speaks
of one step and rests on an invariant about many: no tick since the delay began
has seen a viewer (`Seen`), a light that is on was lit by a tick (`Lit`), and the
tick that waits is not older than those before it (`InOrder`: `time.Ticker` drops
ticks but never reorders them). `ToldFollows` is inductive together with the
types: `Tick` waits until everything is told.

The same module proves `LayoutOfNewestSocket` for every number of sockets and
layouts. The invariant `SInv` relates the map of sockets to the sequence of
layouts as they came: a socket without an order has sent nothing (`Silent`), one
with an order holds its latest (`Current`), and the orders agree with the order
of arrival of the latest layouts (`Agree`), which is why closing the newest
socket leaves the next newest. That several layouts have a last one is the
least-number principle, from the library's well-founded orders.

Its last part proves `CountedIsShown` and `NoLateLayout` for any number of relays,
every loop of which runs by itself: all of them may have a message in hand at the same
time, and layouts of several sockets may be counted in another order than they were
shown in. What is bounded is how many sockets and layouts there are, and for how long
they come. `RInv` says that the manager knows exactly the sockets whose handler is
between opening and closing (`Known`) and that only the loop towards the viewer
has a layout to count (`Loops`). `RelayImplements` shows that each step of the
composition is a step or a stutter of `Privacy`, so the theorems above hold of the
daemon with its relays.

`HttpProofs` proves the five safety properties of `HttpAudit`, for any number
of goroutines, requests and people. `HttpInvariance` is common to all: what a
goroutine has in hand at each step (`Handler`), what the maps hold (`Maps`), and
how old the times in them may be. With it, `CoversRequests` and `RollingEnd` follow
step by step. The others each need an invariant of their own: `LiveInv` (what is in
`liveHTTP` is live, and the entries that no goroutine at `serve` has are no more than
the rows whose response broke off; a step that leaves entries behind pays for them,
`LiveCosts`), `OfferInv` (a row not
told yet is at one goroutine's `offer`), `MapInv` (without faults every open
rolling row is the one in its map, so two for the same key are one), and `OwnInv`,
which counts rows that nobody will end against the failures so far. `LiveInv` and
`OwnInv` give `HttpEndedAfterProxying`: a row that lasts as long as its request is in the hands of a
goroutine until a response breaks off or a store call fails. They assume
what the run assumes: `Slow`, the lateness of a goroutine, is not longer than the
lease or the window.

`GatewayProofs` proves `GatewayContract`, which is about no behaviour but about all
requests. `HttpTrustBoundary`: the `TrustBoundary` that `http_faults` evaluates on 144
callers holds for every set of callers, trusted proxies and rules. It assumes that
the rules look at the access, the user agent and `clientIP`'s address only
(`RuleAssumption`; `classify` gets nothing else, manager.go:553-554).
`GatewayRoutes`: the `RoutesAsDocumented` that the run evaluates on 1,279 URLs holds
for every set of cameras, times, dates and files. A lemma per row of the four tables
says which paths it accepts and what it reads (`ExportCustom` to `ClipLabel`); as the
code makes its tests in order (`FirstFit`), each kind of URL needs the rows before its
own to refuse it, and that is where the names matter: no camera is called what
another route begins with (`Reserved`), no time is called `start`, and `event` and
`clip` have no hyphen (`SegmentAssumption`). A camera may be called `api`, `cases`,
`custom`, `start` or `recordings`, and is found all the same.

`ExportProofs` proves `NamesAreFresh` and `RowsPerDownload`, and the properties of
`HttpAudit` that its run checks again, for any number of exports, renamings, lookups
and goroutines. `Since(x, name, t)` says that `name` was the name of `x` at `t` or
later, or, of the missing name, that a lookup has failed since. It stays true as
time goes on (`SinceKept`) and gets weaker with an earlier `t` (`SinceEarlier`), so it
can be carried along the way of an answer: from Frigate to the goroutine that asked,
into the cache whenever that goroutine gets there, from the cache to whoever finds it
before it expires, into the access and its row (`DInv`). For `RowsPerDownload` two
open rows of one export have different names (`OneRowEachName`). The named ones bear
different versions of the name, of which there is one more than there were renamings,
and at most one bears the missing name, which takes a failure. The steps of downloads
change nothing that `HttpProofs` speaks of but the stage of their goroutine, whence its
invariants hold of the composition (`DownloadInvariance`).

`MqttProofs` proves `InStepAtRest` and `ClosedOff` for any finite set of cameras, any
number of calls, connections and losses. `MInv` is about what has not arrived: every
message under way speaks of a camera the process has heard of, and says what memory
holds unless there was a race (`InFlight`); whatever the broker retains wrongly is
about to be published again, by a call, by paho's queue or by a callback that has its
snapshot or has yet to take it (`Repair`); and a light that a previous process left
on is on its way to the clean-up (`Strays`). `Close` makes memory say OFF before it
publishes (`Shut`), so that a callback's snapshot cannot light a camera after it. At
rest nothing is under way, so nothing is wrong. That paho sends what it kept in order
once it is connected is an assumption of the model, not of the proof.

`LifecycleProofs` proves `DirtyOrShown`, `NoneForgotten`, `OneMessageEach` and
`FinalAttempt` for any number of actions, failures and capacity of the queue. `NInv` is the notifier's
invariant: every action of the window shows or has cost a failed call
(`Awaited`), and `dirty` says so while a call is out (`Busy`). `FInv` adds what
`main` guarantees: the notifier's context is cancelled after the server has
finished (`Ordered`), so that the drain finds every action that was waited for
(`Flushed`). `OneMessageEach` rests on `OInv`: an action is in the queue once, or in
the window, and as long as no answer is lost what waits in the queue shows nowhere,
the window shows in its own message only, and two messages have no action in common
(`Apart`). `LifeImplements` carries the notifier's theorems to the composition.

Only model-checked: the liveness of `LightsSettle`, `RelayEnds`,
`EveryIntervalEnds`, `EveryAccessEnds`, `Repaired`, `ActionsShown` and `Exits`, which
the prover does not reach (it has no rule for fairness or `ENABLED`). Every other
property of a passing run is a theorem. Nothing recursive is used in modules with
proofs.

## Not modelled

* `classify`'s rules and the recognition of browsers by user agent: inputs.
* The reading and replaying of a request's body, the TLS and transport of the
  proxy: I/O without state.
* The go2rtc client: a GET and the decoding of its answer, an input of `poll`.
* The overview, the DOT graph, the browser scripts, configuration, formatting:
  they read one snapshot or one query, or run once.
* paho, the broker, SQLite, go2rtc, Frigate and Telegram are external: modelled
  as far as the code relies on them.

## Plan

Done: the store, the light with its relays, requests with names and routes, the
notifier with the shutdown, each with proofs; streams with their abstract
log, the publisher and the history page, proved too.

Next, in this order:

1. Downloads by people, which record an activity before the lookup, in
   `ExportDownloads` and its proofs.
2. `Manager`: `Run` with `Privacy` and `MqttPublisher` composed, so that a publish
   that waits holds up ticks and polls (architecture.md:160-161).
3. `classify`'s rules as operators, and a reference for them from the documents.
