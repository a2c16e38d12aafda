-------------------------------- MODULE Privacy --------------------------------
(***************************************************************************)
(* The privacy light of each camera: the half of Manager.tick that turns   *)
(* the live sources into ON and OFF, the Birdseye layouts that say which   *)
(* cameras a composite view shows, and the observer (MQTT) that is told of *)
(* the changes once the mutex is released.                                 *)
(*                                                                         *)
(* The sources are what the rest of the manager holds when a tick looks:   *)
(* stream sessions, live requests and leases.  Here they come and go as    *)
(* they please; HttpAudit and StreamAudit say how.  One unit of the clock  *)
(* is the second of the state ticker.                                      *)
(***************************************************************************)
EXTENDS Integers, Sequences

CONSTANTS
  Null,
  Cameras,        \* the physical cameras
  Birdseye,       \* the composite "camera"
  Sources,        \* the viewers there may be: [camera, suppressed]
  Fallback,       \* config birdseye_cameras
  Layouts,        \* what a control socket may say: sets of cameras
  Delay,          \* config privacy_clear_delay
  Late,           \* how late Run may come back to its select
  MaxClock,       \* bound on the clock
  Horizon,        \* bound: when viewers and sockets stop coming and going
  MaxControls,    \* bound on the control sockets
  MaxLayouts      \* bound on the layouts Frigate sends

ASSUME CameraAssumption ==
  Birdseye \notin Cameras /\ Fallback \subseteq Cameras /\ Layouts \subseteq SUBSET Cameras
ASSUME SourceAssumption ==
  Sources \subseteq [camera : Cameras \cup {Birdseye}, suppressed : BOOLEAN]
ASSUME TimeAssumption == Delay \in Nat \ {0} /\ Late \in Nat
ASSUME NullAssumption == Null \notin Nat

VARIABLES
  sources,      \* what sessions, liveHTTP and leases hold
  privacy,      \* m.privacy; FALSE stands for a missing entry too
  zeroSince,    \* m.zeroSince; Null stands for a missing entry
  controls,     \* m.birdseyeControlConns: id -> [layout, order]
  nextControl,  \* m.nextBirdseyeControl
  nextLayout,   \* m.nextBirdseyeLayout
  pending,      \* what the last tick has still to tell: {[camera, active]}
  fired,        \* the tick waiting in state.C, a channel of one
  clock,
  told,         \* what the observer heard last of each camera
  lastRaw,      \* history: the last tick that saw a source of a camera
  layouts,      \* history: [control, layout] in the order they came
  closed        \* history: the sockets that are gone

vars == <<sources, privacy, zeroSince, controls, nextControl, nextLayout,
          pending, fired, clock, told, lastRaw, layouts, closed>>
birdseye == <<controls, nextControl, nextLayout, layouts, closed>>
lights   == <<privacy, zeroSince, pending, told, lastRaw>>

Init ==
  /\ sources = {} /\ clock = 0 /\ fired = Null
  /\ privacy = [c \in Cameras |-> FALSE]
  /\ zeroSince = [c \in Cameras |-> Null]
  /\ controls = [i \in {} |-> Null] /\ nextControl = 0 /\ nextLayout = 0
  /\ pending = {}
  /\ told = [c \in Cameras |-> FALSE]
  /\ lastRaw = [c \in Cameras |-> Null]
  /\ layouts = <<>> /\ closed = {}

-------------------------------------------------------------------------------
\* birdseyeTargetsLocked: the layout with the greatest order among the open
\* control sockets, the configured cameras while no open socket has sent one.
Supplying == {i \in DOMAIN controls : controls[i].order # 0}
BirdseyeTargets ==
  IF Supplying = {} THEN Fallback
  ELSE LET latest == CHOOSE i \in Supplying :
                       \A j \in Supplying : controls[j].order <= controls[i].order
       IN  controls[latest].layout

\* The loops of tick over sessions, liveHTTP and leases: its map `raw'.
Observed(srcs) == {s.camera : s \in {t \in srcs : ~t.suppressed}}
Raw(srcs) ==
  IF Birdseye \in Observed(srcs)
  THEN (Observed(srcs) \ {Birdseye}) \cup BirdseyeTargets
  ELSE Observed(srcs)

\* The rest of tick, at the time `now' that the ticker sent.
Elapsed(c, now) == zeroSince[c] # Null /\ now - zeroSince[c] >= Delay
\* Mutant: a viewer who comes back does not start the delay over.
ZeroSinceKept(c, raw, now) ==
  IF ~privacy[c] THEN zeroSince[c]
  ELSE IF c \notin raw /\ Elapsed(c, now) THEN Null
  ELSE IF c \notin raw /\ zeroSince[c] = Null THEN now ELSE zeroSince[c]

\* Mutant: every quiet tick starts the delay again.
ZeroSinceRestarted(c, raw, now) ==
  IF c \in raw \/ ~privacy[c] \/ Elapsed(c, now) THEN Null ELSE now

ZeroSince(c, raw, now) ==
  CASE c \in raw -> Null
    [] c \notin raw /\ ~privacy[c] -> zeroSince[c]
    [] c \notin raw /\ privacy[c] ->
         IF Elapsed(c, now) THEN Null
         ELSE IF zeroSince[c] = Null THEN now ELSE zeroSince[c]

Changes == {[camera |-> c, active |-> privacy'[c]] :
              c \in {d \in Cameras : privacy'[d] # privacy[d]}}

\* Mutant: each tick tells its changes in a goroutine of its own.
PrivacyTickAsync(raw, now) ==
  /\ privacy' = [c \in Cameras |-> c \in raw \/ (privacy[c] /\ ~Elapsed(c, now))]
  /\ zeroSince' = [c \in Cameras |-> ZeroSince(c, raw, now)]
  /\ pending' = pending \cup Changes
  /\ lastRaw' = [c \in Cameras |-> IF c \in raw THEN now ELSE lastRaw[c]]
  /\ UNCHANGED <<told, birdseye>>

PrivacyTick(raw, now) ==
  /\ pending = {}
  /\ privacy' = [c \in Cameras |-> c \in raw \/ (privacy[c] /\ ~Elapsed(c, now))]
  /\ zeroSince' = [c \in Cameras |-> ZeroSince(c, raw, now)]
  /\ pending' = Changes
  /\ lastRaw' = [c \in Cameras |-> IF c \in raw THEN now ELSE lastRaw[c]]
  /\ UNCHANGED <<told, birdseye>>

\* The expiries at the start of tick take sources away.
Tick ==
  /\ fired # Null
  /\ \E left \in SUBSET sources :
       /\ fired > Horizon => left = sources
       /\ sources' = left
       /\ PrivacyTick(Raw(left), fired)
  /\ fired' = Null
  /\ UNCHANGED clock

\* The observer calls that end tick: the Run goroutine makes them one by one,
\* in the order of a Go map, without the mutex.
Observe ==
  \E change \in pending :
    /\ pending' = pending \ {change}
    /\ told' = [told EXCEPT ![change.camera] = change.active]
    /\ UNCHANGED <<sources, privacy, zeroSince, birdseye, fired, clock, lastRaw>>

\* Viewers come and go between ticks.
Appear(s) ==
  /\ clock <= Horizon /\ s \notin sources
  /\ sources' = sources \cup {s}
  /\ UNCHANGED <<lights, birdseye, fired, clock>>

Leave(s) ==
  /\ clock <= Horizon /\ s \in sources
  /\ sources' = sources \ {s}
  /\ UNCHANGED <<lights, birdseye, fired, clock>>

\* A second passes and the ticker fires; time.Ticker drops a tick that finds
\* its channel full.
Pass ==
  /\ clock < MaxClock
  /\ fired # Null => clock - fired < Late
  /\ clock' = clock + 1
  /\ fired' = IF fired = Null THEN clock' ELSE fired
  /\ UNCHANGED <<sources, lights, birdseye>>

\* The bounded clock has run out with nothing left to do.
Rest == clock = MaxClock /\ fired = Null /\ pending = {} /\ UNCHANGED vars

-------------------------------------------------------------------------------
BirdseyeControlOpened ==
  /\ clock <= Horizon /\ nextControl < MaxControls
  /\ nextControl' = nextControl + 1
  /\ controls' = [i \in DOMAIN controls \cup {nextControl'} |->
                    IF i = nextControl' THEN [layout |-> {}, order |-> 0]
                    ELSE controls[i]]
  /\ UNCHANGED <<sources, lights, nextLayout, layouts, closed, fired, clock>>

\* Mutant: the entry of a closed socket stays.
ClosedKept(i) ==
  /\ i \in DOMAIN controls
  /\ closed' = closed \cup {i}
  /\ UNCHANGED <<sources, lights, controls, nextControl, nextLayout, layouts, fired, clock>>

BirdseyeControlClosed(i) ==
  /\ i \in DOMAIN controls
  /\ controls' = [j \in DOMAIN controls \ {i} |-> controls[j]]
  /\ closed' = closed \cup {i}
  /\ UNCHANGED <<sources, lights, nextControl, nextLayout, layouts, fired, clock>>

\* Mutant: the order is not counted on.
UpdateUncounted(i, cameras) ==
  /\ Len(layouts) < MaxLayouts
  /\ layouts' = Append(layouts, [control |-> i, layout |-> cameras])
  /\ i \in DOMAIN controls
  /\ controls' = [controls EXCEPT ![i] = [layout |-> cameras, order |-> nextLayout + 1]]
  /\ UNCHANGED <<sources, lights, nextControl, nextLayout, closed, fired, clock>>

\* The layout of a socket that is no longer known is dropped (ControlRelay
\* shows that the gateway sends none).
UpdateBirdseyeLayout(i, cameras) ==
  /\ Len(layouts) < MaxLayouts
  /\ layouts' = Append(layouts, [control |-> i, layout |-> cameras])
  /\ IF i \in DOMAIN controls
     THEN /\ nextLayout' = nextLayout + 1
          /\ controls' = [controls EXCEPT
                            ![i] = [layout |-> cameras, order |-> nextLayout']]
     ELSE UNCHANGED <<controls, nextLayout>>
  /\ UNCHANGED <<sources, lights, nextControl, closed, fired, clock>>

Next ==
  \/ \E s \in Sources : Appear(s) \/ Leave(s)
  \/ Pass \/ Tick \/ Observe \/ Rest
  \/ BirdseyeControlOpened
  \/ \E i \in DOMAIN controls : BirdseyeControlClosed(i)
  \/ \E i \in 1 .. nextControl, cameras \in Layouts : UpdateBirdseyeLayout(i, cameras)

Spec == Init /\ [][Next]_vars

\* Time passes and Run comes back to its select.
FairSpec == Spec /\ WF_vars(Pass) /\ WF_vars(Tick) /\ WF_vars(Observe)

-------------------------------------------------------------------------------
\* The types of the state.
TypeOK ==
  /\ sources \subseteq Sources
  /\ privacy \in [Cameras -> BOOLEAN] /\ told \in [Cameras -> BOOLEAN]
  /\ zeroSince \in [Cameras -> Nat \cup {Null}]
  /\ lastRaw \in [Cameras -> Nat \cup {Null}]
  /\ nextControl \in Nat /\ nextLayout \in Nat
  /\ DOMAIN controls \subseteq 1 .. nextControl
  /\ \A i \in DOMAIN controls : controls[i] \in [layout : SUBSET Cameras, order : 0 .. nextLayout]
  /\ pending \subseteq [camera : Cameras, active : BOOLEAN]
  /\ fired \in Nat \cup {Null} /\ clock \in Nat
  /\ layouts \in Seq([control : 1 .. nextControl, layout : Layouts])
  /\ closed \subseteq 1 .. nextControl

\* A light goes out only at a tick that is Delay or more after the last tick
\* that saw an unsuppressed source, however often viewers came back meanwhile
\* (manager.go:722-748).
OffNeedsQuiet ==
  [][\A c \in Cameras : privacy[c] /\ ~privacy'[c] =>
       lastRaw[c] # Null /\ fired - lastRaw[c] >= Delay]_vars

\* The observer is behind by exactly what is still to be told: no change is
\* lost, repeated or told in the wrong order (manager.go:749-757).
ToldFollows ==
  \A c \in Cameras :
    /\ told[c] # privacy[c] <=> [camera |-> c, active |-> privacy[c]] \in pending
    /\ [camera |-> c, active |-> ~privacy[c]] \notin pending

\* A composite view lights the cameras of the newest layout that came over a
\* control socket still open, and the configured ones if there is none:
\* layouts of sockets closed meanwhile, or received late, do not count.
LayoutOfNewestSocket ==
  LET usable == {n \in DOMAIN layouts : layouts[n].control \notin closed}
  IN  IF usable = {} THEN BirdseyeTargets = Fallback
      ELSE \E n \in usable : /\ \A o \in usable : o <= n
                             /\ BirdseyeTargets = layouts[n].layout

\* Once viewers stay as they are, the observer ends up told of exactly the
\* cameras that are watched.
LightsSettle ==
  \A c \in Cameras : <>[](told[c] <=> c \in Raw(sources))
===============================================================================
