----------------------------- MODULE PrivacyProofs -----------------------------
(***************************************************************************)
(* What Privacy promises for every set of cameras and viewers, every delay *)
(* and every lateness of the ticks; then, which layout the composite view  *)
(* follows, for every number of control sockets and layouts; last, that    *)
(* the sockets of the relays are such sockets.                             *)
(***************************************************************************)
EXTENDS ControlRelay, TLAPS, WellFoundedInduction

\* The types that the arguments about time and about telling need.
Types ==
  /\ privacy \in [Cameras -> BOOLEAN] /\ told \in [Cameras -> BOOLEAN]
  /\ zeroSince \in [Cameras -> Nat \cup {Null}]
  /\ lastRaw \in [Cameras -> Nat \cup {Null}]
  /\ pending \subseteq [camera : Cameras, active : BOOLEAN]
  /\ fired \in Nat \cup {Null} /\ clock \in Nat

\* A light that is on was lit by a tick, and no tick has seen a viewer since
\* the delay began.
Seen(c) == zeroSince[c] # Null => lastRaw[c] # Null /\ lastRaw[c] <= zeroSince[c]
Lit == \A c \in Cameras : privacy[c] => lastRaw[c] # Null

\* Ticks come in the order of their times: the one that waits is not older
\* than any before it.
InOrder ==
  /\ fired # Null => fired <= clock
  /\ \A c \in Cameras : lastRaw[c] # Null =>
       lastRaw[c] <= clock /\ (fired # Null => lastRaw[c] <= fired)

IInv == Types /\ Lit /\ (\A c \in Cameras : Seen(c)) /\ InOrder

-------------------------------------------------------------------------------
\* Nothing is lit, told or awaited at the start (New, manager.go:85-105).
LEMMA InitInv == Init => IInv
BY DEF Init, IInv, Types, Lit, Seen, InOrder

\* The steps that leave the lights, the tick and the clock alone.
LEMMA ElsewhereInv ==
  ASSUME IInv, UNCHANGED <<lights, fired, clock>>
  PROVE  IInv'
BY DEF IInv, Types, Lit, Seen, InOrder, lights

\* The observer calls at the end of tick touch what is told only.
LEMMA ObserveInv ==
  ASSUME IInv, Observe
  PROVE  IInv'
<1>1. PICK change \in pending :
        /\ pending' = pending \ {change}
        /\ told' = [told EXCEPT ![change.camera] = change.active]
        /\ UNCHANGED <<sources, privacy, zeroSince, birdseye, fired, clock, lastRaw>>
  BY DEF Observe
<1>2. Types'
  BY <1>1 DEF IInv, Types
<1>3. QED
  BY <1>1, <1>2 DEF IInv, Lit, Seen, InOrder

\* The ticker sends a time that no tick has had yet.
LEMMA PassInv ==
  ASSUME IInv, Pass
  PROVE  IInv'
<1>1. Types'
  BY DEF IInv, Types, Pass, lights
<1>2. InOrder'
  BY NullAssumption DEF IInv, Types, InOrder, Pass, lights
<1>3. QED
  BY <1>1, <1>2 DEF IInv, Lit, Seen, Pass, lights

\* What a tick does to the delay of one camera.
LEMMA ZeroSinceType ==
  ASSUME Types, NEW c \in Cameras, NEW raw, NEW now \in Nat
  PROVE  ZeroSince(c, raw, now) \in Nat \cup {Null}
BY DEF ZeroSince, Types

\* tick keeps the delays in order: a delay starts at a tick that saw nobody.
LEMMA TickInv ==
  ASSUME IInv, Tick
  PROVE  IInv'
<1>1. PICK left \in SUBSET sources : PrivacyTick(Raw(left), fired)
  BY DEF Tick
<1> DEFINE raw == Raw(left)
<1> HIDE DEF raw
<1>2. PrivacyTick(raw, fired)
  BY <1>1 DEF raw
<1>3. fired \in Nat /\ fired # Null /\ fired' = Null /\ clock' = clock
  BY DEF Tick, IInv, Types
<1>4. /\ privacy' \in [Cameras -> BOOLEAN] /\ told' \in [Cameras -> BOOLEAN]
      /\ pending' \subseteq [camera : Cameras, active : BOOLEAN]
  <2>1. privacy' = [c \in Cameras |-> c \in raw \/ (privacy[c] /\ ~Elapsed(c, fired))]
    BY <1>2 DEF PrivacyTick
  <2>2. privacy' \in [Cameras -> BOOLEAN]
    BY <2>1
  <2>3. QED
    <3>1. Changes \subseteq [camera : Cameras, active : BOOLEAN]
      BY <2>2 DEF Changes
    <3>2. pending' = Changes /\ told' = told
      BY <1>2 DEF PrivacyTick
    <3>3. QED
      BY <2>2, <3>1, <3>2 DEF IInv, Types
<1>5. zeroSince' \in [Cameras -> Nat \cup {Null}]
  BY <1>2, <1>3, ZeroSinceType DEF PrivacyTick, IInv
<1>6. lastRaw' \in [Cameras -> Nat \cup {Null}]
  BY <1>2, <1>3 DEF PrivacyTick, IInv, Types
<1>7. Lit'
  <2> SUFFICES ASSUME NEW c \in Cameras, privacy'[c] PROVE lastRaw'[c] # Null
    BY DEF Lit
  <2>1. c \in raw \/ privacy[c]
    BY <1>2 DEF PrivacyTick
  <2>2. lastRaw'[c] = IF c \in raw THEN fired ELSE lastRaw[c]
    BY <1>2 DEF PrivacyTick
  <2>3. QED
    BY <1>3, <2>1, <2>2 DEF IInv, Lit
<1>8. ASSUME NEW c \in Cameras PROVE Seen(c)'
  <2>1. /\ zeroSince'[c] = ZeroSince(c, raw, fired)
        /\ lastRaw'[c] = IF c \in raw THEN fired ELSE lastRaw[c]
    BY <1>2 DEF PrivacyTick
  <2>2. CASE c \in raw
    BY <2>1, <2>2 DEF Seen, ZeroSince
  <2>3. CASE c \notin raw /\ ~privacy[c]
    BY <2>1, <2>3 DEF Seen, ZeroSince, IInv
  <2>4. CASE c \notin raw /\ privacy[c]
    <3>1. lastRaw[c] # Null /\ lastRaw[c] <= fired
      BY <1>3, <2>4 DEF IInv, Lit, InOrder
    <3>2. zeroSince'[c] \in {Null, fired, zeroSince[c]}
      BY <2>1, <2>4 DEF ZeroSince
    <3>3. QED
      BY <2>1, <2>4, <3>1, <3>2 DEF Seen, IInv
  <2>5. QED
    BY <2>2, <2>3, <2>4
<1>9. InOrder'
  BY <1>2, <1>3 DEF InOrder, PrivacyTick, IInv, Types
<1>10. QED
  BY <1>3, <1>4, <1>5, <1>6, <1>7, <1>8, <1>9 DEF IInv, Types

\* The invariant, action by action.
LEMMA NextInv == IInv /\ [Next]_vars => IInv'
<1> SUFFICES ASSUME IInv, [Next]_vars PROVE IInv'
  OBVIOUS
<1>1. CASE \E s \in Sources : Appear(s) \/ Leave(s)
  BY <1>1, ElsewhereInv DEF Appear, Leave, lights
<1>2. CASE Pass
  BY <1>2, PassInv
<1>3. CASE Tick
  BY <1>3, TickInv
<1>4. CASE Observe
  BY <1>4, ObserveInv
<1>5. CASE BirdseyeControlOpened
  BY <1>5, ElsewhereInv DEF BirdseyeControlOpened, lights
<1>6. CASE \E i \in DOMAIN controls : BirdseyeControlClosed(i)
  BY <1>6, ElsewhereInv DEF BirdseyeControlClosed, lights
<1>7. CASE \E i \in 1 .. nextControl, cameras \in Layouts : UpdateBirdseyeLayout(i, cameras)
  BY <1>7, ElsewhereInv DEF UpdateBirdseyeLayout, lights
<1>8. CASE Rest \/ UNCHANGED vars
  BY <1>8, ElsewhereInv DEF Rest, vars, lights
<1>9. QED
  BY <1>1, <1>2, <1>3, <1>4, <1>5, <1>6, <1>7, <1>8 DEF Next

\* The invariant the theorems rest on: a tick's order of events (manager.go:687-748).
THEOREM Invariance == Spec => []IInv
BY InitInv, NextInv, PTL DEF Spec

-------------------------------------------------------------------------------
\* Only a tick that finds the delay over puts a light out (manager.go:737-743).
LEMMA QuietStep ==
  ASSUME IInv, [Next]_vars, NEW c \in Cameras, privacy[c], ~privacy'[c]
  PROVE  lastRaw[c] # Null /\ fired - lastRaw[c] >= Delay
<1>1. Tick
  BY DEF Next, vars, Appear, Leave, Pass, Observe, Rest, BirdseyeControlOpened,
         BirdseyeControlClosed, UpdateBirdseyeLayout, lights
<1>2. PICK left \in SUBSET sources : PrivacyTick(Raw(left), fired)
  BY <1>1 DEF Tick
<1>3. Elapsed(c, fired)
  BY <1>2 DEF PrivacyTick
<1>4. zeroSince[c] # Null /\ fired - zeroSince[c] >= Delay
  BY <1>3 DEF Elapsed
<1>5. /\ lastRaw[c] \in Nat /\ zeroSince[c] \in Nat /\ fired \in Nat
      /\ lastRaw[c] # Null /\ lastRaw[c] <= zeroSince[c]
  BY <1>1, <1>4 DEF IInv, Types, Seen, Tick
<1>6. QED
  BY <1>4, <1>5, TimeAssumption

\* For every delay and every lateness of the ticks, a light goes out only when
\* the delay has passed since the last tick that saw a viewer.
THEOREM OffIsQuiet == Spec => OffNeedsQuiet
<1>1. IInv /\ [Next]_vars =>
        [\A c \in Cameras : privacy[c] /\ ~privacy'[c] =>
           lastRaw[c] # Null /\ fired - lastRaw[c] >= Delay]_vars
  BY QuietStep
<1>2. QED
  BY <1>1, Invariance, PTL DEF Spec, OffNeedsQuiet

-------------------------------------------------------------------------------
\* A change that is told is the last one of its camera.
LEMMA ObserveTold ==
  ASSUME Types, ToldFollows, Observe
  PROVE  ToldFollows'
<1>1. PICK change \in pending :
        /\ pending' = pending \ {change}
        /\ told' = [told EXCEPT ![change.camera] = change.active]
        /\ privacy' = privacy
  BY DEF Observe
<1>2. /\ change.camera \in Cameras /\ change.active \in BOOLEAN
      /\ change = [camera |-> change.camera, active |-> change.active]
  BY <1>1 DEF Types
<1> SUFFICES ASSUME NEW c \in Cameras
             PROVE /\ told'[c] # privacy'[c]
                        <=> [camera |-> c, active |-> privacy'[c]] \in pending'
                   /\ [camera |-> c, active |-> ~privacy'[c]] \notin pending'
  BY DEF ToldFollows
<1>3. /\ told[c] # privacy[c] <=> [camera |-> c, active |-> privacy[c]] \in pending
      /\ [camera |-> c, active |-> ~privacy[c]] \notin pending
  BY DEF ToldFollows
<1>4. CASE c = change.camera
  <2>1. change.active = privacy[c]
    BY <1>1, <1>2, <1>3, <1>4 DEF Types
  <2>2. told'[c] = privacy[c]
    BY <1>1, <1>4, <2>1 DEF Types
  <2>3. QED
    BY <1>1, <1>2, <1>3, <1>4, <2>1, <2>2
<1>5. CASE c # change.camera
  <2>1. told'[c] = told[c]
    BY <1>1, <1>5 DEF Types
  <2>2. \A b \in BOOLEAN : [camera |-> c, active |-> b] # change
    BY <1>5
  <2>3. QED
    BY <1>1, <1>3, <2>1, <2>2 DEF Types
<1>6. QED
  BY <1>4, <1>5

\* A tick finds everything told and tells exactly what it changes.
LEMMA TickTold ==
  ASSUME IInv, ToldFollows, Tick
  PROVE  ToldFollows'
<1>1. PICK left \in SUBSET sources : PrivacyTick(Raw(left), fired)
  BY DEF Tick
<1>2. pending = {} /\ told' = told /\ pending' = Changes
  BY <1>1 DEF PrivacyTick
<1>3. privacy' \in [Cameras -> BOOLEAN] /\ privacy \in [Cameras -> BOOLEAN]
  BY TickInv DEF IInv, Types
<1> SUFFICES ASSUME NEW c \in Cameras
             PROVE /\ told'[c] # privacy'[c]
                        <=> [camera |-> c, active |-> privacy'[c]] \in pending'
                   /\ [camera |-> c, active |-> ~privacy'[c]] \notin pending'
  BY DEF ToldFollows
<1>4. told[c] = privacy[c]
  BY <1>2 DEF ToldFollows
<1>5. [camera |-> c, active |-> privacy'[c]] \in Changes <=> privacy'[c] # privacy[c]
  BY DEF Changes
<1>6. [camera |-> c, active |-> ~privacy'[c]] \notin Changes
  <2>1. \A d \in Cameras : [camera |-> d, active |-> privacy'[d]]
                             # [camera |-> c, active |-> ~privacy'[c]]
    BY <1>3
  <2>2. QED
    BY <2>1 DEF Changes
<1>7. QED
  BY <1>2, <1>4, <1>5, <1>6

\* No change of a light is lost, repeated or told out of turn, for every set of
\* cameras and however slow the observer is.
THEOREM TellingComplete == Spec => []ToldFollows
<1>1. Init => ToldFollows
  BY DEF Init, ToldFollows
<1>2. IInv /\ ToldFollows /\ [Next]_vars => ToldFollows'
  <2> SUFFICES ASSUME IInv, ToldFollows, [Next]_vars PROVE ToldFollows'
    OBVIOUS
  <2>1. CASE Tick
    BY <2>1, TickTold
  <2>2. CASE Observe
    BY <2>2, ObserveTold DEF IInv
  <2>3. CASE ~Tick /\ ~Observe
    <3>1. UNCHANGED <<privacy, told, pending>>
      BY <2>3 DEF Next, vars, Appear, Leave, Pass, Rest, BirdseyeControlOpened,
                  BirdseyeControlClosed, UpdateBirdseyeLayout, lights
    <3>2. QED
      BY <3>1 DEF ToldFollows
  <2>4. QED
    BY <2>1, <2>2, <2>3
<1>3. QED
  BY <1>1, <1>2, Invariance, PTL DEF Spec
-------------------------------------------------------------------------------
(***************************************************************************)
(* The composite view: the counter nextBirdseyeLayout puts the sockets in  *)
(* the order of their latest layouts, so the greatest order among the open *)
(* ones is the newest layout that is still to be believed.                 *)
(***************************************************************************)

\* The latest layout of a socket.
Last(i, n) ==
  /\ n \in DOMAIN layouts /\ layouts[n].control = i
  /\ \A m \in DOMAIN layouts : m > n => layouts[m].control # i

SocketTypes ==
  /\ nextControl \in Nat /\ nextLayout \in Nat
  /\ DOMAIN controls = (1 .. nextControl) \ closed
  /\ closed \subseteq 1 .. nextControl
  /\ \A i \in DOMAIN controls : controls[i].order \in 0 .. nextLayout
  /\ layouts \in Seq([control : Nat, layout : SUBSET Cameras])
  /\ \A n \in DOMAIN layouts : layouts[n].control \in 1 .. nextControl

\* A socket without an order has sent nothing.
Silent ==
  \A i \in DOMAIN controls, n \in DOMAIN layouts :
    controls[i].order = 0 => layouts[n].control # i

\* One with an order holds the latest it sent.
Current ==
  \A i \in Supplying : \E n \in DOMAIN layouts :
    Last(i, n) /\ layouts[n].layout = controls[i].layout

\* The orders agree with the order in which the latest layouts came.
Agree ==
  \A i, j \in Supplying, n, m \in DOMAIN layouts :
    Last(i, n) /\ Last(j, m) /\ n < m => controls[i].order < controls[j].order

SInv == SocketTypes /\ Silent /\ Current /\ Agree

-------------------------------------------------------------------------------
\* No socket is open at the start (New, manager.go:85-105).
LEMMA InitSInv == Init => SInv
BY DEF Init, SInv, SocketTypes, Silent, Current, Agree, Supplying

\* The steps of viewers, ticks and the observer.
LEMMA ElsewhereSInv ==
  ASSUME SInv, UNCHANGED birdseye
  PROVE  SInv'
BY DEF SInv, SocketTypes, Silent, Current, Agree, Supplying, Last, birdseye

\* A new socket has an id that no layout names (manager.go:125-138).
LEMMA OpenedSInv ==
  ASSUME SInv, BirdseyeControlOpened
  PROVE  SInv'
<1>1. /\ nextControl \in Nat /\ nextControl' = nextControl + 1
      /\ nextLayout' = nextLayout /\ layouts' = layouts /\ closed' = closed
      /\ DOMAIN controls' = DOMAIN controls \cup {nextControl'}
      /\ \A i \in DOMAIN controls : controls'[i] = controls[i]
      /\ controls'[nextControl'].order = 0
  BY DEF SInv, SocketTypes, BirdseyeControlOpened
<1>2. SocketTypes'
  BY <1>1 DEF SInv, SocketTypes
<1>3. nextControl' \notin DOMAIN controls
      /\ \A n \in DOMAIN layouts : layouts[n].control # nextControl'
  BY <1>1 DEF SInv, SocketTypes
<1>4. Supplying' = Supplying
  BY <1>1, <1>3 DEF Supplying
<1>5. Silent'
  BY <1>1, <1>3 DEF SInv, Silent
<1>6. Current' /\ Agree'
  BY <1>1, <1>4 DEF SInv, Current, Agree, Last, Supplying
<1>7. QED
  BY <1>2, <1>5, <1>6 DEF SInv

\* A socket that closes takes its order with it (manager.go:140-144).
LEMMA ClosedSInv ==
  ASSUME SInv, NEW k \in DOMAIN controls, BirdseyeControlClosed(k)
  PROVE  SInv'
<1>1. /\ nextControl' = nextControl /\ nextLayout' = nextLayout /\ layouts' = layouts
      /\ closed' = closed \cup {k}
      /\ DOMAIN controls' = DOMAIN controls \ {k}
      /\ \A i \in DOMAIN controls' : controls'[i] = controls[i]
  BY DEF BirdseyeControlClosed
<1>2. SocketTypes'
  BY <1>1 DEF SInv, SocketTypes
<1>3. Supplying' \subseteq Supplying
  BY <1>1 DEF Supplying
<1>4. Silent' /\ Current' /\ Agree'
  BY <1>1, <1>3 DEF SInv, Silent, Current, Agree, Last, Supplying
<1>5. QED
  BY <1>2, <1>4 DEF SInv

\* The layout of an open socket gets the greatest order; one of a closed socket
\* is dropped (manager.go:146-164).
LEMMA UpdatedSInv ==
  ASSUME SInv, NEW k \in 1 .. nextControl, NEW cameras \in Layouts,
         UpdateBirdseyeLayout(k, cameras)
  PROVE  SInv'
<1>1. /\ layouts \in Seq([control : Nat, layout : SUBSET Cameras])
      /\ nextControl \in Nat /\ nextLayout \in Nat /\ cameras \in SUBSET Cameras
  BY CameraAssumption DEF SInv, SocketTypes
<1>2. /\ layouts' = Append(layouts, [control |-> k, layout |-> cameras])
      /\ nextControl' = nextControl /\ closed' = closed
  BY DEF UpdateBirdseyeLayout
<1> PICK N \in Nat : N = Len(layouts) + 1
  BY <1>1
<1>3. /\ layouts' \in Seq([control : Nat, layout : SUBSET Cameras])
      /\ N \in Nat /\ Len(layouts) \in Nat /\ DOMAIN layouts = 1 .. Len(layouts) /\ DOMAIN layouts' = 1 .. N
      /\ \A n \in DOMAIN layouts : layouts'[n] = layouts[n] /\ n < N
      /\ layouts'[N].control = k /\ layouts'[N].layout = cameras
  BY <1>1, <1>2
<1>4. /\ DOMAIN layouts' = DOMAIN layouts \cup {N}
      /\ \A n \in DOMAIN layouts : n \in Nat
  BY <1>3
<1>5. ASSUME NEW i, i # k PROVE \A n : Last(i, n)' <=> Last(i, n)
  BY <1>3, <1>4, <1>5 DEF Last
<1>6. \A n : Last(k, n)' <=> n = N
  <2>1. Last(k, N)'
    BY <1>3, <1>4 DEF Last
  <2>2. ASSUME NEW n, Last(k, n)', n # N PROVE FALSE
    <3>1. n \in DOMAIN layouts /\ N > n
      BY <1>3, <1>4, <2>2 DEF Last
    <3>2. QED
      BY <1>3, <1>4, <2>2, <3>1 DEF Last
  <2>3. QED
    BY <2>1, <2>2
<1>7. \A n \in DOMAIN layouts' : layouts'[n].control \in 1 .. nextControl
  BY <1>3, <1>4 DEF SInv, SocketTypes
<1>8. CASE k \notin DOMAIN controls
  <2>1. UNCHANGED <<controls, nextLayout>>
    BY <1>8 DEF UpdateBirdseyeLayout
  <2>2. Supplying' = Supplying /\ k \notin Supplying
    BY <1>8, <2>1 DEF Supplying
  <2>3. SocketTypes'
    BY <1>2, <1>3, <1>7, <2>1 DEF SInv, SocketTypes
  <2>4. Silent'
    BY <1>3, <1>4, <1>8, <2>1 DEF SInv, Silent
  <2>5. Current'
    BY <1>3, <1>4, <1>5, <2>1, <2>2 DEF SInv, Current
  <2>6. Agree'
    <3> SUFFICES ASSUME NEW i \in Supplying, NEW j \in Supplying,
                        NEW n \in DOMAIN layouts', NEW m \in DOMAIN layouts',
                        Last(i, n)', Last(j, m)', n < m
                 PROVE  controls[i].order < controls[j].order
      BY <2>1, <2>2 DEF Agree
    <3>1. Last(i, n) /\ Last(j, m)
      BY <1>5, <2>2
    <3>2. QED
      BY <3>1 DEF SInv, Agree, Last
  <2>7. QED
    BY <2>3, <2>4, <2>5, <2>6 DEF SInv
<1>9. CASE k \in DOMAIN controls
  <2>1. /\ nextLayout' = nextLayout + 1 /\ DOMAIN controls' = DOMAIN controls
        /\ controls'[k].layout = cameras /\ controls'[k].order = nextLayout + 1
        /\ \A i \in DOMAIN controls \ {k} : controls'[i] = controls[i]
    BY <1>9 DEF UpdateBirdseyeLayout
  <2>2. Supplying' = Supplying \cup {k}
    BY <1>1, <1>9, <2>1 DEF Supplying
  <2>3. SocketTypes'
    <3>1. ASSUME NEW i \in DOMAIN controls' PROVE controls'[i].order \in 0 .. nextLayout'
      <4>1. CASE i = k
        BY <1>1, <2>1, <4>1
      <4>2. CASE i # k
        <5>1. controls'[i].order \in 0 .. nextLayout
          BY <2>1, <4>2 DEF SInv, SocketTypes
        <5>2. QED
          BY <1>1, <2>1, <5>1
      <4>3. QED
        BY <4>1, <4>2
    <3>2. QED
      BY <1>1, <1>2, <1>3, <1>7, <2>1, <3>1 DEF SInv, SocketTypes
  <2>4. Silent'
    <3> SUFFICES ASSUME NEW i \in DOMAIN controls', NEW n \in DOMAIN layouts',
                        controls'[i].order = 0
                 PROVE  layouts'[n].control # i
      BY DEF Silent
    <3>1. i # k
      BY <1>1, <2>1
    <3>2. QED
      BY <1>3, <1>4, <2>1, <3>1 DEF SInv, Silent
  <2>5. Current'
    <3> SUFFICES ASSUME NEW i \in Supplying'
                 PROVE  \E n \in DOMAIN layouts' :
                          Last(i, n)' /\ layouts'[n].layout = controls'[i].layout
      BY DEF Current
    <3>1. CASE i = k
      BY <1>3, <1>4, <1>6, <2>1, <3>1
    <3>2. CASE i # k
      <4>1. i \in Supplying /\ controls'[i] = controls[i]
        BY <2>1, <2>2, <3>2 DEF Supplying
      <4>2. PICK n \in DOMAIN layouts : Last(i, n) /\ layouts[n].layout = controls[i].layout
        BY <4>1 DEF SInv, Current
      <4>3. QED
        BY <1>3, <1>4, <1>5, <3>2, <4>1, <4>2
    <3>3. QED
      BY <3>1, <3>2
  <2>6. Agree'
    <3> SUFFICES ASSUME NEW i \in Supplying', NEW j \in Supplying',
                        NEW n \in DOMAIN layouts', NEW m \in DOMAIN layouts',
                        Last(i, n)', Last(j, m)', n < m
                 PROVE  controls'[i].order < controls'[j].order
      BY DEF Agree
    <3>1. CASE i = k
      <4>1. n = N /\ m \in Nat /\ m <= N
        BY <1>3, <1>4, <1>6, <3>1
      <4>2. QED
        BY <1>3, <4>1
    <3>2. CASE i # k /\ j = k
      <4>1. i \in DOMAIN controls /\ controls'[i] = controls[i]
        BY <2>1, <2>2, <3>2 DEF Supplying
      <4>2. controls[i].order \in 0 .. nextLayout
        BY <4>1 DEF SInv, SocketTypes
      <4>3. QED
        BY <1>1, <2>1, <3>2, <4>1, <4>2
    <3>3. CASE i # k /\ j # k
      <4>1. /\ i \in Supplying /\ controls'[i] = controls[i]
            /\ j \in Supplying /\ controls'[j] = controls[j]
        BY <2>1, <2>2, <3>3 DEF Supplying
      <4>2. Last(i, n) /\ Last(j, m)
        BY <1>5, <3>3
      <4>3. QED
        BY <4>1, <4>2 DEF SInv, Agree, Last
    <3>4. QED
      BY <3>1, <3>2, <3>3
  <2>7. QED
    BY <2>3, <2>4, <2>5, <2>6 DEF SInv
<1>10. QED
  BY <1>8, <1>9

\* The invariant, action by action.
LEMMA NextSInv == SInv /\ [Next]_vars => SInv'
<1> SUFFICES ASSUME SInv, [Next]_vars PROVE SInv'
  OBVIOUS
<1>1. CASE \E s \in Sources : Appear(s) \/ Leave(s)
  BY <1>1, ElsewhereSInv DEF Appear, Leave
<1>2. CASE Pass \/ Observe \/ Rest \/ UNCHANGED vars
  BY <1>2, ElsewhereSInv DEF Pass, Observe, Rest, vars, birdseye
<1>3. CASE Tick
  BY <1>3, ElsewhereSInv DEF Tick, PrivacyTick
<1>4. CASE BirdseyeControlOpened
  BY <1>4, OpenedSInv
<1>5. CASE \E i \in DOMAIN controls : BirdseyeControlClosed(i)
  BY <1>5, ClosedSInv
<1>6. CASE \E i \in 1 .. nextControl, cameras \in Layouts : UpdateBirdseyeLayout(i, cameras)
  BY <1>6, UpdatedSInv
<1>7. QED
  BY <1>1, <1>2, <1>3, <1>4, <1>5, <1>6 DEF Next

-------------------------------------------------------------------------------
\* The least-number principle, for a set.
LEMMA LeastNatural ==
  ASSUME NEW T, T \subseteq Nat, T # {}
  PROVE  \E x \in T : \A y \in T : x <= y
<1>1. \E x \in T : \A y \in T : ~ (<<y, x>> \in OpToRel(<, Nat))
  BY WFMin, NatLessThanWellFounded
<1>2. \A x, y \in Nat : <<y, x>> \in OpToRel(<, Nat) <=> y < x
  BY DEF OpToRel
<1>3. PICK x \in T : \A y \in T : ~ (y < x)
  BY <1>1, <1>2
<1>4. QED
  BY <1>3

\* Of several layouts one came last.
LEMMA NewestLayout ==
  ASSUME NEW U, layouts \in Seq([control : Nat, layout : SUBSET Cameras]),
         U \subseteq DOMAIN layouts, U # {}
  PROVE  \E n \in U : \A o \in U : o <= n
<1> DEFINE T == {Len(layouts) - n : n \in U}
<1>1. Len(layouts) \in Nat /\ DOMAIN layouts = 1 .. Len(layouts)
  OBVIOUS
<1>2. T \subseteq Nat /\ T # {}
  BY <1>1
<1>3. PICK x \in T : \A y \in T : x <= y
  BY <1>2, LeastNatural
<1>4. PICK n \in U : x = Len(layouts) - n
  OBVIOUS
<1>5. ASSUME NEW o \in U PROVE o <= n
  <2>1. x <= Len(layouts) - o
    BY <1>3
  <2>2. n \in Nat /\ o \in Nat
    BY <1>1
  <2>3. QED
    BY <1>1, <1>4, <2>1, <2>2
<1>6. QED
  BY <1>4, <1>5

\* What birdseyeTargetsLocked makes of the sockets (manager.go:760-778).
LEMMA NewestWins == SInv => LayoutOfNewestSocket
<1> SUFFICES ASSUME SInv PROVE LayoutOfNewestSocket
  OBVIOUS
<1> DEFINE usable == {n \in DOMAIN layouts : layouts[n].control \notin closed}
<1>1. \A n \in usable : layouts[n].control \in Supplying
  BY DEF SInv, SocketTypes, Silent, Supplying
<1>2. ASSUME NEW i \in Supplying, NEW n, Last(i, n) PROVE n \in usable
  BY <1>2 DEF SInv, SocketTypes, Supplying, Last
<1>3. CASE usable = {}
  <2>1. Supplying = {}
    BY <1>2, <1>3 DEF SInv, Current
  <2>2. QED
    BY <1>3, <2>1 DEF LayoutOfNewestSocket, BirdseyeTargets
<1>4. CASE usable # {}
  <2>1. layouts \in Seq([control : Nat, layout : SUBSET Cameras])
    BY DEF SInv, SocketTypes
  <2>2. PICK n \in usable : \A o \in usable : o <= n
    BY <1>4, <2>1, NewestLayout
  <2> DEFINE i == layouts[n].control
  <2>3. i \in Supplying
    BY <1>1
  <2>4. \A m \in usable : m \in Nat
    BY <2>1
  <2>5. Last(i, n)
    <3> SUFFICES ASSUME NEW m \in DOMAIN layouts, m > n PROVE layouts[m].control # i
      BY DEF Last
    <3>1. m \notin usable
      BY <2>1, <2>2
    <3>2. QED
      BY <3>1
  <2>6. ASSUME NEW j \in Supplying, j # i
        PROVE  controls[j].order < controls[i].order
    <3>1. PICK m \in DOMAIN layouts : Last(j, m)
      BY DEF SInv, Current
    <3>2. m \in usable /\ m # n
      BY <1>2, <2>6, <3>1 DEF Last
    <3>3. m < n
      BY <2>2, <2>4, <3>2
    <3>4. QED
      BY <2>3, <2>5, <3>1, <3>3 DEF SInv, Agree
  <2>7. \A j \in Supplying : controls[j].order \in Nat
    BY DEF SInv, SocketTypes, Supplying
  <2>8. \A j \in Supplying :
          (\A k \in Supplying : controls[k].order <= controls[j].order) <=> j = i
    BY <2>3, <2>6, <2>7
  <2>9. BirdseyeTargets = controls[i].layout
    <3> HIDE DEF i
    <3>1. i = CHOOSE j \in Supplying :
                \A k \in Supplying : controls[k].order <= controls[j].order
      BY <2>3, <2>8
    <3>2. QED
      BY <2>3, <3>1 DEF BirdseyeTargets
  <2>10. controls[i].layout = layouts[n].layout
    <3>1. PICK m \in DOMAIN layouts : Last(i, m) /\ layouts[m].layout = controls[i].layout
      BY <2>3 DEF SInv, Current
    <3>2. m = n
      BY <2>1, <2>5, <3>1 DEF Last
    <3>3. QED
      BY <3>1, <3>2
  <2>11. QED
    BY <1>4, <2>2, <2>9, <2>10 DEF LayoutOfNewestSocket
<1>5. QED
  BY <1>3, <1>4

\* For every number of sockets and layouts a composite view follows the newest
\* layout of a socket that is open, and the configured cameras without one.
THEOREM NewestSocketWins == Spec => []LayoutOfNewestSocket
<1>1. Spec => []SInv
  BY InitSInv, NextSInv, PTL DEF Spec
<1>2. QED
  BY <1>1, NewestWins, PTL
-------------------------------------------------------------------------------
(***************************************************************************)
(* The relay and the manager agree, for every number of relays, cameras    *)
(* and layouts; and what Privacy promises of sockets that behave in any    *)
(* way holds of those the gateway serves.                                  *)
(***************************************************************************)

Open(r) == handler[r] \in {"relaying", "closing"}

RelayTypes ==
  /\ handler \in [Relays -> {"new", "relaying", "closing", "done"}]
  /\ loop \in [Relays -> [Directions -> [at : {"reading", "copying", "relayed", "failed"},
                                         message : Layouts \cup Commands \cup {Null}]]]
  /\ DOMAIN shown = Relays /\ DOMAIN shut = Relays
  /\ nextControl \in Nat

\* The ids are given out in order, and the manager knows those of open relays.
Known ==
  /\ \A r \in Relays : handler[r] # "new" => r \in 1 .. nextControl
  /\ \A r \in Relays : Open(r) <=> r \in DOMAIN controls

\* What a loop may be doing: nothing before the relay starts and after it ends,
\* and only the one towards the viewer has a layout to count.
Loops ==
  \A r \in Relays :
    /\ handler[r] = "new" => shown[r] = {} /\ \A d \in Directions : loop[r][d] = Reading
    /\ handler[r] = "done" => \A d \in Directions : loop[r][d] = Failed
    /\ \A d \in Directions : loop[r][d].at = "relayed" =>
         d = "toViewer" /\ loop[r][d] = At("relayed", shown[r])

RInv == RelayTypes /\ Known /\ Loops /\ CountedIsShown

-------------------------------------------------------------------------------
\* No relay has begun.
LEMMA InitRInv == RelayInit => RInv
<1> SUFFICES ASSUME RelayInit PROVE RInv
  OBVIOUS
<1>1. RelayTypes
  BY DEF RelayInit, Init, RelayTypes, Reading, At
<1>2. Known /\ Loops /\ CountedIsShown
  BY DEF RelayInit, Init, Known, Open, Loops, CountedIsShown, Reading, At, Directions
<1>3. QED
  BY <1>1, <1>2 DEF RInv

\* Viewers and ticks do not touch the sockets.
LEMMA LightsRInv ==
  ASSUME RInv, UNCHANGED <<relays, birdseye>>
  PROVE  RInv'
BY DEF RInv, RelayTypes, Known, Open, Loops, CountedIsShown, relays, birdseye

\* A relay starts with the next id, which no relay and no map has.
LEMMA ServeRInv ==
  ASSUME RInv, NEW r \in Relays, Serve(r)
  PROVE  RInv'
<1>1. /\ r = nextControl + 1 /\ nextControl' = r
      /\ controls' = [i \in DOMAIN controls \cup {r} |->
                        IF i = r THEN [layout |-> {}, order |-> 0] ELSE controls[i]]
      /\ handler' = [handler EXCEPT ![r] = "relaying"]
      /\ UNCHANGED <<loop, shut, shown>>
  BY DEF Serve, BirdseyeControlOpened
<1>2. handler[r] = "new" /\ shown[r] = {} /\ \A d \in Directions : loop[r][d] = Reading
  BY <1>1 DEF RInv, RelayTypes, Known, Loops
<1>3. RelayTypes'
  BY <1>1 DEF RInv, RelayTypes
<1>4. Known'
  BY <1>1 DEF RInv, RelayTypes, Known, Open
<1>5. Loops'
  BY <1>1, <1>2 DEF RInv, RelayTypes, Loops, Reading, At
<1>6. CountedIsShown'
  BY <1>1, <1>2 DEF RInv, RelayTypes, Known, Open, CountedIsShown
<1>7. QED
  BY <1>3, <1>4, <1>5, <1>6 DEF RInv

\* A loop begins to copy, fails, or copies without anything to count or show.
LEMMA LoopRInv ==
  ASSUME RInv, NEW r \in Relays, NEW d \in Directions, Open(r),
         loop[r][d].at # "relayed",
         NEW at \in {"reading", "copying", "failed"}, NEW m \in Layouts \cup Commands \cup {Null},
         loop' = [loop EXCEPT ![r][d] = At(at, m)],
         UNCHANGED <<vars, handler, shut, shown>>
  PROVE  RInv'
<1>1. /\ loop' \in [Relays -> [Directions -> [at : {"reading", "copying", "relayed", "failed"},
                                              message : Layouts \cup Commands \cup {Null}]]]
      /\ \A q \in Relays, e \in Directions :
           loop'[q][e] = IF q = r /\ e = d THEN At(at, m) ELSE loop[q][e]
  BY DEF RInv, RelayTypes, At
<1>2. RelayTypes' /\ Known'
  BY <1>1 DEF RInv, RelayTypes, Known, Open, vars
<1>3. Loops'
  BY <1>1 DEF RInv, RelayTypes, Loops, Open, At
<1>4. CountedIsShown'
  <2>1. SUFFICES ASSUME NEW q \in Relays, handler[q] \in {"relaying", "closing"}
                 PROVE  \/ controls[q].layout = shown[q]
                        \/ loop'[q]["toViewer"] = At("relayed", shown[q])
    BY DEF CountedIsShown, vars
  <2>2. \/ controls[q].layout = shown[q]
        \/ loop[q]["toViewer"] = At("relayed", shown[q])
    BY <2>1 DEF RInv, CountedIsShown
  <2>3. ~(q = r /\ d = "toViewer") => loop'[q]["toViewer"] = loop[q]["toViewer"]
    BY <1>1, <2>1 DEF Directions
  <2>4. q = r /\ d = "toViewer" => loop[q]["toViewer"] # At("relayed", shown[q])
    BY DEF At
  <2>5. QED
    BY <2>2, <2>3, <2>4
<1>5. QED
  BY <1>2, <1>3, <1>4 DEF RInv

\* A loop that copies belongs to an open relay.
LEMMA CopyingIsOpen ==
  ASSUME RInv, NEW r \in Relays, NEW d \in Directions,
         loop[r][d].at \in {"copying", "relayed"}
  PROVE  Open(r)
<1>1. handler[r] \in {"new", "relaying", "closing", "done"}
  BY DEF RInv, RelayTypes
<1>2. Reading.at = "reading" /\ Failed.at = "failed"
  BY DEF Reading, Failed, At
<1>3. QED
  BY <1>1, <1>2 DEF RInv, Loops, Open

\* What reached the viewer whole is shown, and waits to be counted.
LEMMA CopyRInv ==
  ASSUME RInv, NEW r \in Relays, NEW m \in Layouts, Copy(r, "toViewer", m)
  PROVE  RInv'
<1>1. /\ loop[r]["toViewer"] = At("copying", m)
      /\ loop' = [loop EXCEPT ![r]["toViewer"] = At("relayed", m)]
      /\ shown' = [shown EXCEPT ![r] = m]
      /\ UNCHANGED <<vars, handler, shut>>
  BY DEF Copy, Inspects
<1>2. /\ loop' \in [Relays -> [Directions -> [at : {"reading", "copying", "relayed", "failed"},
                                              message : Layouts \cup Commands \cup {Null}]]]
      /\ \A q \in Relays, e \in Directions :
           loop'[q][e] = IF q = r /\ e = "toViewer" THEN At("relayed", m) ELSE loop[q][e]
  BY <1>1 DEF RInv, RelayTypes, At
<1>3. DOMAIN shown' = Relays /\ \A q \in Relays : shown'[q] = IF q = r THEN m ELSE shown[q]
  BY <1>1 DEF RInv, RelayTypes
<1>4. handler[r] # "new" /\ handler[r] # "done"
  <2>1. loop[r]["toViewer"].at = "copying"
    BY <1>1 DEF At
  <2>2. QED
    BY <2>1, CopyingIsOpen DEF Open, Directions
<1>5. RelayTypes' /\ Known'
  BY <1>1, <1>2, <1>3 DEF RInv, RelayTypes, Known, Open, vars
<1>6. Loops'
  <2>1. SUFFICES ASSUME NEW q \in Relays, NEW e \in Directions
                 PROVE  /\ handler[q] = "new" => shown'[q] = {} /\ loop'[q][e] = Reading
                        /\ handler[q] = "done" => loop'[q][e] = Failed
                        /\ loop'[q][e].at = "relayed" =>
                             e = "toViewer" /\ loop'[q][e] = At("relayed", shown'[q])
    BY <1>1 DEF Loops, Directions
  <2>2. CASE q = r /\ e = "toViewer"
    BY <1>2, <1>3, <1>4, <2>2 DEF At
  <2>3. CASE ~(q = r /\ e = "toViewer")
    BY <1>2, <1>3, <1>4, <2>1, <2>3 DEF RInv, Loops
  <2>4. QED
    BY <2>2, <2>3
<1>7. CountedIsShown'
  BY <1>1, <1>2, <1>3 DEF RInv, CountedIsShown, Directions, vars
<1>8. QED
  BY <1>5, <1>6, <1>7 DEF RInv

\* The manager is told of what was shown.
LEMMA CountRInv ==
  ASSUME RInv, NEW r \in Relays, NEW d \in Directions, NEW m \in Layouts, Count(r, d, m)
  PROVE  RInv' /\ r \in DOMAIN controls
<1>1. /\ loop[r][d] = At("relayed", m) /\ UpdateBirdseyeLayout(r, m)
      /\ loop' = [loop EXCEPT ![r][d] = Reading]
      /\ UNCHANGED <<handler, shut, shown>>
  BY DEF Count
<1>2. loop[r][d].at = "relayed" /\ loop[r][d].message = m
  BY <1>1 DEF At
<1>3. d = "toViewer" /\ shown[r] = m
  <2>1. d = "toViewer" /\ loop[r][d] = At("relayed", shown[r])
    BY <1>2 DEF RInv, Loops
  <2>2. loop[r][d].message = shown[r]
    BY <2>1 DEF At
  <2>3. QED
    BY <1>2, <2>1, <2>2
<1>4. r \in DOMAIN controls
  BY <1>2, CopyingIsOpen DEF RInv, Known
<1>5. /\ nextControl' = nextControl /\ DOMAIN controls' = DOMAIN controls
      /\ \A q \in DOMAIN controls : q # r => controls'[q] = controls[q]
      /\ controls'[r].layout = m
  BY <1>1, <1>4 DEF UpdateBirdseyeLayout
<1>6. /\ loop' \in [Relays -> [Directions -> [at : {"reading", "copying", "relayed", "failed"},
                                              message : Layouts \cup Commands \cup {Null}]]]
      /\ \A q \in Relays, e \in Directions :
           loop'[q][e] = IF q = r /\ e = d THEN Reading ELSE loop[q][e]
  BY <1>1 DEF RInv, RelayTypes, Reading, At
<1>7. RelayTypes' /\ Known'
  BY <1>1, <1>5, <1>6 DEF RInv, RelayTypes, Known, Open
<1>8. Loops'
  <2>1. Open(r)
    BY <1>2, CopyingIsOpen
  <2>2. QED
    BY <1>1, <1>6, <2>1 DEF RInv, Loops, Open, Reading, At
<1>9. CountedIsShown'
  <2>1. SUFFICES ASSUME NEW q \in Relays, handler[q] \in {"relaying", "closing"}
                 PROVE  \/ controls'[q].layout = shown[q]
                        \/ loop'[q]["toViewer"] = At("relayed", shown[q])
    BY <1>1 DEF CountedIsShown
  <2>2. CASE q = r
    BY <1>3, <1>5, <2>2
  <2>3. CASE q # r
    <3>1. loop'[q]["toViewer"] = loop[q]["toViewer"]
      BY <1>6, <2>3 DEF Directions
    <3>2. controls'[q] = controls[q]
      BY <1>5, <2>1, <2>3 DEF RInv, Known, Open
    <3>3. QED
      BY <2>1, <3>1, <3>2 DEF RInv, CountedIsShown
  <2>4. QED
    BY <2>2, <2>3
<1>10. QED
  BY <1>4, <1>7, <1>8, <1>9 DEF RInv

\* The handler closes the relay and then forgets its socket, after both loops.
LEMMA FirstErrorRInv ==
  ASSUME RInv, NEW r \in Relays, FirstError(r)
  PROVE  RInv'
<1>1. /\ handler[r] = "relaying" /\ handler' = [handler EXCEPT ![r] = "closing"]
      /\ shut' = [shut EXCEPT ![r] = {"viewer", "frigate"}]
      /\ UNCHANGED <<vars, loop, shown>>
  BY DEF FirstError
<1>2. QED
  BY <1>1 DEF RInv, RelayTypes, Known, Open, Loops, CountedIsShown, vars

LEMMA SecondErrorRInv ==
  ASSUME RInv, NEW r \in Relays, SecondError(r)
  PROVE  RInv'
<1>1. /\ handler[r] = "closing" /\ handler' = [handler EXCEPT ![r] = "done"]
      /\ \A d \in Directions : loop[r][d] = Failed
      /\ controls' = [j \in DOMAIN controls \ {r} |-> controls[j]]
      /\ UNCHANGED <<loop, shut, shown, nextControl>>
  BY DEF SecondError, BirdseyeControlClosed
<1>2. RelayTypes' /\ Known'
  BY <1>1 DEF RInv, RelayTypes, Known, Open
<1>3. Loops' /\ CountedIsShown'
  BY <1>1 DEF RInv, RelayTypes, Known, Open, Loops, CountedIsShown
<1>4. QED
  BY <1>2, <1>3 DEF RInv

LEMMA RelayRInv ==
  ASSUME RInv, NEW r \in Relays, Relay(r)
  PROVE  RInv'
<1>1. CASE Serve(r) \/ FirstError(r) \/ SecondError(r)
  BY <1>1, ServeRInv, FirstErrorRInv, SecondErrorRInv
<1>2. CASE \E d \in Directions : Fail(r, d)
  <2>1. PICK d \in Directions : Fail(r, d)
    BY <1>2
  <2>2. /\ Open(r) /\ loop[r][d].at # "relayed" /\ loop' = [loop EXCEPT ![r][d] = At("failed", Null)]
        /\ UNCHANGED <<vars, handler, shut, shown>>
    BY <2>1 DEF Fail, Open, Failed
  <2>3. QED
    BY <2>2, LoopRInv
<1>3. CASE \E d \in Directions : \E m \in Messages(d) : Begin(r, d, m)
  <2>1. PICK d \in Directions : \E m \in Messages(d) : Begin(r, d, m)
    BY <1>3
  <2>2. PICK m \in Messages(d) : Begin(r, d, m)
    BY <2>1
  <2>3. /\ Open(r) /\ loop[r][d] = Reading /\ loop' = [loop EXCEPT ![r][d] = At("copying", m)]
        /\ UNCHANGED <<vars, handler, shut, shown>>
    BY <2>2 DEF Begin, Open
  <2>4. loop[r][d].at # "relayed"
    BY <2>3 DEF Reading, At
  <2>5. m \in Layouts \cup Commands \cup {Null}
    BY DEF Messages
  <2>6. QED
    BY <2>3, <2>4, <2>5, LoopRInv
<1>4. CASE \E d \in Directions : \E m \in Messages(d) : Copy(r, d, m)
  <2>1. PICK d \in Directions : \E m \in Messages(d) : Copy(r, d, m)
    BY <1>4
  <2>2. PICK m \in Messages(d) : Copy(r, d, m)
    BY <2>1
  <2>3. CASE d = "toViewer"
    BY <2>2, <2>3, CopyRInv DEF Messages
  <2>4. CASE d # "toViewer"
    <3>1. /\ loop[r][d] = At("copying", m) /\ loop' = [loop EXCEPT ![r][d] = At("reading", Null)]
          /\ UNCHANGED <<vars, handler, shut, shown>>
      BY <2>2, <2>4 DEF Copy, Inspects, Reading
    <3>2. loop[r][d].at = "copying"
      BY <3>1 DEF At
    <3>3. QED
      BY <3>1, <3>2, CopyingIsOpen, LoopRInv
  <2>5. QED
    BY <2>3, <2>4
<1>5. CASE \E d \in Directions : \E m \in Layouts : Count(r, d, m)
  BY <1>5, CountRInv
<1>6. QED
  BY <1>1, <1>2, <1>3, <1>4, <1>5 DEF Relay

\* The steps of Privacy that the relays do not take.
LEMMA LightsStep ==
  ASSUME Lights
  PROVE  UNCHANGED <<relays, birdseye>> /\ [Next]_vars
BY DEF Lights, Appear, Leave, Tick, PrivacyTick, Observe, Rest, SecondPasses, Pass, vars, birdseye, Next

THEOREM RelayInvariance == RelaySpec => []RInv
<1>1. RInv /\ [RelayNext]_relayVars => RInv'
  BY LightsStep, LightsRInv, RelayRInv DEF RelayNext, relayVars, vars, birdseye
<1>2. QED
  BY InitRInv, <1>1, PTL DEF RelaySpec

-------------------------------------------------------------------------------
\* The manager counts the layouts that viewers were shown, and no other
\* (websocket.go:163-180, manager.go:146-164).
THEOREM RelayCountedIsShown == RelaySpec => []CountedIsShown
<1>1. RInv => CountedIsShown
  BY DEF RInv
<1>2. QED
  BY <1>1, RelayInvariance, PTL

\* The relays use the manager as Privacy supposes of any sockets, so that the
\* theorems about the light hold with them.
THEOREM RelayImplements == RelaySpec => Spec
<1>1. RelayInit => Init
  BY DEF RelayInit
<1>2. RInv /\ [RelayNext]_relayVars => [Next]_vars
  <2>1. SUFFICES ASSUME RInv, [RelayNext]_relayVars PROVE [Next]_vars
    OBVIOUS
  <2>2. CASE Lights \/ UNCHANGED relayVars
    BY <2>2, LightsStep DEF relayVars
  <2>3. CASE \E r \in Relays : Relay(r)
    <3>1. PICK r \in Relays : Relay(r)
      BY <2>3
    <3>2. CASE \E d \in Directions, m \in Layouts : Count(r, d, m)
      <4>1. PICK m \in Layouts : r \in DOMAIN controls /\ UpdateBirdseyeLayout(r, m)
        BY <2>1, <3>2, CountRInv DEF Count
      <4>2. r \in 1 .. nextControl
        BY <2>1, <4>1 DEF RInv, RelayTypes, Known, Open
      <4>3. QED
        BY <4>1, <4>2 DEF Next
    <3>3. CASE Serve(r) \/ SecondError(r)
      BY <3>3 DEF Serve, SecondError, Next, BirdseyeControlClosed
    <3>4. CASE UNCHANGED vars
      BY <3>4
    <3>5. QED
      BY <3>1, <3>2, <3>3, <3>4 DEF Relay, FirstError, Fail, Begin, Copy
  <2>4. QED
    BY <2>1, <2>2, <2>3 DEF RelayNext
<1>3. QED
  BY <1>1, <1>2, RelayInvariance, PTL DEF RelaySpec, Spec

\* The composite view of the daemon follows the newest layout of an open
\* control socket (manager.go:774-778, websocket.go:34-83).
THEOREM RelayNewestSocketWins == RelaySpec => []LayoutOfNewestSocket
BY RelayImplements, NewestSocketWins, PTL

\* No layout comes from a socket that the manager has forgotten
\* (websocket.go:68-77).
THEOREM RelayNoLateLayout == RelaySpec => NoLateLayout
<1>1. RInv /\ SInv /\ [RelayNext]_relayVars =>
        [layouts' # layouts => layouts'[Len(layouts')].control \in DOMAIN controls]_relayVars
  <2>1. SUFFICES ASSUME RInv, SInv, RelayNext, layouts' # layouts
                 PROVE  layouts'[Len(layouts')].control \in DOMAIN controls
    OBVIOUS
  <2>2. PICK r \in Relays : Relay(r)
    BY <2>1, LightsStep DEF RelayNext, birdseye
  <2>3. PICK d \in Directions, m \in Layouts : Count(r, d, m)
    BY <2>1, <2>2 DEF Relay, Serve, BirdseyeControlOpened, FirstError, SecondError,
       BirdseyeControlClosed, Fail, Begin, Copy, vars
  <2>4. r \in DOMAIN controls /\ layouts' = Append(layouts, [control |-> r, layout |-> m])
    BY <2>1, <2>3, CountRInv DEF Count, UpdateBirdseyeLayout
  <2>5. layouts \in Seq([control : Nat, layout : SUBSET Cameras])
    BY <2>1 DEF SInv, SocketTypes
  <2>6. r \in Nat /\ m \in SUBSET Cameras
    <3>1. r \in 1 .. nextControl /\ nextControl \in Nat
      BY <2>1, <2>2, <2>4 DEF RInv, RelayTypes, Known, Open
    <3>2. m \in SUBSET Cameras
      BY <2>3, CameraAssumption
    <3>3. QED
      BY <3>1, <3>2
  <2>7. layouts'[Len(layouts')] = [control |-> r, layout |-> m]
    BY <2>4, <2>5, <2>6
  <2>8. QED
    BY <2>4, <2>7
<1>2. RelaySpec => []SInv
  BY RelayImplements, InitSInv, NextSInv, PTL DEF Spec
<1>3. QED
  BY <1>1, <1>2, RelayInvariance, PTL DEF RelaySpec, NoLateLayout
===============================================================================
