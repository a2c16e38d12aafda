------------------------------ MODULE ControlRelay ------------------------------
(***************************************************************************)
(* The relay of Frigate's control WebSocket (internal/gateway/websocket.go)*)
(* composed with Privacy.  Each control connection has three goroutines:   *)
(* two loops that copy messages, one in each direction, and the handler    *)
(* that waits for their errors, closes both connections and, at its end,   *)
(* takes the socket from the manager.  The loop towards the viewer also    *)
(* reads the Birdseye layouts that pass.  Messages in which it finds       *)
(* none (another topic, a binary one, one of more than 1 MiB) change       *)
(* nothing and are left out.                                               *)
(*                                                                         *)
(* A handshake that fails leaves nothing behind and is not modelled: a     *)
(* relay starts with both connections up.                                  *)
(***************************************************************************)
EXTENDS Privacy, FiniteSets

CONSTANTS
  Commands,       \* what viewers send Frigate; it may read like a layout
  RelayHorizon    \* bound: when connections and messages stop coming

ASSUME MessageAssumption == Null \notin Layouts \cup Commands

\* A relay is named by its control id.
Relays == 1 .. MaxControls

Directions == {"toViewer", "toFrigate"}
Source(d) == IF d = "toViewer" THEN "frigate" ELSE "viewer"
Destination(d) == IF d = "toViewer" THEN "viewer" ELSE "frigate"
Messages(d) == IF d = "toViewer" THEN Layouts ELSE Commands

VARIABLES
  handler,      \* "new", "relaying", "closing" (one error received), "done"
  loop,         \* what each loop is at, and with which message
  shut,         \* the connections this side has closed
  shown         \* history: the last layout that reached the viewer whole

relays == <<handler, loop, shut, shown>>
relayVars == <<vars, relays>>

At(at, m) == [at |-> at, message |-> m]
Reading == At("reading", Null)
Failed  == At("failed", Null)

RelayInit ==
  /\ Init
  /\ handler = [r \in Relays |-> "new"]
  /\ loop = [r \in Relays |-> [d \in Directions |-> Reading]]
  /\ shut = [r \in Relays |-> {}]
  /\ shown = [r \in Relays |-> {}]

-------------------------------------------------------------------------------
\* Dialled, upgraded, announced to the manager, and both loops started.
Serve(r) ==
  /\ r = nextControl + 1 /\ clock <= RelayHorizon
  /\ BirdseyeControlOpened
  /\ handler' = [handler EXCEPT ![r] = "relaying"]
  /\ UNCHANGED <<loop, shut, shown>>

\* The sockets whose loop towards the viewer is carrying a layout.
Carrying == {q \in Relays : loop[q]["toViewer"].message # Null}

\* NextReader and NextWriter: a message begins to pass, maybe one that was
\* buffered when its connection was closed.  Every loop runs by itself, next
\* to the others of its socket and of the other sockets.  (Frigate sends no
\* more than MaxLayouts layouts, those on their way included.)
Begin(r, d, m) ==
  /\ handler[r] \in {"relaying", "closing"} /\ loop[r][d] = Reading
  /\ clock <= RelayHorizon
  /\ d = "toViewer" => Len(layouts) + Cardinality(Carrying) < MaxLayouts
  /\ loop' = [loop EXCEPT ![r][d] = At("copying", m)]
  /\ UNCHANGED <<vars, handler, shut, shown>>

\* Mutant: the commands of the viewer are read for layouts too.
InspectsBoth(d, m) == m \in Layouts

\* Only the loop with a control id keeps a copy of what it relays.
Inspects(d, m) == d = "toViewer" /\ m \in Layouts

\* io.Copy and writer.Close succeed: the other side has the whole message.
Copy(r, d, m) ==
  /\ loop[r][d] = At("copying", m) /\ Destination(d) \notin shut[r]
  /\ clock <= RelayHorizon
  /\ loop' = [loop EXCEPT ![r][d] = IF Inspects(d, m) THEN At("relayed", m) ELSE Reading]
  /\ shown' = IF d = "toViewer" THEN [shown EXCEPT ![r] = m] ELSE shown
  /\ UNCHANGED <<vars, handler, shut>>

\* parseBirdseyeLayout found a layout in what went through.
Count(r, d, m) ==
  /\ loop[r][d] = At("relayed", m)
  /\ UpdateBirdseyeLayout(r, m)
  /\ loop' = [loop EXCEPT ![r][d] = Reading]
  /\ UNCHANGED <<handler, shut, shown>>

\* A read or a write fails and the loop returns its error: at any time because
\* of the peers, and for certain once the connection it uses is shut here.
\* (No deadline is ever set: a peer that falls silent is not an error.)
Uses(r, d) == IF loop[r][d].at = "reading" THEN Source(d) ELSE Destination(d)
Fail(r, d) ==
  /\ handler[r] \in {"relaying", "closing"}
  /\ loop[r][d].at \in {"reading", "copying"}
  /\ Uses(r, d) \in shut[r] \/ clock <= RelayHorizon
  /\ loop' = [loop EXCEPT ![r][d] = Failed]
  /\ UNCHANGED <<vars, handler, shut, shown>>

\* Mutant: only the viewer's connection is closed.
FirstErrorHalf(r) ==
  /\ handler[r] = "relaying" /\ \E d \in Directions : loop[r][d] = Failed
  /\ handler' = [handler EXCEPT ![r] = "closing"]
  /\ shut' = [shut EXCEPT ![r] = {"viewer"}]
  /\ UNCHANGED <<vars, loop, shown>>

\* The handler has an error from relayErrors and closes both connections.
FirstError(r) ==
  /\ handler[r] = "relaying" /\ \E d \in Directions : loop[r][d] = Failed
  /\ handler' = [handler EXCEPT ![r] = "closing"]
  /\ shut' = [shut EXCEPT ![r] = {"viewer", "frigate"}]
  /\ UNCHANGED <<vars, loop, shown>>

\* Mutant: the second loop is not waited for.
SecondErrorUnawaited(r) ==
  /\ handler[r] = "closing" /\ \E d \in Directions : loop[r][d] = Failed
  /\ BirdseyeControlClosed(r)
  /\ handler' = [handler EXCEPT ![r] = "done"]
  /\ UNCHANGED <<loop, shut, shown>>

\* It has the other one, and the deferred calls run.
SecondError(r) ==
  /\ handler[r] = "closing" /\ \A d \in Directions : loop[r][d] = Failed
  /\ BirdseyeControlClosed(r)
  /\ handler' = [handler EXCEPT ![r] = "done"]
  /\ UNCHANGED <<loop, shut, shown>>

Relay(r) ==
  \/ Serve(r) \/ FirstError(r) \/ SecondError(r)
  \/ \E d \in Directions :
       \/ Fail(r, d)
       \/ \E m \in Messages(d) : Begin(r, d, m) \/ Copy(r, d, m)
       \/ \E m \in Layouts : Count(r, d, m)

\* Viewers and the light, as in Privacy.  Past RelayHorizon no relay begins
\* anything: the clock waits there for the relays to finish what they began.
AtRest(r) ==
  \/ handler[r] \in {"new", "done"}
  \/ handler[r] = "relaying" /\ \A d \in Directions : loop[r][d].at \in {"reading", "copying"}
SecondPasses == Pass /\ (clock >= RelayHorizon => \A r \in Relays : AtRest(r))
Lights ==
  /\ \/ \E s \in Sources : Appear(s) \/ Leave(s)
     \/ Tick \/ Observe \/ Rest \/ SecondPasses
  /\ UNCHANGED relays

RelayNext == Lights \/ \E r \in Relays : Relay(r)

\* The goroutines run on: a loop counts what it has relayed and sees that its
\* connection was closed, the handler takes the errors.  Messages, and the
\* errors of an open connection, need not come.
RelaySpec ==
  /\ RelayInit /\ [][RelayNext]_relayVars
  /\ WF_relayVars(SecondPasses /\ UNCHANGED relays) /\ WF_relayVars(Tick /\ UNCHANGED relays)
  /\ WF_relayVars(Observe /\ UNCHANGED relays)
  /\ \A r \in Relays :
       /\ WF_relayVars(FirstError(r)) /\ WF_relayVars(SecondError(r))
       /\ \A d \in Directions :
            /\ WF_relayVars(Uses(r, d) \in shut[r] /\ Fail(r, d))
            /\ WF_relayVars(\E m \in Layouts : Count(r, d, m))

-------------------------------------------------------------------------------
\* The manager holds, for every open control socket, the layout its viewer was
\* shown last, but for one that has just gone through: a layout that was cut
\* off or that the viewer sent is not counted (websocket.go:163-180), whatever
\* the loops of the other sockets have in hand.
CountedIsShown ==
  \A r \in Relays : handler[r] \in {"relaying", "closing"} =>
    \/ controls[r].layout = shown[r]
    \/ loop[r]["toViewer"] = At("relayed", shown[r])

\* A layout always comes from a socket the manager still knows, because the
\* handler waits for both loops before it takes the socket away
\* (websocket.go:68-77, manager.go:146-164).
NoLateLayout ==
  [][layouts' # layouts => layouts'[Len(layouts')].control \in DOMAIN controls]_relayVars

\* One broken direction ends the relay: both connections are closed and the
\* manager forgets the socket, though the other peer may never speak again
\* (websocket.go:74-77).
RelayEnds ==
  \A r \in Relays : (\E d \in Directions : loop[r][d] = Failed) ~> handler[r] = "done"
===============================================================================
