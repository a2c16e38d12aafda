----------------------------- MODULE MqttPublisher -----------------------------
(***************************************************************************)
(* internal/mqttpub.Publisher between the manager, the paho client and the *)
(* broker.  Four kinds of goroutine publish: Run, by Set and SetAvailable  *)
(* (and main, by Close, when Run is gone); one OnConnect callback for each *)
(* connection; and, as SetOrderMatters(false) has it, one handler for each *)
(* retained message that the callback's subscription brings.  The mutex    *)
(* guards `states' and `available' only, never a publish.                  *)
(*                                                                         *)
(* paho and the broker are external: a publish reaches the broker at once  *)
(* while the client is connected; while it is reconnecting paho keeps it   *)
(* and sends it after the next CONNACK; what it kept before the first      *)
(* connection is dropped with the clean session.                           *)
(***************************************************************************)
EXTENDS Integers, Sequences, FiniteSets, SequencesExt

CONSTANTS
  Cameras,
  Budget     \* bounds: [set |-> calls of the manager, loss |-> lost connections]

ASSUME CamerasAssumption == IsFiniteSet(Cameras)
ASSUME BudgetAssumption == Budget \in [{"set", "loss"} -> Nat]

VARIABLES
  states,     \* p.states: camera -> BOOLEAN
  available,  \* p.available
  calls,      \* what Set, SetAvailable or Close has still to publish
  closing,    \* Close has been called
  callbacks,  \* OnConnect by connection number: [at, todo]
  delivered,  \* retained ON values that wait for their handler
  clearing,   \* ... that shouldClearRetained has said to clear
  link,       \* the client: "connecting", "connected", "reconnecting", "closed"
  held,       \* publishes paho keeps
  viewer,     \* retained at the broker: camera -> "ON" or "OFF"
  device,     \* retained availability: "online" or "offline"
  discovered, \* cameras with a retained discovery entry
  left,       \* what remains of Budget
  raced       \* history: something older was under way when a value changed

memory == <<states, available, closing>>
broker == <<viewer, device, discovered>>
vars   == <<states, available, calls, closing, callbacks, delivered, clearing,
            link, held, viewer, device, discovered, left, raced>>

State(active) == IF active THEN "ON" ELSE "OFF"
Availability(up) == IF up THEN "online" ELSE "offline"
StateOf(c, active) == [topic |-> "viewer", camera |-> c, payload |-> State(active)]
Discovery(c) == [topic |-> "discovery", camera |-> c, payload |-> "config"]
Device(up) == [topic |-> "availability", camera |-> "", payload |-> Availability(up)]

Active(c) == c \in DOMAIN states /\ states[c]

Init ==
  /\ states = [c \in {} |-> FALSE] /\ available = FALSE
  /\ calls = <<>> /\ closing = FALSE
  /\ callbacks = [n \in {} |-> <<>>] /\ delivered = {} /\ clearing = {}
  /\ link = "connecting" /\ held = <<>>
  /\ viewer \in [Cameras -> {"ON", "OFF"}] /\ device = "offline" /\ discovered = {}
  /\ left = Budget /\ raced = FALSE

-------------------------------------------------------------------------------
Delivered(m) ==
  /\ viewer' = IF m.topic = "viewer" THEN [viewer EXCEPT ![m.camera] = m.payload] ELSE viewer
  /\ device' = IF m.topic = "availability" THEN m.payload ELSE device
  /\ discovered' = IF m.topic = "discovery" THEN discovered \cup {m.camera} ELSE discovered

Publish(m) ==
  \/ link = "connected" /\ Delivered(m) /\ held' = held
  \/ link \in {"connecting", "reconnecting"} /\ held' = Append(held, m) /\ UNCHANGED broker
  \/ link = "closed" /\ UNCHANGED <<held, broker>>

\* Older values may reach the broker after the one that is being set.
UnderWay ==
  \/ \E n \in DOMAIN callbacks : callbacks[n].at = "publish"
  \/ clearing # {} \/ held # <<>>

\* Mutant: only a state that can be published now is remembered.
SetConnected(c, active) ==
  /\ calls = <<>> /\ ~closing /\ left["set"] > 0 /\ active # Active(c)
  /\ left' = [left EXCEPT !["set"] = @ - 1]
  /\ states' = IF link # "connected" THEN states
               ELSE [d \in DOMAIN states \cup {c} |-> IF d = c THEN active ELSE states[d]]
  /\ calls' = <<Discovery(c), StateOf(c, active)>>
  /\ raced' = (raced \/ UnderWay)
  /\ UNCHANGED <<available, closing, callbacks, delivered, clearing, link, held, broker>>

\* Set, as far as the mutex reaches.  The manager tells changes only.  paho's
\* IsConnected is true while the client connects or reconnects.
Set(c, active) ==
  /\ calls = <<>> /\ ~closing /\ left["set"] > 0 /\ active # Active(c)
  /\ left' = [left EXCEPT !["set"] = @ - 1]
  /\ states' = [d \in DOMAIN states \cup {c} |-> IF d = c THEN active ELSE states[d]]
  /\ calls' = <<Discovery(c), StateOf(c, active)>>
  /\ raced' = (raced \/ UnderWay)
  /\ UNCHANGED <<available, closing, callbacks, delivered, clearing, link, held, broker>>

SetAvailable ==
  /\ calls = <<>> /\ ~closing /\ left["set"] > 0
  /\ left' = [left EXCEPT !["set"] = @ - 1]
  /\ available' = ~available
  /\ calls' = <<Device(available')>>
  /\ raced' = (raced \/ UnderWay)
  /\ UNCHANGED <<states, closing, callbacks, delivered, clearing, link, held, broker>>

\* Mutant: what OnConnect would publish stays as it was.
CloseOnly ==
  /\ calls = <<>> /\ ~closing
  /\ closing' = TRUE
  /\ \E cameras \in SetToSeqs(DOMAIN states) :
       calls' = [i \in DOMAIN cameras |-> StateOf(cameras[i], FALSE)] \o <<Device(FALSE)>>
  /\ raced' = (raced \/ UnderWay)
  /\ UNCHANGED <<states, available, callbacks, delivered, clearing, link, held, broker, left>>

\* Close, called by main when Run has returned.
Close ==
  /\ calls = <<>> /\ ~closing
  /\ closing' = TRUE
  /\ states' = [c \in DOMAIN states |-> FALSE]
  /\ available' = FALSE
  /\ \E cameras \in SetToSeqs(DOMAIN states) :
       calls' = [i \in DOMAIN cameras |-> StateOf(cameras[i], FALSE)] \o <<Device(FALSE)>>
  /\ raced' = (raced \/ UnderWay)
  /\ UNCHANGED <<callbacks, delivered, clearing, link, held, broker, left>>

\* The publishes of these three, one by one.
PublishCall ==
  /\ calls # <<>>
  /\ Publish(Head(calls))
  /\ calls' = Tail(calls)
  /\ UNCHANGED <<memory, callbacks, delivered, clearing, link, left, raced>>

Disconnect ==
  /\ closing /\ calls = <<>> /\ link # "closed"
  /\ link' = "closed"
  /\ UNCHANGED <<memory, calls, callbacks, delivered, clearing, held, broker, left, raced>>

-------------------------------------------------------------------------------
\* A connection comes up and starts its callback.
Connect ==
  /\ link \in {"connecting", "reconnecting"}
  /\ link' = "connected"
  /\ held' = IF link = "connecting" THEN <<>> ELSE held
  /\ LET n == Budget["loss"] - left["loss"] IN
       callbacks' = [i \in DOMAIN callbacks \cup {n} |->
                       IF i = n THEN [at |-> "subscribe", todo |-> <<>>] ELSE callbacks[i]]
  /\ UNCHANGED <<memory, calls, delivered, clearing, broker, left, raced>>

\* One goes down; the broker publishes the will.
Lose ==
  /\ link = "connected" /\ left["loss"] > 0
  /\ left' = [left EXCEPT !["loss"] = @ - 1]
  /\ link' = "reconnecting"
  /\ device' = "offline"
  /\ delivered' \in SUBSET delivered
  /\ UNCHANGED <<memory, calls, callbacks, clearing, held, viewer, discovered, raced>>

\* paho sends what it kept.
Resend ==
  /\ link = "connected" /\ held # <<>>
  /\ Delivered(Head(held))
  /\ held' = Tail(held)
  /\ UNCHANGED <<memory, calls, callbacks, delivered, clearing, link, left, raced>>

\* Mutant: OnConnect does not subscribe.
SubscribeNot(n) ==
  /\ callbacks[n].at = "subscribe"
  /\ callbacks' = [callbacks EXCEPT ![n].at = "snapshot"]
  /\ UNCHANGED <<memory, calls, delivered, clearing, link, held, broker, left, raced>>

\* OnConnect: subscribeRetainedStateCleanup, which may time out ...
Subscribe(n) ==
  /\ callbacks[n].at = "subscribe"
  /\ callbacks' = [callbacks EXCEPT ![n].at = "snapshot"]
  /\ delivered' = IF link = "connected"
                  THEN delivered \cup {c \in Cameras : viewer[c] = "ON"} ELSE delivered
  /\ UNCHANGED <<memory, calls, clearing, link, held, broker, left, raced>>

Announcements(cameras) ==
  [i \in 1 .. 2 * Len(cameras) |->
     LET c == cameras[(i + 1) \div 2]
     IN  IF i % 2 = 1 THEN Discovery(c) ELSE StateOf(c, states[c])]

\* ... the snapshot under the mutex ...
Snapshot(n) ==
  /\ callbacks[n].at = "snapshot"
  /\ \E cameras \in SetToSeqs(DOMAIN states) :
       callbacks' = [callbacks EXCEPT ![n] =
                       [at |-> "publish",
                        todo |-> <<Device(available)>> \o Announcements(cameras)]]
  /\ raced' = (raced /\ UnderWay)
  /\ UNCHANGED <<memory, calls, delivered, clearing, link, held, broker, left>>

\* ... and the publishes after it.
PublishSnapshot(n) ==
  /\ callbacks[n].at = "publish"
  /\ Publish(Head(callbacks[n].todo))
  /\ callbacks' = IF Len(callbacks[n].todo) = 1
                  THEN [i \in DOMAIN callbacks \ {n} |-> callbacks[i]]
                  ELSE [callbacks EXCEPT ![n].todo = Tail(@)]
  /\ UNCHANGED <<memory, calls, delivered, clearing, link, left, raced>>

\* The handler of a retained ON: shouldClearRetained looks under the mutex ...
Look(c) ==
  /\ c \in delivered
  /\ delivered' = delivered \ {c}
  /\ clearing' = IF Active(c) THEN clearing ELSE clearing \cup {c}
  /\ UNCHANGED <<memory, calls, callbacks, link, held, broker, left, raced>>

\* ... and the handler publishes without it.
Clear(c) ==
  /\ c \in clearing
  /\ clearing' = clearing \ {c}
  /\ Publish(StateOf(c, FALSE))
  /\ UNCHANGED <<memory, calls, callbacks, delivered, link, left, raced>>

\* The process is gone.
Rest == link = "closed" /\ UNCHANGED vars

-------------------------------------------------------------------------------
Callback(n) == Subscribe(n) \/ Snapshot(n) \/ PublishSnapshot(n)
Handler(c) == Look(c) \/ Clear(c)

Next ==
  \/ \E c \in Cameras, active \in BOOLEAN : Set(c, active)
  \/ SetAvailable \/ Close \/ PublishCall \/ Disconnect
  \/ Connect \/ Lose \/ Resend
  \/ \E n \in DOMAIN callbacks : Subscribe(n) \/ Snapshot(n) \/ PublishSnapshot(n)
  \/ \E c \in Cameras : Look(c) \/ Clear(c)
  \/ Rest

Spec == Init /\ [][Next]_vars

\* Goroutines get on, and the client reconnects.
FairSpec ==
  /\ Spec /\ WF_vars(PublishCall) /\ WF_vars(Connect) /\ WF_vars(Resend)
  /\ \A n \in 0 .. Budget["loss"] : WF_vars(n \in DOMAIN callbacks /\ Callback(n))
  /\ \A c \in Cameras : WF_vars(Handler(c))

-------------------------------------------------------------------------------
Messages == {StateOf(c, a) : c \in Cameras, a \in BOOLEAN}
            \cup {Discovery(c) : c \in Cameras} \cup {Device(a) : a \in BOOLEAN}
Settled ==
  /\ link = "connected" /\ held = <<>> /\ calls = <<>>
  /\ DOMAIN callbacks = {} /\ delivered = {} /\ clearing = {}
InStep ==
  /\ device = Availability(available)
  /\ \A c \in Cameras : viewer[c] = State(Active(c))
  /\ DOMAIN states \subseteq discovered

\* When everything published has arrived the broker retains what the process
\* holds, announced to Home Assistant, unless a value changed while an older
\* one was under way; a later connection repairs that too.
InStepAtRest == Settled /\ ~raced => InStep

\* A connection that stays repairs what a previous process, an outage or a
\* race left at the broker, without a further change.
Repaired == <>[](link = "connected" /\ ~raced /\ ~closing) => <>[]InStep

\* An orderly shutdown leaves every camera OFF and the device offline.
ClosedOff ==
  [][/\ link = "connected" /\ link' = "closed"
     /\ ~raced /\ ~UnderWay /\ DOMAIN callbacks = {}
     => device = "offline" /\ \A c \in DOMAIN states : viewer[c] = "OFF"]_vars

\* README.md:79, "On every daemon MQTT connection, `camera-audit` ... clears
\* retained `ON` values that are not active in the current process, and then
\* republishes current state".
RepublishesCurrent == Settled => InStep
===============================================================================
