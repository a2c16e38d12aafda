------------------------------- MODULE MqttProofs -------------------------------
(***************************************************************************)
(* The publisher, for any number of cameras, changes, connections and      *)
(* losses: whatever is still on its way, the broker is put right by it.    *)
(***************************************************************************)
EXTENDS MqttPublisher, TLAPS, FiniteSetTheorems, SequenceTheorems

Types ==
  /\ DOMAIN states \subseteq Cameras /\ \A c \in DOMAIN states : states[c] \in BOOLEAN
  /\ available \in BOOLEAN /\ closing \in BOOLEAN /\ raced \in BOOLEAN
  /\ calls \in Seq(Messages) /\ held \in Seq(Messages)
  /\ callbacks \in [DOMAIN callbacks ->
                      [at : {"subscribe", "snapshot", "publish"}, todo : Seq(Messages)]]
  /\ \A n \in DOMAIN callbacks : callbacks[n].at = "publish" => callbacks[n].todo # <<>>
  /\ link \in {"connecting", "connected", "reconnecting", "closed"}
  /\ viewer \in [Cameras -> {"ON", "OFF"}] /\ device \in {"online", "offline"}

\* What a message says of the memory: of which camera, and whether it is still so.
Known(m) == m.topic = "viewer" /\ m.payload = "ON" => m.camera \in DOMAIN states
Agrees(m) ==
  /\ m.topic = "viewer" => m.payload = State(Active(m.camera))
  /\ m.topic = "availability" => m.payload = Availability(available)
AllKnown(s) == \A i \in 1 .. Len(s) : Known(s[i])
AllAgree(s) == \A i \in 1 .. Len(s) : Agrees(s[i])
Publishing(n) == n \in DOMAIN callbacks /\ callbacks[n].at = "publish"

\* What is on its way speaks of cameras the process has heard of, and it is what
\* memory holds unless there was a race; the calls are so in any case.
InFlight ==
  /\ AllKnown(calls) /\ AllKnown(held) /\ AllAgree(calls)
  /\ \A n \in DOMAIN callbacks : Publishing(n) => AllKnown(callbacks[n].todo)
  /\ ~raced => /\ AllAgree(held) /\ \A c \in clearing : ~Active(c)
               /\ \A n \in DOMAIN callbacks : Publishing(n) => AllAgree(callbacks[n].todo)

\* What the broker should retain, and whether it does or something that will put it
\* right is to come.
IsItem(t, c) == \/ t = "availability" /\ c = ""
                \/ t \in {"viewer", "discovery"} /\ c \in DOMAIN states
Right(t, c) ==
  /\ t = "viewer" => viewer[c] = State(Active(c))
  /\ t = "availability" => device = Availability(available)
  /\ t = "discovery" => c \in discovered
About(s, t, c) == \E i \in 1 .. Len(s) : s[i].topic = t /\ s[i].camera = c
Before(n) == n \in DOMAIN callbacks /\ callbacks[n].at \in {"subscribe", "snapshot"}
Coming(t, c) ==
  \/ link # "connected" \/ About(calls, t, c) \/ About(held, t, c)
  \/ \E n \in DOMAIN callbacks : Before(n)
  \/ \E n \in DOMAIN callbacks : Publishing(n) /\ About(callbacks[n].todo, t, c)
Repair == ~raced => \A t, c : IsItem(t, c) => Right(t, c) \/ Coming(t, c)

\* A light that a previous process has left on is found by the clean-up.
Found(c) ==
  \/ viewer[c] = "OFF" \/ link # "connected" \/ c \in delivered \/ c \in clearing
  \/ \E n \in DOMAIN callbacks : callbacks[n].at = "subscribe"
Strays == \A c \in Cameras \ DOMAIN states : Found(c)

Shut == closing => ~available /\ \A c \in DOMAIN states : ~states[c]

MInv == Types /\ InFlight /\ Repair /\ Strays /\ Shut

-------------------------------------------------------------------------------
LEMMA MessageForms ==
  ASSUME NEW m \in Messages
  PROVE  \/ m.topic = "viewer" /\ m.camera \in Cameras /\ m.payload \in {"ON", "OFF"}
         \/ m.topic = "availability" /\ m.camera = "" /\ m.payload \in {"online", "offline"}
         \/ m.topic = "discovery" /\ m.camera \in Cameras
<1>1. CASE \E c \in Cameras, a \in BOOLEAN : m = StateOf(c, a)
  <2>1. PICK c \in Cameras, a \in BOOLEAN : m = StateOf(c, a)
    BY <1>1
  <2>2. State(a) \in {"ON", "OFF"}
    BY DEF State
  <2>3. m.topic = "viewer" /\ m.camera = c /\ m.payload = State(a)
    BY <2>1 DEF StateOf
  <2>4. QED
    BY <2>2, <2>3
<1>2. CASE \E c \in Cameras : m = Discovery(c)
  BY <1>2 DEF Discovery
<1>3. CASE \E a \in BOOLEAN : m = Device(a)
  <2>1. PICK a \in BOOLEAN : m = Device(a)
    BY <1>3
  <2>2. Availability(a) \in {"online", "offline"}
    BY DEF Availability
  <2>3. m.topic = "availability" /\ m.camera = "" /\ m.payload = Availability(a)
    BY <2>1 DEF Device
  <2>4. QED
    BY <2>2, <2>3
<1>4. \/ \E c \in Cameras, a \in BOOLEAN : m = StateOf(c, a)
      \/ \E c \in Cameras : m = Discovery(c)
      \/ \E a \in BOOLEAN : m = Device(a)
  <2>1. m \in {StateOf(c, a) : c \in Cameras, a \in BOOLEAN} =>
          \E c \in Cameras, a \in BOOLEAN : m = StateOf(c, a)
    OBVIOUS
  <2>2. m \in {Discovery(c) : c \in Cameras} => \E c \in Cameras : m = Discovery(c)
    OBVIOUS
  <2>3. m \in {Device(a) : a \in BOOLEAN} => \E a \in BOOLEAN : m = Device(a)
    OBVIOUS
  <2>4. \/ m \in {StateOf(c, a) : c \in Cameras, a \in BOOLEAN}
        \/ m \in {Discovery(c) : c \in Cameras} \/ m \in {Device(a) : a \in BOOLEAN}
    BY DEF Messages
  <2>5. QED
    BY <2>1, <2>2, <2>3, <2>4
<1>5. QED
  BY <1>1, <1>2, <1>3, <1>4

LEMMA MakeMessages ==
  ASSUME NEW c \in Cameras, NEW a \in BOOLEAN
  PROVE  /\ StateOf(c, a) \in Messages /\ Discovery(c) \in Messages /\ Device(a) \in Messages
         /\ StateOf(c, a).topic = "viewer" /\ StateOf(c, a).camera = c
         /\ StateOf(c, a).payload = State(a)
         /\ Discovery(c).topic = "discovery" /\ Discovery(c).camera = c
         /\ Device(a).topic = "availability" /\ Device(a).camera = ""
         /\ Device(a).payload = Availability(a)
<1>1. StateOf(c, a) \in Messages /\ Discovery(c) \in Messages /\ Device(a) \in Messages
  BY DEF Messages
<1>2. QED
  BY <1>1 DEF StateOf, Device, Discovery

\* The head of a queue and the rest of it.
LEMMA Taken ==
  ASSUME NEW s \in Seq(Messages), s # <<>>
  PROVE  /\ Head(s) \in Messages /\ Tail(s) \in Seq(Messages)
         /\ AllKnown(s) => Known(Head(s)) /\ AllKnown(Tail(s))
         /\ AllAgree(s) => Agrees(Head(s)) /\ AllAgree(Tail(s))
         /\ \A t, c : About(s, t, c) =>
              (Head(s).topic = t /\ Head(s).camera = c) \/ About(Tail(s), t, c)
<1>1. /\ Head(s) \in Messages /\ Tail(s) \in Seq(Messages) /\ Len(s) \in Nat \ {0}
      /\ Len(Tail(s)) = Len(s) - 1 /\ \A i \in 1 .. Len(Tail(s)) : Tail(s)[i] = s[i + 1]
  BY HeadTailProperties, EmptySeq
<1>2. Head(s) = s[1]
  OBVIOUS
<1>3. \A i \in 1 .. Len(s) : i = 1 \/ i - 1 \in 1 .. Len(Tail(s))
  BY <1>1
<1>4. \A i \in 1 .. Len(Tail(s)) : i + 1 \in 1 .. Len(s)
  BY <1>1
<1>5. AllKnown(s) => Known(Head(s)) /\ AllKnown(Tail(s))
  BY <1>1, <1>2, <1>4 DEF AllKnown
<1>6. AllAgree(s) => Agrees(Head(s)) /\ AllAgree(Tail(s))
  BY <1>1, <1>2, <1>4 DEF AllAgree
<1>7. ASSUME NEW t, NEW c, About(s, t, c)
      PROVE  (Head(s).topic = t /\ Head(s).camera = c) \/ About(Tail(s), t, c)
  <2>1. PICK i \in 1 .. Len(s) : s[i].topic = t /\ s[i].camera = c
    BY <1>7 DEF About
  <2>2. CASE i = 1
    BY <1>2, <2>1, <2>2
  <2>3. CASE i # 1
    <3>1. i - 1 \in 1 .. Len(Tail(s))
      BY <1>3, <2>3
    <3>2. Tail(s)[i - 1] = s[i]
      BY <1>1, <3>1
    <3>3. QED
      BY <2>1, <3>1, <3>2 DEF About
  <2>4. QED
    BY <2>2, <2>3
<1>8. QED
  BY <1>1, <1>5, <1>6, <1>7

LEMMA Kept ==
  ASSUME NEW s \in Seq(Messages), NEW m \in Messages
  PROVE  /\ Append(s, m) \in Seq(Messages) /\ Append(s, m) # <<>>
         /\ AllKnown(s) /\ Known(m) => AllKnown(Append(s, m))
         /\ AllAgree(s) /\ Agrees(m) => AllAgree(Append(s, m))
         /\ \A t, c : About(s, t, c) => About(Append(s, m), t, c)
<1>1. /\ Append(s, m) \in Seq(Messages) /\ Append(s, m) # <<>> /\ Len(s) \in Nat
      /\ Len(Append(s, m)) = Len(s) + 1
      /\ \A i \in 1 .. Len(s) : Append(s, m)[i] = s[i]
      /\ Append(s, m)[Len(s) + 1] = m
  BY AppendProperties
<1>2. \A i \in 1 .. Len(Append(s, m)) : i \in 1 .. Len(s) \/ i = Len(s) + 1
  BY <1>1
<1>3. \A i \in 1 .. Len(s) : i \in 1 .. Len(Append(s, m))
  BY <1>1
<1>4. QED
  BY <1>1, <1>2, <1>3 DEF AllKnown, AllAgree, About

\* A message that says what memory holds puts its item right and no other wrong.
LEMMA DeliverKeeps ==
  ASSUME Types, NEW m \in Messages, Known(m), UNCHANGED memory,
         UNCHANGED broker \/ Delivered(m)
  PROVE  /\ viewer' \in [Cameras -> {"ON", "OFF"}] /\ device' \in {"online", "offline"}
         /\ \A c \in Cameras \ DOMAIN states : viewer[c] = "OFF" => viewer'[c] = "OFF"
         /\ \A t, c : IsItem(t, c) /\ Right(t, c) /\ Agrees(m) => Right(t, c)'
         /\ \A t, c : /\ IsItem(t, c) /\ Agrees(m) /\ Delivered(m)
                      /\ m.topic = t /\ m.camera = c
                      => Right(t, c)'
<1> USE DEF Types
<1>1. available' = available /\ DOMAIN states' = DOMAIN states /\ \A c : Active(c)' = Active(c)
  BY DEF Active, memory
<1>2. \/ m.topic = "viewer" /\ m.camera \in Cameras /\ m.payload \in {"ON", "OFF"}
      \/ m.topic = "availability" /\ m.camera = "" /\ m.payload \in {"online", "offline"}
      \/ m.topic = "discovery" /\ m.camera \in Cameras
  BY MessageForms
<1>3. viewer' \in [Cameras -> {"ON", "OFF"}] /\ device' \in {"online", "offline"}
  BY <1>2 DEF broker, Delivered
<1>4. \A c \in Cameras \ DOMAIN states : viewer[c] = "OFF" => viewer'[c] = "OFF"
  BY <1>2 DEF broker, Delivered, Known
<1>5. ASSUME NEW t, NEW c, IsItem(t, c), Agrees(m),
             Right(t, c) \/ (Delivered(m) /\ m.topic = t /\ m.camera = c)
      PROVE  Right(t, c)'
  <2>1. CASE UNCHANGED broker /\ Right(t, c)
    BY <1>1, <2>1 DEF Right, broker
  <2>2. CASE Delivered(m)
    BY <1>1, <1>2, <1>5, <2>2 DEF Delivered, Right, Agrees, IsItem
  <2>3. QED
    BY <1>5, <2>1, <2>2
<1>6. QED
  BY <1>3, <1>4, <1>5

LEMMA PublishKeeps ==
  ASSUME Types, NEW m \in Messages, Known(m), Publish(m), UNCHANGED <<memory, link>>
  PROVE  /\ held' \in Seq(Messages) /\ viewer' \in [Cameras -> {"ON", "OFF"}]
         /\ device' \in {"online", "offline"}
         /\ AllKnown(held) => AllKnown(held')
         /\ AllAgree(held) /\ Agrees(m) => AllAgree(held')
         /\ \A c \in Cameras \ DOMAIN states : viewer[c] = "OFF" => viewer'[c] = "OFF"
<1>1. held' = held \/ held' = Append(held, m)
  BY DEF Publish, Delivered
<1>2. /\ held' \in Seq(Messages)
      /\ AllKnown(held) => AllKnown(held')
      /\ AllAgree(held) /\ Agrees(m) => AllAgree(held')
  <2>1. CASE held' = held
    BY <2>1 DEF Types
  <2>2. CASE held' = Append(held, m)
    <3>1. PICK s : s = held
      OBVIOUS
    <3>2. /\ Append(s, m) \in Seq(Messages)
          /\ AllKnown(s) /\ Known(m) => AllKnown(Append(s, m))
          /\ AllAgree(s) /\ Agrees(m) => AllAgree(Append(s, m))
      BY <3>1, Kept DEF Types
    <3>3. QED
      BY <2>2, <3>1, <3>2
  <2>3. QED
    BY <1>1, <2>1, <2>2
<1>3. UNCHANGED broker \/ Delivered(m)
  BY DEF Publish
<1>4. UNCHANGED memory
  OBVIOUS
<1>5. /\ viewer' \in [Cameras -> {"ON", "OFF"}] /\ device' \in {"online", "offline"}
      /\ \A c \in Cameras \ DOMAIN states : viewer[c] = "OFF" => viewer'[c] = "OFF"
  BY <1>3, <1>4, DeliverKeeps
<1>6. QED
  BY <1>2, <1>5

LEMMA PublishRepairs ==
  ASSUME Types, NEW m \in Messages, Known(m), Agrees(m), Publish(m), UNCHANGED <<memory, link>>,
         NEW t, NEW c, IsItem(t, c),
         \/ Right(t, c) \/ link # "connected" \/ About(held, t, c)
         \/ m.topic = t /\ m.camera = c
  PROVE  Right(t, c)' \/ link' # "connected" \/ About(held', t, c)
<1>1. (UNCHANGED broker \/ Delivered(m)) /\ UNCHANGED memory /\ UNCHANGED link
  BY DEF Publish
<1>2. IsItem(t, c) /\ Right(t, c) /\ Agrees(m) => Right(t, c)'
  BY <1>1, DeliverKeeps
<1>3. IsItem(t, c) /\ Agrees(m) /\ Delivered(m) /\ m.topic = t /\ m.camera = c => Right(t, c)'
  BY <1>1, DeliverKeeps
<1>4. About(held, t, c) => About(held', t, c)
  <2>1. PICK s : s = held
    OBVIOUS
  <2>2. About(s, t, c) => About(Append(s, m), t, c)
    BY <2>1, Kept DEF Types
  <2>3. held' = held \/ held' = Append(held, m)
    BY DEF Publish
  <2>4. QED
    BY <2>1, <2>2, <2>3
<1>5. link = "connected" => Delivered(m)
  BY DEF Publish
<1>6. QED
  BY <1>1, <1>2, <1>3, <1>4, <1>5

\* While memory stays, so does what messages say of it.
LEMMA MemoryStays ==
  ASSUME UNCHANGED memory
  PROVE  /\ \A c : Active(c)' = Active(c)
         /\ \A m : Known(m)' = Known(m) /\ Agrees(m)' = Agrees(m)
         /\ \A s : AllKnown(s)' = AllKnown(s) /\ AllAgree(s)' = AllAgree(s)
         /\ \A t, c : IsItem(t, c)' = IsItem(t, c)
         /\ DOMAIN states' = DOMAIN states
         /\ Shut => Shut'
BY DEF memory, Active, Known, Agrees, AllKnown, AllAgree, IsItem, Shut

LEMMA InitMInv == Init => MInv
<1> SUFFICES ASSUME Init PROVE MInv
  OBVIOUS
<1>1. Types
  <2>1. DOMAIN states = {} /\ DOMAIN callbacks = {} /\ calls = <<>> /\ held = <<>>
    BY DEF Init
  <2>2. callbacks \in [DOMAIN callbacks ->
                         [at : {"subscribe", "snapshot", "publish"}, todo : Seq(Messages)]]
    BY DEF Init
  <2>3. calls \in Seq(Messages) /\ held \in Seq(Messages)
    BY <2>1
  <2>4. /\ available = FALSE /\ closing = FALSE /\ raced = FALSE /\ link = "connecting"
        /\ viewer \in [Cameras -> {"ON", "OFF"}] /\ device = "offline"
    BY DEF Init
  <2>5. QED
    BY <2>1, <2>2, <2>3, <2>4 DEF Types
<1>2. InFlight
  BY DEF Init, InFlight, AllKnown, AllAgree, Publishing
<1>3. Repair /\ Strays /\ Shut
  BY DEF Init, Repair, Strays, Shut, Found, Coming
<1>4. QED
  BY <1>1, <1>2, <1>3 DEF MInv

\* The publishes of Set, SetAvailable and Close.
LEMMA CallKeeps ==
  ASSUME MInv, PublishCall
  PROVE  MInv'
<1> USE DEF MInv
<1>1. PICK m, s : m = Head(calls) /\ s = Tail(calls)
  OBVIOUS
<1>2. /\ m \in Messages /\ s \in Seq(Messages) /\ Known(m) /\ AllKnown(s)
      /\ Agrees(m) /\ AllAgree(s)
      /\ \A t, c : About(calls, t, c) => (m.topic = t /\ m.camera = c) \/ About(s, t, c)
  BY <1>1, Taken DEF PublishCall, Types, InFlight
<1>3. /\ Publish(m) /\ calls' = s
      /\ UNCHANGED <<memory, callbacks, delivered, clearing, link, left, raced>>
  BY <1>1 DEF PublishCall
<1>4. /\ held' \in Seq(Messages) /\ viewer' \in [Cameras -> {"ON", "OFF"}]
      /\ device' \in {"online", "offline"}
      /\ AllKnown(held) => AllKnown(held')
      /\ AllAgree(held) /\ Agrees(m) => AllAgree(held')
      /\ \A c \in Cameras \ DOMAIN states : viewer[c] = "OFF" => viewer'[c] = "OFF"
  BY <1>2, <1>3, PublishKeeps
<1>5. /\ \A c : Active(c)' = Active(c) /\ DOMAIN states' = DOMAIN states
      /\ \A x : AllKnown(x)' = AllKnown(x) /\ AllAgree(x)' = AllAgree(x)
      /\ Shut'
  BY <1>3, MemoryStays
<1>6. Types'
  BY <1>2, <1>3, <1>4 DEF Types, memory
<1>7. InFlight'
  BY <1>2, <1>3, <1>4, <1>5 DEF InFlight, Publishing
<1>8. Repair'
  <2>1. SUFFICES ASSUME ~raced, NEW t, NEW c, IsItem(t, c)
                 PROVE  (Right(t, c) \/ Coming(t, c))'
    BY <1>3, MemoryStays DEF Repair
  <2>2. Right(t, c) \/ Coming(t, c)
    BY <2>1 DEF Repair
  <2>3. \/ Right(t, c) \/ link # "connected" \/ About(held, t, c)
        \/ m.topic = t /\ m.camera = c
        => Right(t, c)' \/ link' # "connected" \/ About(held', t, c)
    BY <1>2, <1>3, <2>1, PublishRepairs
  <2>4. QED
    BY <1>2, <1>3, <2>2, <2>3 DEF Coming, Before, Publishing
<1>9. Strays'
  BY <1>3, <1>4, <1>5 DEF Strays, Found
<1>10. QED
  BY <1>5, <1>6, <1>7, <1>8, <1>9

\* What paho kept.
LEMMA ResendKeeps ==
  ASSUME MInv, Resend
  PROVE  MInv'
<1> USE DEF MInv
<1>1. PICK m, s : m = Head(held) /\ s = Tail(held)
  OBVIOUS
<1>2. /\ m \in Messages /\ s \in Seq(Messages) /\ Known(m) /\ AllKnown(s)
      /\ AllAgree(held) => Agrees(m) /\ AllAgree(s)
      /\ \A t, c : About(held, t, c) => (m.topic = t /\ m.camera = c) \/ About(s, t, c)
  BY <1>1, Taken DEF Resend, Types, InFlight
<1>3. /\ Delivered(m) /\ held' = s
      /\ UNCHANGED <<memory, calls, callbacks, delivered, clearing, link, left, raced>>
  BY <1>1 DEF Resend
<1>4. /\ viewer' \in [Cameras -> {"ON", "OFF"}] /\ device' \in {"online", "offline"}
      /\ \A c \in Cameras \ DOMAIN states : viewer[c] = "OFF" => viewer'[c] = "OFF"
  BY <1>2, <1>3, DeliverKeeps
<1>5. /\ \A c : Active(c)' = Active(c) /\ DOMAIN states' = DOMAIN states
      /\ \A x : AllKnown(x)' = AllKnown(x) /\ AllAgree(x)' = AllAgree(x)
      /\ Shut'
  BY <1>3, MemoryStays
<1>6. Types'
  BY <1>2, <1>3, <1>4 DEF Types, memory
<1>7. InFlight'
  BY <1>2, <1>3, <1>5 DEF InFlight, Publishing
<1>8. Repair'
  <2>1. SUFFICES ASSUME ~raced, NEW t, NEW c, IsItem(t, c)
                 PROVE  (Right(t, c) \/ Coming(t, c))'
    BY <1>3, MemoryStays DEF Repair
  <2>2. (Right(t, c) \/ Coming(t, c)) /\ Agrees(m)
    BY <1>2, <2>1 DEF Repair, InFlight
  <2>3. IsItem(t, c) /\ Right(t, c) /\ Agrees(m) => Right(t, c)'
    BY <1>2, <1>3, DeliverKeeps
  <2>4. IsItem(t, c) /\ Agrees(m) /\ Delivered(m) /\ m.topic = t /\ m.camera = c => Right(t, c)'
    BY <1>2, <1>3, DeliverKeeps
  <2>5. QED
    BY <1>2, <1>3, <2>1, <2>2, <2>3, <2>4 DEF Coming, Before, Publishing
<1>9. Strays'
  BY <1>3, <1>4, <1>5 DEF Strays, Found
<1>10. QED
  BY <1>5, <1>6, <1>7, <1>8, <1>9

\* The clean-up.
LEMMA ClearKeeps ==
  ASSUME MInv, NEW d \in Cameras, Clear(d)
  PROVE  MInv'
<1> USE DEF MInv
<1>1. PICK m : m = StateOf(d, FALSE)
  OBVIOUS
<1>2. m \in Messages /\ m.topic = "viewer" /\ m.camera = d /\ m.payload = "OFF"
  BY <1>1, MakeMessages DEF State
<1>3. /\ Publish(m) /\ clearing' = clearing \ {d} /\ d \in clearing
      /\ UNCHANGED <<memory, calls, callbacks, delivered, link, left, raced>>
  BY <1>1 DEF Clear
<1>4. Known(m) /\ (~raced => Agrees(m))
  BY <1>2, <1>3 DEF Known, Agrees, InFlight, State
<1>5. /\ held' \in Seq(Messages) /\ viewer' \in [Cameras -> {"ON", "OFF"}]
      /\ device' \in {"online", "offline"}
      /\ AllKnown(held) => AllKnown(held')
      /\ AllAgree(held) /\ Agrees(m) => AllAgree(held')
      /\ \A c \in Cameras \ DOMAIN states : viewer[c] = "OFF" => viewer'[c] = "OFF"
  BY <1>2, <1>3, <1>4, PublishKeeps
<1>6. /\ \A c : Active(c)' = Active(c) /\ DOMAIN states' = DOMAIN states
      /\ \A x : AllKnown(x)' = AllKnown(x) /\ AllAgree(x)' = AllAgree(x)
      /\ Shut'
  BY <1>3, MemoryStays
<1>7. Types'
  BY <1>3, <1>5 DEF Types, memory
<1>8. InFlight'
  BY <1>3, <1>4, <1>5, <1>6 DEF InFlight, Publishing
<1>9. Repair'
  <2>1. SUFFICES ASSUME ~raced, NEW t, NEW c, IsItem(t, c)
                 PROVE  (Right(t, c) \/ Coming(t, c))'
    BY <1>3, MemoryStays DEF Repair
  <2>2. Right(t, c) \/ Coming(t, c)
    BY <2>1 DEF Repair
  <2>3. \/ Right(t, c) \/ link # "connected" \/ About(held, t, c)
        => Right(t, c)' \/ link' # "connected" \/ About(held', t, c)
    BY <1>2, <1>3, <1>4, <2>1, PublishRepairs
  <2>4. QED
    BY <1>3, <2>2, <2>3 DEF Coming, Before, Publishing
<1>10. Strays'
  <2>1. link = "connected" => viewer'[d] = "OFF"
    BY <1>2, <1>3 DEF Publish, Delivered, Types
  <2>2. QED
    BY <1>3, <1>5, <1>6, <2>1 DEF Strays, Found
<1>11. QED
  BY <1>6, <1>7, <1>8, <1>9, <1>10

\* The publishes of a callback.
LEMMA CallbackKeeps ==
  ASSUME MInv, NEW n \in DOMAIN callbacks, PublishSnapshot(n)
  PROVE  MInv'
<1> USE DEF MInv
<1>1. PICK m, s, q : q = callbacks[n].todo /\ m = Head(q) /\ s = Tail(q)
  OBVIOUS
<1>2. q \in Seq(Messages) /\ q # <<>> /\ Publishing(n) /\ AllKnown(q) /\ (~raced => AllAgree(q))
  BY <1>1 DEF PublishSnapshot, Types, InFlight, Publishing
<1>3. /\ m \in Messages /\ s \in Seq(Messages) /\ Known(m) /\ AllKnown(s)
      /\ AllAgree(q) => Agrees(m) /\ AllAgree(s)
      /\ \A t, c : About(q, t, c) => (m.topic = t /\ m.camera = c) \/ About(s, t, c)
  BY <1>1, <1>2, Taken
<1>4. /\ Publish(m)
      /\ UNCHANGED <<memory, calls, delivered, clearing, link, left, raced>>
  BY <1>1 DEF PublishSnapshot
<1>5. /\ DOMAIN callbacks' \subseteq DOMAIN callbacks
      /\ \A j \in DOMAIN callbacks' : j # n => callbacks'[j] = callbacks[j]
      /\ \A j \in DOMAIN callbacks : j # n => j \in DOMAIN callbacks'
      /\ n \in DOMAIN callbacks' => /\ callbacks'[n].at = "publish" /\ callbacks'[n].todo = s
                                    /\ s # <<>>
      /\ n \notin DOMAIN callbacks' => s = <<>>
      /\ callbacks' \in [DOMAIN callbacks' -> [at : {"subscribe", "snapshot", "publish"},
                                               todo : Seq(Messages)]]
  <2>1. Len(s) = Len(q) - 1 /\ Len(q) \in Nat \ {0}
    BY <1>1, <1>2, HeadTailProperties, EmptySeq
  <2>2. CASE Len(q) = 1
    <3>1. callbacks' = [i \in DOMAIN callbacks \ {n} |-> callbacks[i]]
      BY <1>1, <2>2 DEF PublishSnapshot
    <3>2. s = <<>>
      BY <1>3, <2>1, <2>2, EmptySeq
    <3>3. QED
      BY <3>1, <3>2 DEF Types
  <2>3. CASE Len(q) # 1
    <3>1. callbacks' = [callbacks EXCEPT ![n].todo = s]
      BY <1>1, <2>3 DEF PublishSnapshot
    <3>2. s # <<>>
      BY <1>3, <2>1, <2>3, EmptySeq
    <3>3. callbacks[n] \in [at : {"subscribe", "snapshot", "publish"}, todo : Seq(Messages)]
      BY DEF Types
    <3>4. QED
      BY <1>2, <1>3, <3>1, <3>2, <3>3 DEF Types, Publishing
  <2>4. QED
    BY <2>2, <2>3
<1>6. /\ held' \in Seq(Messages) /\ viewer' \in [Cameras -> {"ON", "OFF"}]
      /\ device' \in {"online", "offline"}
      /\ AllKnown(held) => AllKnown(held')
      /\ AllAgree(held) /\ Agrees(m) => AllAgree(held')
      /\ \A c \in Cameras \ DOMAIN states : viewer[c] = "OFF" => viewer'[c] = "OFF"
  BY <1>3, <1>4, PublishKeeps
<1>7. /\ \A c : Active(c)' = Active(c) /\ DOMAIN states' = DOMAIN states
      /\ \A x : AllKnown(x)' = AllKnown(x) /\ AllAgree(x)' = AllAgree(x)
      /\ Shut'
  BY <1>4, MemoryStays
<1>8. Types'
  BY <1>4, <1>5, <1>6 DEF Types, memory
<1>9. InFlight'
  BY <1>2, <1>3, <1>4, <1>5, <1>6, <1>7 DEF InFlight, Publishing
<1>10. Repair'
  <2>1. SUFFICES ASSUME ~raced, NEW t, NEW c, IsItem(t, c)
                 PROVE  (Right(t, c) \/ Coming(t, c))'
    BY <1>4, MemoryStays DEF Repair
  <2>2. (Right(t, c) \/ Coming(t, c)) /\ Agrees(m)
    BY <1>2, <1>3, <2>1 DEF Repair
  <2>3. \/ Right(t, c) \/ link # "connected" \/ About(held, t, c)
        \/ m.topic = t /\ m.camera = c
        => Right(t, c)' \/ link' # "connected" \/ About(held', t, c)
    BY <1>3, <1>4, <2>1, <2>2, PublishRepairs
  <2>4. About(s, t, c) => n \in DOMAIN callbacks'
    BY <1>5 DEF About
  <2>5. CASE \E j \in DOMAIN callbacks : Publishing(j) /\ About(callbacks[j].todo, t, c)
    <3>1. PICK j \in DOMAIN callbacks : Publishing(j) /\ About(callbacks[j].todo, t, c)
      BY <2>5
    <3>2. CASE j = n
      <4>1. (m.topic = t /\ m.camera = c) \/ About(s, t, c)
        BY <1>1, <1>3, <3>1, <3>2
      <4>2. QED
        BY <1>5, <2>3, <2>4, <4>1 DEF Coming, Publishing
    <3>3. CASE j # n
      BY <1>5, <3>1, <3>3 DEF Coming, Publishing
    <3>4. QED
      BY <3>2, <3>3
  <2>6. CASE \E j \in DOMAIN callbacks : Before(j)
    BY <1>2, <1>5, <2>6 DEF Coming, Before, Publishing
  <2>7. QED
    BY <1>4, <2>2, <2>3, <2>5, <2>6 DEF Coming
<1>11. Strays'
  BY <1>2, <1>4, <1>5, <1>6, <1>7 DEF Strays, Found, Publishing
<1>12. QED
  BY <1>7, <1>8, <1>9, <1>10, <1>11
-------------------------------------------------------------------------------
\* Without a race nothing older was under way, so memory may change.
LEMMA NoRace ==
  ASSUME MInv, raced' = (raced \/ UnderWay), ~raced'
  PROVE  /\ ~raced /\ held = <<>> /\ clearing = {}
         /\ \A n \in DOMAIN callbacks : ~Publishing(n)
BY DEF MInv, Types, UnderWay, Publishing

\* What is under way does not depend on the memory.
LEMMA StillComing ==
  ASSUME calls = <<>>, UNCHANGED <<callbacks, held, link>>, NEW t, NEW c, Coming(t, c)
  PROVE  Coming(t, c)'
<1>1. ~About(calls, t, c)
  BY DEF About
<1>2. QED
  BY <1>1 DEF Coming, Before, Publishing

LEMMA SetKeeps ==
  ASSUME MInv, NEW d \in Cameras, NEW active \in BOOLEAN, Set(d, active)
  PROVE  MInv'
<1> USE DEF MInv
<1>1. PICK m, k : m = Discovery(d) /\ k = StateOf(d, active)
  OBVIOUS
<1>2. /\ m \in Messages /\ m.topic = "discovery" /\ m.camera = d
      /\ k \in Messages /\ k.topic = "viewer" /\ k.camera = d /\ k.payload = State(active)
  BY <1>1, MakeMessages
<1>3. /\ calls = <<>> /\ calls' = <<m, k>> /\ raced' = (raced \/ UnderWay) /\ ~closing
      /\ UNCHANGED <<available, closing, callbacks, delivered, clearing, link, held, broker>>
  BY <1>1 DEF Set
<1>4. /\ DOMAIN states' = DOMAIN states \cup {d} /\ states'[d] = active
      /\ \A c \in DOMAIN states : c # d => states'[c] = states[c]
  BY DEF Set
<1>5. Active(d)' = active /\ \A c : c # d => Active(c)' = Active(c)
  BY <1>4 DEF Active
<1>6. \A x : AllKnown(x) => AllKnown(x)'
  BY <1>4 DEF AllKnown, Known
<1>7. calls' \in Seq(Messages) /\ Len(calls') = 2 /\ calls'[1] = m /\ calls'[2] = k
  BY <1>2, <1>3
<1>8. \A i \in 1 .. 2 : i = 1 \/ i = 2
  OBVIOUS
<1>9. AllKnown(calls)' /\ AllAgree(calls)'
  BY <1>2, <1>4, <1>5, <1>7, <1>8 DEF AllKnown, AllAgree, Known, Agrees
<1>10. Types'
  <2>1. raced' \in BOOLEAN
    BY <1>3 DEF Types, UnderWay
  <2>2. DOMAIN states' \subseteq Cameras /\ \A c \in DOMAIN states' : states'[c] \in BOOLEAN
    BY <1>4 DEF Types
  <2>3. QED
    BY <1>3, <1>7, <2>1, <2>2 DEF Types, broker
<1>11. InFlight'
  <2>1. /\ AllKnown(held)'
        /\ \A n \in DOMAIN callbacks' : Publishing(n)' => AllKnown(callbacks[n].todo)'
    BY <1>3, <1>6 DEF InFlight, Publishing
  <2>2. ~raced' => /\ AllAgree(held)' /\ clearing' = {}
                   /\ \A n \in DOMAIN callbacks' : ~Publishing(n)'
    BY <1>3, NoRace DEF AllAgree, Publishing
  <2>3. QED
    BY <1>9, <2>1, <2>2 DEF InFlight
<1>12. Repair'
  <2>1. SUFFICES ASSUME ~raced', NEW t, NEW c, IsItem(t, c)'
                 PROVE  (Right(t, c) \/ Coming(t, c))'
    BY DEF Repair
  <2>2. CASE t \in {"viewer", "discovery"} /\ c = d
    <3>1. About(calls', t, c)
      BY <1>2, <1>7, <2>2 DEF About
    <3>2. QED
      BY <3>1 DEF Coming
  <2>3. CASE ~(t \in {"viewer", "discovery"} /\ c = d)
    <3>1. IsItem(t, c) /\ ~raced
      BY <1>3, <1>4, <2>1, <2>3, NoRace DEF IsItem
    <3>2. Right(t, c) => Right(t, c)'
      BY <1>3, <1>5, <2>3 DEF Right, broker
    <3>3. Coming(t, c) => Coming(t, c)'
      BY <1>3, StillComing
    <3>4. QED
      BY <3>1, <3>2, <3>3 DEF Repair
  <2>4. QED
    BY <2>2, <2>3
<1>13. Strays'
  BY <1>3, <1>4 DEF Strays, Found, broker
<1>14. QED
  BY <1>3, <1>9, <1>10, <1>11, <1>12, <1>13 DEF Shut

LEMMA One ==
  ASSUME NEW m \in Messages
  PROVE  <<m>> \in Seq(Messages) /\ Len(<<m>>) = 1 /\ <<m>>[1] = m
OBVIOUS

LEMMA DeviceForm ==
  ASSUME NEW a \in BOOLEAN
  PROVE  /\ Device(a) \in Messages /\ Device(a).topic = "availability"
         /\ Device(a).camera = "" /\ Device(a).payload = Availability(a)
<1>1. Device(a) \in {Device(x) : x \in BOOLEAN}
  OBVIOUS
<1>2. Device(a) \in Messages
  BY <1>1 DEF Messages
<1>3. QED
  BY <1>2 DEF Device

LEMMA SetAvailableKeeps ==
  ASSUME MInv, SetAvailable
  PROVE  MInv'
<1> USE DEF MInv
<1>1. PICK m : m = Device(available')
  OBVIOUS
<1>2. available' \in BOOLEAN
  BY DEF SetAvailable
<1>3. /\ m \in Messages /\ m.topic = "availability" /\ m.camera = ""
      /\ m.payload = Availability(available')
  BY <1>1, <1>2, DeviceForm
<1>4. /\ calls = <<>> /\ calls' = <<m>> /\ raced' = (raced \/ UnderWay) /\ ~closing
      /\ UNCHANGED <<states, closing, callbacks, delivered, clearing, link, held, broker>>
  BY <1>1 DEF SetAvailable
<1>5. \A x : AllKnown(x)' = AllKnown(x)
  BY <1>4 DEF AllKnown, Known
<1>6. calls' \in Seq(Messages) /\ Len(calls') = 1 /\ calls'[1] = m
  BY <1>3, <1>4, One
<1>7. 1 \in 1 .. 1 /\ \A i \in 1 .. 1 : i = 1
  OBVIOUS
<1>8. AllKnown(calls)' /\ AllAgree(calls)'
  BY <1>3, <1>6, <1>7 DEF AllKnown, AllAgree, Known, Agrees
<1>9. Types'
  <2>1. raced' \in BOOLEAN
    BY <1>4 DEF Types, UnderWay
  <2>2. QED
    BY <1>2, <1>4, <1>6, <2>1 DEF Types, broker
<1>10. InFlight'
  <2>1. /\ AllKnown(held)'
        /\ \A n \in DOMAIN callbacks' : Publishing(n)' => AllKnown(callbacks[n].todo)'
    BY <1>4, <1>5 DEF InFlight, Publishing
  <2>2. ~raced' => /\ AllAgree(held)' /\ clearing' = {}
                   /\ \A n \in DOMAIN callbacks' : ~Publishing(n)'
    BY <1>4, NoRace DEF AllAgree, Publishing
  <2>3. QED
    BY <1>8, <2>1, <2>2 DEF InFlight
<1>11. Repair'
  <2>1. SUFFICES ASSUME ~raced', NEW t, NEW c, IsItem(t, c)'
                 PROVE  (Right(t, c) \/ Coming(t, c))'
    BY DEF Repair
  <2>2. CASE t = "availability"
    <3>1. c = ""
      BY <2>1, <2>2 DEF IsItem
    <3>2. 1 \in 1 .. Len(calls') /\ calls'[1].topic = t /\ calls'[1].camera = c
      BY <1>3, <1>6, <1>7, <2>2, <3>1
    <3>3. About(calls', t, c)
      BY <3>2 DEF About
    <3>4. QED
      BY <3>3 DEF Coming
  <2>3. CASE t # "availability"
    <3>1. IsItem(t, c) /\ ~raced
      BY <1>4, <2>1, NoRace DEF IsItem
    <3>2. Right(t, c) => Right(t, c)'
      BY <1>4, <2>3 DEF Right, broker, Active
    <3>3. Coming(t, c) => Coming(t, c)'
      BY <1>4, StillComing
    <3>4. QED
      BY <3>1, <3>2, <3>3 DEF Repair
  <2>4. QED
    BY <2>2, <2>3
<1>12. Strays'
  BY <1>4 DEF Strays, Found, broker
<1>13. QED
  BY <1>4, <1>9, <1>10, <1>11, <1>12 DEF Shut
\* An order of the cameras names each of them.
LEMMA Enumerated ==
  ASSUME NEW S \in SUBSET Cameras, NEW q \in SetToSeqs(S)
  PROVE  /\ q \in Seq(Cameras) /\ \A i \in 1 .. Len(q) : q[i] \in S
         /\ \A x \in S : \E i \in 1 .. Len(q) : q[i] = x
<1>1. IsFiniteSet(S) /\ Cardinality(S) \in Nat
  BY CamerasAssumption, FS_Subset, FS_CardinalityType
<1>2. PICK D : D = 1 .. Cardinality(S)
  OBVIOUS
<1>3. q \in [D -> S] /\ \A i, j \in D : i # j => q[i] # q[j]
  BY <1>2 DEF SetToSeqs
<1>4. q \in Injection(D, S)
  BY <1>3 DEF Injection, IsInjective
<1>5. Cardinality(D) = Cardinality(S)
  BY <1>1, <1>2, FS_Interval
<1>6. q \in Surjection(D, S)
  BY <1>1, <1>4, <1>5, FS_Injection
<1>7. \A x \in S : \E i \in D : q[i] = x
  BY <1>6 DEF Surjection
<1>8. q \in Seq(S) /\ Len(q) = Cardinality(S)
  BY <1>1, <1>2, <1>3
<1>9. q \in Seq(Cameras)
  BY <1>1, <1>2, <1>3
<1>10. QED
  BY <1>2, <1>7, <1>8, <1>9

LEMMA Joined ==
  ASSUME NEW S, NEW r \in Seq(S), NEW d \in S
  PROVE  /\ r \o <<d>> \in Seq(S) /\ Len(r \o <<d>>) = Len(r) + 1
         /\ (r \o <<d>>)[Len(r) + 1] = d
         /\ \A i \in 1 .. Len(r) : (r \o <<d>>)[i] = r[i]
OBVIOUS

\* What Close publishes.
LEMMA OffMessages ==
  ASSUME NEW q \in Seq(Cameras)
  PROVE  \E r \in Seq(Messages) :
           /\ r = [i \in DOMAIN q |-> StateOf(q[i], FALSE)] /\ Len(r) = Len(q)
           /\ \A i \in 1 .. Len(q) : /\ r[i].topic = "viewer" /\ r[i].camera = q[i]
                                     /\ r[i].payload = "OFF"
<1>1. PICK r, n : r = [i \in DOMAIN q |-> StateOf(q[i], FALSE)] /\ n = Len(q)
  OBVIOUS
<1>2. n \in Nat /\ DOMAIN q = 1 .. n /\ \A i \in 1 .. n : q[i] \in Cameras
  BY <1>1
<1>3. \A i \in 1 .. n : /\ r[i] \in Messages /\ r[i].topic = "viewer"
                        /\ r[i].camera = q[i] /\ r[i].payload = "OFF"
  <2>1. SUFFICES ASSUME NEW i \in 1 .. n
                 PROVE  /\ r[i] \in Messages /\ r[i].topic = "viewer"
                        /\ r[i].camera = q[i] /\ r[i].payload = "OFF"
    OBVIOUS
  <2>2. PICK c \in Cameras : c = q[i]
    BY <1>2
  <2>3. PICK m : m = StateOf(c, FALSE)
    OBVIOUS
  <2>4. r[i] = m
    BY <1>1, <1>2, <2>2, <2>3
  <2>5. m \in Messages /\ m.topic = "viewer" /\ m.camera = c /\ m.payload = "OFF"
    BY <2>3, MakeMessages DEF State
  <2>6. QED
    BY <2>2, <2>4, <2>5
<1>4. r \in [1 .. n -> Messages]
  BY <1>1, <1>2, <1>3
<1>5. r \in Seq(Messages) /\ Len(r) = n
  BY <1>2, <1>4
<1>6. QED
  BY <1>1, <1>3, <1>5

LEMMA LastMessage ==
  ASSUME NEW r \in Seq(Messages), NEW d \in Messages, NEW s, s = r \o <<d>>
  PROVE  /\ s \in Seq(Messages)
         /\ \A i \in 1 .. Len(s) : s[i] = d \/ \E j \in 1 .. Len(r) : s[i] = r[j]
         /\ \A t, c : About(r, t, c) \/ (d.topic = t /\ d.camera = c) => About(s, t, c)
<1>1. PICK n : n = Len(r)
  OBVIOUS
<1>2. /\ s \in Seq(Messages) /\ Len(s) = n + 1 /\ s[n + 1] = d
      /\ \A i \in 1 .. n : s[i] = r[i]
  BY <1>1, Joined
<1>3. n \in Nat
  BY <1>1
<1>4. /\ n + 1 \in 1 .. n + 1 /\ \A i \in 1 .. n : i \in 1 .. n + 1
      /\ \A i \in 1 .. n + 1 : i \in 1 .. n \/ i = n + 1
  BY <1>3
<1>5. \A i \in 1 .. Len(s) : s[i] = d \/ \E j \in 1 .. n : s[i] = r[j]
  BY <1>2, <1>4
<1>6. ASSUME NEW t, NEW c, About(r, t, c) \/ (d.topic = t /\ d.camera = c)
      PROVE  About(s, t, c)
  <2>1. CASE d.topic = t /\ d.camera = c
    BY <1>2, <1>4, <2>1 DEF About
  <2>2. CASE About(r, t, c)
    BY <1>1, <1>2, <1>4, <2>2 DEF About
  <2>3. QED
    BY <1>6, <2>1, <2>2
<1>7. QED
  BY <1>1, <1>2, <1>5, <1>6

LEMMA CloseKeeps ==
  ASSUME MInv, Close
  PROVE  MInv'
<1> USE DEF MInv
<1>1. PICK S : S = DOMAIN states
  OBVIOUS
<1>2. PICK q \in SetToSeqs(S) :
        calls' = [i \in DOMAIN q |-> StateOf(q[i], FALSE)] \o <<Device(FALSE)>>
  BY <1>1 DEF Close
<1>3. q \in Seq(Cameras) /\ \A x \in S : \E i \in 1 .. Len(q) : q[i] = x
  BY <1>1, Enumerated DEF Types
<1>4. PICK r, d, s :
        /\ r \in Seq(Messages) /\ Len(r) = Len(q)
        /\ r = [i \in DOMAIN q |-> StateOf(q[i], FALSE)]
        /\ \A i \in 1 .. Len(q) : /\ r[i].topic = "viewer" /\ r[i].camera = q[i]
                                  /\ r[i].payload = "OFF"
        /\ d = Device(FALSE) /\ s = calls' /\ s = r \o <<d>>
  BY <1>2, <1>3, OffMessages
<1>5. d \in Messages /\ d.topic = "availability" /\ d.camera = "" /\ d.payload = "offline"
  BY <1>4, DeviceForm DEF Availability
<1>6. s = r \o <<d>>
  BY <1>4
<1>7. /\ s \in Seq(Messages)
      /\ \A i \in 1 .. Len(s) : s[i] = d \/ \E j \in 1 .. Len(r) : s[i] = r[j]
      /\ \A t, c : About(r, t, c) \/ (d.topic = t /\ d.camera = c) => About(s, t, c)
  <2>1. r \in Seq(Messages) /\ d \in Messages /\ s = r \o <<d>>
    BY <1>4, <1>5, <1>6
  <2>2. s \in Seq(Messages)
    BY <2>1, LastMessage
  <2>3. \A i \in 1 .. Len(s) : s[i] = d \/ \E j \in 1 .. Len(r) : s[i] = r[j]
    BY <2>1, LastMessage
  <2>4. \A t, c : About(r, t, c) \/ (d.topic = t /\ d.camera = c) => About(s, t, c)
    BY <2>1, LastMessage
  <2>5. QED
    BY <2>2, <2>3, <2>4
<1>8. /\ Len(r) = Len(q)
      /\ \A i \in 1 .. Len(q) : /\ r[i].topic = "viewer" /\ r[i].camera = q[i]
                                /\ r[i].payload = "OFF"
  BY <1>4
<1>9. /\ s \in Seq(Messages)
      /\ \A i \in 1 .. Len(s) : \/ s[i].topic = "viewer" /\ s[i].payload = "OFF"
                                \/ s[i].topic = "availability" /\ s[i].payload = "offline"
      /\ About(s, "availability", "")
      /\ \A i \in 1 .. Len(q) : About(s, "viewer", q[i])
  <2>1. ASSUME NEW i \in 1 .. Len(s)
        PROVE  \/ s[i].topic = "viewer" /\ s[i].payload = "OFF"
               \/ s[i].topic = "availability" /\ s[i].payload = "offline"
    <3>1. CASE s[i] = d
      BY <1>5, <3>1
    <3>2. CASE \E j \in 1 .. Len(r) : s[i] = r[j]
      BY <1>8, <3>2
    <3>3. QED
      BY <1>7, <3>1, <3>2
  <2>2. About(s, "availability", "")
    BY <1>5, <1>7
  <2>3. ASSUME NEW i \in 1 .. Len(q) PROVE About(s, "viewer", q[i])
    <3>1. About(r, "viewer", q[i])
      BY <1>8, <2>3 DEF About
    <3>2. QED
      BY <1>7, <3>1
  <2>4. QED
    BY <1>7, <2>1, <2>2, <2>3
<1>10. \A x \in S : About(s, "viewer", x)
  BY <1>3, <1>9
<1>11. /\ calls = <<>> /\ raced' = (raced \/ UnderWay) /\ closing' = TRUE /\ available' = FALSE
      /\ UNCHANGED <<callbacks, delivered, clearing, link, held, broker, left>>
  BY DEF Close
<1>12. DOMAIN states' = S /\ \A c \in S : states'[c] = FALSE
  BY <1>1 DEF Close
<1>13. \A c : ~Active(c)'
  BY <1>12 DEF Active
<1>14. \A x : AllKnown(x) => AllKnown(x)'
  BY <1>1, <1>12 DEF AllKnown, Known
<1>15. AllKnown(calls)' /\ AllAgree(calls)'
  BY <1>4, <1>9, <1>11, <1>13 DEF AllKnown, AllAgree, Known, Agrees, State, Availability
<1>16. Types'
  <2>1. raced' \in BOOLEAN
    BY <1>11 DEF Types, UnderWay
  <2>2. DOMAIN states' \subseteq Cameras /\ \A c \in DOMAIN states' : states'[c] \in BOOLEAN
    BY <1>1, <1>12 DEF Types
  <2>3. QED
    BY <1>4, <1>9, <1>11, <2>1, <2>2 DEF Types, broker
<1>17. InFlight'
  <2>1. /\ AllKnown(held)'
        /\ \A n \in DOMAIN callbacks' : Publishing(n)' => AllKnown(callbacks[n].todo)'
    BY <1>11, <1>14 DEF InFlight, Publishing
  <2>2. ~raced' => /\ AllAgree(held)' /\ clearing' = {}
                   /\ \A n \in DOMAIN callbacks' : ~Publishing(n)'
    BY <1>11, NoRace DEF AllAgree, Publishing
  <2>3. QED
    BY <1>15, <2>1, <2>2 DEF InFlight
<1>18. Repair'
  <2>1. SUFFICES ASSUME ~raced', NEW t, NEW c, IsItem(t, c)'
                 PROVE  (Right(t, c) \/ Coming(t, c))'
    BY DEF Repair
  <2>2. CASE t \in {"viewer", "availability"}
    <3>1. About(s, t, c)
      BY <1>9, <1>10, <1>12, <2>1, <2>2 DEF IsItem
    <3>2. QED
      BY <1>4, <3>1 DEF Coming
  <2>3. CASE t = "discovery"
    <3>1. IsItem(t, c) /\ ~raced
      BY <1>1, <1>11, <1>12, <2>1, <2>3, NoRace DEF IsItem
    <3>2. Right(t, c) => Right(t, c)'
      BY <1>11, <2>3 DEF Right, broker
    <3>3. Coming(t, c) => Coming(t, c)'
      BY <1>11, StillComing
    <3>4. QED
      BY <3>1, <3>2, <3>3 DEF Repair
  <2>4. QED
    BY <2>1, <2>2, <2>3 DEF IsItem
<1>19. Strays'
  BY <1>1, <1>11, <1>12 DEF Strays, Found, broker
<1>20. QED
  BY <1>11, <1>12, <1>16, <1>17, <1>18, <1>19 DEF Shut
-------------------------------------------------------------------------------
\* While the client is not connected everything is still to come.
LEMMA OfflineKeeps ==
  ASSUME MInv, Disconnect \/ Lose
  PROVE  MInv'
<1> USE DEF MInv
<1>1. /\ link' \in {"reconnecting", "closed"} /\ device' \in {"offline", device}
      /\ UNCHANGED <<memory, calls, callbacks, clearing, held, viewer, raced>>
  BY DEF Disconnect, Lose, broker
<1>2. /\ \A c : Active(c)' = Active(c)
      /\ \A x : AllKnown(x)' = AllKnown(x) /\ AllAgree(x)' = AllAgree(x)
      /\ Shut'
  BY <1>1, MemoryStays
<1>3. Types'
  BY <1>1 DEF Types, memory
<1>4. InFlight'
  BY <1>1, <1>2 DEF InFlight, Publishing
<1>5. Repair' /\ Strays'
  BY <1>1 DEF Repair, Coming, Strays, Found
<1>6. QED
  BY <1>2, <1>3, <1>4, <1>5

\* A new connection has its callback still before it.
LEMMA ConnectKeeps ==
  ASSUME MInv, Connect
  PROVE  MInv'
<1> USE DEF MInv
<1>1. PICK n : callbacks' = [i \in DOMAIN callbacks \cup {n} |->
                 IF i = n THEN [at |-> "subscribe", todo |-> <<>>] ELSE callbacks[i]]
  BY DEF Connect
<1>2. /\ link' = "connected" /\ (held' = held \/ held' = <<>>)
      /\ UNCHANGED <<memory, calls, delivered, clearing, broker, left, raced>>
  BY DEF Connect
<1>3. /\ \A c : Active(c)' = Active(c)
      /\ \A x : AllKnown(x)' = AllKnown(x) /\ AllAgree(x)' = AllAgree(x)
      /\ Shut'
  BY <1>2, MemoryStays
<1>4. /\ DOMAIN callbacks' = DOMAIN callbacks \cup {n} /\ callbacks'[n].at = "subscribe"
      /\ \A i \in DOMAIN callbacks : i # n => callbacks'[i] = callbacks[i]
  BY <1>1
<1>5. \A i : Publishing(i)' => Publishing(i) /\ callbacks'[i] = callbacks[i]
  BY <1>4 DEF Publishing
<1>6. Types'
  <2>1. callbacks' \in [DOMAIN callbacks' ->
                          [at : {"subscribe", "snapshot", "publish"}, todo : Seq(Messages)]]
    <3>1. [at |-> "subscribe", todo |-> <<>>] \in
            [at : {"subscribe", "snapshot", "publish"}, todo : Seq(Messages)]
      OBVIOUS
    <3>2. QED
      BY <1>1, <3>1 DEF Types
  <2>2. \A i \in DOMAIN callbacks' : callbacks'[i].at = "publish" => callbacks'[i].todo # <<>>
    BY <1>5 DEF Types, Publishing
  <2>3. held' \in Seq(Messages)
    <3>1. <<>> \in Seq(Messages) /\ held \in Seq(Messages)
      BY DEF Types
    <3>2. QED
      BY <1>2, <3>1
  <2>4. QED
    BY <1>2, <2>1, <2>2, <2>3 DEF Types, memory, broker
<1>7. InFlight'
  <2>1. AllKnown(held') /\ (~raced => AllAgree(held'))
    BY <1>2 DEF InFlight, AllKnown, AllAgree
  <2>2. QED
    BY <1>2, <1>3, <1>5, <2>1 DEF InFlight, Publishing
<1>8. Repair' /\ Strays'
  BY <1>4 DEF Repair, Coming, Before, Strays, Found
<1>9. QED
  BY <1>3, <1>6, <1>7, <1>8

\* The subscription brings every light that is on.
LEMMA SubscribeKeeps ==
  ASSUME MInv, NEW n \in DOMAIN callbacks, Subscribe(n)
  PROVE  MInv'
<1> USE DEF MInv
<1>1. /\ callbacks[n].at = "subscribe" /\ callbacks' = [callbacks EXCEPT ![n].at = "snapshot"]
      /\ UNCHANGED <<memory, calls, clearing, link, held, broker, left, raced>>
  BY DEF Subscribe
<1>2. /\ \A c : Active(c)' = Active(c) /\ DOMAIN states' = DOMAIN states
      /\ \A x : AllKnown(x)' = AllKnown(x) /\ AllAgree(x)' = AllAgree(x)
      /\ Shut'
  BY <1>1, MemoryStays
<1>3. callbacks[n] \in [at : {"subscribe", "snapshot", "publish"}, todo : Seq(Messages)]
  BY DEF Types
<1>4. /\ DOMAIN callbacks' = DOMAIN callbacks /\ callbacks'[n].at = "snapshot"
      /\ callbacks'[n] \in [at : {"subscribe", "snapshot", "publish"}, todo : Seq(Messages)]
      /\ \A i \in DOMAIN callbacks : i # n => callbacks'[i] = callbacks[i]
  BY <1>1, <1>3
<1>5. \A i : Publishing(i)' => Publishing(i) /\ callbacks'[i] = callbacks[i]
  BY <1>4 DEF Publishing
<1>6. Types'
  <2>1. callbacks' \in [DOMAIN callbacks' ->
                          [at : {"subscribe", "snapshot", "publish"}, todo : Seq(Messages)]]
    BY <1>1, <1>4 DEF Types
  <2>2. \A i \in DOMAIN callbacks' : callbacks'[i].at = "publish" => callbacks'[i].todo # <<>>
    BY <1>5 DEF Types, Publishing
  <2>3. QED
    BY <1>1, <2>1, <2>2 DEF Types, memory, broker
<1>7. InFlight'
  BY <1>1, <1>2, <1>5 DEF InFlight, Publishing
<1>8. Repair'
  BY <1>4 DEF Repair, Coming, Before
<1>9. Strays'
  <2>1. link = "connected" => \A c \in Cameras : viewer[c] = "OFF" \/ c \in delivered'
    BY DEF Types, Subscribe
  <2>2. QED
    BY <1>1, <1>2, <2>1 DEF Strays, Found, broker
<1>10. QED
  BY <1>2, <1>6, <1>7, <1>8, <1>9

\* The look at a light that was delivered.
LEMMA LookKeeps ==
  ASSUME MInv, NEW d \in Cameras, Look(d)
  PROVE  MInv'
<1> USE DEF MInv
<1>1. /\ delivered' = delivered \ {d}
      /\ clearing' = IF Active(d) THEN clearing ELSE clearing \cup {d}
      /\ UNCHANGED <<memory, calls, callbacks, link, held, broker, left, raced>>
  BY DEF Look
<1>2. /\ \A c : Active(c)' = Active(c) /\ DOMAIN states' = DOMAIN states
      /\ \A x : AllKnown(x)' = AllKnown(x) /\ AllAgree(x)' = AllAgree(x)
      /\ \A t, c : IsItem(t, c)' = IsItem(t, c)
      /\ Shut'
  BY <1>1, MemoryStays
<1>3. Types'
  BY <1>1 DEF Types, memory, broker
<1>4. InFlight'
  BY <1>1, <1>2 DEF InFlight, Publishing
<1>5. Repair'
  BY <1>1, <1>2 DEF Repair, Right, Coming, Before, Publishing, memory, broker
<1>6. Strays'
  BY <1>1, <1>2 DEF Strays, Found, Active, broker
<1>7. QED
  BY <1>2, <1>3, <1>4, <1>5, <1>6

LEMMA RestKeeps ==
  ASSUME MInv, UNCHANGED vars
  PROVE  MInv'
<1> USE DEF MInv
<1>1. UNCHANGED <<memory, calls, callbacks, delivered, clearing, link, held, broker, left, raced>>
  BY DEF vars, memory, broker
<1>2. /\ \A c : Active(c)' = Active(c) /\ DOMAIN states' = DOMAIN states
      /\ \A x : AllKnown(x)' = AllKnown(x) /\ AllAgree(x)' = AllAgree(x)
      /\ \A t, c : IsItem(t, c)' = IsItem(t, c)
      /\ Shut'
  BY <1>1, MemoryStays
<1>3. Types'
  BY <1>1 DEF Types, memory, broker
<1>4. InFlight'
  BY <1>1, <1>2 DEF InFlight, Publishing
<1>5. Repair'
  BY <1>1, <1>2 DEF Repair, Right, Coming, Before, Publishing, memory, broker
<1>6. Strays'
  BY <1>1, <1>2 DEF Strays, Found, broker
<1>7. QED
  BY <1>2, <1>3, <1>4, <1>5, <1>6
\* Two announcements for each camera.
LEMMA Halves ==
  ASSUME NEW n \in Nat
  PROVE  /\ \A i \in 1 .. 2 * n : (i + 1) \div 2 \in 1 .. n
         /\ \A j \in 1 .. n : /\ 2 * j - 1 \in 1 .. 2 * n /\ 2 * j \in 1 .. 2 * n
                              /\ (2 * j - 1) % 2 = 1 /\ (2 * j) % 2 # 1
                              /\ ((2 * j - 1) + 1) \div 2 = j /\ (2 * j + 1) \div 2 = j
<1>1. ASSUME NEW i \in 1 .. 2 * n
      PROVE  (i + 1) \div 2 \in 1 .. n
  OBVIOUS
<1>2. ASSUME NEW j \in 1 .. n
      PROVE  /\ 2 * j - 1 \in 1 .. 2 * n /\ 2 * j \in 1 .. 2 * n
             /\ (2 * j - 1) % 2 = 1 /\ (2 * j) % 2 # 1
             /\ ((2 * j - 1) + 1) \div 2 = j /\ (2 * j + 1) \div 2 = j
  OBVIOUS
<1>3. QED
  BY <1>1, <1>2

LEMMA Announced ==
  ASSUME Types, NEW q \in Seq(Cameras), \A i \in 1 .. Len(q) : q[i] \in DOMAIN states
  PROVE  \E a \in Seq(Messages) :
           /\ a = Announcements(q)
           /\ \A i \in 1 .. Len(a) : Known(a[i]) /\ Agrees(a[i])
           /\ \A j \in 1 .. Len(q) : About(a, "discovery", q[j]) /\ About(a, "viewer", q[j])
<1>1. PICK a, n : a = Announcements(q) /\ n = Len(q)
  OBVIOUS
<1>2. n \in Nat
  BY <1>1
<1>3. /\ DOMAIN a = 1 .. 2 * n
      /\ \A i \in 1 .. 2 * n :
           a[i] = IF i % 2 = 1 THEN Discovery(q[(i + 1) \div 2])
                  ELSE StateOf(q[(i + 1) \div 2], states[q[(i + 1) \div 2]])
  BY <1>1 DEF Announcements
<1>4. ASSUME NEW i \in 1 .. 2 * n
      PROVE  \E c \in DOMAIN states :
               /\ c = q[(i + 1) \div 2] /\ a[i] \in Messages /\ a[i].camera = c
               /\ a[i].topic = IF i % 2 = 1 THEN "discovery" ELSE "viewer"
               /\ a[i].topic = "viewer" => a[i].payload = State(states[c])
  <2>1. PICK j \in 1 .. n : j = (i + 1) \div 2
    BY <1>2, <1>4, Halves
  <2>2. PICK c \in DOMAIN states : c = q[j]
    BY <1>1, <2>1
  <2>3. PICK act : act = states[c]
    OBVIOUS
  <2>4. c \in Cameras /\ act \in BOOLEAN
    BY <2>2, <2>3 DEF Types
  <2>5. a[i] = IF i % 2 = 1 THEN Discovery(c) ELSE StateOf(c, act)
    BY <1>3, <1>4, <2>1, <2>2, <2>3
  <2>6. /\ StateOf(c, act) \in Messages /\ Discovery(c) \in Messages
        /\ StateOf(c, act).topic = "viewer" /\ StateOf(c, act).camera = c
        /\ StateOf(c, act).payload = State(act)
        /\ Discovery(c).topic = "discovery" /\ Discovery(c).camera = c
    BY <2>4, MakeMessages
  <2>7. CASE i % 2 = 1
    BY <2>1, <2>2, <2>5, <2>6, <2>7
  <2>8. CASE i % 2 # 1
    BY <2>1, <2>2, <2>3, <2>5, <2>6, <2>8
  <2>9. QED
    BY <2>7, <2>8
<1>5. \A i \in 1 .. 2 * n : a[i] \in Messages
  BY <1>4
<1>6. a \in [1 .. 2 * n -> Messages]
  BY <1>1, <1>3, <1>5 DEF Announcements
<1>7. a \in Seq(Messages) /\ Len(a) = 2 * n
  BY <1>2, <1>6
<1>8. ASSUME NEW i \in 1 .. Len(a)
      PROVE  Known(a[i]) /\ Agrees(a[i])
  <2>1. i \in 1 .. 2 * n
    BY <1>7
  <2>2. PICK c \in DOMAIN states : /\ a[i].camera = c /\ a[i].topic \in {"discovery", "viewer"}
                                   /\ a[i].topic = "viewer" => a[i].payload = State(states[c])
    BY <1>4, <2>1
  <2>3. Active(c) = states[c]
    BY <2>2 DEF Active, Types
  <2>4. QED
    BY <2>2, <2>3 DEF Known, Agrees
<1>9. ASSUME NEW j \in 1 .. n
      PROVE  About(a, "discovery", q[j]) /\ About(a, "viewer", q[j])
  <2>1. PICK i, k : i = 2 * j - 1 /\ k = 2 * j
    OBVIOUS
  <2>2. /\ i \in 1 .. 2 * n /\ k \in 1 .. 2 * n /\ i % 2 = 1 /\ k % 2 # 1
        /\ (i + 1) \div 2 = j /\ (k + 1) \div 2 = j
    BY <1>2, <2>1, Halves
  <2>3. a[i].topic = "discovery" /\ a[i].camera = q[j]
    BY <1>4, <2>2
  <2>4. a[k].topic = "viewer" /\ a[k].camera = q[j]
    BY <1>4, <2>2
  <2>5. QED
    BY <1>7, <2>2, <2>3, <2>4 DEF About
<1>10. QED
  BY <1>1, <1>7, <1>8, <1>9

LEMMA FirstMessage ==
  ASSUME NEW r \in Seq(Messages), NEW d \in Messages, NEW s, s = <<d>> \o r
  PROVE  /\ s \in Seq(Messages) /\ s # <<>>
         /\ \A i \in 1 .. Len(s) : s[i] = d \/ \E j \in 1 .. Len(r) : s[i] = r[j]
         /\ About(s, d.topic, d.camera)
         /\ \A t, c : About(r, t, c) => About(s, t, c)
<1>1. PICK n, e : n = Len(r) /\ e = <<d>>
  OBVIOUS
<1>2. e \in Seq(Messages) /\ Len(e) = 1 /\ e[1] = d
  BY <1>1, One
<1>3. s = e \o r
  BY <1>1
<1>4. s \in Seq(Messages)
  BY <1>2, <1>3, ConcatProperties
<1>5. Len(s) = n + 1
  <2>1. Len(s) = Len(e) + Len(r)
    BY <1>2, <1>3, ConcatProperties
  <2>2. n \in Nat
    BY <1>1
  <2>3. QED
    BY <1>1, <1>2, <2>1, <2>2
<1>6. n \in Nat
  BY <1>1
<1>7. \A i \in 1 .. n + 1 : s[i] = IF i <= 1 THEN e[i] ELSE r[i - 1]
  <2>1. \A i \in 1 .. Len(e) + Len(r) : s[i] = IF i <= Len(e) THEN e[i] ELSE r[i - Len(e)]
    BY <1>2, <1>3, ConcatProperties
  <2>2. Len(e) + Len(r) = n + 1
    BY <1>1, <1>2, <1>6
  <2>3. QED
    BY <1>2, <2>1, <2>2
<1>8. /\ 1 \in 1 .. n + 1
      /\ \A i \in 1 .. n : i + 1 \in 1 .. n + 1 /\ ~(i + 1 <= 1) /\ i + 1 - 1 = i
      /\ \A i \in 1 .. n + 1 : i = 1 \/ (i - 1 \in 1 .. n /\ ~(i <= 1))
  BY <1>6
<1>9. s[1] = d /\ \A i \in 1 .. n : s[i + 1] = r[i]
  <2>1. s[1] = e[1]
    BY <1>7, <1>8
  <2>2. ASSUME NEW i \in 1 .. n PROVE s[i + 1] = r[i]
    <3>1. PICK k \in 1 .. n + 1 : k = i + 1 /\ ~(k <= 1) /\ k - 1 = i
      BY <1>8
    <3>2. s[k] = r[k - 1]
      BY <1>7, <3>1
    <3>3. QED
      BY <3>1, <3>2
  <2>3. QED
    BY <1>2, <2>1, <2>2
<1>10. \A i \in 1 .. n + 1 : s[i] = d \/ \E j \in 1 .. n : s[i] = r[j]
  BY <1>7, <1>8, <1>9
<1>11. About(s, d.topic, d.camera)
  BY <1>5, <1>8, <1>9 DEF About
<1>12. \A t, c : About(r, t, c) => About(s, t, c)
  BY <1>1, <1>5, <1>8, <1>9 DEF About
<1>13. s # <<>>
  BY <1>4, <1>5, <1>6, EmptySeq
<1>14. QED
  BY <1>1, <1>4, <1>5, <1>10, <1>11, <1>12, <1>13
\* The snapshot names everything memory holds, as memory holds it.
LEMMA SnapshotKeeps ==
  ASSUME MInv, NEW n \in DOMAIN callbacks, Snapshot(n)
  PROVE  MInv'
<1> USE DEF MInv
<1>1. PICK S : S = DOMAIN states
  OBVIOUS
<1>2. S \in SUBSET Cameras
  BY <1>1 DEF Types
<1>3. PICK q \in SetToSeqs(S) :
        callbacks' = [callbacks EXCEPT ![n] =
                        [at |-> "publish", todo |-> <<Device(available)>> \o Announcements(q)]]
  BY <1>1 DEF Snapshot
<1>4. /\ q \in Seq(Cameras) /\ \A i \in 1 .. Len(q) : q[i] \in S
      /\ \A x \in S : \E i \in 1 .. Len(q) : q[i] = x
  BY <1>2, Enumerated
<1>5. PICK a \in Seq(Messages) :
        /\ a = Announcements(q)
        /\ \A i \in 1 .. Len(a) : Known(a[i]) /\ Agrees(a[i])
        /\ \A j \in 1 .. Len(q) : About(a, "discovery", q[j]) /\ About(a, "viewer", q[j])
  BY <1>1, <1>4, Announced
<1>6. PICK d, s : d = Device(available) /\ s = <<d>> \o a
  OBVIOUS
<1>7. /\ d \in Messages /\ d.topic = "availability" /\ d.camera = ""
      /\ d.payload = Availability(available)
  BY <1>6, DeviceForm DEF Types
<1>8. s \in Seq(Messages) /\ s # <<>>
  BY <1>6, <1>7, FirstMessage
<1>9. \A i \in 1 .. Len(s) : s[i] = d \/ \E j \in 1 .. Len(a) : s[i] = a[j]
  <2>1. d \in Messages /\ a \in Seq(Messages) /\ s = <<d>> \o a
    BY <1>6, <1>7
  <2>2. QED
    BY <2>1, FirstMessage
<1>10. About(s, d.topic, d.camera)
  BY <1>6, <1>7, FirstMessage
<1>11. \A t, c : About(a, t, c) => About(s, t, c)
  BY <1>6, <1>7, FirstMessage
<1>12. AllKnown(s) /\ AllAgree(s)
  <2>1. Known(d) /\ Agrees(d)
    BY <1>7 DEF Known, Agrees
  <2>2. \A j \in 1 .. Len(a) : Known(a[j]) /\ Agrees(a[j])
    BY <1>5
  <2>3. QED
    BY <1>9, <2>1, <2>2 DEF AllKnown, AllAgree
<1>13. ASSUME NEW t, NEW c, IsItem(t, c)
       PROVE  About(s, t, c)
  <2>1. CASE t = "availability" /\ c = ""
    BY <1>7, <1>10, <2>1
  <2>2. CASE t \in {"viewer", "discovery"} /\ c \in S
    <3>1. PICK i \in 1 .. Len(q) : q[i] = c
      BY <1>4, <2>2
    <3>2. About(a, t, c)
      BY <1>5, <2>2, <3>1
    <3>3. QED
      BY <1>11, <3>2
  <2>3. QED
    BY <1>1, <1>13, <2>1, <2>2 DEF IsItem
<1>14. callbacks' = [callbacks EXCEPT ![n] = [at |-> "publish", todo |-> s]]
  BY <1>3, <1>5, <1>6
<1>15. /\ callbacks[n].at = "snapshot" /\ raced' = (raced /\ UnderWay)
       /\ UNCHANGED <<memory, calls, delivered, clearing, link, held, broker, left>>
  BY DEF Snapshot
<1>16. /\ \A c : Active(c)' = Active(c) /\ DOMAIN states' = DOMAIN states
       /\ \A x : AllKnown(x)' = AllKnown(x) /\ AllAgree(x)' = AllAgree(x)
       /\ \A t, c : IsItem(t, c)' = IsItem(t, c)
       /\ Shut'
  BY <1>15, MemoryStays
<1>17. /\ DOMAIN callbacks' = DOMAIN callbacks
       /\ callbacks'[n].at = "publish" /\ callbacks'[n].todo = s
       /\ \A i \in DOMAIN callbacks : i # n => callbacks'[i] = callbacks[i]
  BY <1>14
<1>18. Types'
  <2>1. [at |-> "publish", todo |-> s] \in
          [at : {"subscribe", "snapshot", "publish"}, todo : Seq(Messages)]
    BY <1>8
  <2>2. callbacks' \in [DOMAIN callbacks' ->
                          [at : {"subscribe", "snapshot", "publish"}, todo : Seq(Messages)]]
    BY <1>14, <2>1 DEF Types
  <2>3. \A i \in DOMAIN callbacks' : callbacks'[i].at = "publish" => callbacks'[i].todo # <<>>
    BY <1>8, <1>17 DEF Types
  <2>4. raced' \in BOOLEAN
    BY <1>15 DEF Types
  <2>5. QED
    BY <1>15, <2>2, <2>3, <2>4 DEF Types, memory, broker
<1>19. ASSUME ~raced'
       PROVE  /\ AllAgree(held) /\ \A c \in clearing : ~Active(c)
              /\ \A i \in DOMAIN callbacks : Publishing(i) => AllAgree(callbacks[i].todo)
  <2>1. CASE ~raced
    BY <2>1 DEF InFlight
  <2>2. CASE ~UnderWay
    BY <2>2 DEF UnderWay, AllAgree, Publishing
  <2>3. QED
    BY <1>15, <1>19, <2>1, <2>2
<1>20. InFlight'
  <2>1. \A i : Publishing(i)' =>
          \/ i = n /\ callbacks'[i].todo = s
          \/ Publishing(i) /\ callbacks'[i].todo = callbacks[i].todo
    BY <1>17 DEF Publishing
  <2>2. \A i \in DOMAIN callbacks' : Publishing(i)' => AllKnown(callbacks'[i].todo)
    BY <1>12, <1>17, <2>1 DEF InFlight
  <2>3. ~raced' => \A i \in DOMAIN callbacks' : Publishing(i)' => AllAgree(callbacks'[i].todo)
    BY <1>12, <1>17, <1>19, <2>1
  <2>4. QED
    BY <1>15, <1>16, <1>19, <2>2, <2>3 DEF InFlight
<1>21. Repair'
  <2>1. SUFFICES ASSUME NEW t, NEW c, IsItem(t, c)
                 PROVE  Coming(t, c)'
    BY <1>16 DEF Repair
  <2>2. Publishing(n)' /\ About(callbacks'[n].todo, t, c)
    BY <1>13, <1>17, <2>1 DEF Publishing
  <2>3. QED
    BY <1>17, <2>2 DEF Coming
<1>22. Strays'
  BY <1>15, <1>16, <1>17 DEF Strays, Found, broker
<1>23. QED
  BY <1>16, <1>18, <1>20, <1>21, <1>22

-------------------------------------------------------------------------------
LEMMA NextMInv ==
  ASSUME MInv, [Next]_vars
  PROVE  MInv'
<1>1. ASSUME NEW c \in Cameras, NEW active \in BOOLEAN, Set(c, active) PROVE MInv'
  BY <1>1, SetKeeps
<1>2. CASE SetAvailable
  BY <1>2, SetAvailableKeeps
<1>3. CASE Close
  BY <1>3, CloseKeeps
<1>4. CASE PublishCall
  BY <1>4, CallKeeps
<1>5. CASE Disconnect \/ Lose
  BY <1>5, OfflineKeeps
<1>6. CASE Connect
  BY <1>6, ConnectKeeps
<1>7. CASE Resend
  BY <1>7, ResendKeeps
<1>8. ASSUME NEW n \in DOMAIN callbacks, Subscribe(n) PROVE MInv'
  BY <1>8, SubscribeKeeps
<1>9. ASSUME NEW n \in DOMAIN callbacks, Snapshot(n) PROVE MInv'
  BY <1>9, SnapshotKeeps
<1>10. ASSUME NEW n \in DOMAIN callbacks, PublishSnapshot(n) PROVE MInv'
  BY <1>10, CallbackKeeps
<1>11. ASSUME NEW c \in Cameras, Look(c) PROVE MInv'
  BY <1>11, LookKeeps
<1>12. ASSUME NEW c \in Cameras, Clear(c) PROVE MInv'
  BY <1>12, ClearKeeps
<1>13. CASE Rest \/ UNCHANGED vars
  BY <1>13, RestKeeps DEF Rest
<1>14. QED
  BY <1>1, <1>2, <1>3, <1>4, <1>5, <1>6, <1>7, <1>8, <1>9, <1>10, <1>11, <1>12, <1>13
     DEF Next

\* What is under way is known, agrees with memory unless there was a race, and is
\* enough to put the broker right: of the publisher with its callbacks, its clean-up
\* and paho's queue (internal/mqttpub/publisher.go).
THEOREM MqttInvariance == Spec => []MInv
<1>1. Init => MInv
  BY InitMInv
<1>2. MInv /\ [Next]_vars => MInv'
  BY NextMInv
<1>3. QED
  BY <1>1, <1>2, PTL DEF Spec

\* When everything has arrived the broker retains what the process holds, unless a
\* value changed while an older one was under way: Set, OnConnect's snapshot and the
\* clean-up of retained states together, for any cameras, changes and lost connections.
THEOREM MqttInStepAtRest == Spec => []InStepAtRest
<1>1. ASSUME MInv PROVE InStepAtRest
  <2>1. SUFFICES ASSUME Settled, ~raced PROVE InStep
    BY DEF InStepAtRest
  <2>2. \A t, c : ~Coming(t, c)
    BY <2>1 DEF Settled, Coming, About, Before, Publishing
  <2>3. \A t, c : IsItem(t, c) => Right(t, c)
    BY <1>1, <2>1, <2>2 DEF MInv, Repair
  <2>4. device = Availability(available)
    BY <2>3 DEF IsItem, Right
  <2>5. \A c \in DOMAIN states : viewer[c] = State(Active(c)) /\ c \in discovered
    BY <2>3 DEF IsItem, Right
  <2>6. \A c \in Cameras \ DOMAIN states : viewer[c] = State(Active(c))
    BY <1>1, <2>1 DEF MInv, Strays, Found, Settled, Active, State
  <2>7. QED
    BY <2>4, <2>5, <2>6 DEF InStep
<1>2. QED
  BY <1>1, MqttInvariance, PTL

\* Close, with main's call of it once Run has returned, leaves every camera OFF and the
\* device offline when Disconnect is reached on a connection that stood, with nothing
\* older under way.
THEOREM MqttClosedOff == Spec => ClosedOff
<1>1. ASSUME MInv, [Next]_vars
      PROVE  [/\ link = "connected" /\ link' = "closed"
              /\ ~raced /\ ~UnderWay /\ DOMAIN callbacks = {}
              => device = "offline" /\ \A c \in DOMAIN states : viewer[c] = "OFF"]_vars
  <2>1. SUFFICES ASSUME Next, link = "connected", link' = "closed",
                        ~raced, ~UnderWay, DOMAIN callbacks = {}
                 PROVE  device = "offline" /\ \A c \in DOMAIN states : viewer[c] = "OFF"
    BY <1>1
  <2>2. Disconnect
    BY <2>1 DEF Next, Set, SetAvailable, Close, PublishCall, Connect, Lose, Resend,
                Look, Clear, Rest
  <2>3. closing /\ calls = <<>> /\ held = <<>>
    BY <2>1, <2>2 DEF Disconnect, UnderWay
  <2>4. \A t, c : ~Coming(t, c)
    BY <2>1, <2>3 DEF Coming, About, Before, Publishing
  <2>5. \A t, c : IsItem(t, c) => Right(t, c)
    BY <1>1, <2>1, <2>4 DEF MInv, Repair
  <2>6. ~available /\ \A c \in DOMAIN states : ~Active(c)
    BY <1>1, <2>3 DEF MInv, Shut, Active
  <2>7. device = Availability(available)
    BY <2>5 DEF IsItem, Right
  <2>8. \A c \in DOMAIN states : viewer[c] = State(Active(c))
    BY <2>5 DEF IsItem, Right
  <2>9. QED
    BY <2>6, <2>7, <2>8 DEF State, Availability
<1>2. QED
  BY <1>1, MqttInvariance, PTL DEF Spec, ClosedOff
===============================================================================
