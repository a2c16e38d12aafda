---------------------------- MODULE LifecycleProofs ----------------------------
(***************************************************************************)
(* What the notifier promises, for every number of actions, every capacity *)
(* of the queue and any number of failed calls and lost answers; and what  *)
(* is left of it when main stops the daemon.                               *)
(***************************************************************************)
EXTENDS Lifecycle, FiniteSetTheorems, TLAPS

\* What is queued was accepted, and a publish has something to say.
Accepted == Queued \subseteq offered \ dropped
Busy == Publishing => dirty

\* The message of the window shows nothing that is not of the window, so that
\* an edit takes nothing away.
Own == messageID # 0 => chat[messageID] \subseteq session

\* An action of the window whose publish is over and that does not show has
\* cost a failed call; the window's end will be the second one.
Awaited ==
  ctx = "live" /\ at \in {"select", "close"} =>
    \A e \in session : Showing(e) # {} \/ FailedCalls >= 1
Late == at \in {"flush", "done"} => ctx = "cancelled"
Spent == left["fail"] <= Budget["fail"]

NInv ==
  /\ TypeOK /\ Accepted /\ Busy /\ DirtyOrShown /\ Own
  /\ Awaited /\ Late /\ Spent /\ NoneForgotten

-------------------------------------------------------------------------------
\* Nothing has happened yet (New and the start of Run).
LEMMA InitNInv == Init => NInv
<1> SUFFICES ASSUME Init PROVE NInv
  OBVIOUS
<1>1. /\ Len(<<>>) = 0 /\ DOMAIN <<>> = {}
      /\ <<>> \in Seq(Actions) /\ <<>> \in Seq(SUBSET Actions)
  OBVIOUS
<1>2. TypeOK
  <2>1. Len(events) <= Capacity /\ messageID \in 0 .. Len(chat)
    BY <1>1, CapacityAssumption DEF Init
  <2>2. events \in Seq(Actions) /\ chat \in Seq(SUBSET Actions)
    BY <1>1 DEF Init
  <2>3. left \in [{"fail", "lost"} -> Nat]
    BY BudgetAssumption DEF Init
  <2>4. QED
    BY <2>1, <2>2, <2>3 DEF Init, TypeOK
<1>3. Spent
  BY BudgetAssumption DEF Init, Spent
<1>4. QED
  BY <1>1, <1>2, <1>3 DEF Init, NInv, Accepted, Busy, DirtyOrShown, Own, Awaited, Late,
       NoneForgotten, Queued, Showing, Publishing

\* The queue as a set.
LEMMA QueuedAppend ==
  ASSUME events \in Seq(Actions), NEW e \in Actions, events' = Append(events, e)
  PROVE  Queued' = Queued \cup {e} /\ events' \in Seq(Actions) /\ Len(events') = Len(events) + 1
<1>1. DOMAIN events' = 1 .. (Len(events) + 1) /\ DOMAIN events = 1 .. Len(events)
  OBVIOUS
<1>2. \A i \in DOMAIN events' :
        events'[i] = IF i = Len(events) + 1 THEN e ELSE events[i]
  OBVIOUS
<1>3. Len(events) \in Nat
  OBVIOUS
<1>4. QED
  BY <1>1, <1>2, <1>3 DEF Queued

LEMMA QueuedTail ==
  ASSUME events \in Seq(Actions), events # <<>>, events' = Tail(events)
  PROVE  /\ Queued = Queued' \cup {Head(events)} /\ Head(events) \in Actions
         /\ events' \in Seq(Actions) /\ Len(events') <= Len(events)
<1>1. /\ DOMAIN events = 1 .. Len(events) /\ Len(events) \in Nat \ {0}
      /\ events' \in Seq(Actions) /\ Len(events') = Len(events) - 1
      /\ DOMAIN events' = 1 .. (Len(events) - 1)
      /\ Head(events) = events[1]
  OBVIOUS
<1>2. \A i \in DOMAIN events' : events'[i] = events[i + 1]
  OBVIOUS
<1>3. \A i \in DOMAIN events : i = 1 \/ (i - 1 \in DOMAIN events' /\ events[i] = events'[i - 1])
  BY <1>1, <1>2
<1>4. QED
  BY <1>1, <1>2, <1>3 DEF Queued

\* sendMessage and editMessageText: afterwards the whole window shows, and
\* nothing that did has been taken away.
LEMMA Showed ==
  ASSUME TypeOK, Own, chat' = Shown
  PROVE  /\ chat' \in Seq(SUBSET Actions) /\ Len(chat') >= Len(chat)
         /\ messageID = 0 => Len(chat') = Len(chat) + 1 /\ chat'[Len(chat')] = session
         /\ messageID # 0 => messageID \in 1 .. Len(chat') /\ chat'[messageID] = session
         /\ \A e \in session : Showing(e)' # {}
         /\ \A e : Showing(e) # {} => Showing(e)' # {}
<1>1. session \in SUBSET Actions /\ chat \in Seq(SUBSET Actions) /\ Len(chat) \in Nat
  BY DEF TypeOK
<1>2. CASE messageID = 0
  <2>1. chat' = Append(chat, session)
    BY <1>2 DEF Shown
  <2>2. /\ chat' \in Seq(SUBSET Actions) /\ Len(chat') = Len(chat) + 1
        /\ chat'[Len(chat')] = session /\ \A m \in DOMAIN chat : m \in DOMAIN chat' /\ chat'[m] = chat[m]
    BY <1>1, <2>1
  <2>3. Len(chat') \in DOMAIN chat'
    BY <1>1, <2>1
  <2>4. QED
    BY <1>1, <1>2, <2>2, <2>3 DEF Showing
<1>3. CASE messageID # 0
  <2>1. messageID \in DOMAIN chat
    BY <1>1, <1>3 DEF TypeOK
  <2>2. chat' = [chat EXCEPT ![messageID] = session]
    BY <1>3 DEF Shown
  <2>3. /\ chat' \in Seq(SUBSET Actions) /\ Len(chat') = Len(chat) /\ DOMAIN chat' = DOMAIN chat
        /\ chat'[messageID] = session
        /\ \A m \in DOMAIN chat : m # messageID => chat'[m] = chat[m]
    BY <1>1, <2>1, <2>2
  <2>4. messageID \in 1 .. Len(chat')
    BY <1>1, <2>1, <2>3
  <2>5. \A e \in session : Showing(e)' # {}
    BY <2>1, <2>3 DEF Showing
  <2>6. \A e : Showing(e) # {} => Showing(e)' # {}
    <3>1. TAKE e
    <3>2. SUFFICES ASSUME NEW m \in DOMAIN chat, e \in chat[m]
                   PROVE  Showing(e)' # {}
      BY DEF Showing
    <3>3. CASE m = messageID
      BY <1>3, <3>2, <3>3, <2>5 DEF Own
    <3>4. CASE m # messageID
      BY <2>3, <3>2, <3>4 DEF Showing
    <3>5. QED
      BY <3>3, <3>4
  <2>7. Len(chat') >= Len(chat)
    BY <1>1, <2>3
  <2>8. QED
    BY <1>3, <2>3, <2>4, <2>5, <2>6, <2>7
<1>4. QED
  BY <1>2, <1>3

-------------------------------------------------------------------------------
\* What is not accepted is not heard of again.
LEMMA AddInv ==
  ASSUME NInv, NEW e \in Actions, Add(e)
  PROVE  NInv'
<1>1. UNCHANGED <<run, ctx, chat, left, windows, tried>> /\ offered' = offered \cup {e} /\ e \notin offered
  BY DEF Add
<1>2. CASE Len(events) < Capacity
  <2>1. events' = Append(events, e) /\ dropped' = dropped
    BY <1>2 DEF Add
  <2>2. Queued' = Queued \cup {e} /\ events' \in Seq(Actions) /\ Len(events') = Len(events) + 1
    BY <2>1, QueuedAppend DEF NInv, TypeOK
  <2>3. Len(events') <= Capacity
    BY <1>2, <2>2, CapacityAssumption DEF NInv, TypeOK
  <2>4. TypeOK'
    BY <1>1, <2>1, <2>2, <2>3 DEF NInv, TypeOK, run, windows
  <2>5. Accepted' /\ NoneForgotten'
    BY <1>1, <2>1, <2>2 DEF NInv, TypeOK, Accepted, NoneForgotten, Showing, FailedCalls, run, windows
  <2>6. QED
    BY <1>1, <2>4, <2>5 DEF NInv, Busy, Publishing, DirtyOrShown, Own, Awaited, Late, Spent,
         Showing, FailedCalls, run
<1>3. CASE ~(Len(events) < Capacity)
  <2>1. events' = events /\ dropped' = dropped \cup {e}
    BY <1>3 DEF Add
  <2>2. TypeOK'
    BY <1>1, <2>1 DEF NInv, TypeOK, run, windows
  <2>3. Accepted' /\ NoneForgotten'
    BY <1>1, <2>1 DEF NInv, TypeOK, Accepted, NoneForgotten, Queued, Showing, FailedCalls, run, windows
  <2>4. QED
    BY <1>1, <2>2, <2>3 DEF NInv, Busy, Publishing, DirtyOrShown, Own, Awaited, Late, Spent,
         Showing, FailedCalls, run
<1>4. QED
  BY <1>2, <1>3

\* The action taken from the queue is in the window, and `dirty' says so.
LEMMA TakeInv ==
  ASSUME NInv, Take
  PROVE  NInv'
<1>1. /\ at = "select" /\ at' = "update" /\ dirty' = TRUE /\ began' = ctx
      /\ session' = session \cup {Head(events)}
      /\ timer' = IF timer = "off" THEN "on" ELSE timer
      /\ UNCHANGED <<messageID, ctx, chat, left, history>>
  BY DEF Take
<1>2. /\ Queued = Queued' \cup {Head(events)} /\ Head(events) \in Actions
      /\ events' \in Seq(Actions) /\ Len(events') <= Len(events)
  BY QueuedTail DEF Take, NInv, TypeOK
<1>3. Len(events') <= Capacity
  BY <1>2, CapacityAssumption DEF NInv, TypeOK
<1>4. TypeOK'
  BY <1>1, <1>2, <1>3 DEF NInv, TypeOK, Accepted, history
<1>5. Accepted' /\ NoneForgotten'
  BY <1>1, <1>2 DEF NInv, Accepted, NoneForgotten, Showing, FailedCalls, history
<1>6. QED
  BY <1>1, <1>4, <1>5 DEF NInv, Busy, Publishing, DirtyOrShown, Own, Awaited, Late, Spent

\* A window that closes without another attempt shows all it has.
LEMMA ClosesInv ==
  ASSUME NInv, WindowCloses
  PROVE  NInv'
<1>1. /\ at = "select" /\ began' = ctx
      /\ UNCHANGED <<events, ctx, chat, left, offered, dropped, tried>>
  BY DEF WindowCloses
<1>2. CASE dirty
  <2>1. at' = "close" /\ UNCHANGED <<session, messageID, dirty, timer, closed, givenUp>>
    BY <1>2 DEF WindowCloses, windows
  <2>2. QED
    BY <1>1, <1>2, <2>1 DEF NInv, TypeOK, Accepted, Busy, Publishing, DirtyOrShown, Own, Awaited,
         Late, Spent, NoneForgotten, Queued, Showing, FailedCalls
<1>3. CASE ~dirty
  <2>1. at' = at /\ session' = {} /\ messageID' = 0 /\ dirty' = FALSE /\ timer' = "off"
    BY <1>3 DEF WindowCloses, NewWindow
  <2>2. /\ closed \subseteq closed' /\ givenUp \subseteq givenUp'
        /\ closed' \subseteq closed \cup session /\ givenUp' \subseteq givenUp \cup session
    BY <1>3 DEF WindowCloses, Forget
  <2>3. \A e \in session : Showing(e) # {}
    <3>1. SUFFICES ASSUME session # {} PROVE messageID \in DOMAIN chat /\ chat[messageID] = session
      BY DEF Showing
    <3>2. chat \in Seq(SUBSET Actions) /\ messageID \in 0 .. Len(chat)
      BY DEF NInv, TypeOK
    <3>3. QED
      BY <1>1, <1>3, <3>1, <3>2 DEF NInv, DirtyOrShown
  <2>4. TypeOK'
    <3>1. messageID' \in 0 .. Len(chat')
      BY <1>1, <2>1 DEF NInv, TypeOK
    <3>2. QED
      BY <1>1, <2>1, <2>2, <3>1 DEF NInv, TypeOK
  <2>5. NoneForgotten'
    BY <1>1, <2>2, <2>3 DEF NInv, NoneForgotten, Queued, Showing, FailedCalls
  <2>6. QED
    BY <1>1, <2>1, <2>4, <2>5 DEF NInv, Accepted, Busy, Publishing, DirtyOrShown, Own, Awaited,
         Late, Spent, Queued
<1>4. QED
  BY <1>2, <1>3

\* The queue is drained into the window.
LEMMA DrainInv ==
  ASSUME NInv, Drain
  PROVE  NInv'
<1>1. /\ at = "select" /\ ctx = "cancelled" /\ began' = "live" /\ timer' = "off"
      /\ session' = session \cup Queued /\ events' = <<>>
      /\ dirty' = (dirty \/ events # <<>>)
      /\ at' = IF dirty' THEN "flush" ELSE "done"
      /\ UNCHANGED <<messageID, ctx, chat, left, history>>
  BY DEF Drain, Queued
<1>2. events' \in Seq(Actions) /\ Len(events') = 0 /\ Queued' = {}
  BY <1>1 DEF Queued
<1>3. Len(events') <= Capacity
  BY <1>2, CapacityAssumption
<1>4. TypeOK'
  BY <1>1, <1>2, <1>3 DEF NInv, TypeOK, Accepted, history
<1>5. Accepted' /\ NoneForgotten'
  BY <1>1, <1>2 DEF NInv, Accepted, NoneForgotten, Showing, FailedCalls, history
<1>6. QED
  BY <1>1, <1>4, <1>5 DEF NInv, Busy, Publishing, DirtyOrShown, Own, Awaited, Late, Spent

\* Timer and shutdown touch nothing of the window.
LEMMA SignalInv ==
  ASSUME NInv, TimerFires \/ Shutdown
  PROVE  NInv'
<1>1. UNCHANGED <<events, session, messageID, dirty, at, began, chat, left, history>>
  BY DEF TimerFires, Shutdown, run
<1>2. ctx' \in {ctx, "cancelled"} /\ timer' \in {timer, "fired"}
  BY DEF TimerFires, Shutdown, run
<1>3. QED
  BY <1>1, <1>2 DEF NInv, TypeOK, Accepted, Busy, Publishing, DirtyOrShown, Own, Awaited, Late,
       Spent, NoneForgotten, Queued, Showing, FailedCalls, history

\* Where a publish leads, and what becomes of the window.
LEMMA Afterwards ==
  ASSUME NInv, Publishing, After
  PROVE  /\ at' = IF at = "flush" THEN "done" ELSE "select"
         /\ IF at = "close"
            THEN /\ session' = {} /\ timer' = "off"
                 /\ IF ctx = "live" THEN closed' = closed \cup session /\ givenUp' = givenUp
                    ELSE givenUp' = givenUp \cup session /\ closed' = closed
            ELSE UNCHANGED <<session, timer, closed, givenUp>>
BY DEF After, Publishing, Forget, windows

\* The chat shows the whole window and nothing is due any more.
LEMMA SucceedInv ==
  ASSUME NInv, Succeed
  PROVE  NInv'
<1>1. /\ Publishing /\ chat' = Shown /\ dirty' = FALSE /\ tried' = tried \cup session
      /\ messageID' = IF at = "close" THEN 0 ELSE IF messageID = 0 THEN Len(chat') ELSE messageID
      /\ After
      /\ UNCHANGED <<events, ctx, began, left, offered, dropped>>
  BY DEF Succeed
<1>2. /\ chat' \in Seq(SUBSET Actions) /\ Len(chat') >= Len(chat)
      /\ messageID = 0 => Len(chat') = Len(chat) + 1 /\ chat'[Len(chat')] = session
      /\ messageID # 0 => messageID \in 1 .. Len(chat') /\ chat'[messageID] = session
      /\ \A e \in session : Showing(e)' # {}
      /\ \A e : Showing(e) # {} => Showing(e)' # {}
  BY <1>1, Showed DEF NInv
<1>3. /\ at' = IF at = "flush" THEN "done" ELSE "select"
      /\ IF at = "close"
         THEN /\ session' = {} /\ timer' = "off"
              /\ IF ctx = "live" THEN closed' = closed \cup session /\ givenUp' = givenUp
                 ELSE givenUp' = givenUp \cup session /\ closed' = closed
         ELSE UNCHANGED <<session, timer, closed, givenUp>>
  BY <1>1, Afterwards
<1>4. TypeOK'
  <2>1. Len(chat) \in Nat /\ Len(chat') \in Nat /\ messageID \in 0 .. Len(chat)
    BY <1>2 DEF NInv, TypeOK
  <2>2. messageID' \in 0 .. Len(chat')
    BY <1>1, <1>2, <2>1
  <2>3. QED
    BY <1>1, <1>2, <1>3, <2>2 DEF NInv, TypeOK, Publishing
<1>5. NoneForgotten'
  BY <1>1, <1>2, <1>3 DEF NInv, NoneForgotten, Queued, FailedCalls
<1>6. at # "close" => messageID' # 0 /\ chat'[messageID'] = session'
  <2>1. Len(chat) \in Nat
    BY DEF NInv, TypeOK
  <2>2. QED
    BY <1>1, <1>2, <1>3, <2>1
<1>7. Own' /\ DirtyOrShown'
  BY <1>1, <1>3, <1>6 DEF Own, DirtyOrShown
<1>8. Awaited'
  BY <1>1, <1>2, <1>3 DEF Awaited
<1>9. QED
  BY <1>1, <1>3, <1>4, <1>5, <1>7, <1>8 DEF NInv, Accepted, Queued, Busy, Publishing, Late, Spent

\* The window keeps what it lacks; if it closes all the same, it is the second
\* call that failed.
LEMMA FailedInv ==
  ASSUME NInv, Publishing, Failed,
         left' \in [{"fail", "lost"} -> Nat], left'["fail"] <= left["fail"],
         tried' \subseteq tried \cup session,
         \/ chat' = Shown
         \/ chat' = chat /\ (BrokenOff \/ left'["fail"] + 1 = left["fail"])
  PROVE  NInv'
<1>1. /\ messageID' = (IF at = "close" THEN 0 ELSE messageID)
      /\ dirty' = (IF at = "close" THEN FALSE ELSE dirty)
      /\ After
      /\ UNCHANGED <<events, ctx, began, offered, dropped>>
  BY DEF Failed
<1>2. /\ chat' \in Seq(SUBSET Actions) /\ Len(chat') >= Len(chat)
      /\ chat' = Shown => \A e \in session : Showing(e)' # {}
      /\ \A e : Showing(e) # {} => Showing(e)' # {}
      /\ messageID # 0 => chat'[messageID] \subseteq session
  <2>1. CASE chat' = chat
    <3>1. chat' \in Seq(SUBSET Actions) /\ Len(chat') >= Len(chat)
      BY <2>1 DEF NInv, TypeOK
    <3>2. chat' = Shown => \A e \in session : Showing(e)' # {}
      BY Showed DEF NInv
    <3>3. QED
      BY <2>1, <3>1, <3>2 DEF NInv, Own, Showing
  <2>2. CASE chat' = Shown
    BY <2>2, Showed DEF NInv
  <2>3. QED
    BY <2>1, <2>2
<1>3. /\ at' = IF at = "flush" THEN "done" ELSE "select"
      /\ IF at = "close"
         THEN /\ session' = {} /\ timer' = "off"
              /\ IF ctx = "live" THEN closed' = closed \cup session /\ givenUp' = givenUp
                 ELSE givenUp' = givenUp \cup session /\ closed' = closed
         ELSE UNCHANGED <<session, timer, closed, givenUp>>
  BY <1>1, Afterwards
<1>4. /\ left["fail"] \in Nat /\ left'["fail"] \in Nat /\ Budget["fail"] \in Nat
      /\ left["fail"] <= Budget["fail"]
  BY BudgetAssumption DEF NInv, TypeOK, Spent
<1>5. TypeOK'
  <2>1. messageID' \in 0 .. Len(chat')
    BY <1>1, <1>2 DEF NInv, TypeOK
  <2>2. QED
    BY <1>1, <1>2, <1>3, <2>1 DEF NInv, TypeOK, Publishing
<1>6. \A e \in session : \/ Showing(e)' # {} \/ ctx = "cancelled"
                         \/ FailedCalls' >= 1 /\ FailedCalls' = FailedCalls + 1
  BY <1>2, <1>4 DEF FailedCalls, BrokenOff
<1>7. FailedCalls \in Nat /\ FailedCalls' \in Nat /\ FailedCalls' >= FailedCalls
  BY <1>4, BudgetAssumption DEF FailedCalls
<1>8. NoneForgotten'
  <2>1. SUFFICES ASSUME NEW e \in offered \ dropped,
                        e \notin (Queued \cup session \cup givenUp)', Showing(e)' = {}
                 PROVE  e \in closed' /\ FailedCalls' >= 2
    BY <1>1 DEF NoneForgotten
  <2>2. CASE e \in session
    <3>1. at = "close" /\ ctx = "live" /\ e \in closed'
      BY <1>3, <2>1, <2>2 DEF NInv, TypeOK
    <3>2. FailedCalls >= 1
      BY <1>2, <2>1, <2>2, <3>1 DEF NInv, Awaited
    <3>3. QED
      BY <1>6, <1>7, <2>1, <2>2, <3>1, <3>2
  <2>3. CASE e \notin session
    <3>1. e \in closed /\ FailedCalls >= 2
      BY <1>1, <1>2, <1>3, <2>1, <2>3 DEF NInv, NoneForgotten, Queued
    <3>2. QED
      BY <1>3, <1>7, <3>1
  <2>4. QED
    BY <2>2, <2>3
<1>9. Awaited'
  BY <1>1, <1>3, <1>6, <1>7 DEF Awaited
<1>10. Own' /\ DirtyOrShown'
  BY <1>1, <1>2, <1>3 DEF NInv, Own, Busy, DirtyOrShown, Publishing
<1>11. Busy' /\ Late' /\ Spent' /\ Accepted'
  BY <1>1, <1>3, <1>4 DEF NInv, Busy, Publishing, Late, Spent, Accepted, Queued
<1>12. QED
  BY <1>5, <1>8, <1>9, <1>10, <1>11 DEF NInv

LEMMA FailInv ==
  ASSUME NInv, Fail
  PROVE  NInv'
<1>1. Publishing /\ Failed /\ chat' = chat
  BY DEF Fail
<1>2. CASE BrokenOff
  BY <1>1, <1>2, FailedInv DEF Fail, BrokenOff, NInv, TypeOK
<1>3. CASE ~BrokenOff
  <2>1. /\ left["fail"] > 0 /\ left' = [left EXCEPT !["fail"] = @ - 1]
        /\ tried' = tried \cup session
    BY <1>3 DEF Fail
  <2>2. left' \in [{"fail", "lost"} -> Nat] /\ left'["fail"] + 1 = left["fail"]
    BY <2>1 DEF NInv, TypeOK
  <2>3. left'["fail"] <= left["fail"]
    BY <2>2 DEF NInv, TypeOK
  <2>4. QED
    BY <1>1, <2>1, <2>2, <2>3, FailedInv
<1>4. QED
  BY <1>2, <1>3

LEMMA LoseInv ==
  ASSUME NInv, LoseAnswer
  PROVE  NInv'
<1>1. /\ Publishing /\ Failed /\ chat' = Shown /\ left["lost"] > 0
      /\ left' = [left EXCEPT !["lost"] = @ - 1] /\ tried' = tried \cup session
  BY DEF LoseAnswer
<1>2. left' \in [{"fail", "lost"} -> Nat] /\ left'["fail"] = left["fail"]
  BY <1>1 DEF NInv, TypeOK
<1>3. left'["fail"] <= left["fail"]
  BY <1>2 DEF NInv, TypeOK
<1>4. QED
  BY <1>1, <1>2, <1>3, FailedInv

-------------------------------------------------------------------------------
\* Every state of the notifier, whoever queues actions and whenever it is
\* stopped, satisfies the invariant.
THEOREM NotifierInvariance == Spec => []NInv
<1>1. NInv /\ [Next]_vars => NInv'
  <2>1. SUFFICES ASSUME NInv, [Next]_vars PROVE NInv'
    OBVIOUS
  <2>2. CASE \E e \in Actions : Add(e)
    BY <2>1, <2>2, AddInv
  <2>3. CASE Take
    BY <2>1, <2>3, TakeInv
  <2>4. CASE TimerFires \/ Shutdown
    BY <2>1, <2>4, SignalInv
  <2>5. CASE WindowCloses
    BY <2>1, <2>5, ClosesInv
  <2>6. CASE Drain
    BY <2>1, <2>6, DrainInv
  <2>7. CASE Succeed
    BY <2>1, <2>7, SucceedInv
  <2>8. CASE Fail
    BY <2>1, <2>8, FailInv
  <2>9. CASE LoseAnswer
    BY <2>1, <2>9, LoseInv
  <2>10. CASE Rest \/ UNCHANGED vars
    BY <2>1, <2>10 DEF Rest, vars, NInv, TypeOK, Accepted, Busy, Publishing, DirtyOrShown, Own,
       Awaited, Late, Spent, NoneForgotten, Queued, Showing, FailedCalls
  <2>11. QED
    BY <2>1, <2>2, <2>3, <2>4, <2>5, <2>6, <2>7, <2>8, <2>9, <2>10 DEF Next
<1>2. QED
  BY InitNInv, <1>1, PTL DEF Spec

\* The daemon drives the notifier as Spec allows: main and the handlers only
\* add actions and cancel the context (cmd/camera-audit/main.go:58-105).
THEOREM LifeImplements == LifeSpec => Spec
<1>1. LifeInit => Init
  BY DEF LifeInit
<1>2. [LifeNext]_lifeVars => [Next]_vars
  BY DEF LifeNext, lifeVars, Arrive, Record, Return, Interrupt, ManagerReturns, BeginShutdown,
     ShutdownReturns, StopNotifier, Exit, Notify, Gone, Next
<1>3. QED
  BY <1>1, <1>2, PTL DEF LifeSpec, Spec

-------------------------------------------------------------------------------
\* Where an action is: the queue holds it once, and it leaves the queue for the
\* window; while no answer was lost, what still waits shows nowhere, the window
\* shows only in its own message, and no two messages show the same action.
Separate ==
  /\ Queued \cap session = {}
  /\ \A i, j \in DOMAIN events : events[i] = events[j] => i = j
NoneLost == left["lost"] = Budget["lost"]
Apart ==
  /\ \A m \in DOMAIN chat : chat[m] \subseteq offered /\ chat[m] \cap Queued = {}
  /\ \A m \in DOMAIN chat : m # messageID => chat[m] \cap session = {}
  /\ \A m, n \in DOMAIN chat : m # n => chat[m] \cap chat[n] = {}

OInv == Separate /\ left["lost"] <= Budget["lost"] /\ (NoneLost => Apart)

LEMMA InitOInv == Init => OInv
<1> SUFFICES ASSUME Init PROVE OInv
  OBVIOUS
<1>1. DOMAIN events = {} /\ DOMAIN chat = {} /\ session = {}
  BY DEF Init
<1>2. left["lost"] <= Budget["lost"]
  BY BudgetAssumption DEF Init
<1>3. QED
  BY <1>1, <1>2 DEF OInv, Separate, Apart

\* sendMessage and editMessageText put the window in its own message.
LEMMA ShowedApart ==
  ASSUME NInv, Apart, chat' = Shown, UNCHANGED <<events, offered>>
  PROVE  /\ \A m \in DOMAIN chat' : chat'[m] = session \/ (chat'[m] \subseteq offered' /\ chat'[m] \cap Queued' = {})
         /\ \A m \in DOMAIN chat' :
              m # (IF messageID = 0 THEN Len(chat') ELSE messageID) => chat'[m] \cap session = {}
         /\ \A m, n \in DOMAIN chat' : m # n => chat'[m] \cap chat'[n] = {}
<1>1. chat \in Seq(SUBSET Actions) /\ Len(chat) \in Nat /\ messageID \in 0 .. Len(chat)
      /\ session \in SUBSET Actions /\ DOMAIN chat = 1 .. Len(chat)
  BY DEF NInv, TypeOK
<1>2. Queued' = Queued
  BY DEF Queued
<1> DEFINE own == IF messageID = 0 THEN Len(chat') ELSE messageID
<1>3. /\ \A m \in DOMAIN chat' : m # own => m \in DOMAIN chat /\ m # messageID /\ chat'[m] = chat[m]
      /\ own \in DOMAIN chat' => chat'[own] = session
  <2>1. CASE messageID = 0
    <3>1. chat' = Append(chat, session)
      BY <2>1 DEF Shown
    <3>2. /\ DOMAIN chat' = 1 .. (Len(chat) + 1) /\ Len(chat') = Len(chat) + 1
          /\ chat'[Len(chat) + 1] = session
          /\ \A m \in 1 .. Len(chat) : chat'[m] = chat[m]
      BY <1>1, <3>1
    <3>3. QED
      BY <1>1, <2>1, <3>2
  <2>2. CASE messageID # 0
    <3>1. chat' = [chat EXCEPT ![messageID] = session]
      BY <2>2 DEF Shown
    <3>2. QED
      BY <1>1, <2>2, <3>1
  <2>3. QED
    BY <2>1, <2>2
<1>4. \A m \in DOMAIN chat' : m # own =>
        /\ chat'[m] \subseteq offered /\ chat'[m] \cap Queued = {}
        /\ chat'[m] \cap session = {}
  BY <1>3 DEF Apart
<1>5. \A m, n \in DOMAIN chat' : m # n => chat'[m] \cap chat'[n] = {}
  <2>1. TAKE m, n \in DOMAIN chat'
  <2>2. HAVE m # n
  <2>3. CASE m # own /\ n # own
    BY <1>3, <2>2, <2>3 DEF Apart
  <2>4. CASE m = own
    BY <1>3, <1>4, <2>2, <2>4
  <2>5. CASE n = own
    BY <1>3, <1>4, <2>2, <2>5
  <2>6. QED
    BY <2>3, <2>4, <2>5
<1>6. QED
  BY <1>2, <1>3, <1>4, <1>5

\* A new action is not yet anywhere.
LEMMA AddOInv ==
  ASSUME NInv, OInv, NEW e \in Actions, Add(e)
  PROVE  OInv'
<1>1. UNCHANGED <<session, messageID, chat, left>> /\ offered' = offered \cup {e} /\ e \notin offered
  BY DEF Add, run
<1>2. e \notin Queued /\ e \notin session
  BY <1>1 DEF NInv, TypeOK, Accepted
<1>3. CASE events' = events
  BY <1>1, <1>3 DEF OInv, Separate, NoneLost, Apart, Queued
<1>4. CASE events' = Append(events, e)
  <2>1. Queued' = Queued \cup {e}
    BY <1>4, QueuedAppend DEF NInv, TypeOK
  <2>2. \A i, j \in DOMAIN events' : events'[i] = events'[j] => i = j
    <3>1. /\ DOMAIN events' = 1 .. (Len(events) + 1) /\ DOMAIN events = 1 .. Len(events)
          /\ events'[Len(events) + 1] = e /\ Len(events) \in Nat
          /\ \A i \in DOMAIN events : events'[i] = events[i]
      BY <1>4 DEF NInv, TypeOK
    <3>2. \A i \in DOMAIN events : events[i] # e
      BY <1>2 DEF Queued
    <3>3. QED
      BY <3>1, <3>2 DEF OInv, Separate
  <2>3. Separate'
    BY <1>1, <1>2, <2>1, <2>2 DEF OInv, Separate
  <2>4. NoneLost' => Apart'
    BY <1>1, <2>1 DEF OInv, NoneLost, Apart
  <2>5. QED
    BY <1>1, <2>3, <2>4 DEF OInv
<1>5. QED
  BY <1>3, <1>4 DEF Add

\* The action leaves the queue for the window.
LEMMA TakeOInv ==
  ASSUME NInv, OInv, Take
  PROVE  OInv'
<1>1. /\ events # <<>> /\ events' = Tail(events) /\ session' = session \cup {Head(events)}
      /\ UNCHANGED <<messageID, chat, left, offered>>
  BY DEF Take, history
<1>2. Queued = Queued' \cup {Head(events)}
  BY <1>1, QueuedTail DEF NInv, TypeOK
<1>3. /\ DOMAIN events = 1 .. Len(events) /\ Len(events) \in Nat \ {0}
      /\ DOMAIN events' = 1 .. (Len(events) - 1) /\ Head(events) = events[1]
      /\ \A i \in DOMAIN events' : events'[i] = events[i + 1]
  BY <1>1 DEF NInv, TypeOK
<1>4. Head(events) \notin Queued'
  <2>1. \A i \in DOMAIN events' : events'[i] # events[1]
    BY <1>3 DEF OInv, Separate
  <2>2. QED
    BY <1>3, <2>1 DEF Queued
<1>5. Separate'
  <2>1. \A i, j \in DOMAIN events' : events'[i] = events'[j] => i = j
    <3>1. TAKE i, j \in DOMAIN events'
    <3>2. HAVE events'[i] = events'[j]
    <3>3. i + 1 \in DOMAIN events /\ j + 1 \in DOMAIN events /\ events[i + 1] = events[j + 1]
      BY <1>3, <3>2
    <3>4. i + 1 = j + 1
      BY <3>3 DEF OInv, Separate
    <3>5. QED
      BY <1>3, <3>4
  <2>2. QED
    BY <1>1, <1>2, <1>4, <2>1 DEF OInv, Separate
<1>6. NoneLost' => Apart'
  BY <1>1, <1>2 DEF OInv, NoneLost, Apart
<1>7. QED
  BY <1>1, <1>5, <1>6 DEF OInv

\* The end of the window, and the drain of the queue into it.
LEMMA WindowOInv ==
  ASSUME NInv, OInv, WindowCloses \/ Drain
  PROVE  OInv'
<1>1. UNCHANGED <<chat, left, offered>>
  BY DEF WindowCloses, Drain, history
<1>2. CASE WindowCloses
  <2>1. events' = events /\ (session' = {} \/ (session' = session /\ messageID' = messageID))
    BY <1>2 DEF WindowCloses, NewWindow
  <2>2. QED
    BY <1>1, <2>1 DEF OInv, Separate, NoneLost, Apart, Queued
<1>3. CASE Drain
  <2>1. session' = session \cup Queued /\ events' = <<>> /\ messageID' = messageID
    BY <1>3 DEF Drain, Queued
  <2>2. DOMAIN events' = {} /\ Queued' = {}
    BY <2>1 DEF Queued
  <2>3. QED
    BY <1>1, <2>1, <2>2 DEF OInv, Separate, NoneLost, Apart
<1>4. QED
  BY <1>2, <1>3

\* A publish, however it ends.
LEMMA PublishOInv ==
  ASSUME NInv, OInv, Succeed \/ Fail \/ LoseAnswer
  PROVE  OInv'
<1>1. Publishing /\ After /\ UNCHANGED <<events, offered>>
  BY DEF Succeed, Fail, LoseAnswer, Failed
<1>2. session' = IF at = "close" THEN {} ELSE session
  BY <1>1, Afterwards
<1>3. Separate'
  BY <1>1, <1>2 DEF OInv, Separate, Queued
<1>4. left["lost"] \in Nat /\ Budget["lost"] \in Nat
  BY BudgetAssumption DEF NInv, TypeOK
<1>5. CASE LoseAnswer
  <2>1. left'["lost"] = left["lost"] - 1
    BY <1>5 DEF LoseAnswer, NInv, TypeOK
  <2>2. QED
    BY <1>3, <1>4, <2>1 DEF OInv, NoneLost
<1>6. CASE Fail
  <2>1. chat' = chat /\ left'["lost"] = left["lost"] /\ messageID' = IF at = "close" THEN 0 ELSE messageID
    BY <1>6 DEF Fail, Failed, NInv, TypeOK
  <2>2. NoneLost' => Apart'
    BY <1>1, <1>2, <2>1 DEF OInv, NoneLost, Apart, Queued
  <2>3. QED
    BY <1>3, <2>1, <2>2 DEF OInv
<1>7. CASE Succeed
  <2>1. /\ chat' = Shown /\ left' = left
        /\ messageID' = IF at = "close" THEN 0 ELSE IF messageID = 0 THEN Len(chat') ELSE messageID
    BY <1>7 DEF Succeed
  <2>2. ASSUME NoneLost' PROVE Apart'
    <3>1. Apart
      BY <2>1, <2>2 DEF OInv, NoneLost
    <3>2. /\ \A m \in DOMAIN chat' : chat'[m] = session \/ (chat'[m] \subseteq offered' /\ chat'[m] \cap Queued' = {})
          /\ \A m \in DOMAIN chat' :
               m # (IF messageID = 0 THEN Len(chat') ELSE messageID) => chat'[m] \cap session = {}
          /\ \A m, n \in DOMAIN chat' : m # n => chat'[m] \cap chat'[n] = {}
      BY <1>1, <2>1, <3>1, ShowedApart
    <3>3. session \subseteq offered' /\ session \cap Queued' = {}
      BY <1>1 DEF NInv, TypeOK, OInv, Separate, Queued
    <3>4. \A m \in DOMAIN chat' : chat'[m] \subseteq offered' /\ chat'[m] \cap Queued' = {}
      BY <3>2, <3>3
    <3>5. \A m \in DOMAIN chat' : m # messageID' => chat'[m] \cap session' = {}
      BY <1>2, <2>1, <3>2
    <3>6. QED
      BY <3>2, <3>4, <3>5 DEF Apart
  <2>3. QED
    BY <1>3, <2>1, <2>2 DEF OInv
<1>8. QED
  BY <1>5, <1>6, <1>7

LEMMA StepOInv ==
  ASSUME NInv, OInv, [Next]_vars
  PROVE  OInv'
<1>1. CASE \E e \in Actions : Add(e)
  BY <1>1, AddOInv
<1>2. CASE Take
  BY <1>2, TakeOInv
<1>3. CASE WindowCloses \/ Drain
  BY <1>3, WindowOInv
<1>4. CASE Succeed \/ Fail \/ LoseAnswer
  BY <1>4, PublishOInv
<1>5. CASE TimerFires \/ Shutdown \/ Rest \/ UNCHANGED vars
  <2>1. UNCHANGED <<events, session, messageID, chat, left, offered>>
    BY <1>5 DEF TimerFires, Shutdown, Rest, vars, run, history
  <2>2. QED
    BY <2>1 DEF OInv, Separate, NoneLost, Apart, Queued
<1>6. QED
  BY <1>1, <1>2, <1>3, <1>4, <1>5 DEF Next

\* Messages that show the same action are one message.
LEMMA ApartShowsOnce ==
  ASSUME Apart, NEW e
  PROVE  Cardinality(Showing(e)) <= 1
<1>1. \A m, n \in Showing(e) : m = n
  BY DEF Apart, Showing
<1>2. CASE Showing(e) = {}
  BY <1>2, FS_EmptySet
<1>3. CASE Showing(e) # {}
  <2>1. PICK m : Showing(e) = {m}
    BY <1>1, <1>3
  <2>2. QED
    BY <2>1, FS_Singleton
<1>4. QED
  BY <1>2, <1>3

\* A window makes one message and an action shows in one, unless the answer of
\* a call was lost, in whatever order handlers, the timer, failures of the Bot
\* API and the end of the daemon fall (notifier.go:68-142, publish).
THEOREM LifeOneMessageEach == LifeSpec => []OneMessageEach
<1>1. OInv => OneMessageEach
  BY ApartShowsOnce DEF OInv, NoneLost, OneMessageEach
<1>2. NInv /\ OInv /\ [Next]_vars => OInv'
  BY StepOInv
<1>3. Spec => []OInv
  BY InitOInv, <1>2, NotifierInvariance, PTL DEF Spec
<1>4. QED
  BY <1>1, <1>3, LifeImplements, PTL

-------------------------------------------------------------------------------
\* The order in which main stops things: whoever can still add an action when
\* the notifier is told to stop is a request the server gave up waiting for.
Ordered ==
  /\ requests \in [Actions -> {"none", "arrived", "recorded", "over"}]
  /\ offered = {e \in Actions : requests[e] \in {"recorded", "over"}}
  /\ main \in {"manager", "notifier", "exited"} => Unfinished \subseteq overrun
  /\ ctx = "cancelled" => main \in {"notifier", "exited"}
  /\ main \notin {"manager", "notifier", "exited"} => overrun = {}

\* An accepted action waits, was tried or was given up; what is clean has been
\* tried, and after the drain only such requests can have added any.
Kept == \A e \in offered \ dropped : e \in Queued \cup session \cup tried \cup givenUp
Clean == at = "done" \/ (at = "select" /\ ~dirty) => session \subseteq tried
Flushed ==
  /\ at = "flush" => began = "live"
  /\ at \in {"flush", "done"} => Queued \subseteq overrun

FInv == Ordered /\ Kept /\ Clean /\ Flushed

LEMMA InitFInv == LifeInit => FInv
BY DEF LifeInit, Init, FInv, Ordered, Unfinished, Kept, Clean, Flushed, Queued

\* What main and the handlers do without the notifier.
LEMMA ElsewhereFInv ==
  ASSUME NInv, FInv, UNCHANGED vars, Ordered', overrun \subseteq overrun'
  PROVE  FInv'
BY DEF FInv, Kept, Clean, Flushed, Queued, vars

\* What the notifier does without main.
LEMMA OwnFInv ==
  ASSUME NInv, FInv, UNCHANGED process, UNCHANGED <<ctx, offered>>, Kept', Clean', Flushed'
  PROVE  FInv'
BY DEF FInv, Ordered, Unfinished, process

LEMMA RecordFInv ==
  ASSUME NInv, FInv, NEW e \in Actions, Record(e)
  PROVE  FInv'
<1>1. /\ requests[e] = "arrived" /\ requests' = [requests EXCEPT ![e] = "recorded"]
      /\ UNCHANGED <<main, interrupted, manager, overrun, run, ctx, tried, givenUp>>
      /\ offered' = offered \cup {e}
  BY DEF Record, Proceed, Add, windows
<1>2. /\ Queued' \subseteq Queued \cup {e} /\ Queued \subseteq Queued'
      /\ e \in dropped' \/ e \in Queued'
      /\ dropped \subseteq dropped'
  <2>1. CASE Len(events) < Capacity
    <3>1. events' = Append(events, e) /\ dropped' = dropped
      BY <2>1 DEF Record, Add
    <3>2. QED
      BY <3>1, QueuedAppend DEF NInv, TypeOK
  <2>2. CASE ~(Len(events) < Capacity)
    BY <2>2 DEF Record, Add, Queued
  <2>3. QED
    BY <2>1, <2>2
<1>3. Ordered'
  BY <1>1 DEF FInv, Ordered, Unfinished
<1>4. Flushed'
  <2>1. at \in {"flush", "done"} => e \in overrun
    BY <1>1 DEF NInv, Late, FInv, Ordered, Unfinished
  <2>2. QED
    BY <1>1, <1>2, <2>1 DEF FInv, Flushed, run
<1>5. Kept' /\ Clean'
  BY <1>1, <1>2 DEF FInv, Kept, Clean, run
<1>6. QED
  BY <1>3, <1>4, <1>5 DEF FInv

\* Requests, server and manager.
LEMMA ProcessFInv ==
  ASSUME NInv, FInv,
         \/ \E e \in Actions : Arrive(e) \/ Return(e)
         \/ Interrupt \/ ManagerReturns \/ BeginShutdown \/ ShutdownReturns \/ Exit \/ Gone
  PROVE  FInv'
<1>1. CASE \E e \in Actions : Arrive(e) \/ Return(e)
  <2>1. PICK e \in Actions : Arrive(e) \/ Return(e)
    BY <1>1
  <2>2. /\ UNCHANGED <<vars, main, overrun>>
        /\ \/ /\ main = "serving" /\ requests[e] = "none"
              /\ requests' = [requests EXCEPT ![e] = "arrived"]
           \/ requests[e] = "recorded" /\ requests' = [requests EXCEPT ![e] = "over"]
    BY <2>1 DEF Arrive, Return, Proceed
  <2>3. Ordered'
    BY <2>2 DEF FInv, Ordered, Unfinished, vars
  <2>4. QED
    BY <2>2, <2>3, ElsewhereFInv
<1>2. CASE Interrupt \/ ManagerReturns \/ BeginShutdown \/ ShutdownReturns \/ Exit \/ Gone
  <2>1. UNCHANGED <<vars, requests>>
    BY <1>2 DEF Interrupt, ManagerReturns, BeginShutdown, ShutdownReturns, Exit, Gone, lifeVars, process
  <2>2. \/ main' = main /\ overrun' = overrun
        \/ main = "serving" /\ main' = "draining" /\ overrun' = overrun
        \/ main = "draining" /\ main' = "manager" /\ overrun' = Unfinished
        \/ main = "notifier" /\ main' = "exited" /\ overrun' = overrun
    BY <1>2 DEF Interrupt, ManagerReturns, BeginShutdown, ShutdownReturns, Exit, Gone, lifeVars, process
  <2>3. Ordered' /\ overrun \subseteq overrun'
    BY <2>1, <2>2 DEF FInv, Ordered, Unfinished, vars
  <2>4. QED
    BY <2>1, <2>3, ElsewhereFInv
<1>3. QED
  BY <1>1, <1>2

LEMMA StopFInv ==
  ASSUME NInv, FInv, StopNotifier
  PROVE  FInv'
<1>1. /\ main = "manager" /\ main' = "notifier" /\ UNCHANGED <<requests, overrun>>
      /\ UNCHANGED <<events, run, chat, left, history>>
  BY DEF StopNotifier, Shutdown
<1>2. Ordered'
  BY <1>1 DEF FInv, Ordered, Unfinished, history
<1>3. QED
  BY <1>1, <1>2 DEF FInv, Kept, Clean, Flushed, Queued, run, history

\* The notifier's own steps.
LEMMA NotifyFInv ==
  ASSUME NInv, FInv, Notify
  PROVE  FInv'
<1>1. UNCHANGED process
  BY DEF Notify
<1>2. CASE Take
  <2>1. Queued = Queued' \cup {Head(events)}
    BY <1>2, QueuedTail DEF Take, NInv, TypeOK
  <2>2. QED
    BY <1>1, <1>2, <2>1, OwnFInv DEF Take, history, FInv, Kept, Clean, Flushed
<1>3. CASE TimerFires
  BY <1>1, <1>3, OwnFInv DEF TimerFires, history, FInv, Kept, Clean, Flushed, Queued, process
<1>4. CASE WindowCloses
  <2>1. /\ at = "select" /\ UNCHANGED <<events, ctx, offered, dropped, tried>> /\ givenUp \subseteq givenUp'
        /\ \/ at' = "close" /\ session' = session
           \/ ~dirty /\ at' = at /\ session' = {}
    BY <1>4 DEF WindowCloses, NewWindow, Forget, windows
  <2>2. QED
    BY <1>1, <2>1, OwnFInv DEF FInv, Kept, Clean, Flushed, Queued
<1>5. CASE Drain
  <2>1. /\ at = "select" /\ session' = session \cup Queued /\ events' = <<>> /\ began' = "live"
        /\ dirty' = (dirty \/ events # <<>>) /\ at' = IF dirty' THEN "flush" ELSE "done"
        /\ UNCHANGED <<ctx, offered, dropped, tried, givenUp>>
    BY <1>5 DEF Drain, Queued, history
  <2>2. Queued' = {} /\ (events = <<>> => Queued = {})
    BY <2>1 DEF Queued
  <2>3. QED
    BY <1>1, <2>1, <2>2, OwnFInv DEF FInv, Kept, Clean, Flushed
<1>6. CASE Succeed \/ Fail \/ LoseAnswer
  <2>1. Publishing /\ After /\ UNCHANGED <<events, ctx, began, offered, dropped>>
    BY <1>6 DEF Succeed, Fail, LoseAnswer, Failed
  <2>2. /\ at' = IF at = "flush" THEN "done" ELSE "select"
        /\ IF at = "close"
           THEN /\ session' = {} /\ timer' = "off"
                /\ IF ctx = "live" THEN closed' = closed \cup session /\ givenUp' = givenUp
                   ELSE givenUp' = givenUp \cup session /\ closed' = closed
           ELSE UNCHANGED <<session, timer, closed, givenUp>>
    BY <2>1, Afterwards
  <2>3. \/ tried' = tried \cup session
        \/ tried' = tried /\ BrokenOff /\ dirty' = IF at = "close" THEN FALSE ELSE dirty
    BY <1>6 DEF Succeed, Fail, LoseAnswer, Failed
  <2>4. Kept'
    BY <2>1, <2>2, <2>3 DEF FInv, Kept, Queued, BrokenOff
  <2>5. Clean' /\ Flushed'
    BY <1>1, <2>1, <2>2, <2>3 DEF NInv, Busy, FInv, Clean, Flushed, Queued, Publishing, BrokenOff, process
  <2>6. QED
    BY <1>1, <2>1, <2>4, <2>5, OwnFInv
<1>7. QED
  BY <1>2, <1>3, <1>4, <1>5, <1>6 DEF Notify

\* Between two publishes of Run the message shows the window, or `dirty' says
\* that it does not (notifier.go:68-97).
THEOREM LifeDirtyOrShown == LifeSpec => []DirtyOrShown
<1>1. NInv => DirtyOrShown
  BY DEF NInv
<1>2. QED
  BY <1>1, LifeImplements, NotifierInvariance, PTL

\* No action that Add accepted is forgotten: a window that Run closes lacks
\* one of its actions only after two calls of publish failed (notifier.go:45-118).
THEOREM LifeNoneForgotten == LifeSpec => []NoneForgotten
<1>1. NInv => NoneForgotten
  BY DEF NInv
<1>2. QED
  BY <1>1, LifeImplements, NotifierInvariance, PTL

\* The final update attempt of a shutdown (README.md:89, notifier.go:98-116,
\* main.go:92-105) leaves out no request that server.Shutdown waited for.
THEOREM LifeFinalAttempt == LifeSpec => []FinalAttempt
<1>1. NInv /\ FInv /\ [LifeNext]_lifeVars => FInv'
  <2>1. SUFFICES ASSUME NInv, FInv, [LifeNext]_lifeVars PROVE FInv'
    OBVIOUS
  <2>2. CASE \E e \in Actions : Record(e)
    BY <2>1, <2>2, RecordFInv
  <2>3. CASE \/ \E e \in Actions : Arrive(e) \/ Return(e)
             \/ Interrupt \/ ManagerReturns \/ BeginShutdown \/ ShutdownReturns \/ Exit \/ Gone
    BY <2>1, <2>3, ProcessFInv
  <2>4. CASE StopNotifier
    BY <2>1, <2>4, StopFInv
  <2>5. CASE Notify
    BY <2>1, <2>5, NotifyFInv
  <2>6. CASE UNCHANGED lifeVars
    BY <2>1, <2>6, ProcessFInv DEF lifeVars, FInv, Ordered, Unfinished, Kept, Clean, Flushed,
       Queued, vars, process
  <2>7. QED
    BY <2>1, <2>2, <2>3, <2>4, <2>5, <2>6 DEF LifeNext
<1>2. FInv => FinalAttempt
  BY DEF FInv, Kept, Clean, Flushed, FinalAttempt
<1>3. QED
  BY InitFInv, <1>1, <1>2, LifeImplements, NotifierInvariance, PTL DEF LifeSpec
===============================================================================
