--------------------------- MODULE TelegramNotifier ---------------------------
(***************************************************************************)
(* internal/telegram.Notifier: request handlers queue recording actions    *)
(* without ever waiting; one goroutine sends the first action of a window  *)
(* as a message and edits that message for each further one, until the     *)
(* window's timer or the end of the daemon closes it.                      *)
(*                                                                         *)
(* A call of the Bot API is two steps, so that actions, the timer and the  *)
(* shutdown may come while it is under way.  Telegram is external: a call  *)
(* succeeds, fails, or is carried out while its answer is lost.            *)
(***************************************************************************)
EXTENDS Integers, Sequences, FiniteSets

CONSTANTS
  Actions,    \* the logical recording actions there may be
  Capacity,   \* of the channel n.events
  Budget      \* bounds: [fail |-> failed calls, lost |-> lost answers]

ASSUME CapacityAssumption == Capacity \in Nat \ {0}
ASSUME BudgetAssumption == Budget \in [{"fail", "lost"} -> Nat]

VARIABLES
  events,     \* n.events
  session,    \* the actions of the window
  messageID,  \* 0 while the window has no message yet
  dirty,      \* the message lacks something of the session
  timer,      \* "off", "on", "fired"
  at,         \* Run: "select", "done", or which publish it is in
  ctx,        \* "live" or "cancelled"
  began,      \* what the context of the last publish was when it began
  chat,       \* Telegram's side: message id -> what the message shows
  left,       \* what remains of Budget
  offered,    \* history: actions that were added
  dropped,    \* history: those the full queue refused
  closed,     \* history: those whose window closed before the shutdown
  givenUp,    \* history: those whose window closed after it
  tried       \* history: those a call was made for, and not broken off by it

run     == <<session, messageID, dirty, timer, at, began>>
windows == <<closed, givenUp>>
history == <<offered, dropped, closed, givenUp, tried>>
vars    == <<events, session, messageID, dirty, timer, at, ctx, began, chat,
             left, offered, dropped, closed, givenUp, tried>>

Init ==
  /\ events = <<>> /\ session = {} /\ messageID = 0 /\ dirty = FALSE
  /\ timer = "off" /\ at = "select" /\ ctx = "live" /\ began = "live"
  /\ chat = <<>> /\ left = Budget
  /\ offered = {} /\ dropped = {} /\ closed = {} /\ givenUp = {} /\ tried = {}

-------------------------------------------------------------------------------
\* Mutant: a full queue drops its oldest action and does not say so.
AddOverwriting(e) ==
  /\ e \notin offered
  /\ offered' = offered \cup {e}
  /\ events' = IF Len(events) < Capacity THEN Append(events, e)
               ELSE Append(Tail(events), e)
  /\ UNCHANGED <<run, ctx, chat, left, dropped, windows, tried>>

\* Add, called by StartHTTP in the goroutine of a request.
Add(e) ==
  /\ e \notin offered
  /\ offered' = offered \cup {e}
  /\ IF Len(events) < Capacity
     THEN events' = Append(events, e) /\ dropped' = dropped
     ELSE events' = events /\ dropped' = dropped \cup {e}
  /\ UNCHANGED <<run, ctx, chat, left, windows, tried>>

\* Run takes an action and publishes at once.
Take ==
  /\ at = "select" /\ events # <<>>
  /\ events' = Tail(events)
  /\ session' = session \cup {Head(events)}
  /\ dirty' = TRUE
  /\ timer' = IF timer = "off" THEN "on" ELSE timer
  /\ at' = "update" /\ began' = ctx
  /\ UNCHANGED <<messageID, ctx, chat, left, history>>

TimerFires ==
  /\ timer = "on" /\ timer' = "fired"
  /\ UNCHANGED <<events, session, messageID, dirty, at, ctx, began, chat, left, history>>

NewWindow == session' = {} /\ messageID' = 0 /\ dirty' = FALSE /\ timer' = "off"
Forget ==
  IF ctx = "live" THEN closed' = closed \cup session /\ givenUp' = givenUp
  ELSE givenUp' = givenUp \cup session /\ closed' = closed

\* Mutant: the end of the window does not try again.
WindowJustCloses ==
  /\ at = "select" /\ timer = "fired"
  /\ NewWindow /\ Forget
  /\ UNCHANGED <<at, began, events, ctx, chat, left, offered, dropped, tried>>

WindowCloses ==
  /\ at = "select" /\ timer = "fired"
  /\ IF dirty THEN at' = "close" /\ UNCHANGED <<session, messageID, dirty, timer, windows>>
              ELSE at' = at /\ NewWindow /\ Forget
  /\ began' = ctx
  /\ UNCHANGED <<events, ctx, chat, left, offered, dropped, tried>>

\* main cancels the context when Manager.Run has returned.
Shutdown ==
  /\ ctx = "live" /\ ctx' = "cancelled"
  /\ UNCHANGED <<events, run, chat, left, history>>

\* select sees it, maybe after other cases that were ready too: the queue is
\* drained and what is dirty is published with a context of its own.
Drain ==
  /\ at = "select" /\ ctx = "cancelled"
  /\ session' = session \cup {events[i] : i \in DOMAIN events}
  /\ events' = <<>>
  /\ dirty' = (dirty \/ events # <<>>)
  /\ timer' = "off"
  /\ at' = IF dirty' THEN "flush" ELSE "done"
  /\ began' = "live"
  /\ UNCHANGED <<messageID, ctx, chat, left, history>>

-------------------------------------------------------------------------------
\* What the API does with sendMessage and editMessageText.
Shown ==
  IF messageID = 0 THEN Append(chat, session) ELSE [chat EXCEPT ![messageID] = session]

\* The way on after a publish.
After ==
  CASE at = "update" -> at' = "select" /\ UNCHANGED <<session, timer, windows>>
    [] at = "close"  -> at' = "select" /\ session' = {} /\ timer' = "off" /\ Forget
    [] at = "flush"  -> at' = "done" /\ UNCHANGED <<session, timer, windows>>

Publishing == at \in {"update", "close", "flush"}

\* Mutant: the id of the first message is not kept.
SucceedAnew ==
  /\ Publishing /\ began = "live"
  /\ chat' = Shown
  /\ messageID' = 0
  /\ dirty' = FALSE
  /\ tried' = tried \cup session
  /\ After
  /\ UNCHANGED <<events, ctx, began, left, offered, dropped>>

\* publish returned an id: a message that is there keeps its own.
Succeed ==
  /\ Publishing /\ began = "live"
  /\ chat' = Shown
  /\ messageID' = IF at = "close" THEN 0 ELSE IF messageID = 0 THEN Len(chat') ELSE messageID
  /\ dirty' = FALSE
  /\ tried' = tried \cup session
  /\ After
  /\ UNCHANGED <<events, ctx, began, left, offered, dropped>>

Failed == /\ messageID' = IF at = "close" THEN 0 ELSE messageID
          /\ dirty' = IF at = "close" THEN FALSE ELSE dirty
          /\ After
          /\ UNCHANGED <<events, ctx, began, offered, dropped>>

\* Mutant: an error leaves nothing to be retried.
FailClean ==
  /\ Publishing
  /\ IF at # "flush" /\ ctx = "cancelled" THEN left' = left
     ELSE left["fail"] > 0 /\ left' = [left EXCEPT !["fail"] = @ - 1]
  /\ chat' = chat
  /\ tried' = IF began = "live" THEN tried \cup session ELSE tried
  /\ messageID' = IF at = "close" THEN 0 ELSE messageID
  /\ dirty' = FALSE
  /\ After
  /\ UNCHANGED <<events, ctx, began, offered, dropped>>

\* publish returned an error: the next one tries again.  The shutdown breaks
\* off a call that is under way, and one begun after it always fails.
BrokenOff == at # "flush" /\ ctx = "cancelled"
Fail ==
  /\ Publishing
  /\ IF BrokenOff THEN UNCHANGED <<left, tried>>
     ELSE /\ left["fail"] > 0 /\ left' = [left EXCEPT !["fail"] = @ - 1]
          /\ tried' = tried \cup session
  /\ chat' = chat
  /\ Failed

\* The call was carried out, its answer was lost or could not be read.
LoseAnswer ==
  /\ Publishing /\ began = "live" /\ left["lost"] > 0
  /\ left' = [left EXCEPT !["lost"] = @ - 1]
  /\ chat' = Shown
  /\ tried' = tried \cup session
  /\ Failed

\* The goroutine has returned; the process is about to exit.
Rest == at = "done" /\ UNCHANGED vars

-------------------------------------------------------------------------------
Next ==
  \/ \E e \in Actions : Add(e)
  \/ Take \/ TimerFires \/ WindowCloses \/ Shutdown \/ Drain
  \/ Succeed \/ Fail \/ LoseAnswer \/ Rest

Spec == Init /\ [][Next]_vars

-------------------------------------------------------------------------------
Showing(e) == {m \in DOMAIN chat : e \in chat[m]}
Queued == {events[i] : i \in DOMAIN events}

\* The types of the state.
TypeOK ==
  /\ events \in Seq(Actions) /\ Len(events) <= Capacity
  /\ session \subseteq offered \ dropped
  /\ messageID \in 0 .. Len(chat) /\ dirty \in BOOLEAN
  /\ timer \in {"off", "on", "fired"} /\ {ctx, began} \subseteq {"live", "cancelled"}
  /\ at \in {"select", "update", "close", "flush", "done"}
  /\ chat \in Seq(SUBSET Actions) /\ left \in [{"fail", "lost"} -> Nat]
  /\ offered \subseteq Actions /\ dropped \subseteq offered
  /\ closed \cup givenUp \cup tried \subseteq offered

\* Between two publishes the message of the window shows all of the session
\* unless `dirty' remembers that it does not.
DirtyOrShown ==
  at = "select" /\ ~dirty /\ session # {} =>
    messageID # 0 /\ chat[messageID] = session

\* An action that was accepted is in the queue, in the window or in the chat,
\* or its window was closed after two failed calls: none is dropped on the way,
\* and a window that lacks something is not closed without another attempt.
FailedCalls == Budget["fail"] - left["fail"]
NoneForgotten ==
  \A e \in offered \ dropped :
    \/ e \in Queued \cup session \cup givenUp
    \/ Showing(e) # {}
    \/ e \in closed /\ FailedCalls >= 2

\* While no answer is lost an action shows in one message only, and each
\* window makes one message.
OneMessageEach ==
  left["lost"] = Budget["lost"] =>
    \A e \in offered : Cardinality(Showing(e)) <= 1

\* A failed delivery is made good by the next update or the end of the window:
\* one failed call loses nothing, however actions, timer and call fall.
ActionsShown ==
  \A e \in Actions :
    [](ctx = "live" /\ left["fail"] + left["lost"] + 1 >= Budget["fail"] + Budget["lost"]) =>
      (e \in offered \ dropped ~> Showing(e) # {})
===============================================================================
