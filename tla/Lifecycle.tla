------------------------------- MODULE Lifecycle -------------------------------
(***************************************************************************)
(* The end of the daemon (cmd/camera-audit/main.go), composed with the     *)
(* Telegram notifier: main, the goroutine of Manager.Run, the notifier and *)
(* the handlers of recording requests, one for each action there may be.   *)
(* main lets the server finish its requests for a while, waits for the     *)
(* manager, then stops the notifier, waits for it and exits.               *)
(***************************************************************************)
EXTENDS TelegramNotifier

VARIABLES
  main,         \* "serving", "draining", "manager", "notifier", "exited":
                \* what it does or waits for
  interrupted,  \* the context of the signals is cancelled
  manager,      \* "running" or, after closeTracked, "returned"
  requests,     \* action -> "none", "arrived", "recorded", "over"
  overrun       \* history: requests server.Shutdown gave up waiting for

process == <<main, interrupted, manager, requests, overrun>>
lifeVars == <<vars, process>>

LifeInit ==
  /\ Init
  /\ main = "serving" /\ interrupted = FALSE /\ manager = "running"
  /\ requests = [e \in Actions |-> "none"] /\ overrun = {}

-------------------------------------------------------------------------------
\* ServeHTTP of one recording request: it arrives, StartHTTP adds its action,
\* and the proxy returns, or hangs.  The listener is closed when Shutdown
\* begins.
Proceed(e, from, to) == requests[e] = from /\ requests' = [requests EXCEPT ![e] = to]
Unfinished == {e \in Actions : requests[e] \in {"arrived", "recorded"}}

Arrive(e) ==
  /\ main = "serving" /\ Proceed(e, "none", "arrived")
  /\ UNCHANGED <<vars, main, interrupted, manager, overrun>>
Record(e) ==
  /\ main # "exited" /\ Proceed(e, "arrived", "recorded") /\ Add(e)
  /\ UNCHANGED <<main, interrupted, manager, overrun>>
Return(e) ==
  /\ main # "exited" /\ Proceed(e, "recorded", "over")
  /\ UNCHANGED <<vars, main, interrupted, manager, overrun>>

\* A signal, or the server's own failure, which makes main call stop().
Interrupt ==
  /\ ~interrupted /\ interrupted' = TRUE
  /\ UNCHANGED <<vars, main, manager, requests, overrun>>

\* Manager.Run sees it in its select, runs closeTracked and returns.
ManagerReturns ==
  /\ interrupted /\ manager = "running" /\ manager' = "returned"
  /\ UNCHANGED <<vars, main, interrupted, requests, overrun>>

BeginShutdown ==
  /\ main = "serving" /\ interrupted /\ main' = "draining"
  /\ UNCHANGED <<vars, interrupted, manager, requests, overrun>>

\* Mutant: server.Shutdown has no deadline.
ShutdownPatient ==
  /\ main = "draining" /\ Unfinished = {} /\ main' = "manager"
  /\ UNCHANGED <<vars, interrupted, manager, requests, overrun>>

\* server.Shutdown returns: the requests are over, or fifteen seconds are.
ShutdownReturns ==
  /\ main = "draining" /\ main' = "manager"
  /\ overrun' = Unfinished
  /\ UNCHANGED <<vars, interrupted, manager, requests>>

\* Mutant: main stops the notifier without waiting for the server.
StopNotifierAtOnce ==
  /\ main \in {"draining", "manager"} /\ main' = "notifier"
  /\ Shutdown
  /\ UNCHANGED <<interrupted, manager, requests, overrun>>

\* <-managerDone; stopNotifier().
StopNotifier ==
  /\ main = "manager" /\ manager = "returned" /\ main' = "notifier"
  /\ Shutdown
  /\ UNCHANGED <<interrupted, manager, requests, overrun>>

\* <-notifierDone, and the deferred Close calls.
Exit ==
  /\ main = "notifier" /\ at = "done" /\ main' = "exited"
  /\ UNCHANGED <<vars, interrupted, manager, requests, overrun>>

Notify ==
  /\ main # "exited"
  /\ Take \/ TimerFires \/ WindowCloses \/ Drain \/ Succeed \/ Fail \/ LoseAnswer
  /\ UNCHANGED process

Gone == main = "exited" /\ UNCHANGED lifeVars

LifeNext ==
  \/ \E e \in Actions : Arrive(e) \/ Record(e) \/ Return(e)
  \/ Interrupt \/ ManagerReturns
  \/ BeginShutdown \/ ShutdownReturns \/ StopNotifier \/ Exit
  \/ Notify \/ Gone

\* main and the goroutines get on: Shutdown has a deadline, a poll and a call
\* of the Bot API have timeouts.  A handler records what it has taken in; its
\* proxying may take for ever.
LifeSpec ==
  /\ LifeInit /\ [][LifeNext]_lifeVars
  /\ WF_lifeVars(ManagerReturns) /\ WF_lifeVars(BeginShutdown) /\ WF_lifeVars(ShutdownReturns)
  /\ WF_lifeVars(StopNotifier) /\ WF_lifeVars(Exit)
  /\ \A e \in Actions : WF_lifeVars(Record(e))
  /\ WF_lifeVars(Take /\ UNCHANGED process) /\ WF_lifeVars(TimerFires /\ UNCHANGED process)
  /\ WF_lifeVars(WindowCloses /\ UNCHANGED process) /\ WF_lifeVars(Drain /\ UNCHANGED process)
  /\ WF_lifeVars((Succeed \/ Fail) /\ UNCHANGED process)

-------------------------------------------------------------------------------
\* "Graceful shutdown makes one final update attempt" (README.md:89), exactly:
\* when the notifier has returned, each action of a request the server waited
\* for was refused by a full queue, was sent or met an error of Telegram's own,
\* or belonged to a window whose timer had fired when the shutdown came: select
\* may take the timer first and give the window up with a cancelled context.
FinalAttempt ==
  at = "done" =>
    \A e \in offered \ overrun : e \in dropped \cup tried \cup givenUp

\* A signal ends the daemon, though requests and Telegram hang, at any step of
\* a call, with the queue full or empty.
Exits == interrupted ~> main = "exited"
===============================================================================
