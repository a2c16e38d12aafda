-------------------------------- MODULE AuditLog --------------------------------
(***************************************************************************)
(* What the audit promises of the streams it has observed, without polls,  *)
(* connections, memory and database: a log of intervals, each with the     *)
(* moments at which its consumer was seen and the name it goes by.         *)
(*                                                                         *)
(* An interval is extended only by observation, never across an            *)
(* interruption, keeps its last observation when it ends, and is frozen    *)
(* from then on.  Only the death of the process may lose observations, and *)
(* none older than Interval.  StreamAudit implements it.                   *)
(***************************************************************************)
EXTENDS Integers

CONSTANT Interval

VARIABLES
  log,     \* interval -> [who, seen, lastSeen, open]
  stale,   \* the intervals that an interruption of the observation has cut
  polled   \* the moment of the last observation, a number once there is one

logVars == <<log, stale, polled>>

Init == log = [e \in {} |-> 0] /\ stale = {}

\* Nothing was observed of an interval; it may end.
Unseen(old, new) ==
  new.seen = old.seen /\ new.lastSeen = old.lastSeen

Seen(old, new) ==
  /\ new.open /\ new.lastSeen = polled' /\ new.seen = old.seen \cup {polled'}

Renamed(old, new) == new.who = old.who \/ (new.who.conf > old.who.conf)

Advance(e) ==
  LET old == log[e]  new == log'[e] IN
  IF ~old.open THEN new = old
  ELSE /\ Renamed(old, new)
       /\ Unseen(old, new) \/ (e \notin stale /\ Seen(old, new))

\* The observer goes on: intervals are seen, named, ended and begun.
Observe ==
  /\ \A e \in DOMAIN log : e \in DOMAIN log' /\ Advance(e)
  /\ \A e \in DOMAIN log' \ DOMAIN log :
       log'[e].open /\ log'[e].seen = {polled'} /\ log'[e].lastSeen = polled'
  /\ stale' = stale

\* An outage: what was there before is not seen again.
Interrupt == stale' = DOMAIN log /\ UNCHANGED <<log, polled>>

\* The process is gone, and with it the latest observations of what was open.
Lose(e) ==
  LET old == log[e]  new == log'[e] IN
  IF ~old.open THEN new = old
  ELSE /\ new.who = old.who /\ new.open /\ new.seen = old.seen
       /\ new.lastSeen \in old.seen /\ new.lastSeen <= old.lastSeen
       /\ \A t \in old.seen : t + Interval <= polled => t <= new.lastSeen

Die ==
  /\ DOMAIN log' = DOMAIN log
  /\ \A e \in DOMAIN log : Lose(e)
  /\ stale' = DOMAIN log

Next == Observe \/ Interrupt \/ Die

Spec == Init /\ [][Next]_logVars
===============================================================================
