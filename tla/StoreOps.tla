------------------------------- MODULE StoreOps -------------------------------
(***************************************************************************)
(* The statements of internal/store/store.go as operators on the table     *)
(* `events', seen as a function from row ids to rows.  Every module that   *)
(* models a client of the store takes them from here.                      *)
(*                                                                         *)
(* A row keeps what the properties tell apart: `who' stands for the actor, *)
(* actor_type and confidence columns, `started', `lastSeen' and `ended'    *)
(* for the three timestamps.                                               *)
(***************************************************************************)
EXTENDS Integers

CONSTANTS
  Null,          \* SQL NULL
  Before(_, _)   \* the order in which SQLite compares two stored timestamps

IsOpen(row) == row.ended = Null

\* Mutant: last_seen_at=? without the CASE.
LaterBlind(old, new) == new

\* CASE WHEN last_seen_at IS NULL OR last_seen_at<? THEN ? ELSE last_seen_at END
Later(old, new) == IF old = Null \/ Before(old, new) THEN new ELSE old

NewRow(who, at) == [who |-> who, started |-> at, lastSeen |-> at, ended |-> Null]

\* A statement's arguments are functions from the ids it names: Start inserts
\* `new', a function from AUTOINCREMENT values to [who, at] ...
Inserted(rows, new) ==
  [i \in DOMAIN rows \cup DOMAIN new |->
     IF i \in DOMAIN new THEN NewRow(new[i].who, new[i].at) ELSE rows[i]]

\* Mutant: EndStream writes ended_at only.
EndedAtOnly(rows, at, seen) ==
  [i \in DOMAIN rows |->
     IF i \in DOMAIN seen /\ IsOpen(rows[i])
     THEN [rows[i] EXCEPT !.ended = at] ELSE rows[i]]

\* ... EndStream ends the ids of `seen', last seen then; End has seen[i] = at ...
EndedAt(rows, at, seen) ==
  [i \in DOMAIN rows |->
     IF i \in DOMAIN seen /\ IsOpen(rows[i])
     THEN [rows[i] EXCEPT !.ended = at, !.lastSeen = Later(rows[i].lastSeen, seen[i])]
     ELSE rows[i]]

\* Mutant: no `AND ended_at IS NULL'.
TouchedEvenClosed(rows, seen) ==
  [i \in DOMAIN rows |->
     IF i \in DOMAIN seen
     THEN [rows[i] EXCEPT !.lastSeen = Later(rows[i].lastSeen, seen[i])]
     ELSE rows[i]]

\* ... TouchEvents commits one transaction; TouchEvent names one id ...
Touched(rows, seen) ==
  [i \in DOMAIN rows |->
     IF i \in DOMAIN seen /\ IsOpen(rows[i])
     THEN [rows[i] EXCEPT !.lastSeen = Later(rows[i].lastSeen, seen[i])]
     ELSE rows[i]]

\* ... and UpdateEventIdentity writes the identities of `who'.
Renamed(rows, who) ==
  [i \in DOMAIN rows |->
     IF i \in DOMAIN who /\ IsOpen(rows[i])
     THEN [rows[i] EXCEPT !.who = who[i]] ELSE rows[i]]

\* RecoverOpen keeps the last checkpointed last_seen_at.
Recovered(rows, at) ==
  [i \in DOMAIN rows |->
     IF IsOpen(rows[i])
     THEN [rows[i] EXCEPT
             !.ended = at,
             !.lastSeen = IF rows[i].lastSeen = Null THEN rows[i].started
                                                     ELSE rows[i].lastSeen]
     ELSE rows[i]]

\* The backfill that ends migrate: COALESCE(ended_at, started_at).
Backfilled(rows) ==
  [i \in DOMAIN rows |->
     IF rows[i].lastSeen = Null
     THEN [rows[i] EXCEPT !.lastSeen = IF IsOpen(rows[i]) THEN rows[i].started
                                                          ELSE rows[i].ended]
     ELSE rows[i]]

\* Mutant: retention by started_at.
RetainedByStart(rows, cut) == {i \in DOMAIN rows : ~Before(rows[i].started, cut)}

\* DELETE FROM events WHERE last_seen_at < ?; a comparison with NULL is not true.
Retained(rows, cut) ==
  {i \in DOMAIN rows : rows[i].lastSeen = Null \/ ~Before(rows[i].lastSeen, cut)}

Pruned(rows, cut) == [i \in Retained(rows, cut) |-> rows[i]]
===============================================================================
