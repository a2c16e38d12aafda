------------------------------ MODULE EventStore ------------------------------
(***************************************************************************)
(* internal/store: the SQLite audit store, from opening a database of any  *)
(* age through migration and startup recovery to normal service, under     *)
(* clients that call its operations in any order with any time that is not *)
(* in the future, and a process that may die between two statements.       *)
(*                                                                         *)
(* Timestamps are stored as RFC3339Nano text.  That format drops trailing  *)
(* zeros and, for a whole second, the fraction itself, so SQLite compares  *)
(* "05Z" and "05.5Z" by the characters "Z" and ".", and the whole second   *)
(* comes last.  An instant therefore carries its second and its fraction.  *)
(***************************************************************************)
EXTENDS Integers

CONSTANTS
  Null,
  Who,         \* identities a row may carry
  Users,       \* keys of the table `activity'
  Frac,        \* instants per second: fractions of one decimal digit
  Retention,   \* seconds
  MaxSec,      \* bound: the last second of the clock
  MaxEvents    \* bound: rows ever inserted

ASSUME FracAssumption == Frac \in 1 .. 10
ASSUME RetentionAssumption == Retention \in Nat \ {0}
ASSUME BoundAssumption == MaxSec \in Nat /\ MaxEvents \in Nat
ASSUME NullAssumption ==
  /\ Null \notin [sec : Nat, frac : 0 .. Frac - 1]
  /\ Who # {}

Instant == [sec : Nat, frac : 0 .. Frac - 1]

\* time.Time order, and the order of the RFC3339Nano texts of two UTC times.
Earlier(a, b) == a.sec < b.sec \/ (a.sec = b.sec /\ a.frac < b.frac)
TextBefore(a, b) ==
  \/ a.sec < b.sec
  \/ a.sec = b.sec /\ a.frac # 0 /\ (b.frac = 0 \/ a.frac < b.frac)

INSTANCE StoreOps WITH Before <- TextBefore

VARIABLES
  rows,         \* the table `events'
  nextId,       \* its AUTOINCREMENT sequence
  activity,     \* the table `activity': user -> [first, last]
  hasLastSeen,  \* whether `events' has the column last_seen_at
  phase,        \* where the process is
  clock,        \* the present
  newest        \* history: id -> newest observation, for ids inserted by the
                \* running process

vars == <<rows, nextId, activity, hasLastSeen, phase, clock, newest>>

Phases == {"closed", "created", "altered", "migrated", "serving"}
Row == [who : Who, started : Instant, lastSeen : Instant \cup {Null},
        ended : Instant \cup {Null}]
Zero == [sec |-> 0, frac |-> 0]
OldRow(w, e) == [who |-> w, started |-> Zero, lastSeen |-> Null, ended |-> e]

-------------------------------------------------------------------------------
\* The database is new, or was left by a version without last_seen_at.
Init ==
  /\ clock = Zero
  /\ phase = "closed"
  /\ newest = [i \in {} |-> Zero]
  /\ activity = [u \in {} |-> Zero]
  /\ \/ /\ hasLastSeen = TRUE
        /\ rows = [i \in {} |-> Zero]
        /\ nextId = 1
     \/ /\ hasLastSeen = FALSE
        /\ \E w \in Who, e \in {Zero, Null} :
             rows = [i \in {1} |-> OldRow(w, e)]
        /\ nextId = 2

\* Open and the three statements of migrate, each committed on its own.
CreateTables ==
  /\ phase = "closed"
  /\ phase' = "created"
  /\ UNCHANGED <<rows, nextId, activity, hasLastSeen, clock, newest>>

\* Mutant: the backfill belongs to the upgrade, not to every start.
AddColumnOnce ==
  /\ phase = "created"
  /\ phase' = IF hasLastSeen THEN "migrated" ELSE "altered"
  /\ hasLastSeen' = TRUE
  /\ UNCHANGED <<rows, nextId, activity, clock, newest>>

AddColumn ==
  /\ phase = "created"
  /\ phase' = "altered"
  /\ hasLastSeen' = TRUE
  /\ UNCHANGED <<rows, nextId, activity, clock, newest>>

Backfill ==
  /\ phase = "altered"
  /\ phase' = "migrated"
  /\ rows' = Backfilled(rows)
  /\ UNCHANGED <<nextId, activity, hasLastSeen, clock, newest>>

\* Mutant: intervals seen in the present second are left for their owner.
RecoverStale ==
  /\ phase = "migrated"
  /\ phase' = "serving"
  /\ rows' = [i \in DOMAIN rows |->
                IF rows[i].lastSeen.sec < clock.sec
                THEN Recovered(rows, clock)[i] ELSE rows[i]]
  /\ UNCHANGED <<nextId, activity, hasLastSeen, clock, newest>>

\* main calls RecoverOpen before it builds the manager.
RecoverOpen ==
  /\ phase = "migrated"
  /\ phase' = "serving"
  /\ rows' = Recovered(rows, clock)
  /\ UNCHANGED <<nextId, activity, hasLastSeen, clock, newest>>

\* The process exits or is killed; also what a failed statement above leads to.
Stop ==
  /\ phase # "closed"
  /\ phase' = "closed"
  /\ newest' = [i \in {} |-> Zero]
  /\ UNCHANGED <<rows, nextId, activity, hasLastSeen, clock>>

Past(at) == at \in Instant /\ ~Earlier(clock, at)

Serving == phase = "serving" /\ UNCHANGED <<hasLastSeen, phase, clock>>

\* What `newest' holds after the open rows were observed at the times `seen'.
Heard(seen) ==
  [i \in DOMAIN newest |->
     IF /\ i \in DOMAIN seen
        /\ i \in DOMAIN rows /\ IsOpen(rows[i])
        /\ Earlier(newest[i], seen[i])
     THEN seen[i] ELSE newest[i]]

\* Mutant: INTEGER PRIMARY KEY without AUTOINCREMENT.
StartReusing(w, at) ==
  LET id == CHOOSE i \in 1 .. nextId :
              /\ \A j \in DOMAIN rows : j < i
              /\ i = 1 \/ i - 1 \in DOMAIN rows
  IN  /\ Serving
      /\ nextId <= MaxEvents
      /\ rows' = Inserted(rows, [i \in {id} |-> [who |-> w, at |-> at]])
      /\ nextId' = nextId + 1
      /\ newest' = [i \in DOMAIN newest \cup {id} |->
                      IF i = id THEN at ELSE newest[i]]
      /\ UNCHANGED activity

\* Mutant: the sequence is not saved with the row.
StartUncounted(w, at) ==
  /\ Serving
  /\ nextId <= MaxEvents
  /\ rows' = Inserted(rows, [i \in {nextId} |-> [who |-> w, at |-> at]])
  /\ UNCHANGED <<nextId, activity, newest>>

Start(w, at) ==
  /\ Serving
  /\ nextId <= MaxEvents
  /\ rows' = Inserted(rows, [i \in {nextId} |-> [who |-> w, at |-> at]])
  /\ nextId' = nextId + 1
  /\ newest' = [i \in DOMAIN newest \cup {nextId} |->
                  IF i = nextId THEN at ELSE newest[i]]
  /\ UNCHANGED activity

EndStream(id, at, seen) ==
  /\ Serving
  /\ rows' = EndedAt(rows, at, [i \in {id} |-> seen])
  /\ newest' = Heard([i \in {id} |-> seen])
  /\ UNCHANGED <<nextId, activity>>

TouchEvents(seen) ==
  /\ Serving
  /\ rows' = Touched(rows, seen)
  /\ newest' = Heard(seen)
  /\ UNCHANGED <<nextId, activity>>

UpdateEventIdentity(id, w) ==
  /\ Serving
  /\ rows' = Renamed(rows, [i \in {id} |-> w])
  /\ UNCHANGED <<nextId, activity, newest>>

\* INSERT ... ON CONFLICT DO UPDATE: first_seen is set once.
TouchActivity(u, at) ==
  /\ Serving
  /\ activity' =
       [v \in DOMAIN activity \cup {u} |->
          IF v # u THEN activity[v]
          ELSE IF u \notin DOMAIN activity THEN [first |-> at, last |-> at]
          ELSE [activity[u] EXCEPT
                  !.last = IF TextBefore(activity[u].last, at)
                           THEN at ELSE activity[u].last]]
  /\ UNCHANGED <<rows, nextId, newest>>

\* Prune deletes from both tables; a failure may stop it after the first.
Prune(both) ==
  /\ Serving
  /\ clock.sec >= Retention
  /\ LET cut == [clock EXCEPT !.sec = clock.sec - Retention]
         stay == {u \in DOMAIN activity : ~TextBefore(activity[u].last, cut)}
     IN  /\ rows' = Pruned(rows, cut)
         /\ activity' = IF both THEN [u \in stay |-> activity[u]] ELSE activity
  /\ UNCHANGED <<nextId, newest>>

Tick ==
  /\ \/ clock.frac + 1 < Frac /\ clock' = [clock EXCEPT !.frac = clock.frac + 1]
     \/ clock.sec < MaxSec /\ clock' = [sec |-> clock.sec + 1, frac |-> 0]
  /\ UNCHANGED <<rows, nextId, activity, hasLastSeen, phase, newest>>

Ids == 1 .. nextId - 1
Times == {at \in [sec : 0 .. MaxSec, frac : 0 .. Frac - 1] : Past(at)}

Operation ==
  \/ \E w \in Who, at \in Times : Start(w, at)
  \/ \E id \in Ids, at, seen \in Times : EndStream(id, at, seen)
  \/ \E S \in SUBSET Ids, at \in Times : TouchEvents([i \in S |-> at])
  \/ \E id \in Ids, w \in Who : UpdateEventIdentity(id, w)
  \/ \E u \in Users, at \in Times : TouchActivity(u, at)
  \/ \E both \in BOOLEAN : Prune(both)

Next ==
  \/ CreateTables \/ AddColumn \/ Backfill \/ RecoverOpen \/ Stop
  \/ Operation
  \/ Tick

Spec == Init /\ [][Next]_vars

-------------------------------------------------------------------------------
\* Every variable has its type; ids come from below the sequence; before the
\* column exists no row has a value in it.
TypeOK ==
  /\ nextId \in Nat \ {0}
  /\ DOMAIN rows \subseteq 1 .. nextId - 1
  /\ \A i \in DOMAIN rows : rows[i] \in Row
  /\ DOMAIN activity \subseteq Users
  /\ \A u \in DOMAIN activity : activity[u] \in [first : Instant, last : Instant]
  /\ hasLastSeen \in BOOLEAN
  /\ phase \in Phases
  /\ clock \in Instant
  /\ DOMAIN newest \subseteq 1 .. nextId - 1
  /\ \A i \in DOMAIN newest : newest[i] \in Instant

\* A process that died between ALTER TABLE and the backfill leaves rows without
\* last_seen_at; the next one repairs them before anything reads history, which
\* scans the column into a plain string (store.go:232).
MigratedRowsHaveLastSeen ==
  phase \in {"migrated", "serving"} =>
    \A i \in DOMAIN rows : rows[i].lastSeen # Null

\* docs/architecture.md:196, "`RecoverOpen` closes every event lacking `ended_at`":
\* while the daemon serves, an open interval is one this very process started.
NoForeignOpen ==
  phase = "serving" =>
    \A i \in DOMAIN rows : IsOpen(rows[i]) => i \in DOMAIN newest

\* last_seen_at is the newest observation reported for the event, in whatever
\* order the reports came, up to the fraction of a second.
LastSeenToTheSecond ==
  \A i \in DOMAIN rows \cap DOMAIN newest :
    rows[i].lastSeen # Null /\ rows[i].lastSeen.sec = newest[i].sec

\* Once ended an interval is evidence: no late touch, second end, identity
\* upgrade or recovery changes it, until retention deletes it.
ClosedRowsFrozen ==
  [][\A i \in DOMAIN rows \cap DOMAIN rows' :
       ~IsOpen(rows[i]) /\ rows[i].lastSeen # Null => rows'[i] = rows[i]]_vars

\* AUTOINCREMENT: an id the process holds never comes to name another event
\* after retention deleted its own, so a late End or touch finds nothing.
IdsNotReused ==
  [][\A i \in DOMAIN newest \ DOMAIN rows : i \notin DOMAIN rows']_vars

\* Retention goes by the newest observation: what Prune deletes was observed
\* by nobody during the retention period, whatever older report came late.
PruneSparesRecent ==
  [][\A i \in DOMAIN newest \cap (DOMAIN rows \ DOMAIN rows') :
       newest[i].sec + Retention <= clock.sec]_vars

\* docs/architecture.md:189, "`last_seen_at` is monotonic", taken to the letter.
LastSeenMonotonic ==
  [][\A i \in DOMAIN rows \cap DOMAIN rows' :
       rows[i].lastSeen # Null => ~Earlier(rows'[i].lastSeen, rows[i].lastSeen)]_vars
===============================================================================
