------------------------------ MODULE HistoryView ------------------------------
(***************************************************************************)
(* The stream table of the history page: a request that reads memory       *)
(* (Manager.Current) and then, in a step of its own, the store, and lays   *)
(* the one over the other.  Polls, checkpoints, disconnects, outages and   *)
(* the death of the process may come between the two.                      *)
(***************************************************************************)
EXTENDS StreamAudit, SequencesExt

CONSTANT Limit  \* rows of a page
ASSUME LimitAssumption == Limit \in Nat \ {0}

VARIABLE
  view  \* Null, or of the request being served:
        \*   live: eid -> lastSeen of the sessions that Current returned
        \*   then: history: event -> what was known of it at that moment

viewVars == <<vars, view>>

\* h.manager.Current: the sessions are copied under the mutex.
Look ==
  /\ running # "down" /\ view = Null
  /\ view' = [live |-> LastSeenOf(sessions, DOMAIN sessions),
              then |-> [e \in DOMAIN rows |-> Known(e)]]
  /\ UNCHANGED vars

\* ORDER BY last_seen_at DESC, id DESC: of the store, and again of the page.
Newer(seen, d, e) == seen[d] > seen[e] \/ (seen[d] = seen[e] /\ d > e)
NewestFirst(seen, K) ==
  CHOOSE ids \in [1 .. Cardinality(K) -> K] :
    \A i, j \in DOMAIN ids : i < j => Newer(seen, ids[i], ids[j])

\* RecentStreams: the newest as far as the store knows.
Stored == [e \in DOMAIN rows |-> rows[e].lastSeen]
RecentStreams ==
  LET all == NewestFirst(Stored, DOMAIN rows)
  IN  ToSet(SubSeq(all, 1, IF Len(all) < Limit THEN Len(all) ELSE Limit))

\* Mutant: memory is asked for the live rows only.
ShownAsStored(e) ==
  [id |-> e, live |-> e \in DOMAIN view.live, lastSeen |-> rows[e].lastSeen]

\* overlayActiveStreamLastSeen: memory wins where it knew the row.
Shown(e) ==
  [id |-> e, live |-> e \in DOMAIN view.live,
   lastSeen |-> IF e \in DOMAIN view.live THEN view.live[e] ELSE rows[e].lastSeen]

\* The query, the overlay and the second sort.
Page ==
  LET seen == [e \in RecentStreams |-> Shown(e).lastSeen]
      ids  == NewestFirst(seen, RecentStreams)
  IN  [i \in DOMAIN ids |-> Shown(ids[i])]

\* The request is answered with the Page of this state, and over.
Answer ==
  /\ view # Null
  /\ view' = Null
  /\ UNCHANGED vars

ViewNext ==
  \/ Next /\ view' = IF running' = "down" THEN Null ELSE view
  \/ Look \/ Answer

ViewSpec == Init /\ view = Null /\ [][ViewNext]_viewVars /\ Fairness

-------------------------------------------------------------------------------
\* "The history page overlays active history rows with the in-memory value
\* between checkpoints and labels those history rows `live`"
\* (docs/architecture.md:104): whatever happens between the two reads, a page
\* shows of every row a moment at which its consumer was seen, no older than what
\* was known when the request came; what it calls live was watched then, what it
\* does not has ended or just begun; and it stays ordered by what it shows.
PageIsARead ==
  view # Null =>
    LET page == Page IN
    /\ \A i \in DOMAIN page :
         LET row == page[i] IN
         /\ row.lastSeen \in observed[row.id]
         /\ row.id \in DOMAIN view.then => row.lastSeen >= view.then[row.id]
         /\ row.live => row.lastSeen = view.then[row.id]
         /\ ~row.live /\ NoFaults /\ row.id \in DOMAIN view.then => ~IsOpen(rows[row.id])
    /\ \A i, j \in DOMAIN page : i < j => page[i].lastSeen >= page[j].lastSeen
===============================================================================
