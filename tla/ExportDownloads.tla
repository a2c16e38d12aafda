---------------------------- MODULE ExportDownloads ----------------------------
(***************************************************************************)
(* Downloads of finished exports, composed with HttpAudit.  Before         *)
(* StartHTTP the gateway asks Frigate for the export's name                *)
(* (enrichExportDownloads) and puts it into the details of the access,     *)
(* which are part of the lease's key.  Answers are cached, failures too;   *)
(* the cache's mutex is not held while Frigate is asked.                   *)
(*                                                                         *)
(* An access here is [actor, kind, file, name]; a name is [of, version]:   *)
(* the version counts the renamings of an export in Frigate.  The store    *)
(* and the process do not fail here: HttpAudit says what happens if they   *)
(* do, and a new process starts with an empty cache.  Other requests, of   *)
(* kinds that need no proxy to end, are served at the same time.           *)
(***************************************************************************)
EXTENDS HttpAudit

CONSTANTS
  Files,        \* the export files, one camera's
  Downloader,   \* the actor of the range requests, a service
  Ttl,          \* how long cachedExportMetadata believes an answer
  MaxRenamings  \* bound on the renamings of each export

ASSUME TtlAssumption == Ttl \in Nat \ {0} /\ MaxRenamings \in Nat

VARIABLES
  version,      \* Frigate: how often each export was renamed
  exportCache,  \* g.exportCache: file -> [name, expires]
  answers,      \* what each goroutine got from fetchExportMetadata
  renamed,      \* history: when a version of a file came: <<file, v>> -> time
  failures      \* history: when lookups of a file failed: the set of <<file, time>>

naming == <<version, renamed>>
lookup == <<exportCache, answers>>
downloads == <<version, exportCache, answers, renamed, failures>>
downloadVars == <<vars, downloads>>

Unnamed == [of |-> Null, version |-> 0]
Access(file, name) ==
  [actor |-> Downloader, kind |-> "playback", file |-> file, name |-> name]
NamesOf(file) == {Unnamed} \cup [of : {file}, version : 0 .. MaxRenamings]
Downloads == UNION {{Access(x, name) : name \in NamesOf(x)} : x \in Files}

ASSUME DownloadAssumption ==
  Downloads \subseteq Requests /\ Downloader \notin People /\ Null \notin Files

DownloadInit ==
  /\ Init
  /\ version = [x \in Files |-> 0]
  /\ exportCache = Nothing
  /\ answers = [p \in Procs |-> Unnamed]
  /\ renamed = [q \in Files \X {0} |-> 0]
  /\ failures = {}

-------------------------------------------------------------------------------
\* Somebody renames an export in Frigate.
Rename(x) ==
  /\ version[x] < MaxRenamings /\ clock <= Horizon
  /\ version' = [version EXCEPT ![x] = @ + 1]
  /\ renamed' = With(renamed, <<x, version'[x]>>, clock)
  /\ UNCHANGED <<vars, lookup, failures>>

\* A range request of a file is taken up; `now' is read first.
ArriveDownload(p, x) ==
  /\ At(p, "idle") /\ running # "down" /\ clock <= Horizon
  /\ Spend("request", 1)
  /\ procs' = [procs EXCEPT ![p] =
                 [Idle EXCEPT !.at = "lookup", !.req = Access(x, Unnamed), !.now = clock,
                              !.todo = 1]]
  /\ UNCHANGED <<tracked, store, clock, running, fired, history, downloads>>

Name(p, name) ==
  procs' = [procs EXCEPT ![p].req = Access(procs[p].req.file, name), ![p].at = "access"]

\* Mutant: a hit lengthens the life of the entry.
LookupSliding(p) ==
  LET x == procs[p].req.file IN
  /\ At(p, "lookup")
  /\ IF x \in DOMAIN exportCache /\ procs[p].now < exportCache[x].expires
     THEN /\ Name(p, exportCache[x].name)
          /\ exportCache' = [exportCache EXCEPT ![x].expires = procs[p].now + Ttl]
     ELSE Go(p, "fetch", 0) /\ UNCHANGED exportCache
  /\ UNCHANGED <<tracked, store, env, history, naming, answers, failures>>

\* The first half of cachedExportMetadata, under exportMu.
Lookup(p) ==
  LET x == procs[p].req.file IN
  /\ At(p, "lookup")
  /\ IF x \in DOMAIN exportCache /\ procs[p].now < exportCache[x].expires
     THEN Name(p, exportCache[x].name)
     ELSE Go(p, "fetch", 0)
  /\ UNCHANGED <<tracked, store, env, history, downloads>>

\* fetchExportMetadata, without it.  It fails when Frigate does, when its two
\* seconds are over and when the requester goes away.
Fetch(p, ok) ==
  LET x == procs[p].req.file IN
  /\ At(p, "fetch")
  /\ Try(ok)
  /\ answers' = [answers EXCEPT ![p] =
                   IF ok THEN [of |-> x, version |-> version[x]] ELSE Unnamed]
  /\ failures' = IF ok THEN failures ELSE failures \cup {<<x, clock>>}
  /\ Go(p, "cache", 0)
  /\ UNCHANGED <<tracked, store, history, naming, exportCache>>

\* The second half: the entry expires Ttl after the request's arrival.
Cache(p) ==
  LET x == procs[p].req.file IN
  /\ At(p, "cache")
  /\ exportCache' = With(exportCache, x, [name |-> answers[p], expires |-> procs[p].now + Ttl])
  /\ Name(p, answers[p])
  /\ answers' = [answers EXCEPT ![p] = Unnamed]
  /\ UNCHANGED <<tracked, store, env, history, naming, failures>>

\* What HttpAudit does with this access and with others, the process and time.
Audit ==
  /\ \/ \E p \in Procs, r \in Requests : r.kind \in {"plain", "snapshot"} /\ Arrive(p, r)
     \/ \E p \in Procs : RecordActivity(p, TRUE) \/ Touch(p, TRUE) \/ Renew(p)
                         \/ StartLease(p, TRUE) \/ Offer(p) \/ EndHTTP(p)
     \/ Tick({}) \/ Boot \/ Pass \/ Rest
  /\ UNCHANGED downloads

DownloadNext ==
  \/ \E x \in Files : Rename(x)
  \/ \E p \in Procs, x \in Files : ArriveDownload(p, x)
  \/ \E p \in Procs : Lookup(p) \/ Cache(p)
  \/ \E p \in Procs, ok \in BOOLEAN : Fetch(p, ok)
  \/ Audit

DownloadSpec == DownloadInit /\ [][DownloadNext]_downloadVars

-------------------------------------------------------------------------------
Of(e) == IF rows[e].who.kind = "playback" THEN rows[e].who.file ELSE Null

\* When the version of a name was last the one Frigate would have given.
LastBorne(name) ==
  IF version[name.of] = name.version THEN clock
  ELSE renamed[<<name.of, name.version + 1>>]

\* A name borne, or a lookup failed, less than Ttl before the time `at'.
Fresh(x, name, at) ==
  IF name = Unnamed
  THEN \E f \in failures : f[1] = x /\ f[2] > at - Ttl
  ELSE name.of = x /\ LastBorne(name) > at - Ttl

\* The name a request puts into the audit, and the one in every row, is one its
\* own export bore less than Ttl before the request came in, however requests
\* overtake each other on the way to the cache; where there is no name a lookup
\* failed as late as that (gateway.go:412-426).
NamesAreFresh ==
  /\ \A e \in DOMAIN rows : Of(e) # Null => Fresh(Of(e), rows[e].who.name, rows[e].started)
  /\ \A p \in Procs : At(p, "access") /\ procs[p].req.kind = "playback" =>
       Fresh(procs[p].req.file, procs[p].req.name, procs[p].now)

\* Range requests renew one lease: what splits a download into several rows is
\* an export renamed, or a lookup failing, and each splits it once
\* (README.md:14, gateway.go:402-408).
RowsPerDownload ==
  running = "up" =>
    \A x \in Files :
      Cardinality({e \in OpenRows : Of(e) = x})
        <= 1 + version[x] + Cardinality({f \in failures : f[1] = x})
===============================================================================
