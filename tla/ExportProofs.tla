------------------------------ MODULE ExportProofs ------------------------------
(***************************************************************************)
(* Downloads of exports, for any number of range requests, files and       *)
(* renamings, and whatever lookups fail: the names that the audit gets are *)
(* no older than the cache allows, and a download makes no more rows than  *)
(* its export had names.  What HttpProofs shows of the audit of requests   *)
(* holds with the downloads too.                                           *)
(***************************************************************************)
EXTENDS ExportDownloads, HttpProofs

\* Frigate: the versions there were, and when each came.
Naming ==
  /\ version \in [Files -> 0 .. MaxRenamings]
  /\ \A x \in Files : \A v \in 0 .. version[x] :
       <<x, v>> \in DOMAIN renamed /\ renamed[<<x, v>>] \in 0 .. clock
  /\ failures \subseteq Files \X (0 .. clock) /\ IsFiniteSet(failures)

\* When a version of x was last its name, a name or a failure no older than t.
Borne(x, v) == IF version[x] = v THEN clock ELSE renamed[<<x, v + 1>>]
Failed(x, t) == \E f \in failures : f[1] = x /\ f[2] >= t
Since(x, name, t) ==
  /\ name \in NamesOf(x)
  /\ IF name = Unnamed THEN Failed(x, t)
     ELSE name.version <= version[x] /\ Borne(x, name.version) >= t

\* The cache: an answer is as old as the request that fetched it, or younger.
Cached(x) ==
  /\ x \in Files /\ exportCache[x].expires \in Nat
  /\ Since(x, exportCache[x].name, exportCache[x].expires - Ttl)

\* The goroutines of downloads, on the way to StartHTTP and there.
Caller(p) ==
  /\ procs[p].todo <= 1
  /\ procs[p].at \in {"activity", "touch"} => procs[p].req.kind # "playback"
  /\ procs[p].at \in {"lookup", "fetch", "cache"} =>
       procs[p].req.file \in Files /\ procs[p].req = Access(procs[p].req.file, Unnamed)
  /\ At(p, "cache") => Since(procs[p].req.file, answers[p], procs[p].now)
  /\ At(p, "access") /\ procs[p].req.kind = "playback" =>
       /\ procs[p].req.file \in Files
       /\ procs[p].req = Access(procs[p].req.file, procs[p].req.name)
       /\ Since(procs[p].req.file, procs[p].req.name, procs[p].now - Ttl + 1)

\* And their rows.
Download(e) ==
  rows[e].who.kind = "playback" =>
    /\ rows[e].who.file \in Files
    /\ rows[e].who = Access(rows[e].who.file, rows[e].who.name)
    /\ Since(rows[e].who.file, rows[e].who.name, rows[e].started - Ttl + 1)

DInv ==
  /\ Naming
  /\ answers \in [Procs -> {Unnamed} \cup [of : Files, version : 0 .. MaxRenamings]]
  /\ \A x \in DOMAIN exportCache : Cached(x)
  /\ \A p \in Procs : Caller(p)
  /\ \A e \in Ids : Download(e)

-------------------------------------------------------------------------------
\* The names of different exports differ, and none is the missing one.
LEMMA NameOf ==
  ASSUME NEW x \in Files, NEW name \in NamesOf(x)
  PROVE  /\ name # Unnamed => name.of = x /\ name.version \in 0 .. MaxRenamings
         /\ Access(x, name) \in Requests
         /\ \A y \in Files : y # x => name = Unnamed \/ name \notin NamesOf(y)
<1>1. Access(x, name) \in Downloads
  BY DEF Downloads
<1>2. name # Unnamed => name.of = x /\ name.version \in 0 .. MaxRenamings
  BY DEF NamesOf
<1>3. \A y \in Files : y # x => name = Unnamed \/ name \notin NamesOf(y)
  BY DEF NamesOf
<1>4. QED
  BY <1>1, <1>2, <1>3, DownloadAssumption

LEMMA VersionOf ==
  ASSUME NEW x \in Files, NEW v \in 0 .. MaxRenamings
  PROVE  /\ [of |-> x, version |-> v] \in NamesOf(x)
         /\ [of |-> x, version |-> v] # Unnamed
<1>1. [of |-> x, version |-> v].of # Unnamed.of
  BY DownloadAssumption DEF Unnamed
<1>2. QED
  BY <1>1 DEF NamesOf

LEMMA AccessFields ==
  ASSUME NEW x, NEW name
  PROVE  /\ Access(x, name).file = x /\ Access(x, name).name = name
         /\ Access(x, name).kind = "playback"
BY DEF Access

\* Frigate goes on: what was borne or failed at a time, was so at no earlier one.
Onward ==
  /\ failures \subseteq failures'
  /\ \A x \in Files : \A v \in 0 .. version[x] : v <= version'[x] /\ Borne(x, v) <= Borne(x, v)'

LEMMA BorneTime ==
  ASSUME Naming, clock \in Nat, NEW x \in Files, NEW v \in 0 .. version[x]
  PROVE  Borne(x, v) \in 0 .. clock
<1>1. version[x] \in Nat
  BY DEF Naming
<1>2. version[x] # v => v + 1 \in 0 .. version[x]
  BY <1>1
<1>3. QED
  BY <1>2 DEF Naming, Borne

LEMMA SinceKept ==
  ASSUME Naming, Naming', Onward, clock \in Nat, clock' \in Nat, NEW x \in Files, NEW name,
         NEW t \in Int, Since(x, name, t)
  PROVE  Since(x, name, t)'
<1>1. CASE name = Unnamed
  BY <1>1 DEF Since, Failed, Onward
<1>2. CASE name # Unnamed
  <2>1. name \in NamesOf(x) /\ name.version \in 0 .. version[x] /\ Borne(x, name.version) >= t
    BY <1>2, NameOf DEF Since
  <2>2. name.version <= version'[x] /\ Borne(x, name.version) <= Borne(x, name.version)'
    BY <2>1 DEF Onward
  <2>3. version'[x] \in Nat
    BY DEF Naming
  <2>4. Borne(x, name.version) \in Nat
    BY <2>1, BorneTime
  <2>5. name.version \in 0 .. version'[x]
    BY <2>1, <2>2, <2>3
  <2>6. Borne(x, name.version)' \in Nat
    <3>1. version'[x] # name.version => name.version + 1 \in 0 .. version'[x]
      BY <2>3, <2>5
    <3>2. QED
      BY <2>5, <3>1 DEF Naming, Borne
  <2>7. Borne(x, name.version)' >= t
    BY <2>1, <2>2, <2>4, <2>6
  <2>8. QED
    BY <1>2, <2>1, <2>2, <2>7 DEF Since
<1>3. QED
  BY <1>1, <1>2

LEMMA SinceEarlier ==
  ASSUME Naming, clock \in Nat, NEW x \in Files, NEW name, NEW t \in Int, NEW s \in Int, s <= t,
         Since(x, name, t)
  PROVE  Since(x, name, s)
<1>1. CASE name = Unnamed
  <2>1. \A f \in failures : f[2] \in Nat
    BY DEF Naming
  <2>2. Failed(x, s)
    BY <1>1, <2>1 DEF Since, Failed
  <2>3. QED
    BY <1>1, <2>2 DEF Since
<1>2. CASE name # Unnamed
  <2>1. name \in NamesOf(x) /\ name.version \in 0 .. version[x] /\ Borne(x, name.version) >= t
    BY <1>2, NameOf DEF Since
  <2>2. Borne(x, name.version) \in Nat
    BY <2>1, BorneTime
  <2>3. Borne(x, name.version) >= s
    BY <2>1, <2>2
  <2>4. QED
    BY <1>2, <2>1, <2>3 DEF Since
<1>3. QED
  BY <1>1, <1>2

\* Time passes, and nobody renames an export.
LEMMA Unrenamed ==
  ASSUME Naming, clock \in Nat, clock' \in Nat, clock <= clock', UNCHANGED naming,
         failures \subseteq failures', failures' \subseteq Files \X (0 .. clock'),
         IsFiniteSet(failures')
  PROVE  Naming' /\ Onward
<1>1. ASSUME NEW x \in Files, NEW v \in 0 .. version[x]
      PROVE  <<x, v>> \in DOMAIN renamed /\ renamed[<<x, v>>] \in 0 .. clock'
  <2>1. <<x, v>> \in DOMAIN renamed /\ renamed[<<x, v>>] \in 0 .. clock
    BY DEF Naming
  <2>2. QED
    BY <2>1
<1>2. Naming'
  BY <1>1 DEF Naming, naming
<1>3. ASSUME NEW x \in Files, NEW v \in 0 .. version[x]
      PROVE  v <= version'[x] /\ Borne(x, v) <= Borne(x, v)'
  <2>1. version' = version /\ renamed' = renamed /\ version[x] \in Nat
    BY DEF naming, Naming
  <2>2. Borne(x, v) \in Nat
    BY BorneTime
  <2>3. Borne(x, v) = Borne(x, v)' \/ (Borne(x, v) = clock /\ Borne(x, v)' = clock')
    BY <2>1 DEF Borne
  <2>4. QED
    BY <2>1, <2>2, <2>3
<1>4. QED
  BY <1>2, <1>3 DEF Onward

\* Somebody renames an export.
LEMMA RenamedOn ==
  ASSUME Naming, clock \in Nat, NEW x \in Files, Rename(x)
  PROVE  Naming' /\ Onward
<1>1. /\ version[x] \in Nat /\ version[x] < MaxRenamings /\ version[x] + 1 \in 0 .. MaxRenamings
      /\ version' = [version EXCEPT ![x] = @ + 1] /\ version'[x] = version[x] + 1
      /\ renamed' = With(renamed, <<x, version[x] + 1>>, clock)
      /\ UNCHANGED <<failures, clock>>
  BY TtlAssumption DEF Rename, Naming, vars
<1>2. /\ <<x, version[x] + 1>> \in DOMAIN renamed' /\ renamed'[<<x, version[x] + 1>>] = clock
      /\ \A q \in DOMAIN renamed : q # <<x, version[x] + 1>> =>
           q \in DOMAIN renamed' /\ renamed'[q] = renamed[q]
  BY <1>1 DEF With
<1>3. ASSUME NEW y \in Files, NEW v \in 0 .. version[y]
      PROVE  /\ <<y, v>> \in DOMAIN renamed' /\ renamed'[<<y, v>>] = renamed[<<y, v>>]
             /\ renamed[<<y, v>>] \in 0 .. clock
  <2>1. <<y, v>> \in DOMAIN renamed /\ renamed[<<y, v>>] \in 0 .. clock
    BY DEF Naming
  <2>2. <<y, v>> # <<x, version[x] + 1>>
    BY <1>1
  <2>3. QED
    BY <1>2, <2>1, <2>2
<1>4. Naming'
  <2>1. version' \in [Files -> 0 .. MaxRenamings]
    BY <1>1 DEF Naming
  <2>2. ASSUME NEW y \in Files, NEW v \in 0 .. version'[y]
        PROVE  <<y, v>> \in DOMAIN renamed' /\ renamed'[<<y, v>>] \in 0 .. clock
    <3>1. CASE y = x /\ v = version[x] + 1
      BY <1>2, <3>1
    <3>2. CASE ~(y = x /\ v = version[x] + 1)
      <4>1. v \in 0 .. version[y]
        BY <1>1, <3>2 DEF Naming
      <4>2. QED
        BY <1>3, <4>1
    <3>3. QED
      BY <3>1, <3>2
  <2>3. QED
    BY <1>1, <2>1, <2>2 DEF Naming
<1>5. ASSUME NEW y \in Files, NEW v \in 0 .. version[y]
      PROVE  v <= version'[y] /\ Borne(y, v) <= Borne(y, v)'
  <2>1. Borne(y, v) \in Nat
    BY BorneTime
  <2>2. CASE y = x /\ v = version[x]
    <3>1. Borne(y, v) = clock /\ Borne(y, v)' = clock
      BY <1>1, <1>2, <2>2 DEF Borne
    <3>2. QED
      BY <1>1, <2>2, <3>1
  <2>3. CASE y # x
    <3>1. version'[y] = version[y] /\ version[y] \in Nat
      BY <1>1, <2>3 DEF Naming
    <3>2. v # version[y] => renamed'[<<y, v + 1>>] = renamed[<<y, v + 1>>]
      <4>1. v # version[y] => v + 1 \in 0 .. version[y]
        BY <3>1
      <4>2. QED
        BY <1>3, <4>1
    <3>3. Borne(y, v)' = Borne(y, v)
      BY <1>1, <3>1, <3>2 DEF Borne
    <3>4. QED
      BY <2>1, <3>1, <3>3
  <2>4. CASE y = x /\ v # version[x]
    <3>1. v + 1 \in 0 .. version[y] /\ version'[y] # v /\ v <= version'[y]
      BY <1>1, <2>4
    <3>2. Borne(y, v)' = Borne(y, v)
      BY <1>3, <2>4, <3>1 DEF Borne
    <3>3. QED
      BY <2>1, <3>1, <3>2
  <2>5. QED
    BY <2>2, <2>3, <2>4
<1>6. QED
  BY <1>1, <1>4, <1>5 DEF Onward

-------------------------------------------------------------------------------
\* What a step leaves alone stays what it was while Frigate goes on.
LEMMA CachedKept ==
  ASSUME Naming, Naming', Onward, clock \in Nat, clock' \in Nat, NEW x,
         Cached(x), exportCache'[x] = exportCache[x]
  PROVE  Cached(x)'
<1>1. PICK name, t : name = exportCache[x].name /\ t = exportCache[x].expires - Ttl
  OBVIOUS
<1>2. x \in Files /\ t \in Int /\ Since(x, name, t)
  BY <1>1, TtlAssumption DEF Cached
<1>3. Since(x, name, t)'
  BY <1>2, SinceKept
<1>4. QED
  BY <1>1, <1>3 DEF Cached, Since, Failed, Borne

LEMMA CallerKept ==
  ASSUME HInv, Naming, Naming', Onward, clock \in Nat, clock' \in Nat, NEW p \in Procs,
         Caller(p), procs'[p] = procs[p], answers'[p] = answers[p]
  PROVE  Caller(p)'
<1>1. CASE At(p, "cache")
  <2>1. PICK x, name, t : x = procs[p].req.file /\ name = answers[p] /\ t = procs[p].now
    OBVIOUS
  <2>2. x \in Files /\ t \in Int /\ Since(x, name, t)
    BY <1>1, <2>1, Busy DEF Caller, At
  <2>3. Since(x, name, t)'
    BY <2>2, SinceKept
  <2>4. QED
    BY <1>1, <2>1, <2>3 DEF Caller, Since, Failed, Borne, At
<1>2. CASE At(p, "access") /\ procs[p].req.kind = "playback"
  <2>1. PICK x, name, t : x = procs[p].req.file /\ name = procs[p].req.name
                          /\ t = procs[p].now - Ttl + 1
    OBVIOUS
  <2>2. procs[p].now \in Nat
    BY <1>2, Busy DEF At
  <2>3. x \in Files /\ t \in Int /\ Since(x, name, t)
    BY <1>2, <2>1, <2>2, TtlAssumption DEF Caller
  <2>4. Since(x, name, t)'
    BY <2>3, SinceKept
  <2>5. QED
    BY <1>2, <2>1, <2>4 DEF Caller, Since, Failed, Borne, At
<1>3. CASE ~At(p, "cache") /\ ~(At(p, "access") /\ procs[p].req.kind = "playback")
  BY <1>3 DEF Caller, At
<1>4. QED
  BY <1>1, <1>2, <1>3

LEMMA DownloadKept ==
  ASSUME HInv, Naming, Naming', Onward, clock \in Nat, clock' \in Nat, NEW e \in Ids,
         Download(e), rows'[e].who = rows[e].who, rows'[e].started = rows[e].started
  PROVE  Download(e)'
<1>1. CASE rows[e].who.kind = "playback"
  <2>1. PICK x, name, t : x = rows[e].who.file /\ name = rows[e].who.name
                          /\ t = rows[e].started - Ttl + 1
    OBVIOUS
  <2>2. rows[e].started \in Nat
    BY DEF HInv, Tables, RowTypes
  <2>3. x \in Files /\ t \in Int /\ Since(x, name, t)
    BY <1>1, <2>1, <2>2, TtlAssumption DEF Download
  <2>4. Since(x, name, t)'
    BY <2>3, SinceKept
  <2>5. QED
    BY <1>1, <2>1, <2>4 DEF Download, Since, Failed, Borne
<1>2. CASE rows[e].who.kind # "playback"
  BY <1>2 DEF Download
<1>3. QED
  BY <1>1, <1>2

\* One goroutine steps, and at most one entry of the cache is written.
LEMMA OneCaller ==
  ASSUME HInv, DInv, Naming', Onward, UNCHANGED <<rows, nextId, clock>>, NEW p \in Procs, Others(p),
         answers' \in [Procs -> {Unnamed} \cup [of : Files, version : 0 .. MaxRenamings]],
         \A q \in Procs \ {p} : answers'[q] = answers[q],
         NEW y, \A x \in DOMAIN exportCache' \ {y} :
                  x \in DOMAIN exportCache /\ exportCache'[x] = exportCache[x],
         y \in DOMAIN exportCache' => Cached(y)', Caller(p)'
  PROVE  DInv'
<1>1. clock \in Nat /\ clock' \in Nat
  BY DEF HInv, Environment
<1>2. ASSUME NEW x \in DOMAIN exportCache'
      PROVE  Cached(x)'
  BY <1>1, <1>2, CachedKept DEF DInv
<1>3. ASSUME NEW q \in Procs
      PROVE  Caller(q)'
  BY <1>1, <1>3, CallerKept DEF DInv, Others
<1>4. ASSUME NEW e \in Ids'
      PROVE  Download(e)'
  BY <1>1, <1>4, DownloadKept DEF DInv, Ids
<1>5. QED
  BY <1>2, <1>3, <1>4 DEF DInv

LEMMA SameNaming ==
  ASSUME HInv, DInv, UNCHANGED <<naming, failures, clock>>
  PROVE  Naming' /\ Onward
<1>1. clock \in Nat /\ clock' \in Nat /\ clock <= clock'
  BY DEF HInv, Environment
<1>2. failures' \subseteq Files \X (0 .. clock') /\ IsFiniteSet(failures') /\ failures \subseteq failures'
  BY DEF DInv, Naming
<1>3. QED
  BY <1>1, <1>2, Unrenamed DEF DInv

\* A download that waits for its name has nothing in hand.
LEMMA LookingHInv ==
  ASSUME HInv, NEW p \in Procs, procs[p].at \in {"lookup", "fetch", "cache"},
         procs[p].req.kind = "playback", Others(p), procs' \in [Procs -> Goroutine],
         procs'[p].at \in {"access", "fetch", "cache"}, procs'[p].req \in Requests,
         procs'[p].req.kind = "playback", procs'[p].now = procs[p].now,
         procs'[p].eids = procs[p].eids, procs'[p].todo = procs[p].todo,
         UNCHANGED <<tracked, store, history, clock, running>>, Environment'
  PROVE  HInv'
<1>1. /\ procs[p].req \in Requests /\ procs[p].now \in Nat /\ procs[p].now <= clock
      /\ clock <= procs[p].now + Slow /\ running # "down"
  BY Busy DEF At
<1>2. Around /\ Tables' /\ Maps'
  BY Quiet
<1>3. procs[p].eids = {} /\ procs[p].todo >= 1
  <2>1. HttpLease("playback") # 0
    BY TimeAssumption DEF HttpLease
  <2>2. QED
    BY <2>1 DEF HInv, Handler, Duty, InHand
<1>4. Timed(p)'
  BY <1>1 DEF Timed, At
<1>5. Duty(p)'
  BY <1>3 DEF Duty, At
<1>6. Single(p)'
  BY DEF Single, At
<1>7. QED
  BY <1>1, <1>2, <1>4, <1>5, <1>6, Stepped DEF Handler, At

LEMMA NamedAccess ==
  ASSUME HInv, NEW p \in Procs, NEW x \in Files, procs[p].req.file = x,
         NEW name \in NamesOf(x), Name(p, name)
  PROVE  /\ procs' \in [Procs -> Goroutine] /\ Others(p)
         /\ procs'[p].at = "access" /\ procs'[p].req = Access(x, name)
         /\ procs'[p].now = procs[p].now /\ procs'[p].eids = procs[p].eids
         /\ procs'[p].todo = procs[p].todo
<1>1. procs[p] \in Goroutine /\ Access(x, name) \in Requests
  BY NameOf DEF HInv
<1>2. procs' = [procs EXCEPT ![p].req = Access(x, name), ![p].at = "access"]
  BY DEF Name
<1>3. QED
  BY <1>1, <1>2 DEF HInv, Goroutine, Stages, Others

\* A range request is taken up.
LEMMA ArriveDownloadStep ==
  ASSUME HInv, DInv, NEW p \in Procs, NEW x \in Files, ArriveDownload(p, x)
  PROVE  HInv' /\ DInv' /\ Others(p) /\ procs'[p].at = "lookup" /\ At(p, "idle")
<1>1. /\ Around /\ Tables' /\ Maps' /\ At(p, "idle") /\ running # "down" /\ clock' = clock
      /\ running' = running
  BY Quiet DEF ArriveDownload, history
<1>2. Environment'
  BY Spends DEF ArriveDownload, Causes, HInv
<1>3. Access(x, Unnamed) \in Requests /\ Unnamed \in NamesOf(x)
  BY NameOf DEF NamesOf
<1>4. /\ procs' \in [Procs -> Goroutine] /\ Others(p)
      /\ procs'[p].at = "lookup" /\ procs'[p].req = Access(x, Unnamed)
      /\ procs'[p].now = clock /\ procs'[p].eids = {} /\ procs'[p].todo = 1
  BY <1>3 DEF ArriveDownload, HInv, Idle, Goroutine, Stages, Others, Environment
<1>5. procs'[p].req.kind = "playback" /\ procs'[p].req.file = x
  BY <1>4, AccessFields
<1>6. clock \in Nat /\ clock <= clock + Slow
  BY TimeAssumption DEF HInv, Environment
<1>7. Timed(p)'
  BY <1>1, <1>3, <1>4, <1>6 DEF Timed, At
<1>8. Duty(p)'
  BY <1>4 DEF Duty, At
<1>9. Single(p)'
  BY <1>5 DEF Single, At
<1>10. HInv'
  BY <1>1, <1>2, <1>4, <1>7, <1>8, <1>9, Stepped DEF Handler
<1>11. Naming' /\ Onward
  BY <1>1, SameNaming DEF ArriveDownload, downloads, naming
<1>12. Caller(p)'
  BY <1>4, <1>5 DEF Caller, At
<1>13. DInv'
  <2>1. UNCHANGED <<rows, nextId, clock, answers, exportCache>>
    BY DEF ArriveDownload, store, downloads
  <2>2. Null \notin DOMAIN exportCache
    BY DownloadAssumption DEF DInv, Cached
  <2>3. QED
    BY <1>4, <1>11, <1>12, <2>1, <2>2, OneCaller DEF DInv
<1>14. QED
  BY <1>1, <1>4, <1>10, <1>13

\* What is known of a download while it waits for its name.
LEMMA Waiting ==
  ASSUME HInv, DInv, NEW p \in Procs, procs[p].at \in {"lookup", "fetch", "cache"}
  PROVE  /\ procs[p].req.file \in Files /\ procs[p].req.kind = "playback"
         /\ procs[p].req \in Requests /\ procs[p].now \in Nat /\ procs[p].now <= clock
         /\ clock \in Nat /\ procs[p].todo <= 1 /\ procs[p].eid \in Nat
<1>1. /\ procs[p].req \in Requests /\ procs[p].now \in Nat /\ procs[p].now <= clock
      /\ clock \in Nat /\ procs[p].eid \in Nat
  BY Busy DEF At
<1>2. /\ procs[p].todo <= 1 /\ procs[p].req.file \in Files
      /\ procs[p].req = Access(procs[p].req.file, Unnamed)
  BY DEF DInv, Caller
<1>3. procs[p].req.kind = "playback"
  BY <1>2, AccessFields
<1>4. QED
  BY <1>1, <1>2, <1>3

\* The request is named by what the cache or Frigate said.
LEMMA NamedStep ==
  ASSUME HInv, DInv, NEW p \in Procs, procs[p].at \in {"lookup", "cache"},
         NEW x, x = procs[p].req.file, NEW name, Since(x, name, procs[p].now - Ttl + 1),
         Name(p, name), UNCHANGED <<tracked, store, env, history, naming, failures>>,
         answers' \in [Procs -> {Unnamed} \cup [of : Files, version : 0 .. MaxRenamings]],
         \A q \in Procs \ {p} : answers'[q] = answers[q],
         \A y \in DOMAIN exportCache' \ {x} :
           y \in DOMAIN exportCache /\ exportCache'[y] = exportCache[y],
         x \in DOMAIN exportCache' => Cached(x)'
  PROVE  HInv' /\ DInv'
<1>1. /\ x \in Files /\ procs[p].req.kind = "playback" /\ procs[p].now \in Nat
      /\ procs[p].todo <= 1 /\ clock \in Nat
  BY Waiting
<1>2. name \in NamesOf(x)
  BY DEF Since
<1>3. /\ procs' \in [Procs -> Goroutine] /\ Others(p)
      /\ procs'[p].at = "access" /\ procs'[p].req = Access(x, name)
      /\ procs'[p].now = procs[p].now /\ procs'[p].eids = procs[p].eids
      /\ procs'[p].todo = procs[p].todo
  BY <1>1, <1>2, NamedAccess
<1>4. /\ procs'[p].req.kind = "playback" /\ procs'[p].req.file = x /\ procs'[p].req.name = name
      /\ procs'[p].req \in Requests
  BY <1>1, <1>2, <1>3, AccessFields, NameOf
<1>5. Environment' /\ clock' = clock /\ running' = running
  BY DEF HInv, Environment, env
<1>6. HInv'
  BY <1>1, <1>3, <1>4, <1>5, LookingHInv
<1>7. Naming' /\ Onward
  BY <1>5, SameNaming
<1>8. Since(x, name, procs[p].now - Ttl + 1)'
  <2>1. PICK t : t = procs[p].now - Ttl + 1
    OBVIOUS
  <2>2. t \in Int /\ Since(x, name, t)
    BY <1>1, <2>1, TtlAssumption
  <2>3. Since(x, name, t)'
    BY <1>1, <1>5, <1>7, <2>2, SinceKept DEF DInv
  <2>4. QED
    BY <1>3, <2>1, <2>3 DEF Since, Failed, Borne
<1>9. Caller(p)'
  BY <1>1, <1>3, <1>4, <1>8 DEF Caller, Since, Failed, Borne, At
<1>10. DInv'
  <2>1. UNCHANGED <<rows, nextId, clock>>
    BY <1>5 DEF store
  <2>2. QED
    BY <1>3, <1>7, <1>9, <2>1, OneCaller
<1>11. QED
  BY <1>6, <1>10

\* A hit: the entry is as old as its expiry says.
LEMMA LookupStep ==
  ASSUME HInv, DInv, NEW p \in Procs, Lookup(p)
  PROVE  HInv' /\ DInv'
<1>1. PICK x : x = procs[p].req.file
  OBVIOUS
<1>2. /\ At(p, "lookup") /\ UNCHANGED <<tracked, store, env, history, downloads>>
      /\ IF x \in DOMAIN exportCache /\ procs[p].now < exportCache[x].expires
         THEN Name(p, exportCache[x].name) ELSE Go(p, "fetch", 0)
  BY <1>1 DEF Lookup
<1>3. /\ x \in Files /\ procs[p].req.kind = "playback" /\ procs[p].now \in Nat
      /\ procs[p].todo <= 1 /\ clock \in Nat /\ procs[p].req \in Requests
  BY <1>1, <1>2, Waiting DEF At
<1>4. UNCHANGED <<version, renamed, failures, answers, exportCache>>
  BY <1>2 DEF downloads
<1>5. x \in DOMAIN exportCache => Cached(x) /\ Cached(x)'
  <2>1. clock' = clock
    BY <1>2 DEF env
  <2>2. Naming' /\ Onward
    BY <1>4, <2>1, SameNaming DEF naming
  <2>3. QED
    BY <1>3, <1>4, <2>1, <2>2, CachedKept DEF DInv
<1>6. CASE x \in DOMAIN exportCache /\ procs[p].now < exportCache[x].expires
  <2>1. PICK name, t : name = exportCache[x].name /\ t = exportCache[x].expires - Ttl
    OBVIOUS
  <2>2. t \in Int /\ procs[p].now - Ttl + 1 \in Int /\ procs[p].now - Ttl + 1 <= t
    BY <1>3, <1>5, <1>6, <2>1, TtlAssumption DEF Cached
  <2>3. Since(x, name, t)
    BY <1>5, <1>6, <2>1 DEF Cached
  <2>4. Since(x, name, procs[p].now - Ttl + 1)
    BY <1>3, <2>2, <2>3, SinceEarlier DEF DInv
  <2>5. Name(p, name)
    BY <1>2, <1>6, <2>1
  <2>6. QED
    BY <1>1, <1>2, <1>4, <1>5, <2>4, <2>5, NamedStep DEF At, naming, DInv
<1>7. CASE ~(x \in DOMAIN exportCache /\ procs[p].now < exportCache[x].expires)
  <2>1. Go(p, "fetch", 0)
    BY <1>2, <1>7
  <2>2. /\ procs' \in [Procs -> Goroutine] /\ Others(p) /\ procs'[p].at = "fetch"
        /\ procs'[p].req = procs[p].req /\ procs'[p].now = procs[p].now
        /\ procs'[p].eids = procs[p].eids /\ procs'[p].todo = procs[p].todo
    BY <2>1, Going DEF HInv, Stages
  <2>3. Environment' /\ clock' = clock /\ running' = running
    BY <1>2 DEF HInv, Environment, env
  <2>4. HInv'
    BY <1>2, <1>3, <2>2, <2>3, LookingHInv DEF At
  <2>5. Naming' /\ Onward
    BY <1>4, <2>3, SameNaming DEF naming
  <2>6. Caller(p)'
    BY <1>2, <2>2 DEF DInv, Caller, At
  <2>7. DInv'
    BY <1>2, <1>4, <1>5, <2>2, <2>3, <2>5, <2>6, OneCaller DEF DInv, store
  <2>8. QED
    BY <2>4, <2>7
<1>8. QED
  BY <1>6, <1>7

\* Frigate's answer, or the time it failed, is younger than the request.
LEMMA FetchStep ==
  ASSUME HInv, DInv, NEW p \in Procs, NEW ok \in BOOLEAN, Fetch(p, ok)
  PROVE  HInv' /\ DInv'
<1>1. PICK x : x = procs[p].req.file
  OBVIOUS
<1>2. /\ At(p, "fetch") /\ Try(ok) /\ Go(p, "cache", 0)
      /\ answers' = [answers EXCEPT ![p] =
                       IF ok THEN [of |-> x, version |-> version[x]] ELSE Unnamed]
      /\ failures' = IF ok THEN failures ELSE failures \cup {<<x, clock>>}
      /\ UNCHANGED <<tracked, store, history, naming, exportCache>>
  BY <1>1 DEF Fetch
<1>3. /\ x \in Files /\ procs[p].req.kind = "playback" /\ procs[p].now \in Nat
      /\ procs[p].todo <= 1 /\ clock \in Nat /\ procs[p].req \in Requests
      /\ procs[p].now <= clock
  BY <1>1, <1>2, Waiting DEF At
<1>4. Environment' /\ clock' = clock /\ running' = running
  BY <1>2, Trying DEF HInv
<1>5. /\ procs' \in [Procs -> Goroutine] /\ Others(p) /\ procs'[p].at = "cache"
      /\ procs'[p].req = procs[p].req /\ procs'[p].now = procs[p].now
      /\ procs'[p].eids = procs[p].eids /\ procs'[p].todo = procs[p].todo
  BY <1>2, Going DEF HInv, Stages
<1>6. HInv'
  BY <1>2, <1>3, <1>4, <1>5, LookingHInv DEF At
<1>7. Naming' /\ Onward
  <2>1. IsFiniteSet(failures') /\ failures \subseteq failures'
    BY <1>2, FS_AddElement DEF DInv, Naming
  <2>2. failures' \subseteq Files \X (0 .. clock')
    BY <1>2, <1>3, <1>4 DEF DInv, Naming
  <2>3. clock <= clock'
    BY <1>3, <1>4
  <2>4. QED
    BY <1>2, <1>3, <1>4, <2>1, <2>2, <2>3, Unrenamed DEF DInv
<1>8. version[x] \in 0 .. MaxRenamings
  BY <1>3 DEF DInv, Naming
<1>9. /\ answers' \in [Procs -> {Unnamed} \cup [of : Files, version : 0 .. MaxRenamings]]
      /\ \A q \in Procs \ {p} : answers'[q] = answers[q]
      /\ answers'[p] = IF ok THEN [of |-> x, version |-> version[x]] ELSE Unnamed
  BY <1>2, <1>3, <1>8 DEF DInv
<1>10. Since(x, answers[p], procs[p].now)'
  <2>1. CASE ok
    <3>1. /\ [of |-> x, version |-> version[x]] \in NamesOf(x)
          /\ [of |-> x, version |-> version[x]] # Unnamed
      BY <1>3, <1>8, VersionOf
    <3>2. version' = version /\ version[x] <= version'[x]
      BY <1>2, <1>8 DEF naming
    <3>3. Borne(x, version[x])' = clock
      BY <1>4, <3>2 DEF Borne
    <3>4. QED
      BY <1>3, <1>4, <1>5, <1>9, <2>1, <3>1, <3>2, <3>3 DEF Since, Borne
  <2>2. CASE ~ok
    <3>1. <<x, clock>> \in failures'
      BY <1>2, <2>2
    <3>2. QED
      BY <1>3, <1>5, <1>9, <2>2, <3>1 DEF Since, Failed, NamesOf
  <2>3. QED
    BY <2>1, <2>2
<1>11. Caller(p)'
  BY <1>1, <1>2, <1>5, <1>10 DEF DInv, Caller, Since, Failed, Borne, At
<1>12. DInv'
  <2>1. UNCHANGED <<rows, nextId, clock, exportCache>> /\ Null \notin DOMAIN exportCache
    BY <1>2, <1>4, DownloadAssumption DEF store, DInv, Cached
  <2>2. QED
    BY <1>5, <1>7, <1>9, <1>11, <2>1, OneCaller
<1>13. QED
  BY <1>6, <1>12

\* The entry expires Ttl after the arrival of its request.
LEMMA CacheStep ==
  ASSUME HInv, DInv, NEW p \in Procs, Cache(p)
  PROVE  HInv' /\ DInv'
<1>1. PICK x, name : x = procs[p].req.file /\ name = answers[p]
  OBVIOUS
<1>2. /\ At(p, "cache") /\ Name(p, name)
      /\ exportCache' = With(exportCache, x, [name |-> name, expires |-> procs[p].now + Ttl])
      /\ answers' = [answers EXCEPT ![p] = Unnamed]
      /\ UNCHANGED <<tracked, store, env, history, naming, failures>>
  BY <1>1 DEF Cache
<1>3. x \in Files /\ procs[p].now \in Nat /\ clock \in Nat
  BY <1>1, <1>2, Waiting DEF At
<1>4. Since(x, name, procs[p].now)
  BY <1>1, <1>2 DEF DInv, Caller
<1>5. Since(x, name, procs[p].now - Ttl + 1)
  <2>1. /\ procs[p].now \in Int /\ procs[p].now - Ttl + 1 \in Int
        /\ procs[p].now - Ttl + 1 <= procs[p].now
    BY <1>3, TtlAssumption
  <2>2. QED
    BY <1>3, <1>4, <2>1, SinceEarlier DEF DInv
<1>6. /\ answers' \in [Procs -> {Unnamed} \cup [of : Files, version : 0 .. MaxRenamings]]
      /\ \A q \in Procs \ {p} : answers'[q] = answers[q]
  BY <1>2 DEF DInv
<1>7. /\ exportCache'[x] = [name |-> name, expires |-> procs[p].now + Ttl]
      /\ \A y \in DOMAIN exportCache' \ {x} :
           y \in DOMAIN exportCache /\ exportCache'[y] = exportCache[y]
  BY <1>2 DEF With
<1>8. Cached(x)'
  <2>1. clock' = clock
    BY <1>2 DEF env
  <2>2. Naming' /\ Onward
    BY <1>2, <2>1, SameNaming
  <2>3. PICK t : t = procs[p].now
    OBVIOUS
  <2>4. Since(x, name, t)'
    BY <1>3, <1>4, <2>1, <2>2, <2>3, SinceKept DEF DInv
  <2>5. /\ exportCache'[x].name = name /\ exportCache'[x].expires \in Nat
        /\ exportCache'[x].expires - Ttl = t
    BY <1>3, <1>7, <2>3, TtlAssumption
  <2>6. QED
    BY <1>3, <2>4, <2>5 DEF Cached, Since, Failed, Borne
<1>9. QED
  BY <1>1, <1>2, <1>5, <1>6, <1>7, <1>8, NamedStep DEF At

-------------------------------------------------------------------------------
\* What HttpAudit does is what it does without the downloads; no call to the
\* store fails.
LEMMA AuditSteps ==
  ASSUME HInv, Audit
  PROVE  /\ [Next]_vars /\ UNCHANGED downloads
         /\ left'["fault"] >= left["fault"] /\ clock \in Nat /\ clock' \in Nat /\ clock <= clock'
<1>1. Next
  <2>1. ASSUME Tick({}) PROVE TickSome
    BY <2>1 DEF TickSome
  <2>2. QED
    BY <2>1 DEF Audit, Next, Step
<1>2. left \in [Causes -> Nat] /\ {"request", "fault"} \subseteq Causes
  BY DEF HInv, Environment, Causes
<1>3. Cardinality({}) = 0
  BY FS_EmptySet
<1>4. ASSUME NEW n, Spend("request", n) \/ Spend("fault", 0)
      PROVE  left'["fault"] >= left["fault"]
  BY <1>2, <1>4 DEF Spend
<1>5. left'["fault"] >= left["fault"]
  <2>1. CASE left' = left
    BY <1>2, <2>1
  <2>2. \/ left' = left \/ Spend("fault", 0)
        \/ \E r \in Requests : Spend("request", IF r.kind = "plain" THEN 1 ELSE Accesses(r.kind))
    BY <1>3 DEF Audit, Arrive, RecordActivity, Touch, Renew, StartLease, Offer, EndHTTP, Tick,
                Boot, Pass, Rest, Try, env, vars
  <2>3. QED
    BY <1>4, <2>1, <2>2
<1>6. clock \in Nat /\ (clock' = clock \/ clock' = clock + 1)
  BY DEF HInv, Environment, Audit, Arrive, RecordActivity, Touch, Renew, StartLease, Offer,
         EndHTTP, Tick, Boot, Pass, Rest, Try, env, vars
<1>7. QED
  BY <1>1, <1>5, <1>6 DEF Audit

\* Where it leads a goroutine: to no lookup, and to no further access of a
\* download.
Elsewhere(q) ==
  /\ procs'[q].todo <= 1 /\ procs'[q].at \notin {"lookup", "fetch", "cache"}
  /\ procs'[q].at \in {"activity", "touch", "access"} => procs'[q].req.kind # "playback"

LEMMA StartedElsewhere ==
  ASSUME HInv, NEW p \in Procs, procs[p].todo <= 1, Started(p, {}) \/ \E e : Started(p, {e})
  PROVE  Others(p) /\ Elsewhere(p)
<1>1. PICK ids : Started(p, ids)
  OBVIOUS
<1>2. procs[p].todo \in Nat /\ Others(p)
  BY <1>1, OthersStay DEF HInv, Goroutine
<1>3. /\ procs'[p].at = IF procs[p].todo > 1 THEN "access" ELSE "serve"
      /\ procs'[p].todo = procs[p].todo - 1
  <2>1. procs[p] = [at |-> procs[p].at, req |-> procs[p].req, now |-> procs[p].now,
                    eid |-> procs[p].eid, eids |-> procs[p].eids, todo |-> procs[p].todo]
    BY DEF HInv, Goroutine
  <2>2. procs'[p] = [procs[p] EXCEPT
          !.at = IF procs[p].todo > 1 THEN "access" ELSE "serve",
          !.eid = 0, !.eids = procs[p].eids \cup ids, !.todo = procs[p].todo - 1]
    BY <1>1 DEF Started, HInv
  <2>3. QED
    BY <2>1, <2>2
<1>4. procs'[p].at = "serve" /\ procs'[p].todo <= 1
  BY <1>2, <1>3
<1>5. QED
  BY <1>2, <1>4 DEF Elsewhere

LEMMA GoneElsewhere ==
  ASSUME HInv, NEW p \in Procs, procs[p].todo <= 1, NEW at, NEW eid, Go(p, at, eid),
         \/ at \in {"renew", "offer", "serve"}
         \/ at \in {"touch", "access"} /\ procs[p].req.kind # "playback"
  PROVE  Others(p) /\ Elsewhere(p)
<1>1. Others(p)
  BY GoneEids
<1>2. /\ procs'[p].at = at /\ procs'[p].todo = procs[p].todo /\ procs'[p].req = procs[p].req
  BY DEF Go, HInv, Goroutine
<1>3. QED
  BY <1>1, <1>2 DEF Elsewhere

LEMMA AuditGoroutines ==
  ASSUME HInv, DInv, Audit, NEW q \in Procs
  PROVE  procs'[q] = procs[q] \/ Elsewhere(q)
<1>1. \A p \in Procs : procs[p].todo <= 1
  BY DEF DInv, Caller
<1>2. ASSUME NEW p \in Procs, NEW r \in Requests, r.kind \in {"plain", "snapshot"}, Arrive(p, r)
      PROVE  Others(p) /\ Elsewhere(p)
  <2>1. Accesses(r.kind) \in 0 .. 1
    BY <1>2 DEF Accesses
  <2>2. /\ Others(p) /\ procs'[p].at \in {"activity", "access", "serve"} /\ procs'[p].req = r
        /\ procs'[p].todo = Accesses(r.kind)
    BY <1>2 DEF Arrive, HInv, Idle, Others
  <2>3. QED
    BY <1>2, <2>1, <2>2 DEF Elsewhere
<1>3. ASSUME NEW p \in Procs, RecordActivity(p, TRUE)
      PROVE  Others(p) /\ Elsewhere(p)
  <2>1. At(p, "activity") /\ \E eid : Go(p, "touch", eid)
    BY <1>3 DEF RecordActivity
  <2>2. procs[p].req.kind # "playback"
    BY <2>1 DEF DInv, Caller, At
  <2>3. QED
    BY <1>1, <2>1, <2>2, GoneElsewhere
<1>4. ASSUME NEW p \in Procs, Touch(p, TRUE)
      PROVE  Others(p) /\ Elsewhere(p)
  <2>1. CASE At(p, "renew")
    BY <1>1, <1>4, <2>1, StartedElsewhere DEF Touch
  <2>2. CASE At(p, "touch")
    <3>1. Go(p, IF procs[p].todo > 0 THEN "access" ELSE "serve", 0)
      BY <1>4, <2>2 DEF Touch, At
    <3>2. procs[p].req.kind # "playback"
      BY <2>2 DEF DInv, Caller, At
    <3>3. QED
      BY <1>1, <3>1, <3>2, GoneElsewhere
  <2>3. QED
    BY <1>4, <2>1, <2>2 DEF Touch, At
<1>5. ASSUME NEW p \in Procs, Renew(p) \/ StartLease(p, TRUE) \/ Offer(p)
      PROVE  Others(p) /\ Elsewhere(p)
  <2>1. \/ \E eid : \E at \in {"renew", "offer"} : Go(p, at, eid)
        \/ Started(p, {}) \/ \E e : Started(p, {e})
    BY <1>5 DEF Renew, StartLease, Offer
  <2>2. QED
    BY <1>1, <2>1, GoneElsewhere, StartedElsewhere
<1>6. ASSUME NEW p \in Procs, EndHTTP(p)
      PROVE  Others(p) /\ Elsewhere(p)
  <2>1. \/ procs' = [procs EXCEPT ![p] = Idle]
        \/ procs' = [procs EXCEPT ![p].at = "close", ![p].eid = First(p),
                       ![p].now = IF At(p, "serve") THEN clock ELSE procs[p].now]
    BY <1>6 DEF EndHTTP, Proxied
  <2>2. CASE procs' = [procs EXCEPT ![p] = Idle]
    BY <2>2 DEF HInv, Idle, Others, Elsewhere
  <2>3. CASE \E eid, now : procs' = [procs EXCEPT ![p].at = "close", ![p].eid = eid, ![p].now = now]
    BY <1>1, <2>3 DEF HInv, Goroutine, Others, Elsewhere
  <2>4. QED
    BY <2>1, <2>2, <2>3
<1>7. CASE Tick({}) \/ Boot \/ Pass \/ Rest
  BY <1>7 DEF Tick, Boot, Pass, Rest, vars
<1>8. QED
  BY <1>2, <1>3, <1>4, <1>5, <1>6, <1>7 DEF Audit, Others

\* A row of a download is started by the goroutine that has its name.
LEMMA AuditRows ==
  ASSUME HInv, Audit, NEW e \in Ids' \ Ids
  PROVE  \/ rows'[e].who.kind = "activity"
         \/ \E p \in Procs : /\ At(p, "access") /\ rows'[e].who = procs[p].req
                             /\ rows'[e].started = procs[p].now
<1>1. ASSUME NEW p \in Procs, NEW who \in Whos, ~At(p, "idle"), Start(p, who), clock' = clock
      PROVE  rows'[e].who = who /\ rows'[e].started = procs[p].now
  <2>1. /\ Ids' = Ids \cup {nextId}
        /\ rows'[nextId] = [who |-> who, started |-> procs[p].now,
                            lastSeen |-> procs[p].now, ended |-> Null]
    BY <1>1, Busy, Starts DEF HInv
  <2>2. QED
    BY <2>1
<1>2. nextId' # nextId
  BY DEF Ids
<1>3. CASE \E p \in Procs : RecordActivity(p, TRUE)
  <2>1. PICK p \in Procs : RecordActivity(p, TRUE)
    BY <1>3
  <2>2. ~At(p, "idle") /\ clock' = clock /\ Start(p, Person(procs[p].req.actor))
    BY <1>2, <2>1 DEF RecordActivity, At, Try, Joins, store, Person
  <2>3. Person(procs[p].req.actor) \in Whos
    BY <2>2, Busy DEF Whos
  <2>4. rows'[e].who = Person(procs[p].req.actor)
    BY <1>1, <2>2, <2>3
  <2>5. QED
    BY <2>4 DEF Person
<1>4. CASE \E p \in Procs : StartLease(p, TRUE)
  <2>1. PICK p \in Procs : StartLease(p, TRUE)
    BY <1>4
  <2>2. ~At(p, "idle") /\ At(p, "access") /\ clock' = clock /\ Start(p, procs[p].req)
    BY <2>1 DEF StartLease, At, Try
  <2>3. procs[p].req \in Whos
    BY <2>2, Busy DEF Whos
  <2>4. QED
    BY <1>1, <2>2, <2>3
<1>5. QED
  BY <1>2, <1>3, <1>4 DEF Audit, Arrive, Touch, Renew, Offer, EndHTTP, Tick, Boot, Pass, Rest,
                          Joins, store, vars

LEMMA AuditDInv ==
  ASSUME HInv, DInv, Audit
  PROVE  DInv'
<1>1. /\ [Next]_vars /\ UNCHANGED <<version, exportCache, answers, renamed, failures>>
      /\ clock \in Nat /\ clock' \in Nat /\ clock <= clock'
  BY AuditSteps DEF downloads
<1>2. Naming' /\ Onward
  <2>1. failures' \subseteq Files \X (0 .. clock')
    BY <1>1 DEF DInv, Naming
  <2>2. IsFiniteSet(failures') /\ failures \subseteq failures'
    BY <1>1 DEF DInv, Naming
  <2>3. QED
    BY <1>1, <2>1, <2>2, Unrenamed DEF DInv, naming
<1>3. ASSUME NEW x \in DOMAIN exportCache'
      PROVE  Cached(x)'
  BY <1>1, <1>2, <1>3, CachedKept DEF DInv
<1>4. ASSUME NEW p \in Procs
      PROVE  Caller(p)'
  <2>1. CASE procs'[p] = procs[p]
    BY <1>1, <1>2, <2>1, CallerKept DEF DInv
  <2>2. CASE Elsewhere(p)
    BY <2>2 DEF Elsewhere, Caller, At
  <2>3. QED
    BY <2>1, <2>2, AuditGoroutines
<1>5. ASSUME NEW e \in Ids'
      PROVE  Download(e)'
  <2>1. CASE e \in Ids
    BY <1>1, <1>2, <2>1, StepSameWho, DownloadKept DEF DInv, SameWho
  <2>2. CASE e \notin Ids /\ rows'[e].who.kind = "playback"
    <3>1. PICK p \in Procs : /\ At(p, "access") /\ rows'[e].who = procs[p].req
                             /\ rows'[e].started = procs[p].now
      BY <1>5, <2>2, AuditRows
    <3>2. PICK x, name, t : /\ x = procs[p].req.file /\ name = procs[p].req.name
                            /\ t = procs[p].now - Ttl + 1
      OBVIOUS
    <3>3. procs[p].now \in Nat
      BY <3>1, Busy DEF At
    <3>4. x \in Files /\ t \in Int /\ Since(x, name, t) /\ rows'[e].who = Access(x, name)
      BY <2>2, <3>1, <3>2, <3>3, TtlAssumption DEF DInv, Caller
    <3>5. Since(x, name, t)'
      BY <1>1, <1>2, <3>4, SinceKept DEF DInv
    <3>6. rows'[e].who.file = x /\ rows'[e].who.name = name /\ rows'[e].started - Ttl + 1 = t
      BY <3>1, <3>2
    <3>7. QED
      BY <3>4, <3>5, <3>6 DEF Download, Since, Failed, Borne
  <2>3. QED
    BY <2>1, <2>2 DEF Download
<1>6. QED
  BY <1>1, <1>2, <1>3, <1>4, <1>5 DEF DInv

-------------------------------------------------------------------------------
LEMMA InitDInv == DownloadInit => HInv /\ DInv
<1> SUFFICES ASSUME DownloadInit PROVE HInv /\ DInv
  OBVIOUS
<1>1. HInv /\ clock = 0
  BY InitHInv DEF DownloadInit, Init
<1>2. Naming
  <2>1. /\ version = [x \in Files |-> 0] /\ renamed = [q \in Files \X {0} |-> 0]
        /\ failures = {}
    BY DEF DownloadInit
  <2>2. version \in [Files -> 0 .. MaxRenamings]
    BY <2>1, TtlAssumption
  <2>3. ASSUME NEW x \in Files, NEW v \in 0 .. version[x]
        PROVE  <<x, v>> \in DOMAIN renamed /\ renamed[<<x, v>>] \in 0 .. clock
    <3>1. v = 0
      BY <2>1
    <3>2. <<x, v>> \in Files \X {0}
      BY <3>1
    <3>3. QED
      BY <1>1, <2>1, <3>2
  <2>4. QED
    BY <2>1, <2>2, <2>3, FS_EmptySet DEF Naming
<1>3. \A p \in Procs : Caller(p)
  BY DEF DownloadInit, Init, Idle, Caller, At
<1>4. Ids = {} /\ DOMAIN exportCache = {}
  BY DEF DownloadInit, Init, Ids, Nothing
<1>5. QED
  BY <1>1, <1>2, <1>3, <1>4 DEF DInv, DownloadInit

LEMMA StepDInv ==
  ASSUME HInv, DInv, [DownloadNext]_downloadVars
  PROVE  HInv' /\ DInv'
<1>1. CASE \E x \in Files : Rename(x)
  <2>1. PICK x \in Files : Rename(x)
    BY <1>1
  <2>2. UNCHANGED vars /\ UNCHANGED <<exportCache, answers>>
    BY <2>1 DEF Rename, lookup
  <2>3. HInv'
    BY <2>2, StepHInv
  <2>4. UNCHANGED <<procs, rows, nextId, clock>> /\ clock \in Nat
    BY <2>2 DEF vars, HInv, Environment
  <2>5. Naming' /\ Onward
    BY <2>1, <2>4, RenamedOn DEF DInv
  <2>6. \A x1 \in DOMAIN exportCache' : Cached(x1)'
    BY <2>2, <2>4, <2>5, CachedKept DEF DInv
  <2>7. \A p \in Procs : Caller(p)'
    BY <2>2, <2>4, <2>5, CallerKept DEF DInv
  <2>8. \A e \in Ids' : Download(e)'
    BY <2>2, <2>4, <2>5, DownloadKept DEF DInv, Ids
  <2>9. QED
    BY <2>2, <2>3, <2>5, <2>6, <2>7, <2>8 DEF DInv
<1>2. CASE \E p \in Procs, x \in Files : ArriveDownload(p, x)
  BY <1>2, ArriveDownloadStep
<1>3. CASE \E p \in Procs : Lookup(p) \/ Cache(p)
  BY <1>3, LookupStep, CacheStep
<1>4. CASE \E p \in Procs, ok \in BOOLEAN : Fetch(p, ok)
  BY <1>4, FetchStep
<1>5. CASE Audit
  BY <1>5, AuditSteps, StepHInv, AuditDInv
<1>6. CASE UNCHANGED downloadVars
  <2>1. UNCHANGED vars /\ UNCHANGED <<version, exportCache, answers, renamed, failures>>
    BY <1>6 DEF downloadVars, downloads
  <2>2. HInv'
    BY <2>1, StepHInv
  <2>3. UNCHANGED <<procs, rows, nextId, clock>>
    BY <2>1 DEF vars
  <2>4. Naming' /\ \A x \in DOMAIN exportCache' : Cached(x)'
    BY <2>1, <2>3 DEF DInv, Naming, Cached, Since, Failed, Borne
  <2>5. \A p \in Procs : Caller(p)'
    BY <2>1, <2>3 DEF DInv, Caller, Since, Failed, Borne, At
  <2>6. \A e \in Ids' : Download(e)'
    BY <2>1, <2>3 DEF DInv, Download, Since, Failed, Borne, Ids
  <2>7. QED
    BY <2>1, <2>2, <2>4, <2>5, <2>6 DEF DInv
<1>7. QED
  BY <1>1, <1>2, <1>3, <1>4, <1>5, <1>6 DEF DownloadNext

\* Every state of the gateway with downloads satisfies the invariant of the
\* audit of requests, and that of the names.
THEOREM DownloadInvariance == DownloadSpec => [](HInv /\ DInv)
<1>1. (HInv /\ DInv) /\ [DownloadNext]_downloadVars => (HInv /\ DInv)'
  BY StepDInv
<1>2. QED
  BY InitDInv, <1>1, PTL DEF DownloadSpec

LEMMA SinceIsFresh ==
  ASSUME Naming, clock \in Nat, NEW x \in Files, NEW name, NEW at \in Nat,
         Since(x, name, at - Ttl + 1)
  PROVE  Fresh(x, name, at)
<1>1. CASE name = Unnamed
  <2>1. PICK f \in failures : f[1] = x /\ f[2] >= at - Ttl + 1
    BY <1>1 DEF Since, Failed
  <2>2. f[2] \in Nat
    BY DEF Naming
  <2>3. f[2] > at - Ttl
    BY <2>1, <2>2, TtlAssumption
  <2>4. QED
    BY <1>1, <2>1, <2>3 DEF Fresh
<1>2. CASE name # Unnamed
  <2>1. /\ name \in NamesOf(x) /\ name.version \in 0 .. version[x] /\ name.of = x
        /\ Borne(x, name.version) >= at - Ttl + 1
    BY <1>2, NameOf DEF Since
  <2>2. Borne(x, name.version) \in Nat
    BY <2>1, BorneTime
  <2>3. Borne(x, name.version) > at - Ttl
    BY <2>1, <2>2, TtlAssumption
  <2>4. LastBorne(name) = Borne(x, name.version)
    BY <2>1 DEF LastBorne, Borne
  <2>5. QED
    BY <1>2, <2>1, <2>3, <2>4 DEF Fresh
<1>3. QED
  BY <1>1, <1>2

\* The name in a row and in an access is one its export bore less than Ttl
\* before the request came in, whatever order goroutines reach the cache in,
\* and where there is none a lookup failed as late as that (gateway.go:412-426).
THEOREM DownloadNamesAreFresh == DownloadSpec => []NamesAreFresh
<1>1. ASSUME HInv, DInv
      PROVE  NamesAreFresh
  <2>1. Naming /\ clock \in Nat
    BY <1>1 DEF DInv, HInv, Environment
  <2>2. ASSUME NEW e \in DOMAIN rows, Of(e) # Null
        PROVE  Fresh(Of(e), rows[e].who.name, rows[e].started)
    <3>1. e \in Ids /\ rows[e].started \in Nat
      BY <1>1, <2>2 DEF HInv, Tables, RowTypes
    <3>2. rows[e].who.kind = "playback" /\ Of(e) = rows[e].who.file
      BY <2>2 DEF Of
    <3>3. /\ rows[e].who.file \in Files
          /\ Since(rows[e].who.file, rows[e].who.name, rows[e].started - Ttl + 1)
      BY <1>1, <3>1, <3>2 DEF DInv, Download
    <3>4. QED
      BY <2>1, <3>1, <3>2, <3>3, SinceIsFresh
  <2>3. ASSUME NEW p \in Procs, At(p, "access"), procs[p].req.kind = "playback"
        PROVE  Fresh(procs[p].req.file, procs[p].req.name, procs[p].now)
    <3>1. procs[p].now \in Nat
      BY <1>1, <2>3, Busy DEF At
    <3>2. /\ procs[p].req.file \in Files
          /\ Since(procs[p].req.file, procs[p].req.name, procs[p].now - Ttl + 1)
      BY <1>1, <2>3 DEF DInv, Caller
    <3>3. QED
      BY <2>1, <3>1, <3>2, SinceIsFresh
  <2>4. QED
    BY <2>2, <2>3 DEF NamesAreFresh
<1>2. QED
  BY <1>1, DownloadInvariance, PTL

-------------------------------------------------------------------------------
\* A lookup, a renaming or a new download touches no row and no lease.
LEMMA Untouched ==
  ASSUME [DownloadNext]_downloadVars
  PROVE  \/ Audit \/ UNCHANGED <<rows, nextId, fired, offers, latest, activities, leases, running>>
<1>1. CASE UNCHANGED downloadVars
  BY <1>1 DEF downloadVars, vars
<1>2. QED
  BY <1>1 DEF DownloadNext, Rename, ArriveDownload, Lookup, Fetch, Cache, Try, tracked, store, env,
              history, vars

LEMMA StepDownloadMapped ==
  ASSUME HInv, Mapped, [DownloadNext]_downloadVars
  PROVE  Mapped'
<1>1. CASE Audit
  BY <1>1, AuditSteps, StepMapped
<1>2. CASE UNCHANGED <<rows, nextId, fired, offers, latest, activities, leases, running>>
  BY <1>2 DEF Mapped, Ids, Rolls, InMap
<1>3. QED
  BY <1>1, <1>2, Untouched

LEMMA DownloadMapped == DownloadSpec => []Mapped
<1>1. DownloadInit => Mapped
  BY DEF DownloadInit, Init, Mapped
<1>2. HInv /\ DInv /\ Mapped /\ [DownloadNext]_downloadVars => Mapped'
  BY StepDownloadMapped
<1>3. QED
  BY <1>1, <1>2, DownloadInvariance, PTL DEF DownloadSpec

\* One lease per download and one session per person, though lookups fail and
\* names change between the requests (manager.go:576-577).
THEOREM DownloadOneInterval == DownloadSpec => []OneInterval
<1>1. HInv /\ Mapped => OneInterval
  BY MappedOnce DEF OneInterval
<1>2. QED
  BY <1>1, DownloadInvariance, DownloadMapped, PTL

\* Open rows of one download differ in their names: there are as many names as
\* versions, and one more when a lookup has failed.
LEMMA OneRowEachName ==
  ASSUME HInv, DInv, Mapped, running = "up", NEW x \in Files,
         NEW e \in OpenRows, NEW f \in OpenRows, Of(e) = x, Of(f) = x,
         rows[e].who.name = rows[f].who.name
  PROVE  e = f
<1>1. e \in Ids /\ f \in Ids /\ x # Null
  BY OpenIds, DownloadAssumption
<1>2. /\ rows[e].who.kind = "playback" /\ rows[e].who.file = x
      /\ rows[f].who.kind = "playback" /\ rows[f].who.file = x
  BY <1>1 DEF Of
<1>3. rows[e].who = Access(x, rows[e].who.name) /\ rows[f].who = Access(x, rows[f].who.name)
  BY <1>1, <1>2 DEF DInv, Download
<1>4. rows[e].who.kind \in Rolling
  BY <1>2 DEF Rolling
<1>5. QED
  BY <1>3, <1>4, MappedOnce

LEMMA RowsOfFile ==
  ASSUME HInv, DInv, Mapped, running = "up", NEW x \in Files
  PROVE  Cardinality({e \in OpenRows : Of(e) = x})
           <= 1 + version[x] + Cardinality({f \in failures : f[1] = x})
<1> DEFINE S == {e \in OpenRows : Of(e) = x}
           N == {e \in S : rows[e].who.name # Unnamed}
           U == {e \in S : rows[e].who.name = Unnamed}
           F == {f \in failures : f[1] = x}
<1>1. /\ version[x] \in Nat /\ IsFiniteSet(F) /\ Cardinality(F) \in Nat
      /\ x # Null
  BY FS_Subset, FS_CardinalityType, DownloadAssumption DEF DInv, Naming
<1>2. \A e \in S : /\ e \in Ids
                   /\ Since(x, rows[e].who.name, rows[e].started - Ttl + 1)
  BY <1>1, OpenIds DEF DInv, Download, Of
<1>3. IsFiniteSet(N) /\ Cardinality(N) <= version[x] + 1 /\ Cardinality(N) \in Nat
  <2> DEFINE g == [e \in N |-> rows[e].who.name.version]
  <2>1. \A e \in N : /\ rows[e].who.name.of = x /\ rows[e].who.name \in [of : {x}, version : Nat]
                     /\ rows[e].who.name.version \in 0 .. version[x]
    <3>1. TAKE e \in N
    <3>2. PICK name : name = rows[e].who.name
      OBVIOUS
    <3>3. name \in NamesOf(x) /\ name # Unnamed /\ name.version <= version[x]
      BY <1>2, <3>2 DEF Since
    <3>4. name.version \in 0 .. MaxRenamings /\ name \in [of : {x}, version : Nat] /\ name.of = x
      BY <3>3, NameOf DEF NamesOf
    <3>5. QED
      BY <1>1, <3>2, <3>3, <3>4
  <2>2. \A e, f \in N : g[e] = g[f] => e = f
    <3>1. TAKE e, f \in N
    <3>2. HAVE g[e] = g[f]
    <3>3. rows[e].who.name.version = rows[f].who.name.version
      BY <3>2
    <3>4. rows[e].who.name = rows[f].who.name
      BY <2>1, <3>3
    <3>5. QED
      BY <3>4, OneRowEachName
  <2>3. g \in Injection(N, 0 .. version[x])
    <3>1. g \in [N -> 0 .. version[x]]
      BY <2>1
    <3>2. IsInjective(g)
      BY <2>2 DEF IsInjective
    <3>3. QED
      BY <3>1, <3>2 DEF Injection
  <2>4. IsFiniteSet(0 .. version[x]) /\ Cardinality(0 .. version[x]) = version[x] + 1
    <3>1. PICK n \in Int : n = version[x] /\ n >= 0
      BY <1>1
    <3>2. /\ IsFiniteSet(0 .. n)
          /\ Cardinality(0 .. n) = IF 0 > n THEN 0 ELSE n - 0 + 1
      BY FS_Interval
    <3>3. ~(0 > n) /\ n - 0 + 1 = n + 1
      BY <3>1
    <3>4. QED
      BY <3>1, <3>2, <3>3
  <2> HIDE DEF g, N
  <2>5. QED
    BY <2>3, <2>4, FS_Injection, FS_CardinalityType
<1>4. IsFiniteSet(U) /\ Cardinality(U) <= Cardinality(F) /\ Cardinality(U) \in Nat
  <2>1. CASE U = {}
    BY <1>1, <2>1, FS_EmptySet
  <2>2. CASE U # {}
    <3>1. PICK e \in U : TRUE
      BY <2>2
    <3>2. \A f \in U : f = e
      BY OneRowEachName
    <3>3. U = {e}
      BY <3>1, <3>2
    <3>4. IsFiniteSet(U) /\ Cardinality(U) = 1
      BY <3>3, FS_Singleton
    <3>5. F # {}
      BY <1>2, <3>1 DEF Since, Failed
    <3>6. Cardinality(F) # 0
      BY <1>1, <3>5, FS_EmptySet
    <3> HIDE DEF F, U
    <3>7. QED
      BY <1>1, <3>4, <3>6
  <2>3. QED
    BY <2>1, <2>2
<1>5. S \subseteq N \cup U
  OBVIOUS
<1> HIDE DEF S, N, U, F
<1>6. Cardinality(S) \in Nat /\ Cardinality(S) <= Cardinality(N) + Cardinality(U)
  BY <1>3, <1>4, <1>5, Grown
<1>7. Cardinality(S) <= 1 + version[x] + Cardinality(F)
  BY <1>1, <1>3, <1>4, <1>6
<1>8. QED
  BY <1>7 DEF S, F

\* A download splits into several open rows only where its export was renamed
\* or a lookup failed, once for each (README.md:14, gateway.go:402-408).
THEOREM DownloadRowsPerDownload == DownloadSpec => []RowsPerDownload
<1>1. HInv /\ DInv /\ Mapped => RowsPerDownload
  BY RowsOfFile DEF RowsPerDownload
<1>2. QED
  BY <1>1, DownloadInvariance, DownloadMapped, PTL

-------------------------------------------------------------------------------
\* Nobody who waits for a name is about to tell the observer of a row.
LEMMA StepDownloadOffers ==
  ASSUME HInv, DInv, OfferInv, [DownloadNext]_downloadVars
  PROVE  OfferInv'
<1>1. CASE Audit
  BY <1>1, AuditSteps, StepOfferInv
<1>2. ASSUME UNCHANGED <<rows, nextId>>
      PROVE  SameWho /\ Ids' = Ids
  BY <1>2 DEF SameWho, Ids
<1>3. CASE \E x \in Files : Rename(x)
  BY <1>3, StepOfferInv DEF Rename
<1>4. CASE UNCHANGED downloadVars
  BY <1>4, StepOfferInv DEF downloadVars
<1>5. ASSUME NEW p \in Procs, NEW ok \in BOOLEAN,
             (\E x \in Files : ArriveDownload(p, x)) \/ Lookup(p) \/ Fetch(p, ok) \/ Cache(p)
      PROVE  OfferInv'
  <2>1. ~At(p, "offer") /\ UNCHANGED <<rows, nextId, offers, running>>
    BY <1>5 DEF ArriveDownload, Lookup, Fetch, Cache, At, Try, store, env, history
  <2>2. left'["death"] = left["death"]
    BY <1>5 DEF ArriveDownload, Lookup, Fetch, Cache, Try, Spend, env, HInv, Environment, Causes
  <2>3. Others(p) /\ procs'[p].at # "offer"
    <3>1. CASE \E x \in Files : ArriveDownload(p, x)
      BY <3>1, ArriveDownloadStep
    <3>2. CASE Fetch(p, ok) \/ \E eid : Go(p, "fetch", eid)
      <4>1. (\E eid : Go(p, "cache", eid)) \/ (\E eid : Go(p, "fetch", eid))
        BY <3>2 DEF Fetch
      <4>2. QED
        BY <4>1, OthersStay, AtGone
    <3>3. CASE \E name : Name(p, name)
      BY <3>3 DEF Name, HInv, Goroutine, Others
    <3>4. QED
      BY <1>5, <3>1, <3>2, <3>3 DEF Lookup, Cache
  <2>4. QED
    BY <1>2, <2>1, <2>2, <2>3, UntoldBy
<1>6. QED
  BY <1>1, <1>3, <1>4, <1>5 DEF DownloadNext

\* The observer hears of a download once, however many range requests and
\* lookups it takes.
THEOREM DownloadOfferedOnce == DownloadSpec => []OfferedOnce
<1>1. DownloadInit => OfferInv
  BY InitOfferInv DEF DownloadInit
<1>2. HInv /\ DInv /\ OfferInv /\ [DownloadNext]_downloadVars => OfferInv'
  BY StepDownloadOffers
<1>3. QED
  BY <1>1, <1>2, ToldOnce, DownloadInvariance, PTL DEF DownloadSpec

\* A download, as any interval that rolls, ends only when its last range
\* request is out of the window.
THEOREM DownloadRollingEnd == DownloadSpec => RollingEnd
<1>1. HInv /\ DInv /\ [DownloadNext]_downloadVars =>
        [running = "up" /\ running' = "up" =>
           \A e \in OpenRows : rows[e].who.kind \in Rolling /\ ~IsOpen(rows'[e]) =>
             LET length == IF rows[e].who.kind = "snapshot" THEN Lease ELSE Window
             IN  fired - latest[e] > length - Slow]_vars
  <2>1. CASE HInv /\ Audit
    BY <2>1, AuditSteps, StepRollingEnd DEF Length
  <2>2. CASE HInv /\ UNCHANGED <<rows, nextId, fired, offers, latest, activities, leases, running>>
    BY <2>2, OpenIds
  <2>3. QED
    BY <2>1, <2>2, Untouched
<1>2. QED
  BY <1>1, DownloadInvariance, PTL DEF DownloadSpec, RollingEnd
===============================================================================
