-------------------------------- MODULE Gateway --------------------------------
(***************************************************************************)
(* What Gateway.ServeHTTP makes of a request before anything is recorded:  *)
(* whom it believes, what it passes on, who is asking and which accesses   *)
(* of which camera the request is.  All of it is functions of the request; *)
(* HttpAudit takes it from there.                                          *)
(*                                                                         *)
(* A request is [peer, user, others, forwarded, agent, method, path, src,  *)
(* items]: the TCP peer, the configured identity header (Nobody when       *)
(* blank), whether it carries other headers of stripProxyIdentity, the     *)
(* first X-Forwarded-For address (Nobody when there is none that parses),  *)
(* the kind of user agent, and what it asks for.  A path is the sequence   *)
(* of its segments, none empty; `src' is the parameter of that name;       *)
(* `items' is how many exports the body of a batch lists, 0 when there is  *)
(* no body, or none that parses within 1 MiB.                              *)
(***************************************************************************)
EXTENDS Integers, Sequences, FiniteSets

CONSTANTS
  Nobody,
  TrustedPeers,     \* cfg.TrustedProxies
  Rule(_),          \* classify's rule for a request: an actor, or Nobody
  MaxBatchItems,    \* maxBatchExportItems
  Names, Tokens,    \* cameras, and times and ids, of the URLs looked at
  Mp4, Dated,       \* segments that end in ".mp4", and that contain a "-"
  Callers           \* the requests looked at

ASSUME SegmentAssumption == "clip.mp4" \in Mp4 /\ {"event", "clip"} \cap Dated = {}

-------------------------------------------------------------------------------
\* Mutant: everybody's header is believed.
AnyTrusted(r) == TRUE

\* identity, clientIP.
Trusted(r) == r.peer \in TrustedPeers
User(r) == IF Trusted(r) THEN r.user ELSE Nobody
ClientIP(r) == IF Trusted(r) /\ r.forwarded # Nobody THEN r.forwarded ELSE r.peer

\* Whatever the headers say, the two requests ask for the same.
SameButHeaders(q, r) ==
  \A field \in {"agent", "method", "path", "src", "items"} : q[field] = r[field]

\* classify is asked about the access, the user agent and clientIP's address.
ASSUME RuleAssumption ==
  \A q, r \in Callers : SameButHeaders(q, r) /\ ClientIP(q) = ClientIP(r) => Rule(q) = Rule(r)

\* Mutant: only the configured header is removed.
RelayedOthers(r) ==
  [user   |-> IF Trusted(r) THEN r.user ELSE Nobody,
   others |-> r.others,
   forwarded |-> IF Trusted(r) THEN r.forwarded ELSE Nobody]

\* What Frigate is told: stripProxyIdentity.
Relayed(r) ==
  [user   |-> IF Trusted(r) THEN r.user ELSE Nobody,
   others |-> Trusted(r) /\ r.others,
   forwarded |-> IF Trusted(r) THEN r.forwarded ELSE Nobody]

\* Who is asking, and on what evidence; StartHTTP lets a rule name a service.
Actor(r) ==
  IF User(r) # Nobody THEN [name |-> User(r), type |-> "person", confidence |-> "exact"]
  ELSE IF r.agent = "homeassistant"
  THEN [name |-> "Home Assistant", type |-> "service", confidence |-> "service/device"]
  ELSE IF r.agent = "browser"
  THEN [name |-> <<"Browser viewer", ClientIP(r)>>, type |-> "person", confidence |-> "inferred"]
  ELSE [name |-> <<"Unauthenticated service", ClientIP(r)>>, type |-> "unknown",
        confidence |-> "service/device"]
StartedAs(r) ==
  IF Rule(r) # Nobody /\ Actor(r).type # "person"
  THEN [Actor(r) EXCEPT !.name = Rule(r), !.type = "service"] ELSE Actor(r)

\* The pages of the audit itself.
IsHealthPath(r) == r.path \in {<<"healthz">>, <<"readyz">>}
IsAuditPath(r) == r.path # <<>> /\ r.path[1] = "audit"
Refused(r) == IsAuditPath(r) /\ (~Trusted(r) \/ User(r) = Nobody)

-------------------------------------------------------------------------------
\* No kind, no camera, no parameter.
Blank == ""
NoAccess == [kind |-> Blank, camera |-> Blank, details |-> <<>>]

\* A row of the route table: the segments a path must begin with, or be, in
\* which * is any; the position of the camera among them, or 0; the positions
\* of what goes into the details; and whether more may follow.
Row(kind, label, path, camera, kept, more) ==
  [kind |-> kind, label |-> label, path |-> path, camera |-> camera, kept |-> kept, more |-> more]

Accepts(mark, segment) ==
  CASE mark = "*"     -> TRUE
    [] mark = "*.mp4" -> segment \in Mp4
    [] mark = "*-*"   -> segment \in Dated
    [] OTHER          -> segment = mark
Fits(row, p) ==
  /\ Len(p) = Len(row.path) \/ (row.more /\ Len(p) > Len(row.path))
  /\ \A i \in DOMAIN row.path : Accepts(row.path[i], p[i])
Read(row, p) ==
  [kind |-> row.kind, camera |-> IF row.camera = 0 THEN Blank ELSE p[row.camera],
   details |-> <<row.label, [i \in DOMAIN row.kept |-> p[row.kept[i]]]>>]

\* The tests of the code are made in the order of the table.
Recognised(table, p) ==
  LET fitting == {i \in DOMAIN table : Fits(table[i], p)}
  IN  IF fitting = {} THEN NoAccess
      ELSE Read(table[CHOOSE i \in fitting : \A j \in fitting : i <= j], p)

ExportRoutes ==
  LET R(label, path, camera, kept) ==
        Row("recording_export_requested", label, path, camera, kept, TRUE) IN <<
  R("custom", <<"api", "export", "custom", "*", "start", "*", "end", "*">>, 4, <<6, 8>>),
  R("standard", <<"api", "export", "*", "start", "*", "end", "*">>, 3, <<5, 7>>)>>
DownloadRoutes ==
  LET R(kind, label, path, camera, kept) == Row(kind, label, path, camera, kept, FALSE) IN <<
  R("recording_export_download", "export_file", <<"exports", "*.mp4">>, 0, <<2>>),
  R("recording_export_download", "export_case", <<"api", "cases", "*", "download">>, 0, <<3>>),
  R("recording_download", "file", <<"recordings", "*", "*", "*", "*.mp4">>, 4, <<2, 3, 5>>)>>
VodRoutes ==
  LET R(label, path, camera, kept) ==
        Row("recording_playback", label, path, camera, kept, TRUE) IN <<
  R("event", <<"vod", "event", "*">>, 0, <<3>>),
  R("range", <<"vod", "clip", "*", "start", "*", "end", "*">>, 3, <<5, 7>>),
  R("range", <<"vod", "*", "start", "*", "end", "*">>, 2, <<4, 6>>),
  R("hour", <<"vod", "*-*", "*", "*", "*">>, 5, <<2, 3, 4>>)>>
ClipRoutes ==
  LET R(label, path, camera, kept, more) ==
        Row("recording_playback", label, path, camera, kept, more) IN <<
  R("range", <<"*", "start", "*", "end", "*", "clip.mp4">>, 1, <<3, 5>>, TRUE),
  R("event", <<"events", "*", "clip.mp4">>, 0, <<2>>, TRUE),
  R("review", <<"review", "*", "clip.mp4">>, 0, <<2>>, TRUE),
  R("label", <<"*", "*", "clip.mp4">>, 1, <<2>>, FALSE)>>

\* Of a long path below /recordings the file is the last segment.
Shortened(p) ==
  IF Len(p) > 5 /\ p[1] = "recordings" THEN Append(SubSeq(p, 1, 4), p[Len(p)]) ELSE p
RecordingAction(r) ==
  IF r.method = "POST" THEN Recognised(ExportRoutes, r.path)
  ELSE IF r.method = "GET" THEN Recognised(DownloadRoutes, Shortened(r.path)) ELSE NoAccess

\* Mutant: the whole path is the recording.
RecordingPlaybackWhole(r) ==
  LET p == IF r.path # <<>> /\ r.path[1] = "api" THEN Tail(r.path) ELSE r.path
      a == IF p # <<>> /\ p[1] = "vod" THEN Recognised(VodRoutes, p) ELSE Recognised(ClipRoutes, p)
  IN  IF a = NoAccess THEN a ELSE [a EXCEPT !.details = p]

RecordingPlayback(r) ==
  LET p == IF r.path # <<>> /\ r.path[1] = "api" THEN Tail(r.path) ELSE r.path
  IN  IF p # <<>> /\ p[1] = "vod" THEN Recognised(VodRoutes, p) ELSE Recognised(ClipRoutes, p)

\* The live routes.  (A camera's name has no slash: Frigate's are one word.)
Viewing(kind, camera) ==
  [kind |-> IF camera = "birdseye" THEN "birdseye_live" ELSE kind,
   camera |-> camera, details |-> <<>>]
LiveAccess(r) ==
  LET p == r.path IN
  IF Len(p) = 3 /\ p[1] = "live" /\ p[2] = "jsmpeg" THEN Viewing("jsmpeg", p[3])
  ELSE IF p \in {<<"live", "mse", "api", "ws">>, <<"api", "go2rtc", "api", "ws">>}
  THEN Viewing("mse", r.src)
  ELSE IF p = <<"api", "go2rtc", "webrtc">>
  THEN [kind |-> "webrtc_signal", camera |-> r.src, details |-> <<>>]
  ELSE IF Len(p) = 3 /\ p[1] = "api" /\ p[3] = "latest.jpg" THEN Viewing("snapshot_live", p[2])
  ELSE NoAccess

CameraAccess(r) ==
  IF RecordingAction(r) # NoAccess THEN RecordingAction(r)
  ELSE IF RecordingPlayback(r) # NoAccess THEN RecordingPlayback(r)
  ELSE LiveAccess(r)

\* How many accesses a request is: a batch that does not parse, or lists too
\* many exports, is one.
BatchSize(r) == IF r.items \in 1 .. MaxBatchItems THEN r.items ELSE 1
RequestAccesses(r) ==
  IF r.method = "POST" /\ r.path = <<"api", "exports", "batch">> THEN BatchSize(r)
  ELSE IF CameraAccess(r) = NoAccess THEN 0 ELSE 1

\* The ways StartHTTP and ServeHTTP have of treating an access, as HttpAudit
\* names them: isRecordingActivity, httpLease and httpAccessAffectsPrivacy.
Treatment(r) ==
  LET kind == CameraAccess(r).kind IN
  CASE r.path = <<"audit", "export.csv">> -> "csv"
    [] RequestAccesses(r) > 1 -> "batch"
    [] kind \in {"recording_playback", "recording_export_download", "recording_download"} -> "playback"
    [] kind = "recording_export_requested" \/ (RequestAccesses(r) = 1 /\ kind = Blank) -> "export"
    [] kind = "webrtc_signal" -> "signal"
    [] kind = "snapshot_live" \/ (kind = "birdseye_live" /\ r.path[3] = "latest.jpg") -> "snapshot"
    [] kind \in {"jsmpeg", "mse"} \/ (kind = "birdseye_live" /\ r.path[3] # "latest.jpg") -> "live"
    [] OTHER -> "plain"
Served(r) == [actor |-> StartedAs(r).name, kind |-> Treatment(r)]

-------------------------------------------------------------------------------
\* What a URL of Frigate means, from the routes and tests of the documentation
\* (README.md:10-14, architecture.md:73-79, TestCameraAccess): its kind, its
\* camera, and the recording it is about.
Url(method, path, src, kind, camera, resource) ==
  [method |-> method, path |-> path, src |-> src,
   access |-> [kind |-> kind, camera |-> camera, details |-> resource]]

\* Other routes take these names first, birdseye is a composite of cameras, and
\* no time and no id is called start.
Reserved == {"vod", "event", "events", "review", "clip.mp4", "birdseye"}
Cameras  == Names \ Reserved
Times    == Tokens \ {"start"}
Segments == {<<>>, <<"index.m3u8">>, <<"video", "seg-1.ts">>}
LiveUrl(path, src, kind, camera) == Url("GET", path, src, kind, camera, <<>>)
LiveOf(c) ==
  {LiveUrl(<<"live", "jsmpeg", c>>, Blank, "jsmpeg", c),
   LiveUrl(<<"live", "mse", "api", "ws">>, c, "mse", c),
   LiveUrl(<<"api", "go2rtc", "api", "ws">>, c, "mse", c),
   LiveUrl(<<"api", "go2rtc", "webrtc">>, c, "webrtc_signal", c),
   LiveUrl(<<"api", c, "latest.jpg">>, Blank, "snapshot_live", c)}
LiveUrls ==
  {LiveUrl(<<"live", "jsmpeg", "birdseye">>, Blank, "birdseye_live", "birdseye"),
   LiveUrl(<<"api", "birdseye", "latest.jpg">>, Blank, "birdseye_live", "birdseye")}
  \cup UNION {LiveOf(c) : c \in Cameras}

\* Recordings watched, below /vod and as clips.
Prefixes == {<<>>, <<"api">>}
PlayUrl(path, camera, label, parts) ==
  Url("GET", path, Blank, "recording_playback", camera, <<label, parts>>)
VodOf(a, c, s, e, d, t) ==
  {PlayUrl(a \o <<"vod", "event", s>> \o t, Blank, "event", <<s>>),
   PlayUrl(a \o <<"vod", "clip", c, "start", s, "end", e>> \o t, c, "range", <<s, e>>),
   PlayUrl(a \o <<"vod", c, "start", s, "end", e>> \o t, c, "range", <<s, e>>),
   PlayUrl(a \o <<"vod", d, s, e, c>> \o t, c, "hour", <<d, s, e>>)}
VodUrls(c, s, e) ==
  UNION {VodOf(a, c, s, e, d, t) : a \in Prefixes, d \in Dated, t \in Segments}
ClipUrls(c, s, e) ==
  {PlayUrl(<<"api", c, "start", s, "end", e, "clip.mp4">>, c, "range", <<s, e>>),
   PlayUrl(<<"api", "events", s, "clip.mp4">>, Blank, "event", <<s>>),
   PlayUrl(<<"api", "review", s, "clip.mp4">>, Blank, "review", <<s>>),
   PlayUrl(<<"api", c, s, "clip.mp4">>, c, "label", <<s>>)}
PlaybackUrls ==
  UNION {VodUrls(c, s, e) \cup ClipUrls(c, s, e) : c \in Cameras, s \in Times, e \in Times}

\* Exports asked for and fetched, and recordings fetched.
ExportUrl(method, path, kind, camera, label, parts) ==
  Url(method, path, Blank, kind, camera, <<label, parts>>)
ExportsOf(c, s, e, d, f) ==
  {ExportUrl("POST", <<"api", "export", c, "start", s, "end", e>>,
             "recording_export_requested", c, "standard", <<s, e>>),
   ExportUrl("POST", <<"api", "export", "custom", c, "start", s, "end", e>>,
             "recording_export_requested", c, "custom", <<s, e>>),
   ExportUrl("GET", <<"exports", f>>, "recording_export_download", Blank, "export_file", <<f>>),
   ExportUrl("GET", <<"api", "cases", s, "download">>, "recording_export_download", Blank,
             "export_case", <<s>>),
   ExportUrl("GET", <<"recordings", d, s, c, f>>, "recording_download", c, "file", <<d, s, f>>)}
ExportUrls ==
  UNION {ExportsOf(c, s, e, d, f) : c \in Cameras, s \in Times, e \in Times, d \in Dated,
                                    f \in Mp4}

\* Every documented URL is taken for what it is, whatever its camera is called;
\* and for the recording it is about, so that all segments and ranges of one
\* recording, by whichever route, are one access and "only renew an existing
\* playback lease" (README.md:20).
RoutesAsDocumented ==
  \A u \in LiveUrls \cup PlaybackUrls \cup ExportUrls : CameraAccess(u) = u.access

\* "Only then may the configured identity header and the first X-Forwarded-For
\* address be used" (docs/architecture.md:68-71): nothing an untrusted peer
\* writes into those headers makes a difference to anybody, and the audit and
\* Frigate are told the same person or both nobody.
TrustBoundary ==
  LET Told(r) == <<Relayed(r), StartedAs(r), ClientIP(r), Refused(r)>> IN
  /\ \A q, r \in Callers :
       q.peer = r.peer /\ SameButHeaders(q, r) /\ r.peer \notin TrustedPeers => Told(q) = Told(r)
  /\ \A r \in Callers :
       LET who == StartedAs(r) IN
       IF Relayed(r).user = Nobody THEN who.confidence # "exact"
       ELSE who.confidence = "exact" /\ who.name = Relayed(r).user
===============================================================================
