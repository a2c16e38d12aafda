----------------------------- MODULE GatewayProofs -----------------------------
(***************************************************************************)
(* GatewayContract, for every request, set of trusted peers and set of     *)
(* rules, and for every set of cameras, times, dates and files: what the   *)
(* rows of each table accept and read, which row is the first to accept a  *)
(* path, and what that makes of each documented URL.                       *)
(***************************************************************************)
EXTENDS MCHttpAudit, TLAPS, SequenceTheorems

\* What the words of a row accept.
LEMMA Words ==
  ASSUME NEW segment
  PROVE  /\ Accepts("*", segment)
         /\ Accepts("*.mp4", segment) <=> segment \in Mp4
         /\ Accepts("*-*", segment) <=> segment \in Dated
         /\ Accepts("api", segment) <=> segment = "api"
         /\ Accepts("cases", segment) <=> segment = "cases"
         /\ Accepts("clip", segment) <=> segment = "clip"
         /\ Accepts("clip.mp4", segment) <=> segment = "clip.mp4"
         /\ Accepts("custom", segment) <=> segment = "custom"
         /\ Accepts("download", segment) <=> segment = "download"
         /\ Accepts("end", segment) <=> segment = "end"
         /\ Accepts("event", segment) <=> segment = "event"
         /\ Accepts("events", segment) <=> segment = "events"
         /\ Accepts("export", segment) <=> segment = "export"
         /\ Accepts("exports", segment) <=> segment = "exports"
         /\ Accepts("recordings", segment) <=> segment = "recordings"
         /\ Accepts("review", segment) <=> segment = "review"
         /\ Accepts("start", segment) <=> segment = "start"
         /\ Accepts("vod", segment) <=> segment = "vod"
BY DEF Accepts

\* A row, by its length and its words; with more to follow, or not.
LEMMA FitsMore ==
  ASSUME NEW row, NEW p, Len(p) \in Nat, NEW n \in Nat,
         DOMAIN row.path = 1 .. n, Len(row.path) = n, row.more
  PROVE  Fits(row, p) <=> Len(p) >= n /\ \A i \in 1 .. n : Accepts(row.path[i], p[i])
<1>1. Len(p) >= n <=> Len(p) = n \/ Len(p) > n
  OBVIOUS
<1>2. QED
  BY <1>1, Zenon DEF Fits

LEMMA FitsExactly ==
  ASSUME NEW row, NEW p, NEW n \in Nat,
         DOMAIN row.path = 1 .. n, Len(row.path) = n, ~row.more
  PROVE  Fits(row, p) <=> Len(p) = n /\ \A i \in 1 .. n : Accepts(row.path[i], p[i])
BY Zenon DEF Fits

\* Three segments of a path, kept.
LEMMA Three ==
  ASSUME NEW p, NEW i, NEW j, NEW k
  PROVE  [n \in DOMAIN <<i, j, k>> |-> p[<<i, j, k>>[n]]] = <<p[i], p[j], p[k]>>
<1> DEFINE s == <<i, j, k>>
<1>1. DOMAIN s = 1 .. 3 /\ s[1] = i /\ s[2] = j /\ s[3] = k
  OBVIOUS
<1> HIDE DEF s
<1>2. [n \in DOMAIN s |-> p[s[n]]] = <<p[i], p[j], p[k]>>
  BY <1>1
<1>3. QED
  BY <1>2 DEF s

\* An access with its details.
Meaning(kind, camera, label, parts) ==
  [kind |-> kind, camera |-> camera, details |-> <<label, parts>>]

-------------------------------------------------------------------------------
\* The rows of the four tables, one by one.
LEMMA ExportRows ==
  /\ DOMAIN ExportRoutes = 1 .. 2
  /\ ExportRoutes[1] =
       Row("recording_export_requested", "custom",
           <<"api", "export", "custom", "*", "start", "*", "end", "*">>, 4, <<6, 8>>, TRUE)
  /\ ExportRoutes[2] =
       Row("recording_export_requested", "standard",
           <<"api", "export", "*", "start", "*", "end", "*">>, 3, <<5, 7>>, TRUE)
BY DEF ExportRoutes

LEMMA DownloadRows ==
  /\ DOMAIN DownloadRoutes = 1 .. 3
  /\ DownloadRoutes[1] =
       Row("recording_export_download", "export_file",
           <<"exports", "*.mp4">>, 0, <<2>>, FALSE)
  /\ DownloadRoutes[2] =
       Row("recording_export_download", "export_case",
           <<"api", "cases", "*", "download">>, 0, <<3>>, FALSE)
  /\ DownloadRoutes[3] =
       Row("recording_download", "file",
           <<"recordings", "*", "*", "*", "*.mp4">>, 4, <<2, 3, 5>>, FALSE)
BY DEF DownloadRoutes

LEMMA VodRows ==
  /\ DOMAIN VodRoutes = 1 .. 4
  /\ VodRoutes[1] =
       Row("recording_playback", "event",
           <<"vod", "event", "*">>, 0, <<3>>, TRUE)
  /\ VodRoutes[2] =
       Row("recording_playback", "range",
           <<"vod", "clip", "*", "start", "*", "end", "*">>, 3, <<5, 7>>, TRUE)
  /\ VodRoutes[3] =
       Row("recording_playback", "range",
           <<"vod", "*", "start", "*", "end", "*">>, 2, <<4, 6>>, TRUE)
  /\ VodRoutes[4] =
       Row("recording_playback", "hour",
           <<"vod", "*-*", "*", "*", "*">>, 5, <<2, 3, 4>>, TRUE)
BY DEF VodRoutes

LEMMA ClipRows ==
  /\ DOMAIN ClipRoutes = 1 .. 4
  /\ ClipRoutes[1] =
       Row("recording_playback", "range",
           <<"*", "start", "*", "end", "*", "clip.mp4">>, 1, <<3, 5>>, TRUE)
  /\ ClipRoutes[2] =
       Row("recording_playback", "event",
           <<"events", "*", "clip.mp4">>, 0, <<2>>, TRUE)
  /\ ClipRoutes[3] =
       Row("recording_playback", "review",
           <<"review", "*", "clip.mp4">>, 0, <<2>>, TRUE)
  /\ ClipRoutes[4] =
       Row("recording_playback", "label",
           <<"*", "*", "clip.mp4">>, 1, <<2>>, FALSE)
BY DEF ClipRoutes

\* What each of them accepts, and what it reads from a path it accepts.
LEMMA ExportCustom ==
  ASSUME NEW p, Len(p) \in Nat
  PROVE  /\ Fits(ExportRoutes[1], p) <=>
              /\ Len(p) >= 8 /\ p[1] = "api" /\ p[2] = "export" /\ p[3] = "custom"
              /\ p[5] = "start" /\ p[7] = "end"
         /\ Read(ExportRoutes[1], p) =
              Meaning("recording_export_requested", p[4], "custom", <<p[6], p[8]>>)
<1> DEFINE path == <<"api", "export", "custom", "*", "start", "*", "end", "*">>
<1>1. ExportRoutes[1] = Row("recording_export_requested", "custom", path, 4, <<6, 8>>, TRUE)
  BY ExportRows
<1>2. DOMAIN path = 1 .. 8 /\ Len(path) = 8
  OBVIOUS
<1>3. /\ path[1] = "api" /\ path[2] = "export" /\ path[3] = "custom" /\ path[4] = "*"
      /\ path[5] = "start" /\ path[6] = "*" /\ path[7] = "end" /\ path[8] = "*"
  OBVIOUS
<1> HIDE DEF path
<1>4. ExportRoutes[1].path = path /\ ExportRoutes[1].more
  BY <1>1 DEF Row
<1>5. Fits(ExportRoutes[1], p) <=>
        Len(p) >= 8 /\ \A i \in 1 .. 8 : Accepts(path[i], p[i])
  BY <1>2, <1>4, FitsMore
<1>6. Read(ExportRoutes[1], p) =
        Meaning("recording_export_requested", p[4], "custom", <<p[6], p[8]>>)
  BY <1>1 DEF Read, Row, Meaning
<1>7. QED
  BY <1>3, <1>5, <1>6, Words

LEMMA ExportStandard ==
  ASSUME NEW p, Len(p) \in Nat
  PROVE  /\ Fits(ExportRoutes[2], p) <=>
              /\ Len(p) >= 7 /\ p[1] = "api" /\ p[2] = "export" /\ p[4] = "start"
              /\ p[6] = "end"
         /\ Read(ExportRoutes[2], p) =
              Meaning("recording_export_requested", p[3], "standard", <<p[5], p[7]>>)
<1> DEFINE path == <<"api", "export", "*", "start", "*", "end", "*">>
<1>1. ExportRoutes[2] = Row("recording_export_requested", "standard", path, 3, <<5, 7>>, TRUE)
  BY ExportRows
<1>2. DOMAIN path = 1 .. 7 /\ Len(path) = 7
  OBVIOUS
<1>3. /\ path[1] = "api" /\ path[2] = "export" /\ path[3] = "*" /\ path[4] = "start"
      /\ path[5] = "*" /\ path[6] = "end" /\ path[7] = "*"
  OBVIOUS
<1> HIDE DEF path
<1>4. ExportRoutes[2].path = path /\ ExportRoutes[2].more
  BY <1>1 DEF Row
<1>5. Fits(ExportRoutes[2], p) <=>
        Len(p) >= 7 /\ \A i \in 1 .. 7 : Accepts(path[i], p[i])
  BY <1>2, <1>4, FitsMore
<1>6. Read(ExportRoutes[2], p) =
        Meaning("recording_export_requested", p[3], "standard", <<p[5], p[7]>>)
  BY <1>1 DEF Read, Row, Meaning
<1>7. QED
  BY <1>3, <1>5, <1>6, Words

LEMMA DownloadFile ==
  ASSUME NEW p, Len(p) \in Nat
  PROVE  /\ Fits(DownloadRoutes[1], p) <=>
              /\ Len(p) = 2 /\ p[1] = "exports" /\ p[2] \in Mp4
         /\ Read(DownloadRoutes[1], p) =
              Meaning("recording_export_download", Blank, "export_file", <<p[2]>>)
<1> DEFINE path == <<"exports", "*.mp4">>
<1>1. DownloadRoutes[1] = Row("recording_export_download", "export_file", path, 0, <<2>>, FALSE)
  BY DownloadRows
<1>2. DOMAIN path = 1 .. 2 /\ Len(path) = 2
  OBVIOUS
<1>3. /\ path[1] = "exports" /\ path[2] = "*.mp4"
  OBVIOUS
<1> HIDE DEF path
<1>4. DownloadRoutes[1].path = path /\ ~DownloadRoutes[1].more
  BY <1>1 DEF Row
<1>5. Fits(DownloadRoutes[1], p) <=>
        Len(p) = 2 /\ \A i \in 1 .. 2 : Accepts(path[i], p[i])
  BY <1>2, <1>4, FitsExactly
<1>6. Read(DownloadRoutes[1], p) =
        Meaning("recording_export_download", Blank, "export_file", <<p[2]>>)
  BY <1>1 DEF Read, Row, Meaning
<1>7. QED
  BY <1>3, <1>5, <1>6, Words

LEMMA DownloadCase ==
  ASSUME NEW p, Len(p) \in Nat
  PROVE  /\ Fits(DownloadRoutes[2], p) <=>
              /\ Len(p) = 4 /\ p[1] = "api" /\ p[2] = "cases" /\ p[4] = "download"
         /\ Read(DownloadRoutes[2], p) =
              Meaning("recording_export_download", Blank, "export_case", <<p[3]>>)
<1> DEFINE path == <<"api", "cases", "*", "download">>
<1>1. DownloadRoutes[2] = Row("recording_export_download", "export_case", path, 0, <<3>>, FALSE)
  BY DownloadRows
<1>2. DOMAIN path = 1 .. 4 /\ Len(path) = 4
  OBVIOUS
<1>3. /\ path[1] = "api" /\ path[2] = "cases" /\ path[3] = "*" /\ path[4] = "download"
  OBVIOUS
<1> HIDE DEF path
<1>4. DownloadRoutes[2].path = path /\ ~DownloadRoutes[2].more
  BY <1>1 DEF Row
<1>5. Fits(DownloadRoutes[2], p) <=>
        Len(p) = 4 /\ \A i \in 1 .. 4 : Accepts(path[i], p[i])
  BY <1>2, <1>4, FitsExactly
<1>6. Read(DownloadRoutes[2], p) =
        Meaning("recording_export_download", Blank, "export_case", <<p[3]>>)
  BY <1>1 DEF Read, Row, Meaning
<1>7. QED
  BY <1>3, <1>5, <1>6, Words

LEMMA DownloadRecording ==
  ASSUME NEW p, Len(p) \in Nat
  PROVE  /\ Fits(DownloadRoutes[3], p) <=>
              /\ Len(p) = 5 /\ p[1] = "recordings" /\ p[5] \in Mp4
         /\ Read(DownloadRoutes[3], p) =
              Meaning("recording_download", p[4], "file", <<p[2], p[3], p[5]>>)
<1> DEFINE path == <<"recordings", "*", "*", "*", "*.mp4">>
<1>1. DownloadRoutes[3] = Row("recording_download", "file", path, 4, <<2, 3, 5>>, FALSE)
  BY DownloadRows
<1>2. DOMAIN path = 1 .. 5 /\ Len(path) = 5
  OBVIOUS
<1>3. /\ path[1] = "recordings" /\ path[2] = "*" /\ path[3] = "*" /\ path[4] = "*"
      /\ path[5] = "*.mp4"
  OBVIOUS
<1> HIDE DEF path
<1>4. DownloadRoutes[3].path = path /\ ~DownloadRoutes[3].more
  BY <1>1 DEF Row
<1>5. Fits(DownloadRoutes[3], p) <=>
        Len(p) = 5 /\ \A i \in 1 .. 5 : Accepts(path[i], p[i])
  BY <1>2, <1>4, FitsExactly
<1>6. Read(DownloadRoutes[3], p) =
        Meaning("recording_download", p[4], "file", <<p[2], p[3], p[5]>>)
  BY <1>1, Three DEF Read, Row, Meaning
<1>7. QED
  BY <1>3, <1>5, <1>6, Words

LEMMA VodEvent ==
  ASSUME NEW p, Len(p) \in Nat
  PROVE  /\ Fits(VodRoutes[1], p) <=>
              /\ Len(p) >= 3 /\ p[1] = "vod" /\ p[2] = "event"
         /\ Read(VodRoutes[1], p) =
              Meaning("recording_playback", Blank, "event", <<p[3]>>)
<1> DEFINE path == <<"vod", "event", "*">>
<1>1. VodRoutes[1] = Row("recording_playback", "event", path, 0, <<3>>, TRUE)
  BY VodRows
<1>2. DOMAIN path = 1 .. 3 /\ Len(path) = 3
  OBVIOUS
<1>3. /\ path[1] = "vod" /\ path[2] = "event" /\ path[3] = "*"
  OBVIOUS
<1> HIDE DEF path
<1>4. VodRoutes[1].path = path /\ VodRoutes[1].more
  BY <1>1 DEF Row
<1>5. Fits(VodRoutes[1], p) <=>
        Len(p) >= 3 /\ \A i \in 1 .. 3 : Accepts(path[i], p[i])
  BY <1>2, <1>4, FitsMore
<1>6. Read(VodRoutes[1], p) =
        Meaning("recording_playback", Blank, "event", <<p[3]>>)
  BY <1>1 DEF Read, Row, Meaning
<1>7. QED
  BY <1>3, <1>5, <1>6, Words

LEMMA VodClip ==
  ASSUME NEW p, Len(p) \in Nat
  PROVE  /\ Fits(VodRoutes[2], p) <=>
              /\ Len(p) >= 7 /\ p[1] = "vod" /\ p[2] = "clip" /\ p[4] = "start"
              /\ p[6] = "end"
         /\ Read(VodRoutes[2], p) =
              Meaning("recording_playback", p[3], "range", <<p[5], p[7]>>)
<1> DEFINE path == <<"vod", "clip", "*", "start", "*", "end", "*">>
<1>1. VodRoutes[2] = Row("recording_playback", "range", path, 3, <<5, 7>>, TRUE)
  BY VodRows
<1>2. DOMAIN path = 1 .. 7 /\ Len(path) = 7
  OBVIOUS
<1>3. /\ path[1] = "vod" /\ path[2] = "clip" /\ path[3] = "*" /\ path[4] = "start"
      /\ path[5] = "*" /\ path[6] = "end" /\ path[7] = "*"
  OBVIOUS
<1> HIDE DEF path
<1>4. VodRoutes[2].path = path /\ VodRoutes[2].more
  BY <1>1 DEF Row
<1>5. Fits(VodRoutes[2], p) <=>
        Len(p) >= 7 /\ \A i \in 1 .. 7 : Accepts(path[i], p[i])
  BY <1>2, <1>4, FitsMore
<1>6. Read(VodRoutes[2], p) =
        Meaning("recording_playback", p[3], "range", <<p[5], p[7]>>)
  BY <1>1 DEF Read, Row, Meaning
<1>7. QED
  BY <1>3, <1>5, <1>6, Words

LEMMA VodRange ==
  ASSUME NEW p, Len(p) \in Nat
  PROVE  /\ Fits(VodRoutes[3], p) <=>
              /\ Len(p) >= 6 /\ p[1] = "vod" /\ p[3] = "start" /\ p[5] = "end"
         /\ Read(VodRoutes[3], p) =
              Meaning("recording_playback", p[2], "range", <<p[4], p[6]>>)
<1> DEFINE path == <<"vod", "*", "start", "*", "end", "*">>
<1>1. VodRoutes[3] = Row("recording_playback", "range", path, 2, <<4, 6>>, TRUE)
  BY VodRows
<1>2. DOMAIN path = 1 .. 6 /\ Len(path) = 6
  OBVIOUS
<1>3. /\ path[1] = "vod" /\ path[2] = "*" /\ path[3] = "start" /\ path[4] = "*"
      /\ path[5] = "end" /\ path[6] = "*"
  OBVIOUS
<1> HIDE DEF path
<1>4. VodRoutes[3].path = path /\ VodRoutes[3].more
  BY <1>1 DEF Row
<1>5. Fits(VodRoutes[3], p) <=>
        Len(p) >= 6 /\ \A i \in 1 .. 6 : Accepts(path[i], p[i])
  BY <1>2, <1>4, FitsMore
<1>6. Read(VodRoutes[3], p) =
        Meaning("recording_playback", p[2], "range", <<p[4], p[6]>>)
  BY <1>1 DEF Read, Row, Meaning
<1>7. QED
  BY <1>3, <1>5, <1>6, Words

LEMMA VodHour ==
  ASSUME NEW p, Len(p) \in Nat
  PROVE  /\ Fits(VodRoutes[4], p) <=>
              /\ Len(p) >= 5 /\ p[1] = "vod" /\ p[2] \in Dated
         /\ Read(VodRoutes[4], p) =
              Meaning("recording_playback", p[5], "hour", <<p[2], p[3], p[4]>>)
<1> DEFINE path == <<"vod", "*-*", "*", "*", "*">>
<1>1. VodRoutes[4] = Row("recording_playback", "hour", path, 5, <<2, 3, 4>>, TRUE)
  BY VodRows
<1>2. DOMAIN path = 1 .. 5 /\ Len(path) = 5
  OBVIOUS
<1>3. /\ path[1] = "vod" /\ path[2] = "*-*" /\ path[3] = "*" /\ path[4] = "*"
      /\ path[5] = "*"
  OBVIOUS
<1> HIDE DEF path
<1>4. VodRoutes[4].path = path /\ VodRoutes[4].more
  BY <1>1 DEF Row
<1>5. Fits(VodRoutes[4], p) <=>
        Len(p) >= 5 /\ \A i \in 1 .. 5 : Accepts(path[i], p[i])
  BY <1>2, <1>4, FitsMore
<1>6. Read(VodRoutes[4], p) =
        Meaning("recording_playback", p[5], "hour", <<p[2], p[3], p[4]>>)
  BY <1>1, Three DEF Read, Row, Meaning
<1>7. QED
  BY <1>3, <1>5, <1>6, Words

LEMMA ClipRange ==
  ASSUME NEW p, Len(p) \in Nat
  PROVE  /\ Fits(ClipRoutes[1], p) <=>
              /\ Len(p) >= 6 /\ p[2] = "start" /\ p[4] = "end" /\ p[6] = "clip.mp4"
         /\ Read(ClipRoutes[1], p) =
              Meaning("recording_playback", p[1], "range", <<p[3], p[5]>>)
<1> DEFINE path == <<"*", "start", "*", "end", "*", "clip.mp4">>
<1>1. ClipRoutes[1] = Row("recording_playback", "range", path, 1, <<3, 5>>, TRUE)
  BY ClipRows
<1>2. DOMAIN path = 1 .. 6 /\ Len(path) = 6
  OBVIOUS
<1>3. /\ path[1] = "*" /\ path[2] = "start" /\ path[3] = "*" /\ path[4] = "end"
      /\ path[5] = "*" /\ path[6] = "clip.mp4"
  OBVIOUS
<1> HIDE DEF path
<1>4. ClipRoutes[1].path = path /\ ClipRoutes[1].more
  BY <1>1 DEF Row
<1>5. Fits(ClipRoutes[1], p) <=>
        Len(p) >= 6 /\ \A i \in 1 .. 6 : Accepts(path[i], p[i])
  BY <1>2, <1>4, FitsMore
<1>6. Read(ClipRoutes[1], p) =
        Meaning("recording_playback", p[1], "range", <<p[3], p[5]>>)
  BY <1>1 DEF Read, Row, Meaning
<1>7. QED
  BY <1>3, <1>5, <1>6, Words

LEMMA ClipEvent ==
  ASSUME NEW p, Len(p) \in Nat
  PROVE  /\ Fits(ClipRoutes[2], p) <=>
              /\ Len(p) >= 3 /\ p[1] = "events" /\ p[3] = "clip.mp4"
         /\ Read(ClipRoutes[2], p) =
              Meaning("recording_playback", Blank, "event", <<p[2]>>)
<1> DEFINE path == <<"events", "*", "clip.mp4">>
<1>1. ClipRoutes[2] = Row("recording_playback", "event", path, 0, <<2>>, TRUE)
  BY ClipRows
<1>2. DOMAIN path = 1 .. 3 /\ Len(path) = 3
  OBVIOUS
<1>3. /\ path[1] = "events" /\ path[2] = "*" /\ path[3] = "clip.mp4"
  OBVIOUS
<1> HIDE DEF path
<1>4. ClipRoutes[2].path = path /\ ClipRoutes[2].more
  BY <1>1 DEF Row
<1>5. Fits(ClipRoutes[2], p) <=>
        Len(p) >= 3 /\ \A i \in 1 .. 3 : Accepts(path[i], p[i])
  BY <1>2, <1>4, FitsMore
<1>6. Read(ClipRoutes[2], p) =
        Meaning("recording_playback", Blank, "event", <<p[2]>>)
  BY <1>1 DEF Read, Row, Meaning
<1>7. QED
  BY <1>3, <1>5, <1>6, Words

LEMMA ClipReview ==
  ASSUME NEW p, Len(p) \in Nat
  PROVE  /\ Fits(ClipRoutes[3], p) <=>
              /\ Len(p) >= 3 /\ p[1] = "review" /\ p[3] = "clip.mp4"
         /\ Read(ClipRoutes[3], p) =
              Meaning("recording_playback", Blank, "review", <<p[2]>>)
<1> DEFINE path == <<"review", "*", "clip.mp4">>
<1>1. ClipRoutes[3] = Row("recording_playback", "review", path, 0, <<2>>, TRUE)
  BY ClipRows
<1>2. DOMAIN path = 1 .. 3 /\ Len(path) = 3
  OBVIOUS
<1>3. /\ path[1] = "review" /\ path[2] = "*" /\ path[3] = "clip.mp4"
  OBVIOUS
<1> HIDE DEF path
<1>4. ClipRoutes[3].path = path /\ ClipRoutes[3].more
  BY <1>1 DEF Row
<1>5. Fits(ClipRoutes[3], p) <=>
        Len(p) >= 3 /\ \A i \in 1 .. 3 : Accepts(path[i], p[i])
  BY <1>2, <1>4, FitsMore
<1>6. Read(ClipRoutes[3], p) =
        Meaning("recording_playback", Blank, "review", <<p[2]>>)
  BY <1>1 DEF Read, Row, Meaning
<1>7. QED
  BY <1>3, <1>5, <1>6, Words

LEMMA ClipLabel ==
  ASSUME NEW p, Len(p) \in Nat
  PROVE  /\ Fits(ClipRoutes[4], p) <=>
              /\ Len(p) = 3 /\ p[3] = "clip.mp4"
         /\ Read(ClipRoutes[4], p) =
              Meaning("recording_playback", p[1], "label", <<p[2]>>)
<1> DEFINE path == <<"*", "*", "clip.mp4">>
<1>1. ClipRoutes[4] = Row("recording_playback", "label", path, 1, <<2>>, FALSE)
  BY ClipRows
<1>2. DOMAIN path = 1 .. 3 /\ Len(path) = 3
  OBVIOUS
<1>3. /\ path[1] = "*" /\ path[2] = "*" /\ path[3] = "clip.mp4"
  OBVIOUS
<1> HIDE DEF path
<1>4. ClipRoutes[4].path = path /\ ~ClipRoutes[4].more
  BY <1>1 DEF Row
<1>5. Fits(ClipRoutes[4], p) <=>
        Len(p) = 3 /\ \A i \in 1 .. 3 : Accepts(path[i], p[i])
  BY <1>2, <1>4, FitsExactly
<1>6. Read(ClipRoutes[4], p) =
        Meaning("recording_playback", p[1], "label", <<p[2]>>)
  BY <1>1 DEF Read, Row, Meaning
<1>7. QED
  BY <1>3, <1>5, <1>6, Words
-------------------------------------------------------------------------------
\* Recognised reads the first row that fits, if there is one.
LEMMA FirstFit ==
  ASSUME NEW table, NEW p, DOMAIN table \subseteq Int, NEW i \in DOMAIN table,
         Fits(table[i], p), \A j \in DOMAIN table : j < i => ~Fits(table[j], p)
  PROVE  Recognised(table, p) = Read(table[i], p)
<1> DEFINE fitting == {j \in DOMAIN table : Fits(table[j], p)}
           Earliest(j) == j \in fitting /\ \A k \in fitting : j <= k
<1>1. Earliest(i)
  OBVIOUS
<1>2. \A j : Earliest(j) => j = i
  OBVIOUS
<1>3. (CHOOSE j : Earliest(j)) = i
  BY <1>1, <1>2, Zenon
<1>4. (CHOOSE j \in fitting : \A k \in fitting : j <= k) = (CHOOSE j : Earliest(j))
  OBVIOUS
<1>5. fitting # {}
  BY <1>1
<1>6. QED
  BY <1>3, <1>4, <1>5, Zenon DEF Recognised

LEMMA NoneFits ==
  ASSUME NEW table, NEW p, \A j \in DOMAIN table : ~Fits(table[j], p)
  PROVE  Recognised(table, p) = NoAccess
BY Zenon DEF Recognised

\* A table is the chain of tests that the code makes.
LEMMA TwoTests ==
  ASSUME NEW table, NEW p, DOMAIN table = 1 .. 2
  PROVE  Recognised(table, p) =
           IF Fits(table[1], p) THEN Read(table[1], p)
           ELSE IF Fits(table[2], p) THEN Read(table[2], p) ELSE NoAccess
<1>1. CASE Fits(table[1], p)
  BY <1>1, FirstFit
<1>2. CASE ~Fits(table[1], p) /\ Fits(table[2], p)
  <2>1. \A j \in DOMAIN table : j < 2 => ~Fits(table[j], p)
    BY <1>2
  <2>2. QED
    BY <1>2, <2>1, FirstFit
<1>3. CASE ~Fits(table[1], p) /\ ~Fits(table[2], p)
  <2>1. \A j \in DOMAIN table : ~Fits(table[j], p)
    BY <1>3
  <2>2. QED
    BY <1>3, <2>1, NoneFits
<1>4. QED
  BY <1>1, <1>2, <1>3

LEMMA ThreeTests ==
  ASSUME NEW table, NEW p, DOMAIN table = 1 .. 3
  PROVE  Recognised(table, p) =
           IF Fits(table[1], p) THEN Read(table[1], p)
           ELSE IF Fits(table[2], p) THEN Read(table[2], p)
           ELSE IF Fits(table[3], p) THEN Read(table[3], p) ELSE NoAccess
<1>1. CASE Fits(table[1], p)
  BY <1>1, FirstFit
<1>2. CASE ~Fits(table[1], p) /\ Fits(table[2], p)
  <2>1. \A j \in DOMAIN table : j < 2 => ~Fits(table[j], p)
    BY <1>2
  <2>2. QED
    BY <1>2, <2>1, FirstFit
<1>3. CASE ~Fits(table[1], p) /\ ~Fits(table[2], p) /\ Fits(table[3], p)
  <2>1. \A j \in DOMAIN table : j < 3 => ~Fits(table[j], p)
    BY <1>3
  <2>2. QED
    BY <1>3, <2>1, FirstFit
<1>4. CASE ~Fits(table[1], p) /\ ~Fits(table[2], p) /\ ~Fits(table[3], p)
  <2>1. \A j \in DOMAIN table : ~Fits(table[j], p)
    BY <1>4
  <2>2. QED
    BY <1>4, <2>1, NoneFits
<1>5. QED
  BY <1>1, <1>2, <1>3, <1>4

LEMMA FourTests ==
  ASSUME NEW table, NEW p, DOMAIN table = 1 .. 4
  PROVE  Recognised(table, p) =
           IF Fits(table[1], p) THEN Read(table[1], p)
           ELSE IF Fits(table[2], p) THEN Read(table[2], p)
           ELSE IF Fits(table[3], p) THEN Read(table[3], p)
           ELSE IF Fits(table[4], p) THEN Read(table[4], p) ELSE NoAccess
<1>1. CASE Fits(table[1], p)
  BY <1>1, FirstFit
<1>2. CASE ~Fits(table[1], p) /\ Fits(table[2], p)
  <2>1. \A j \in DOMAIN table : j < 2 => ~Fits(table[j], p)
    BY <1>2
  <2>2. QED
    BY <1>2, <2>1, FirstFit
<1>3. CASE ~Fits(table[1], p) /\ ~Fits(table[2], p) /\ Fits(table[3], p)
  <2>1. \A j \in DOMAIN table : j < 3 => ~Fits(table[j], p)
    BY <1>3
  <2>2. QED
    BY <1>3, <2>1, FirstFit
<1>4. CASE ~Fits(table[1], p) /\ ~Fits(table[2], p) /\ ~Fits(table[3], p) /\ Fits(table[4], p)
  <2>1. \A j \in DOMAIN table : j < 4 => ~Fits(table[j], p)
    BY <1>4
  <2>2. QED
    BY <1>4, <2>1, FirstFit
<1>5. CASE /\ ~Fits(table[1], p) /\ ~Fits(table[2], p)
           /\ ~Fits(table[3], p) /\ ~Fits(table[4], p)
  <2>1. \A j \in DOMAIN table : ~Fits(table[j], p)
    BY <1>5
  <2>2. QED
    BY <1>5, <2>1, NoneFits
<1>6. QED
  BY <1>1, <1>2, <1>3, <1>4, <1>5

\* What the routes below /vod make of a path (gateway.go:492-508).
LEMMA VodMeanings ==
  ASSUME NEW p, Len(p) \in Nat, p[1] = "vod"
  PROVE  /\ Len(p) >= 3 /\ p[2] = "event" =>
              Recognised(VodRoutes, p) = Meaning("recording_playback", Blank, "event", <<p[3]>>)
         /\ Len(p) >= 7 /\ p[2] = "clip" /\ p[4] = "start" /\ p[6] = "end" =>
              Recognised(VodRoutes, p) = Meaning("recording_playback", p[3], "range", <<p[5], p[7]>>)
         /\ Len(p) >= 6 /\ p[2] # "event" /\ p[3] = "start" /\ p[5] = "end" /\ p[4] # "start" =>
              Recognised(VodRoutes, p) = Meaning("recording_playback", p[2], "range", <<p[4], p[6]>>)
         /\ Len(p) >= 5 /\ p[2] \in Dated /\ p[3] # "start" /\ p[4] # "start" =>
              Recognised(VodRoutes, p) =
                Meaning("recording_playback", p[5], "hour", <<p[2], p[3], p[4]>>)
         /\ Len(p) < 3 => Recognised(VodRoutes, p) = NoAccess
<1>1. Recognised(VodRoutes, p) =
        IF Fits(VodRoutes[1], p) THEN Read(VodRoutes[1], p)
        ELSE IF Fits(VodRoutes[2], p) THEN Read(VodRoutes[2], p)
        ELSE IF Fits(VodRoutes[3], p) THEN Read(VodRoutes[3], p)
        ELSE IF Fits(VodRoutes[4], p) THEN Read(VodRoutes[4], p) ELSE NoAccess
  BY FourTests, VodRows
<1>2. ASSUME Len(p) >= 3, p[2] = "event"
      PROVE  Recognised(VodRoutes, p) = Meaning("recording_playback", Blank, "event", <<p[3]>>)
  BY <1>1, <1>2, VodEvent
<1>3. ASSUME Len(p) >= 7, p[2] = "clip", p[4] = "start", p[6] = "end"
      PROVE  Recognised(VodRoutes, p) = Meaning("recording_playback", p[3], "range", <<p[5], p[7]>>)
  BY <1>1, <1>3, VodEvent, VodClip
<1>4. ASSUME Len(p) >= 6, p[2] # "event", p[3] = "start", p[5] = "end", p[4] # "start"
      PROVE  Recognised(VodRoutes, p) = Meaning("recording_playback", p[2], "range", <<p[4], p[6]>>)
  BY <1>1, <1>4, VodEvent, VodClip, VodRange
<1>5. ASSUME Len(p) >= 5, p[2] \in Dated, p[3] # "start", p[4] # "start"
      PROVE  Recognised(VodRoutes, p) =
               Meaning("recording_playback", p[5], "hour", <<p[2], p[3], p[4]>>)
  <2>1. p[2] # "event" /\ p[2] # "clip"
    BY <1>5, SegmentAssumption
  <2>2. QED
    BY <1>1, <1>5, <2>1, VodEvent, VodClip, VodRange, VodHour
<1>6. ASSUME Len(p) < 3
      PROVE  Recognised(VodRoutes, p) = NoAccess
  <2>1. ~(Len(p) >= 3) /\ ~(Len(p) >= 5) /\ ~(Len(p) >= 6) /\ ~(Len(p) >= 7)
    BY <1>6
  <2>2. /\ ~Fits(VodRoutes[1], p) /\ ~Fits(VodRoutes[2], p)
        /\ ~Fits(VodRoutes[3], p) /\ ~Fits(VodRoutes[4], p)
    BY <2>1, VodEvent, VodClip, VodRange, VodHour
  <2>3. QED
    BY <1>1, <2>2
<1>7. QED
  BY <1>2, <1>3, <1>4, <1>5, <1>6

\* The same of the other routes (gateway.go:510-523).
LEMMA ClipMeanings ==
  ASSUME NEW p, Len(p) \in Nat
  PROVE  /\ Len(p) >= 6 /\ p[2] = "start" /\ p[4] = "end" /\ p[6] = "clip.mp4" =>
              Recognised(ClipRoutes, p) = Meaning("recording_playback", p[1], "range", <<p[3], p[5]>>)
         /\ Len(p) = 3 /\ p[1] = "events" /\ p[3] = "clip.mp4" =>
              Recognised(ClipRoutes, p) = Meaning("recording_playback", Blank, "event", <<p[2]>>)
         /\ Len(p) = 3 /\ p[1] = "review" /\ p[3] = "clip.mp4" =>
              Recognised(ClipRoutes, p) = Meaning("recording_playback", Blank, "review", <<p[2]>>)
         /\ Len(p) = 3 /\ p[1] \notin {"events", "review"} /\ p[3] = "clip.mp4" =>
              Recognised(ClipRoutes, p) = Meaning("recording_playback", p[1], "label", <<p[2]>>)
         /\ Len(p) < 6 /\ (Len(p) >= 3 => p[3] # "clip.mp4") => Recognised(ClipRoutes, p) = NoAccess
<1>1. Recognised(ClipRoutes, p) =
        IF Fits(ClipRoutes[1], p) THEN Read(ClipRoutes[1], p)
        ELSE IF Fits(ClipRoutes[2], p) THEN Read(ClipRoutes[2], p)
        ELSE IF Fits(ClipRoutes[3], p) THEN Read(ClipRoutes[3], p)
        ELSE IF Fits(ClipRoutes[4], p) THEN Read(ClipRoutes[4], p) ELSE NoAccess
  BY FourTests, ClipRows
<1>2. ASSUME Len(p) >= 6, p[2] = "start", p[4] = "end", p[6] = "clip.mp4"
      PROVE  Recognised(ClipRoutes, p) = Meaning("recording_playback", p[1], "range", <<p[3], p[5]>>)
  BY <1>1, <1>2, ClipRange
<1>3. ASSUME Len(p) = 3, p[1] = "events", p[3] = "clip.mp4"
      PROVE  Recognised(ClipRoutes, p) = Meaning("recording_playback", Blank, "event", <<p[2]>>)
  <2>1. ~(Len(p) >= 6) /\ Len(p) >= 3
    BY <1>3
  <2>2. ~Fits(ClipRoutes[1], p) /\ Fits(ClipRoutes[2], p)
    BY <1>3, <2>1, ClipRange, ClipEvent
  <2>3. QED
    BY <1>1, <2>2, ClipEvent
<1>4. ASSUME Len(p) = 3, p[1] = "review", p[3] = "clip.mp4"
      PROVE  Recognised(ClipRoutes, p) = Meaning("recording_playback", Blank, "review", <<p[2]>>)
  <2>1. ~(Len(p) >= 6) /\ Len(p) >= 3
    BY <1>4
  <2>2. ~Fits(ClipRoutes[1], p) /\ ~Fits(ClipRoutes[2], p) /\ Fits(ClipRoutes[3], p)
    BY <1>4, <2>1, ClipRange, ClipEvent, ClipReview
  <2>3. QED
    BY <1>1, <2>2, ClipReview
<1>5. ASSUME Len(p) = 3, p[1] \notin {"events", "review"}, p[3] = "clip.mp4"
      PROVE  Recognised(ClipRoutes, p) = Meaning("recording_playback", p[1], "label", <<p[2]>>)
  <2>1. ~(Len(p) >= 6)
    BY <1>5
  <2>2. /\ ~Fits(ClipRoutes[1], p) /\ ~Fits(ClipRoutes[2], p)
        /\ ~Fits(ClipRoutes[3], p) /\ Fits(ClipRoutes[4], p)
    BY <1>5, <2>1, ClipRange, ClipEvent, ClipReview, ClipLabel
  <2>3. QED
    BY <1>1, <2>2, ClipLabel
<1>6. ASSUME Len(p) < 6, Len(p) >= 3 => p[3] # "clip.mp4"
      PROVE  Recognised(ClipRoutes, p) = NoAccess
  <2>1. ~(Len(p) >= 6) /\ ~(Len(p) >= 3 /\ p[3] = "clip.mp4") /\ ~(Len(p) = 3 /\ p[3] = "clip.mp4")
    BY <1>6
  <2>2. /\ ~Fits(ClipRoutes[1], p) /\ ~Fits(ClipRoutes[2], p)
        /\ ~Fits(ClipRoutes[3], p) /\ ~Fits(ClipRoutes[4], p)
    BY <2>1, ClipRange, ClipEvent, ClipReview, ClipLabel
  <2>3. QED
    BY <1>1, <2>2
<1>7. QED
  BY <1>2, <1>3, <1>4, <1>5, <1>6

\* A GET for neither an export nor a recording's file is no such action.
LEMMA NoAction ==
  ASSUME NEW r, r.method = "GET", Len(r.path) \in Nat,
         r.path[1] \notin {"exports", "recordings"},
         Len(r.path) = 4 => r.path[1] # "api" \/ r.path[2] # "cases" \/ r.path[4] # "download"
  PROVE  RecordingAction(r) = NoAccess
<1>1. Shortened(r.path) = r.path
  BY DEF Shortened
<1>2. Recognised(DownloadRoutes, r.path) = NoAccess
  BY ThreeTests, DownloadRows, DownloadFile, DownloadCase, DownloadRecording
<1>3. "GET" # "POST"
  OBVIOUS
<1>4. QED
  BY <1>1, <1>2, <1>3 DEF RecordingAction

\* Whatever has a kind is an access.
LEMMA SomeAccess ==
  ASSUME NEW kind, NEW camera, NEW label, NEW parts, kind # Blank
  PROVE  Meaning(kind, camera, label, parts) # NoAccess
BY DEF Meaning, NoAccess

LEMMA KindNames ==
  /\ "recording_playback" # Blank /\ "recording_export_requested" # Blank
  /\ "recording_export_download" # Blank /\ "recording_download" # Blank
BY Zenon DEF Blank
-------------------------------------------------------------------------------
\* A playback is that, whatever the live routes would make of it.
LEMMA Plays ==
  ASSUME NEW r, NEW camera, NEW label, NEW parts, RecordingAction(r) = NoAccess,
         RecordingPlayback(r) = Meaning("recording_playback", camera, label, parts)
  PROVE  CameraAccess(r) = Meaning("recording_playback", camera, label, parts)
BY SomeAccess, KindNames DEF CameraAccess

\* The segments of the playback URLs.
Segment ==
  Names \cup Tokens \cup Dated \cup Mp4
  \cup {"api", "vod", "event", "events", "review", "clip", "clip.mp4", "start", "end"}
  \cup {"index.m3u8", "video", "seg-1.ts"}

\* What is left of a path without the prefix /api.
Below(path) == IF path # <<>> /\ path[1] = "api" THEN Tail(path) ELSE path

LEMMA BelowApi ==
  ASSUME NEW path \in Seq(Segment), path # <<>>, path[1] = "api"
  PROVE  /\ Len(Below(path)) = Len(path) - 1 /\ Len(Below(path)) \in Nat
         /\ \A i \in 1 .. Len(path) - 1 : Below(path)[i] = path[i + 1]
BY DEF Below

\* The two tables of the recordings.
LEMMA PlaybackIs ==
  ASSUME NEW r, Below(r.path) # <<>>
  PROVE  RecordingPlayback(r) =
           IF Below(r.path)[1] = "vod" THEN Recognised(VodRoutes, Below(r.path))
           ELSE Recognised(ClipRoutes, Below(r.path))
BY Zenon DEF RecordingPlayback, Below

\* A path below /vod, with or without /api, and whatever follows.
IsVod(q) == q \in Seq(Segment) /\ q # <<>> /\ q[1] = "vod"
Around(path, q) == \E a \in Prefixes, t \in Segments : path = a \o q \o t

LEMMA VodPath ==
  ASSUME NEW q, IsVod(q), NEW path, Around(path, q)
  PROVE  /\ path \in Seq(Segment) /\ Len(path) \in Nat /\ path # <<>>
         /\ path[1] \in {"api", "vod"} /\ (path[1] = "api" => path[2] = "vod")
         /\ Len(Below(path)) \in Nat /\ Len(Below(path)) >= Len(q)
         /\ \A i \in 1 .. Len(q) : Below(path)[i] = q[i]
<1>0. PICK a \in Prefixes, t \in Segments : path = a \o q \o t
  BY DEF Around
<1>1. q \in Seq(Segment) /\ q # <<>> /\ q[1] = "vod"
  BY DEF IsVod
<1>2. t \in Seq(Segment)
  <2> DEFINE S == {"index.m3u8", "video", "seg-1.ts"}
  <2>1. <<>> \in Seq(S) /\ <<"index.m3u8">> \in Seq(S) /\ <<"video", "seg-1.ts">> \in Seq(S)
    OBVIOUS
  <2>2. t \in Seq(S)
    BY <2>1 DEF Segments
  <2>3. S \subseteq Segment
    BY DEF Segment
  <2> HIDE DEF S
  <2>4. QED
    BY <2>2, <2>3
<1> DEFINE p == q \o t
<1>3. /\ p \in Seq(Segment) /\ Len(p) = Len(q) + Len(t) /\ Len(p) \in Nat /\ Len(q) \in Nat
      /\ Len(t) \in Nat /\ Len(q) > 0 /\ \A i \in 1 .. Len(q) : p[i] = q[i]
  BY <1>1, <1>2
<1> HIDE DEF p
<1>4. CASE a = <<>>
  <2>1. path = p
    BY <1>0, <1>1, <1>2, <1>4 DEF p
  <2>2. p # <<>> /\ p[1] = "vod"
    BY <1>1, <1>3
  <2>3. Below(p) = p
    BY <2>2 DEF Below
  <2>4. QED
    BY <1>3, <2>1, <2>2, <2>3
<1>5. CASE a = <<"api">>
  <2> DEFINE P == <<"api">> \o p
  <2>1. path = P
    BY <1>0, <1>1, <1>2, <1>5 DEF p
  <2>2. "api" \in Segment
    BY DEF Segment
  <2>3. /\ P \in Seq(Segment) /\ Len(P) = 1 + Len(p) /\ P # <<>> /\ P[1] = "api"
        /\ \A i \in 1 .. Len(p) : P[i + 1] = p[i]
    BY <1>3, <2>2
  <2> HIDE DEF P
  <2>4. Len(P) - 1 = Len(p)
    BY <1>3, <2>3
  <2>5. Len(Below(P)) = Len(p) /\ \A i \in 1 .. Len(P) - 1 : Below(P)[i] = P[i + 1]
    BY <2>3, <2>4, BelowApi
  <2>6. \A i \in 1 .. Len(p) : Below(P)[i] = p[i]
    BY <2>3, <2>4, <2>5
  <2>7. P[2] = "vod"
    BY <1>1, <1>3, <2>3
  <2>8. QED
    BY <1>3, <2>1, <2>3, <2>5, <2>6, <2>7
<1>6. QED
  BY <1>4, <1>5 DEF Prefixes

\* What a GET below /vod is.
LEMMA VodUrl ==
  ASSUME NEW q, IsVod(q), NEW r, r.method = "GET", Around(r.path, q)
  PROVE  /\ RecordingAction(r) = NoAccess
         /\ RecordingPlayback(r) = Recognised(VodRoutes, Below(r.path))
         /\ Len(Below(r.path)) \in Nat /\ Len(Below(r.path)) >= Len(q)
         /\ \A i \in 1 .. Len(q) : Below(r.path)[i] = q[i]
<1>1. /\ r.path \in Seq(Segment) /\ Len(r.path) \in Nat /\ r.path # <<>>
      /\ r.path[1] \in {"api", "vod"} /\ (r.path[1] = "api" => r.path[2] = "vod")
      /\ Len(Below(r.path)) \in Nat /\ Len(Below(r.path)) >= Len(q)
      /\ \A i \in 1 .. Len(q) : Below(r.path)[i] = q[i]
  BY VodPath
<1>2. RecordingAction(r) = NoAccess
  BY <1>1, NoAction
<1>3. Below(r.path) # <<>> /\ Below(r.path)[1] = "vod"
  <2>1. Len(q) \in Nat /\ Len(q) >= 1 /\ q[1] = "vod"
    BY DEF IsVod
  <2>2. Len(Below(r.path)) # 0
    BY <1>1, <2>1
  <2>3. Len(<<>>) = 0
    OBVIOUS
  <2>4. Below(r.path) # <<>>
    BY <2>2, <2>3, Zenon
  <2>5. QED
    BY <1>1, <2>1, <2>4
<1>4. RecordingPlayback(r) = Recognised(VodRoutes, Below(r.path))
  BY <1>3, PlaybackIs
<1>5. QED
  BY <1>1, <1>2, <1>4

\* The four kinds of URL below /vod.
LEMMA VodEventUrl ==
  ASSUME NEW s \in Times,
         NEW r, r.method = "GET", Around(r.path, <<"vod", "event", s>>)
  PROVE  CameraAccess(r) = Meaning("recording_playback", Blank, "event", <<s>>)
<1> DEFINE q == <<"vod", "event", s>>
           p == Below(r.path)
<1>1. IsVod(q)
  BY DEF IsVod, Segment, Times
<1>2. /\ RecordingAction(r) = NoAccess /\ RecordingPlayback(r) = Recognised(VodRoutes, p)
      /\ Len(p) \in Nat /\ Len(p) >= Len(q) /\ \A i \in 1 .. Len(q) : p[i] = q[i]
  BY <1>1, VodUrl
<1> HIDE DEF p
<1>3. Len(p) >= 3 /\ p[1] = "vod" /\ p[2] = "event" /\ p[3] = s
  BY <1>2
<1>4. RecordingPlayback(r) = Meaning("recording_playback", Blank, "event", <<s>>)
  BY <1>2, <1>3, VodMeanings
<1>5. QED
  BY <1>2, <1>4, Plays

LEMMA VodClipUrl ==
  ASSUME NEW c \in Cameras, NEW s \in Times, NEW e \in Times,
         NEW r, r.method = "GET", Around(r.path, <<"vod", "clip", c, "start", s, "end", e>>)
  PROVE  CameraAccess(r) = Meaning("recording_playback", c, "range", <<s, e>>)
<1> DEFINE q == <<"vod", "clip", c, "start", s, "end", e>>
           p == Below(r.path)
<1>1. IsVod(q)
  BY DEF IsVod, Segment, Times, Cameras
<1>2. /\ RecordingAction(r) = NoAccess /\ RecordingPlayback(r) = Recognised(VodRoutes, p)
      /\ Len(p) \in Nat /\ Len(p) >= Len(q) /\ \A i \in 1 .. Len(q) : p[i] = q[i]
  BY <1>1, VodUrl
<1> HIDE DEF p
<1>3. /\ Len(p) >= 7 /\ p[1] = "vod" /\ p[2] = "clip" /\ p[3] = c /\ p[4] = "start" /\ p[5] = s
      /\ p[6] = "end" /\ p[7] = e
  BY <1>2
<1>4. RecordingPlayback(r) = Meaning("recording_playback", c, "range", <<s, e>>)
  BY <1>2, <1>3, VodMeanings
<1>5. QED
  BY <1>2, <1>4, Plays

LEMMA VodRangeUrl ==
  ASSUME NEW c \in Cameras, NEW s \in Times, NEW e \in Times,
         NEW r, r.method = "GET", Around(r.path, <<"vod", c, "start", s, "end", e>>)
  PROVE  CameraAccess(r) = Meaning("recording_playback", c, "range", <<s, e>>)
<1> DEFINE q == <<"vod", c, "start", s, "end", e>>
           p == Below(r.path)
<1>1. IsVod(q) /\ c # "event" /\ s # "start"
  BY DEF IsVod, Segment, Times, Cameras, Reserved
<1>2. /\ RecordingAction(r) = NoAccess /\ RecordingPlayback(r) = Recognised(VodRoutes, p)
      /\ Len(p) \in Nat /\ Len(p) >= Len(q) /\ \A i \in 1 .. Len(q) : p[i] = q[i]
  BY <1>1, VodUrl
<1> HIDE DEF p
<1>3. /\ Len(p) >= 6 /\ p[1] = "vod" /\ p[2] = c /\ p[3] = "start" /\ p[4] = s /\ p[5] = "end"
      /\ p[6] = e
  BY <1>2
<1>4. RecordingPlayback(r) = Meaning("recording_playback", c, "range", <<s, e>>)
  BY <1>1, <1>2, <1>3, VodMeanings
<1>5. QED
  BY <1>2, <1>4, Plays

LEMMA VodHourUrl ==
  ASSUME NEW d \in Dated, NEW c \in Cameras, NEW s \in Times, NEW e \in Times,
         NEW r, r.method = "GET", Around(r.path, <<"vod", d, s, e, c>>)
  PROVE  CameraAccess(r) = Meaning("recording_playback", c, "hour", <<d, s, e>>)
<1> DEFINE q == <<"vod", d, s, e, c>>
           p == Below(r.path)
<1>1. IsVod(q) /\ s # "start" /\ e # "start"
  BY DEF IsVod, Segment, Times, Cameras
<1>2. /\ RecordingAction(r) = NoAccess /\ RecordingPlayback(r) = Recognised(VodRoutes, p)
      /\ Len(p) \in Nat /\ Len(p) >= Len(q) /\ \A i \in 1 .. Len(q) : p[i] = q[i]
  BY <1>1, VodUrl
<1> HIDE DEF p
<1>3. Len(p) >= 5 /\ p[1] = "vod" /\ p[2] = d /\ p[3] = s /\ p[4] = e /\ p[5] = c
  BY <1>2
<1>4. RecordingPlayback(r) = Meaning("recording_playback", c, "hour", <<d, s, e>>)
  BY <1>1, <1>2, <1>3, VodMeanings
<1>5. QED
  BY <1>2, <1>4, Plays

\* The routes of the clips, all below /api.
LEMMA ClipRangeUrl ==
  ASSUME NEW c \in Cameras, NEW s \in Times, NEW e \in Times,
         NEW r, r.method = "GET", r.path = <<"api", c, "start", s, "end", e, "clip.mp4">>
  PROVE  CameraAccess(r) = Meaning("recording_playback", c, "range", <<s, e>>)
<1> DEFINE p == Below(r.path)
<1>1. c # "vod"
  BY DEF Cameras, Reserved
<1>2. RecordingAction(r) = NoAccess
  <2>1. Len(r.path) \in Nat /\ Len(r.path) # 4 /\ r.path[1] = "api"
    OBVIOUS
  <2>2. QED
    BY <2>1, NoAction
<1>3. /\ Len(p) \in Nat /\ Len(p) >= 6 /\ p[1] = c /\ p[2] = "start" /\ p[3] = s /\ p[4] = "end" /\ p[5] = e
      /\ p[6] = "clip.mp4" /\ p # <<>>
  BY DEF Below
<1>4. RecordingPlayback(r) = Recognised(ClipRoutes, p)
  BY <1>1, <1>3, PlaybackIs
<1> HIDE DEF p
<1>5. RecordingPlayback(r) = Meaning("recording_playback", c, "range", <<s, e>>)
  BY <1>2, <1>3, <1>4, ClipMeanings
<1>6. QED
  BY <1>2, <1>5, Plays

LEMMA ClipEventUrl ==
  ASSUME NEW s \in Times, NEW r, r.method = "GET", r.path = <<"api", "events", s, "clip.mp4">>
  PROVE  CameraAccess(r) = Meaning("recording_playback", Blank, "event", <<s>>)
<1> DEFINE p == Below(r.path)
<1>2. RecordingAction(r) = NoAccess
  BY NoAction
<1>3. Len(p) \in Nat /\ Len(p) = 3 /\ p[1] = "events" /\ p[2] = s /\ p[3] = "clip.mp4" /\ p # <<>>
  BY DEF Below
<1>4. RecordingPlayback(r) = Recognised(ClipRoutes, p)
  BY <1>3, PlaybackIs
<1> HIDE DEF p
<1>5. RecordingPlayback(r) = Meaning("recording_playback", Blank, "event", <<s>>)
  BY <1>2, <1>3, <1>4, ClipMeanings
<1>6. QED
  BY <1>2, <1>5, Plays

LEMMA ClipReviewUrl ==
  ASSUME NEW s \in Times, NEW r, r.method = "GET", r.path = <<"api", "review", s, "clip.mp4">>
  PROVE  CameraAccess(r) = Meaning("recording_playback", Blank, "review", <<s>>)
<1> DEFINE p == Below(r.path)
<1>2. RecordingAction(r) = NoAccess
  BY NoAction
<1>3. Len(p) \in Nat /\ Len(p) = 3 /\ p[1] = "review" /\ p[2] = s /\ p[3] = "clip.mp4" /\ p # <<>>
  BY DEF Below
<1>4. RecordingPlayback(r) = Recognised(ClipRoutes, p)
  BY <1>3, PlaybackIs
<1> HIDE DEF p
<1>5. RecordingPlayback(r) = Meaning("recording_playback", Blank, "review", <<s>>)
  BY <1>2, <1>3, <1>4, ClipMeanings
<1>6. QED
  BY <1>2, <1>5, Plays

LEMMA ClipLabelUrl ==
  ASSUME NEW c \in Cameras, NEW s \in Times,
         NEW r, r.method = "GET", r.path = <<"api", c, s, "clip.mp4">>
  PROVE  CameraAccess(r) = Meaning("recording_playback", c, "label", <<s>>)
<1> DEFINE p == Below(r.path)
<1>1. c \notin {"vod", "events", "review"}
  BY DEF Cameras, Reserved
<1>2. RecordingAction(r) = NoAccess
  BY NoAction
<1>3. Len(p) \in Nat /\ Len(p) = 3 /\ p[1] = c /\ p[2] = s /\ p[3] = "clip.mp4" /\ p # <<>>
  BY DEF Below
<1>4. RecordingPlayback(r) = Recognised(ClipRoutes, p)
  BY <1>1, <1>3, PlaybackIs
<1> HIDE DEF p
<1>5. RecordingPlayback(r) = Meaning("recording_playback", c, "label", <<s>>)
  BY <1>1, <1>2, <1>3, <1>4, ClipMeanings
<1>6. QED
  BY <1>2, <1>5, Plays

\* A GET that is neither for the exports nor for a clip is looked up among the
\* live routes.
LEMMA Watches ==
  ASSUME NEW r, r.method = "GET", Len(r.path) \in Nat,
         r.path[1] \notin {"exports", "recordings"},
         Len(r.path) = 4 => r.path[1] # "api" \/ r.path[2] # "cases" \/ r.path[4] # "download",
         Below(r.path) # <<>>, Len(Below(r.path)) \in Nat, Len(Below(r.path)) < 6,
         Below(r.path)[1] # "vod", Len(Below(r.path)) >= 3 => Below(r.path)[3] # "clip.mp4"
  PROVE  CameraAccess(r) = LiveAccess(r)
<1> DEFINE p == Below(r.path)
<1>1. RecordingAction(r) = NoAccess
  BY NoAction
<1>2. RecordingPlayback(r) = Recognised(ClipRoutes, p)
  BY PlaybackIs
<1>3. Recognised(ClipRoutes, p) = NoAccess
  BY ClipMeanings
<1>4. QED
  BY <1>1, <1>2, <1>3, Zenon DEF CameraAccess

\* The live routes.
LEMMA LiveJsmpeg ==
  ASSUME NEW c, c # "clip.mp4", NEW r, r.method = "GET", r.path = <<"live", "jsmpeg", c>>
  PROVE  CameraAccess(r) = Viewing("jsmpeg", c)
<1>1. Len(r.path) \in Nat /\ Len(r.path) = 3 /\ r.path[1] = "live"
  OBVIOUS
<1>2. CameraAccess(r) = LiveAccess(r)
  <2> DEFINE b == Below(r.path)
  <2>1. b = <<"live", "jsmpeg", c>>
    BY DEF Below
  <2>2. b # <<>> /\ Len(b) \in Nat /\ Len(b) = 3 /\ b[1] = "live" /\ b[3] = c
    BY <2>1
  <2> HIDE DEF b
  <2>3. b[1] # "vod" /\ (Len(b) >= 3 => b[3] # "clip.mp4") /\ Len(b) < 6
    BY <2>2
  <2>4. QED
    BY <1>1, <2>2, <2>3, Watches DEF b
<1>3. LiveAccess(r) = Viewing("jsmpeg", c)
  BY DEF LiveAccess
<1>4. QED
  BY <1>2, <1>3

LEMMA LiveMse ==
  ASSUME NEW r, r.method = "GET", r.path = <<"live", "mse", "api", "ws">>
  PROVE  CameraAccess(r) = Viewing("mse", r.src)
<1>1. Len(r.path) \in Nat /\ Len(r.path) = 4 /\ r.path[1] = "live"
  OBVIOUS
<1>2. CameraAccess(r) = LiveAccess(r)
  <2> DEFINE b == Below(r.path)
  <2>1. b = <<"live", "mse", "api", "ws">>
    BY DEF Below
  <2>2. b # <<>> /\ Len(b) \in Nat /\ Len(b) = 4 /\ b[1] = "live" /\ b[3] = "api"
    BY <2>1
  <2> HIDE DEF b
  <2>3. b[1] # "vod" /\ (Len(b) >= 3 => b[3] # "clip.mp4") /\ Len(b) < 6
    BY <2>2
  <2>4. QED
    BY <1>1, <2>2, <2>3, Watches DEF b
<1>3. LiveAccess(r) = Viewing("mse", r.src)
  BY DEF LiveAccess
<1>4. QED
  BY <1>2, <1>3

LEMMA LiveGo2rtc ==
  ASSUME NEW r, r.method = "GET", r.path = <<"api", "go2rtc", "api", "ws">>
  PROVE  CameraAccess(r) = Viewing("mse", r.src)
<1>1. Len(r.path) \in Nat /\ Len(r.path) = 4 /\ r.path[1] = "api" /\ r.path[2] = "go2rtc"
  OBVIOUS
<1>2. CameraAccess(r) = LiveAccess(r)
  <2> DEFINE b == Below(r.path)
  <2>1. b = <<"go2rtc", "api", "ws">>
    BY DEF Below
  <2>2. b # <<>> /\ Len(b) \in Nat /\ Len(b) = 3 /\ b[1] = "go2rtc" /\ b[3] = "ws"
    BY <2>1
  <2> HIDE DEF b
  <2>3. b[1] # "vod" /\ (Len(b) >= 3 => b[3] # "clip.mp4") /\ Len(b) < 6
    BY <2>2
  <2>4. QED
    BY <1>1, <2>2, <2>3, Watches DEF b
<1>3. LiveAccess(r) = Viewing("mse", r.src)
  BY DEF LiveAccess
<1>4. QED
  BY <1>2, <1>3

LEMMA LiveSignal ==
  ASSUME NEW r, r.method = "GET", r.path = <<"api", "go2rtc", "webrtc">>
  PROVE  CameraAccess(r) = [kind |-> "webrtc_signal", camera |-> r.src, details |-> <<>>]
<1>1. Len(r.path) \in Nat /\ Len(r.path) = 3 /\ r.path[1] = "api"
  OBVIOUS
<1>2. CameraAccess(r) = LiveAccess(r)
  <2> DEFINE b == Below(r.path)
  <2>1. b = <<"go2rtc", "webrtc">>
    BY DEF Below
  <2>2. b # <<>> /\ Len(b) \in Nat /\ Len(b) = 2 /\ b[1] = "go2rtc"
    BY <2>1
  <2> HIDE DEF b
  <2>3. b[1] # "vod" /\ (Len(b) >= 3 => b[3] # "clip.mp4") /\ Len(b) < 6
    BY <2>2
  <2>4. QED
    BY <1>1, <2>2, <2>3, Watches DEF b
<1>3. LiveAccess(r) = [kind |-> "webrtc_signal", camera |-> r.src, details |-> <<>>]
  <2>1. r.path \notin {<<"live", "mse", "api", "ws">>, <<"api", "go2rtc", "api", "ws">>}
    OBVIOUS
  <2>2. r.path[1] # "live"
    OBVIOUS
  <2>3. QED
    BY <2>1, <2>2, Zenon DEF LiveAccess
<1>4. QED
  BY <1>2, <1>3

LEMMA LiveSnapshot ==
  ASSUME NEW c, c # "vod", NEW r, r.method = "GET", r.path = <<"api", c, "latest.jpg">>
  PROVE  CameraAccess(r) = Viewing("snapshot_live", c)
<1>1. Len(r.path) \in Nat /\ Len(r.path) = 3 /\ r.path[1] = "api"
  OBVIOUS
<1>2. CameraAccess(r) = LiveAccess(r)
  <2> DEFINE b == Below(r.path)
  <2>1. b = <<c, "latest.jpg">>
    BY DEF Below
  <2>2. b # <<>> /\ Len(b) \in Nat /\ Len(b) = 2 /\ b[1] = c
    BY <2>1
  <2> HIDE DEF b
  <2>3. b[1] # "vod" /\ (Len(b) >= 3 => b[3] # "clip.mp4") /\ Len(b) < 6
    BY <2>2
  <2>4. QED
    BY <1>1, <2>2, <2>3, Watches DEF b
<1>3. LiveAccess(r) = Viewing("snapshot_live", c)
  <2>1. r.path \notin {<<"live", "mse", "api", "ws">>, <<"api", "go2rtc", "api", "ws">>}
    OBVIOUS
  <2>2. r.path # <<"api", "go2rtc", "webrtc">>
    OBVIOUS
  <2>3. Len(r.path) = 3 /\ r.path[1] = "api" /\ r.path[2] = c /\ r.path[3] = "latest.jpg"
    OBVIOUS
  <2>4. "api" # "live"
    OBVIOUS
  <2>5. QED
    BY <2>1, <2>2, <2>3, <2>4, Zenon DEF LiveAccess
<1>4. QED
  BY <1>2, <1>3

\* The exports: asked for, and fetched.
LEMMA Acts ==
  ASSUME NEW r, NEW kind, NEW camera, NEW label, NEW parts, kind # Blank,
         RecordingAction(r) = Meaning(kind, camera, label, parts)
  PROVE  CameraAccess(r) = Meaning(kind, camera, label, parts)
BY SomeAccess, Zenon DEF CameraAccess

LEMMA StandardUrl ==
  ASSUME NEW c \in Cameras, NEW s \in Times, NEW e \in Times, NEW r, r.method = "POST",
         r.path = <<"api", "export", c, "start", s, "end", e>>
  PROVE  CameraAccess(r) = Meaning("recording_export_requested", c, "standard", <<s, e>>)
<1> DEFINE p == r.path
<1>1. /\ Len(p) \in Nat /\ Len(p) = 7 /\ p[1] = "api" /\ p[2] = "export" /\ p[3] = c
      /\ p[4] = "start" /\ p[5] = s /\ p[6] = "end" /\ p[7] = e
  OBVIOUS
<1> HIDE DEF p
<1>2. ~(Len(p) >= 8) /\ Len(p) >= 7
  BY <1>1
<1>3. ~Fits(ExportRoutes[1], p)
  BY <1>1, <1>2, ExportCustom
<1>4. /\ Fits(ExportRoutes[2], p)
      /\ Read(ExportRoutes[2], p) =
           Meaning("recording_export_requested", c, "standard", <<s, e>>)
  BY <1>1, <1>2, ExportStandard
<1>5. Recognised(ExportRoutes, p) = Read(ExportRoutes[2], p)
  BY <1>3, <1>4, ExportRows, TwoTests
<1>6. RecordingAction(r) = Recognised(ExportRoutes, p)
  BY DEF RecordingAction, p
<1>7. QED
  BY <1>4, <1>5, <1>6, Acts, KindNames

LEMMA CustomUrl ==
  ASSUME NEW c \in Cameras, NEW s \in Times, NEW e \in Times, NEW r, r.method = "POST",
         r.path = <<"api", "export", "custom", c, "start", s, "end", e>>
  PROVE  CameraAccess(r) = Meaning("recording_export_requested", c, "custom", <<s, e>>)
<1> DEFINE p == r.path
<1>1. /\ Len(p) \in Nat /\ Len(p) = 8 /\ p[1] = "api" /\ p[2] = "export" /\ p[3] = "custom"
      /\ p[4] = c /\ p[5] = "start" /\ p[6] = s /\ p[7] = "end" /\ p[8] = e
  OBVIOUS
<1> HIDE DEF p
<1>2. Len(p) >= 8
  BY <1>1
<1>3. /\ Fits(ExportRoutes[1], p)
      /\ Read(ExportRoutes[1], p) =
           Meaning("recording_export_requested", c, "custom", <<s, e>>)
  BY <1>1, <1>2, ExportCustom
<1>4. Recognised(ExportRoutes, p) = Read(ExportRoutes[1], p)
  BY <1>3, ExportRows, TwoTests
<1>5. RecordingAction(r) = Recognised(ExportRoutes, p)
  BY DEF RecordingAction, p
<1>6. QED
  BY <1>3, <1>4, <1>5, Acts, KindNames

\* No download below five segments is shortened.
LEMMA Fetches ==
  ASSUME NEW r, r.method = "GET", Len(r.path) <= 5, Len(r.path) \in Nat
  PROVE  RecordingAction(r) =
           IF Fits(DownloadRoutes[1], r.path) THEN Read(DownloadRoutes[1], r.path)
           ELSE IF Fits(DownloadRoutes[2], r.path) THEN Read(DownloadRoutes[2], r.path)
           ELSE IF Fits(DownloadRoutes[3], r.path) THEN Read(DownloadRoutes[3], r.path)
           ELSE NoAccess
<1>1. Shortened(r.path) = r.path
  BY DEF Shortened
<1>2. "GET" # "POST"
  OBVIOUS
<1>3. RecordingAction(r) = Recognised(DownloadRoutes, r.path)
  BY <1>1, <1>2, Zenon DEF RecordingAction
<1>4. QED
  BY <1>3, DownloadRows, ThreeTests

LEMMA ExportFileUrl ==
  ASSUME NEW f \in Mp4, NEW r, r.method = "GET", r.path = <<"exports", f>>
  PROVE  CameraAccess(r) = Meaning("recording_export_download", Blank, "export_file", <<f>>)
<1> DEFINE p == r.path
<1>1. Len(p) \in Nat /\ Len(p) <= 5 /\ Len(p) = 2 /\ p[1] = "exports" /\ p[2] = f
  OBVIOUS
<1>2. RecordingAction(r) =
        IF Fits(DownloadRoutes[1], p) THEN Read(DownloadRoutes[1], p)
        ELSE IF Fits(DownloadRoutes[2], p) THEN Read(DownloadRoutes[2], p)
        ELSE IF Fits(DownloadRoutes[3], p) THEN Read(DownloadRoutes[3], p) ELSE NoAccess
  BY <1>1, Fetches
<1> HIDE DEF p
<1>3. RecordingAction(r) = Meaning("recording_export_download", Blank, "export_file", <<f>>)
  BY <1>1, <1>2, DownloadFile
<1>4. QED
  BY <1>3, Acts, KindNames

LEMMA ExportCaseUrl ==
  ASSUME NEW s \in Times, NEW r, r.method = "GET", r.path = <<"api", "cases", s, "download">>
  PROVE  CameraAccess(r) = Meaning("recording_export_download", Blank, "export_case", <<s>>)
<1> DEFINE p == r.path
<1>1. /\ Len(p) \in Nat /\ Len(p) <= 5 /\ Len(p) = 4 /\ Len(p) # 2
      /\ p[1] = "api" /\ p[2] = "cases" /\ p[3] = s /\ p[4] = "download"
  OBVIOUS
<1>2. RecordingAction(r) =
        IF Fits(DownloadRoutes[1], p) THEN Read(DownloadRoutes[1], p)
        ELSE IF Fits(DownloadRoutes[2], p) THEN Read(DownloadRoutes[2], p)
        ELSE IF Fits(DownloadRoutes[3], p) THEN Read(DownloadRoutes[3], p) ELSE NoAccess
  BY <1>1, Fetches
<1> HIDE DEF p
<1>3. RecordingAction(r) = Meaning("recording_export_download", Blank, "export_case", <<s>>)
  BY <1>1, <1>2, DownloadFile, DownloadCase
<1>4. QED
  BY <1>3, Acts, KindNames

LEMMA RecordingUrl ==
  ASSUME NEW d \in Dated, NEW s \in Times, NEW c \in Cameras, NEW f \in Mp4,
         NEW r, r.method = "GET", r.path = <<"recordings", d, s, c, f>>
  PROVE  CameraAccess(r) = Meaning("recording_download", c, "file", <<d, s, f>>)
<1> DEFINE p == r.path
<1>1. /\ Len(p) \in Nat /\ Len(p) <= 5 /\ Len(p) = 5 /\ Len(p) # 2 /\ Len(p) # 4
      /\ p[1] = "recordings" /\ p[2] = d /\ p[3] = s /\ p[4] = c /\ p[5] = f
  OBVIOUS
<1>2. RecordingAction(r) =
        IF Fits(DownloadRoutes[1], p) THEN Read(DownloadRoutes[1], p)
        ELSE IF Fits(DownloadRoutes[2], p) THEN Read(DownloadRoutes[2], p)
        ELSE IF Fits(DownloadRoutes[3], p) THEN Read(DownloadRoutes[3], p) ELSE NoAccess
  BY <1>1, Fetches
<1> HIDE DEF p
<1>3. RecordingAction(r) = Meaning("recording_download", c, "file", <<d, s, f>>)
  BY <1>1, <1>2, DownloadFile, DownloadCase, DownloadRecording
<1>4. QED
  BY <1>3, Acts, KindNames

-------------------------------------------------------------------------------
\* The three families of URLs, one kind of URL after the other.
LEMMA LiveMeanings ==
  ASSUME NEW u \in LiveUrls
  PROVE  CameraAccess(u) = u.access
<1>1. CASE u = LiveUrl(<<"live", "jsmpeg", "birdseye">>, Blank, "birdseye_live", "birdseye")
  <2>1. CameraAccess(u) = Viewing("jsmpeg", "birdseye")
    BY <1>1, LiveJsmpeg DEF LiveUrl, Url
  <2>2. QED
    BY <1>1, <2>1 DEF LiveUrl, Url, Viewing
<1>2. CASE u = LiveUrl(<<"api", "birdseye", "latest.jpg">>, Blank, "birdseye_live", "birdseye")
  <2>1. CameraAccess(u) = Viewing("snapshot_live", "birdseye")
    BY <1>2, LiveSnapshot DEF LiveUrl, Url
  <2>2. QED
    BY <1>2, <2>1 DEF LiveUrl, Url, Viewing
<1>3. CASE \E c \in Cameras : u \in LiveOf(c)
  <2>0. PICK c \in Cameras : u \in LiveOf(c)
    BY <1>3
  <2>1. \/ u = LiveUrl(<<"live", "jsmpeg", c>>, Blank, "jsmpeg", c)
        \/ u = LiveUrl(<<"live", "mse", "api", "ws">>, c, "mse", c)
        \/ u = LiveUrl(<<"api", "go2rtc", "api", "ws">>, c, "mse", c)
        \/ u = LiveUrl(<<"api", "go2rtc", "webrtc">>, c, "webrtc_signal", c)
        \/ u = LiveUrl(<<"api", c, "latest.jpg">>, Blank, "snapshot_live", c)
    BY <2>0, Zenon DEF LiveOf
  <2>2. c # "clip.mp4" /\ c # "vod" /\ c # "birdseye"
    BY DEF Cameras, Reserved
  <2>3. CASE u = LiveUrl(<<"live", "jsmpeg", c>>, Blank, "jsmpeg", c)
    <3>1. CameraAccess(u) = Viewing("jsmpeg", c)
      BY <2>2, <2>3, LiveJsmpeg DEF LiveUrl, Url
    <3>2. QED
      BY <2>2, <2>3, <3>1 DEF LiveUrl, Url, Viewing
  <2>4. CASE u = LiveUrl(<<"live", "mse", "api", "ws">>, c, "mse", c)
    <3>1. CameraAccess(u) = Viewing("mse", c)
      BY <2>4, LiveMse DEF LiveUrl, Url
    <3>2. QED
      BY <2>2, <2>4, <3>1 DEF LiveUrl, Url, Viewing
  <2>5. CASE u = LiveUrl(<<"api", "go2rtc", "api", "ws">>, c, "mse", c)
    <3>1. CameraAccess(u) = Viewing("mse", c)
      BY <2>5, LiveGo2rtc DEF LiveUrl, Url
    <3>2. QED
      BY <2>2, <2>5, <3>1 DEF LiveUrl, Url, Viewing
  <2>6. CASE u = LiveUrl(<<"api", "go2rtc", "webrtc">>, c, "webrtc_signal", c)
    BY <2>6, LiveSignal DEF LiveUrl, Url
  <2>7. CASE u = LiveUrl(<<"api", c, "latest.jpg">>, Blank, "snapshot_live", c)
    <3>1. CameraAccess(u) = Viewing("snapshot_live", c)
      BY <2>2, <2>7, LiveSnapshot DEF LiveUrl, Url
    <3>2. QED
      BY <2>2, <2>7, <3>1 DEF LiveUrl, Url, Viewing
  <2>8. QED
    BY <2>1, <2>3, <2>4, <2>5, <2>6, <2>7
<1>4. QED
  BY <1>1, <1>2, <1>3 DEF LiveUrls

LEMMA PlaybackMeanings ==
  ASSUME NEW u \in PlaybackUrls
  PROVE  CameraAccess(u) = u.access
<1>1. ASSUME NEW path, NEW camera, NEW label, NEW parts, u = PlayUrl(path, camera, label, parts)
      PROVE  /\ u.method = "GET" /\ u.path = path
             /\ u.access = Meaning("recording_playback", camera, label, parts)
  BY <1>1 DEF PlayUrl, Url, Meaning
<1>2. CASE \E c \in Cameras, s \in Times, e \in Times : u \in VodUrls(c, s, e)
  <2>0. PICK c \in Cameras, s \in Times, e \in Times, a \in Prefixes, d \in Dated,
             t \in Segments : u \in VodOf(a, c, s, e, d, t)
    BY <1>2 DEF VodUrls
  <2>1. \/ u = PlayUrl(a \o <<"vod", "event", s>> \o t, Blank, "event", <<s>>)
        \/ u = PlayUrl(a \o <<"vod", "clip", c, "start", s, "end", e>> \o t, c, "range", <<s, e>>)
        \/ u = PlayUrl(a \o <<"vod", c, "start", s, "end", e>> \o t, c, "range", <<s, e>>)
        \/ u = PlayUrl(a \o <<"vod", d, s, e, c>> \o t, c, "hour", <<d, s, e>>)
    BY <2>0, Zenon DEF VodOf
  <2>2. \A q : Around(a \o q \o t, q)
    BY Zenon DEF Around
  <2>3. CASE u = PlayUrl(a \o <<"vod", "event", s>> \o t, Blank, "event", <<s>>)
    <3> DEFINE q == <<"vod", "event", s>>
    <3>1. /\ u.method = "GET" /\ u.path = a \o q \o t
          /\ u.access = Meaning("recording_playback", Blank, "event", <<s>>)
      BY <1>1, <2>3, Zenon
    <3>2. Around(u.path, q)
      BY <2>2, <3>1, Zenon
    <3>3. QED
      BY <3>1, <3>2, VodEventUrl, Zenon
  <2>4. CASE u = PlayUrl(a \o <<"vod", "clip", c, "start", s, "end", e>> \o t, c, "range", <<s, e>>)
    <3> DEFINE q == <<"vod", "clip", c, "start", s, "end", e>>
    <3>1. /\ u.method = "GET" /\ u.path = a \o q \o t
          /\ u.access = Meaning("recording_playback", c, "range", <<s, e>>)
      BY <1>1, <2>4, Zenon
    <3>2. Around(u.path, q)
      BY <2>2, <3>1, Zenon
    <3>3. QED
      BY <3>1, <3>2, VodClipUrl, Zenon
  <2>5. CASE u = PlayUrl(a \o <<"vod", c, "start", s, "end", e>> \o t, c, "range", <<s, e>>)
    <3> DEFINE q == <<"vod", c, "start", s, "end", e>>
    <3>1. /\ u.method = "GET" /\ u.path = a \o q \o t
          /\ u.access = Meaning("recording_playback", c, "range", <<s, e>>)
      BY <1>1, <2>5, Zenon
    <3>2. Around(u.path, q)
      BY <2>2, <3>1, Zenon
    <3>3. QED
      BY <3>1, <3>2, VodRangeUrl, Zenon
  <2>6. CASE u = PlayUrl(a \o <<"vod", d, s, e, c>> \o t, c, "hour", <<d, s, e>>)
    <3> DEFINE q == <<"vod", d, s, e, c>>
    <3>1. /\ u.method = "GET" /\ u.path = a \o q \o t
          /\ u.access = Meaning("recording_playback", c, "hour", <<d, s, e>>)
      BY <1>1, <2>6, Zenon
    <3>2. Around(u.path, q)
      BY <2>2, <3>1, Zenon
    <3>3. QED
      BY <3>1, <3>2, VodHourUrl, Zenon
  <2>7. QED
    BY <2>1, <2>3, <2>4, <2>5, <2>6
<1>3. CASE \E c \in Cameras, s \in Times, e \in Times :
             u \in ClipUrls(c, s, e)
  <2>0. PICK c \in Cameras, s \in Times, e \in Times : u \in ClipUrls(c, s, e)
    BY <1>3, Zenon
  <2>1. \/ u = PlayUrl(<<"api", c, "start", s, "end", e, "clip.mp4">>, c, "range", <<s, e>>)
        \/ u = PlayUrl(<<"api", "events", s, "clip.mp4">>, Blank, "event", <<s>>)
        \/ u = PlayUrl(<<"api", "review", s, "clip.mp4">>, Blank, "review", <<s>>)
        \/ u = PlayUrl(<<"api", c, s, "clip.mp4">>, c, "label", <<s>>)
    BY <2>0, Zenon DEF ClipUrls
  <2>2. CASE u = PlayUrl(<<"api", c, "start", s, "end", e, "clip.mp4">>, c, "range", <<s, e>>)
    <3>1. /\ u.method = "GET" /\ u.path = <<"api", c, "start", s, "end", e, "clip.mp4">>
          /\ u.access = Meaning("recording_playback", c, "range", <<s, e>>)
      BY <1>1, <2>2, Zenon
    <3>2. QED
      BY <3>1, ClipRangeUrl
  <2>3. CASE u = PlayUrl(<<"api", "events", s, "clip.mp4">>, Blank, "event", <<s>>)
    <3>1. /\ u.method = "GET" /\ u.path = <<"api", "events", s, "clip.mp4">>
          /\ u.access = Meaning("recording_playback", Blank, "event", <<s>>)
      BY <1>1, <2>3, Zenon
    <3>2. QED
      BY <3>1, ClipEventUrl
  <2>4. CASE u = PlayUrl(<<"api", "review", s, "clip.mp4">>, Blank, "review", <<s>>)
    <3>1. /\ u.method = "GET" /\ u.path = <<"api", "review", s, "clip.mp4">>
          /\ u.access = Meaning("recording_playback", Blank, "review", <<s>>)
      BY <1>1, <2>4, Zenon
    <3>2. QED
      BY <3>1, ClipReviewUrl
  <2>5. CASE u = PlayUrl(<<"api", c, s, "clip.mp4">>, c, "label", <<s>>)
    <3>1. /\ u.method = "GET" /\ u.path = <<"api", c, s, "clip.mp4">>
          /\ u.access = Meaning("recording_playback", c, "label", <<s>>)
      BY <1>1, <2>5, Zenon
    <3>2. QED
      BY <3>1, ClipLabelUrl
  <2>6. QED
    BY <2>1, <2>2, <2>3, <2>4, <2>5
<1>4. QED
  BY <1>2, <1>3 DEF PlaybackUrls

LEMMA ExportMeanings ==
  ASSUME NEW u \in ExportUrls
  PROVE  CameraAccess(u) = u.access
<1>1. PICK c \in Cameras, s \in Times, e \in Times, d \in Dated, f \in Mp4 :
        u \in ExportsOf(c, s, e, d, f)
  BY DEF ExportUrls
<1>2. \/ u = ExportUrl("POST", <<"api", "export", c, "start", s, "end", e>>,
                     "recording_export_requested", c, "standard", <<s, e>>)
      \/ u = ExportUrl("POST", <<"api", "export", "custom", c, "start", s, "end", e>>,
                     "recording_export_requested", c, "custom", <<s, e>>)
      \/ u = ExportUrl("GET", <<"exports", f>>, "recording_export_download", Blank,
                     "export_file", <<f>>)
      \/ u = ExportUrl("GET", <<"api", "cases", s, "download">>, "recording_export_download",
                     Blank, "export_case", <<s>>)
      \/ u = ExportUrl("GET", <<"recordings", d, s, c, f>>, "recording_download", c,
                     "file", <<d, s, f>>)
  BY <1>1, Zenon DEF ExportsOf
<1>3. CASE u = ExportUrl("POST", <<"api", "export", c, "start", s, "end", e>>,
                     "recording_export_requested", c, "standard", <<s, e>>)
  <2>1. /\ u.method = "POST" /\ u.path = <<"api", "export", c, "start", s, "end", e>>
        /\ u.access = Meaning("recording_export_requested", c, "standard", <<s, e>>)
    BY <1>3 DEF ExportUrl, Url, Meaning
  <2>2. QED
    BY <2>1, StandardUrl
<1>4. CASE u = ExportUrl("POST", <<"api", "export", "custom", c, "start", s, "end", e>>,
                     "recording_export_requested", c, "custom", <<s, e>>)
  <2>1. /\ u.method = "POST" /\ u.path = <<"api", "export", "custom", c, "start", s, "end", e>>
        /\ u.access = Meaning("recording_export_requested", c, "custom", <<s, e>>)
    BY <1>4 DEF ExportUrl, Url, Meaning
  <2>2. QED
    BY <2>1, CustomUrl
<1>5. CASE u = ExportUrl("GET", <<"exports", f>>,
                     "recording_export_download", Blank, "export_file", <<f>>)
  <2>1. /\ u.method = "GET" /\ u.path = <<"exports", f>>
        /\ u.access = Meaning("recording_export_download", Blank, "export_file", <<f>>)
    BY <1>5 DEF ExportUrl, Url, Meaning
  <2>2. QED
    BY <2>1, ExportFileUrl
<1>6. CASE u = ExportUrl("GET", <<"api", "cases", s, "download">>,
                     "recording_export_download", Blank, "export_case", <<s>>)
  <2>1. /\ u.method = "GET" /\ u.path = <<"api", "cases", s, "download">>
        /\ u.access = Meaning("recording_export_download", Blank, "export_case", <<s>>)
    BY <1>6 DEF ExportUrl, Url, Meaning
  <2>2. QED
    BY <2>1, ExportCaseUrl
<1>7. CASE u = ExportUrl("GET", <<"recordings", d, s, c, f>>,
                     "recording_download", c, "file", <<d, s, f>>)
  <2>1. /\ u.method = "GET" /\ u.path = <<"recordings", d, s, c, f>>
        /\ u.access = Meaning("recording_download", c, "file", <<d, s, f>>)
    BY <1>7 DEF ExportUrl, Url, Meaning
  <2>2. QED
    BY <2>1, RecordingUrl
<1>8. QED
  BY <1>2, <1>3, <1>4, <1>5, <1>6, <1>7

\* RoutesAsDocumented, for every set of cameras, times, dates and files: a
\* documented URL is taken for the access it is, of its camera and its recording,
\* whichever other words its camera's name is (gateway.go:284-392, 480-524).
THEOREM GatewayRoutes == RoutesAsDocumented
BY LiveMeanings, PlaybackMeanings, ExportMeanings DEF RoutesAsDocumented

-------------------------------------------------------------------------------
\* TrustBoundary, for every request, set of trusted peers and set of rules: what an
\* untrusted peer writes into the identity, other and X-Forwarded-For headers
\* changes nothing, and stripProxyIdentity tells Frigate the person the audit
\* believes in or nobody (gateway.go:205-224, 526-557).
THEOREM HttpTrustBoundary == TrustBoundary
<1> DEFINE Heard(r) == <<Relayed(r), StartedAs(r), ClientIP(r), Refused(r)>>
<1>1. ASSUME NEW q \in Callers, NEW r \in Callers, q.peer = r.peer, SameButHeaders(q, r),
             r.peer \notin TrustedPeers
      PROVE  Heard(q) = Heard(r)
  <2>1. q.agent = r.agent /\ q.path = r.path
    BY <1>1 DEF SameButHeaders
  <2>2. ~Trusted(q) /\ ~Trusted(r)
    BY <1>1 DEF Trusted
  <2>3. /\ ClientIP(q) = ClientIP(r) /\ User(q) = Nobody /\ User(r) = Nobody
        /\ Relayed(q) = Relayed(r)
    BY <1>1, <2>2 DEF ClientIP, User, Relayed
  <2>4. Rule(q) = Rule(r)
    BY <1>1, <2>3, RuleAssumption
  <2>5. Actor(q) = Actor(r)
    BY <2>1, <2>3 DEF Actor
  <2>6. StartedAs(q) = StartedAs(r)
    BY <2>4, <2>5 DEF StartedAs
  <2>7. Refused(q) = Refused(r)
    BY <2>1, <2>2 DEF Refused, IsAuditPath
  <2>8. QED
    BY <2>3, <2>6, <2>7
<1>2. ASSUME NEW r \in Callers
      PROVE  LET who == StartedAs(r) IN
             IF Relayed(r).user = Nobody THEN who.confidence # "exact"
             ELSE who.confidence = "exact" /\ who.name = Relayed(r).user
  <2>1. Relayed(r).user = User(r)
    BY DEF Relayed, User
  <2>2. CASE User(r) # Nobody
    <3>1. Actor(r) = [name |-> User(r), type |-> "person", confidence |-> "exact"]
      BY <2>2 DEF Actor
    <3>2. StartedAs(r) = Actor(r)
      BY <3>1 DEF StartedAs
    <3>3. QED
      BY <2>1, <2>2, <3>1, <3>2
  <2>3. CASE User(r) = Nobody
    <3>1. PICK name, type, confidence :
            /\ confidence # "exact"
            /\ Actor(r) = [name |-> name, type |-> type, confidence |-> confidence]
      <4>1. "service/device" # "exact" /\ "inferred" # "exact"
        BY Zenon
      <4>2. CASE r.agent = "homeassistant"
        <5>1. Actor(r) = [name |-> "Home Assistant", type |-> "service",
                          confidence |-> "service/device"]
          BY <2>3, <4>2, Zenon DEF Actor
        <5>2. QED
          BY <4>1, <5>1, Zenon
      <4>3. CASE r.agent # "homeassistant" /\ r.agent = "browser"
        <5>1. Actor(r) = [name |-> <<"Browser viewer", ClientIP(r)>>, type |-> "person",
                          confidence |-> "inferred"]
          BY <2>3, <4>3, Zenon DEF Actor
        <5>2. QED
          BY <4>1, <5>1, Zenon
      <4>4. CASE r.agent # "homeassistant" /\ r.agent # "browser"
        <5>1. Actor(r) = [name |-> <<"Unauthenticated service", ClientIP(r)>>,
                          type |-> "unknown", confidence |-> "service/device"]
          BY <2>3, <4>4, Zenon DEF Actor
        <5>2. QED
          BY <4>1, <5>1, Zenon
      <4>5. QED
        BY <4>2, <4>3, <4>4, Zenon
    <3>2. StartedAs(r).confidence = Actor(r).confidence
      BY <3>1 DEF StartedAs
    <3>3. Actor(r).confidence = confidence
      BY <3>1
    <3>4. StartedAs(r).confidence # "exact" /\ Relayed(r).user = Nobody
      BY <2>1, <2>3, <3>1, <3>2, <3>3
    <3>5. QED
      BY <3>4
  <2>4. QED
    BY <2>2, <2>3
<1>3. QED
  BY <1>1, <1>2 DEF TrustBoundary

\* GatewayContract, at every moment of every behaviour, for every value of the
\* constants: a request is recorded as the access its URL is documented to be, and
\* only what a trusted proxy says of the person behind it is believed or relayed
\* (gateway.go:126-171, 205-315, 480-557).
THEOREM GatewayKeepsContract == Spec => []GatewayContract
<1>1. GatewayContract
  BY GatewayRoutes, HttpTrustBoundary DEF GatewayContract
<1>2. QED
  BY <1>1, PTL
===============================================================================
