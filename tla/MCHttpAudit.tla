------------------------------ MODULE MCHttpAudit ------------------------------
(***************************************************************************)
(* HttpAudit for TLC, with requests as the gateway takes them: of a person *)
(* whom the proxy names, and of a service that nobody names.               *)
(***************************************************************************)
EXTENDS HttpAudit, Gateway

CONSTANTS
  carol, nvr,         \* a person, a service of the rules
  proxy, lan, wan     \* the trusted peer, another one, a forwarded address

-------------------------------------------------------------------------------
MCRule(r) == IF r.agent = "other" THEN Nobody ELSE nvr
MCCallers ==
  [peer : {proxy, lan}, user : {carol, Nobody}, others : BOOLEAN, forwarded : {wan, Nobody},
   agent : {"browser", "homeassistant", "other"}, method : {"GET"},
   path : {<<"api", "hall", "latest.jpg">>, <<"audit">>, <<"audit", "export.csv">>},
   src : {""}, items : {0}]

Ask(peer, user, method, path, items) ==
  [peer |-> peer, user |-> user, others |-> FALSE, forwarded |-> Nobody,
   agent |-> "other", method |-> method, path |-> path, src |-> "hall", items |-> items]
Snapshot == Ask(proxy, carol, "GET", <<"api", "hall", "latest.jpg">>, 0)
Csv      == Ask(proxy, carol, "GET", <<"audit", "export.csv">>, 0)
Live     == Ask(lan, carol, "GET", <<"live", "mse", "api", "ws">>, 0)
WebRTC   == Ask(lan, Nobody, "GET", <<"api", "go2rtc", "webrtc">>, 0)
Batch    == Ask(lan, Nobody, "POST", <<"api", "exports", "batch">>, 2)
Export   == Ask(lan, Nobody, "POST", <<"api", "export", "hall", "start", "1", "end", "2">>, 0)

Mixed == {Served(r) : r \in {Snapshot, Csv, Live, WebRTC, Batch}}
Lasting == {Served(Export), Served(Live)}

Spending(request, fault, abort, death) ==
  [cause \in Causes |-> CASE cause = "request" -> request [] cause = "fault" -> fault
                          [] cause = "abort" -> abort [] OTHER -> death]

Dying == Spending(2, 1, 1, 1)
Aborting == Spending(2, 0, 1, 0)

-------------------------------------------------------------------------------
\* What the daemon records of a request while it runs, and what Frigate hears of
\* it, is what the documentation says (gateway.go:126-171, 205-315, 480-557).
GatewayContract == running # "down" => RoutesAsDocumented /\ TrustBoundary
===============================================================================
