--------------------------- MODULE MCExportDownloads ---------------------------
(***************************************************************************)
(* ExportDownloads for TLC: range requests for an export of an             *)
(* unauthenticated service, and a person whose requests the audit tracks.  *)
(***************************************************************************)
EXTENDS ExportDownloads, TLC

CONSTANTS carol, service

-------------------------------------------------------------------------------
Ask(actor, kind) == [actor |-> actor, kind |-> kind]
Rolled == {Ask(carol, "plain"), Ask(carol, "snapshot")} \cup Downloads
Ranges ==
  [cause \in Causes |-> CASE cause = "request" -> 3 [] cause = "fault" -> 1
                          [] cause = "abort" -> 0 [] OTHER -> 0]
Workers == Permutations(Procs)
===============================================================================
