------------------------------ MODULE MCHistoryView -----------------------------
(***************************************************************************)
(* HistoryView for TLC: the instance of MCStreamAudit, and its requests.   *)
(***************************************************************************)
EXTENDS HistoryView, MCStreamAudit
===============================================================================
