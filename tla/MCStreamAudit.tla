----------------------------- MODULE MCStreamAudit -----------------------------
(***************************************************************************)
(* StreamAudit for TLC: two connections of one camera, a browser consumer  *)
(* and a bare one, a person and an anonymous browser that signal.          *)
(***************************************************************************)
EXTENDS StreamAudit

CONSTANTS
  cam, lan, chrome,  \* a camera, an address, a user agent
  carol, browser     \* a person, a viewer nobody knows

-------------------------------------------------------------------------------

MCCamera == [k \in Keys |-> cam]
Browser == [host |-> lan, ua |-> chrome]
Bare == [host |-> lan, ua |-> Unknown]
MCDescs == {Browser, Bare}
OneDesc == {Browser}
Watched == {[k \in Keys |-> Browser]}
Unwatched == {[k \in {} |-> Browser]}
MCClassified ==
  [d \in Descs |-> IF d.ua = chrome THEN [actor |-> browser, conf |-> Inferred]
                     ELSE [actor |-> browser, conf |-> ServiceDevice]]
MCSignallers == {[actor |-> carol, host |-> lan, ua |-> chrome],
                 [actor |-> browser, host |-> Unknown, ua |-> chrome]}

Spending(churn, outage, death, fault, signal) ==
  [kind \in Kinds |-> CASE kind = "churn" -> churn [] kind = "outage" -> outage
                        [] kind = "death" -> death [] kind = "fault" -> fault
                        [] OTHER -> signal]

Gaps == Spending(3, 1, 1, 0, 0)
Signals == Spending(2, 0, 1, 1, 2)
Anonymous == Spending(1, 0, 0, 0, 2)
===============================================================================
