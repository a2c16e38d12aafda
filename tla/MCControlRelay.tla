----------------------------- MODULE MCControlRelay -----------------------------
(***************************************************************************)
(* ControlRelay for TLC: two control connections, and viewers of the       *)
(* composite view and of one camera, one of whom a rule suppresses.        *)
(***************************************************************************)
EXTENDS ControlRelay, TLC

CONSTANTS front, back

-------------------------------------------------------------------------------
Viewer(camera, suppressed) == [camera |-> camera, suppressed |-> suppressed]
Viewers == {Viewer(Birdseye, FALSE), Viewer(back, TRUE)}
Shown == {{front}, {front, back}}
Said == {{front}}
===============================================================================
