----------------------------- MODULE MCEventStore -----------------------------
(***************************************************************************)
(* EventStore for TLC.                                                     *)
(***************************************************************************)
EXTENDS EventStore, TLC

Symmetry == Permutations(Who)
===============================================================================
