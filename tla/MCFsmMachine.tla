--------------------------- MODULE MCFsmMachine ---------------------------
(* FsmMachine on a small instance: two option lists, ids that wrap soon.   *)
EXTENDS FsmMachine
CONSTANTS c1, c2
=============================================================================
