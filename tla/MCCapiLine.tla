----------------------------- MODULE MCCapiLine -----------------------------
(* One or two channels, calls that follow each other, numbers that wrap.   *)
EXTENDS CapiLine
=============================================================================
