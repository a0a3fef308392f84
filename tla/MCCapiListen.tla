---------------------------- MODULE MCCapiListen ----------------------------
(* Requests that overlap three deep, for calls of two kinds or for none.   *)
EXTENDS CapiListen
=============================================================================
