----------------------------- MODULE MCPppPair -----------------------------
(* Peer a asks for x, which b does not allow and answers with y; b asks    *)
(* for y and gets it.  Insists makes a keep to x until b rejects it.       *)
EXTENDS PppPair, TLC
CONSTANTS a, b, x, y, none
CONSTANT Insists

MCWantOf == (a :> x) @@ (b :> y)
MCAcceptOf == (a :> {none, x, y}) @@ (b :> {none, y})
MCHintOf == (a :> x) @@ (b :> y)
MCAdopts == (a :> ~Insists) @@ (b :> TRUE)
=============================================================================
