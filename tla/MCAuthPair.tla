----------------------------- MODULE MCAuthPair -----------------------------
(* Two ends.  A asks B for CHAP, again and again or with the wrong secret; *)
(* for PAP; or for PAP, with the wrong password, while B asks A for CHAP.  *)
EXTENDS AuthPair, TLC
CONSTANTS A, B

MCEnds == {A, B}
Setup(a, b, ra, rb, again) ==
    [ask |-> (A :> a @@ B :> b), right |-> (A :> ra @@ B :> rb), again |-> again]
MCSetups == {Setup("chap", "none", TRUE, TRUE, TRUE),
             Setup("chap", "none", TRUE, FALSE, FALSE),
             Setup("pap", "none", TRUE, TRUE, FALSE),
             Setup("pap", "chap", TRUE, FALSE, FALSE)}
=============================================================================
