------------------------------- MODULE MCLink -------------------------------
(* Model values and the start options for the runs of Link.                *)
EXTENDS Link
CONSTANTS ipcp, here, there

Plain(n) == [numdev |-> n, mp |-> FALSE, auth |-> FALSE, cb |-> "no",
             echo |-> FALSE, idle |-> FALSE, maxconnect |-> FALSE]

(* One link with everything lcp.c can watch; two with authentication and   *)
(* a connect time; two with MP.                                            *)
MCOptions == {[Plain(1) EXCEPT !.echo = TRUE, !.idle = TRUE, !.cb = c] : c \in {"no", "cbcp", "rfc1570"}}
             \cup {[Plain(2) EXCEPT !.auth = TRUE, !.maxconnect = TRUE],
                   [Plain(2) EXCEPT !.mp = TRUE]}
StaleOptions == {[Plain(2) EXCEPT !.mp = TRUE, !.auth = TRUE]}
IdleOptions == {[Plain(2) EXCEPT !.idle = TRUE]}
MCProtocols == {ipcp}
MCDiscs == {here, there}
=============================================================================
