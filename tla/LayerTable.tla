---------------------------- MODULE LayerTable ----------------------------
(***************************************************************************)
(* What the automaton of ipppd/fsm.c promises to the protocol that runs on *)
(* it, and all that LCP's users in main.c and auth.c rely on: the states   *)
(* it can go through, with the negotiation seen as one state, and the      *)
(* callback that comes with each change.  A row of a table is a change     *)
(*    <<state before, state after, callback>>                              *)
(* grouped by what brings it about.                                        *)
(***************************************************************************)
LayerStates == {"INITIAL", "STARTING", "CLOSED", "STOPPED", "CLOSING",
                "STOPPING", "NEGOTIATING", "OPENED"}

LowerUpRows == {<<"INITIAL", "CLOSED", "none">>,
                <<"STARTING", "NEGOTIATING", "none">>,
                <<"STARTING", "STOPPED", "none">>}

LowerDownRows == {<<"CLOSED", "INITIAL", "none">>,
                  <<"CLOSING", "INITIAL", "none">>,
                  <<"STOPPED", "STARTING", "none">>,
                  <<"STOPPING", "STARTING", "none">>,
                  <<"NEGOTIATING", "STARTING", "none">>,
                  <<"OPENED", "STARTING", "down">>}

OpenRows == {<<"INITIAL", "STARTING", "none">>,
             <<"CLOSED", "NEGOTIATING", "none">>,
             <<"CLOSED", "STOPPED", "none">>,
             <<"CLOSING", "STOPPING", "none">>}

(* With OPT_RESTART a second open is a lowerdown and a lowerup.            *)
RestartRows == {<<"STOPPED", "NEGOTIATING", "none">>,
                <<"CLOSING", "NEGOTIATING", "none">>,
                <<"CLOSING", "STOPPED", "none">>,
                <<"OPENED", "NEGOTIATING", "down">>,
                <<"OPENED", "STOPPED", "down">>}

CloseRows == {<<"STARTING", "INITIAL", "none">>,
              <<"STOPPED", "CLOSED", "none">>,
              <<"STOPPING", "CLOSING", "none">>,
              <<"NEGOTIATING", "CLOSING", "none">>,
              <<"OPENED", "CLOSING", "down">>}

TimerRows == {<<"CLOSING", "CLOSED", "finished">>,
              <<"STOPPING", "STOPPED", "finished">>,
              <<"NEGOTIATING", "STOPPED", "finished">>}

(* A passive automaton, and the kludge for stopping CCP, give up without   *)
(* a callback.                                                             *)
QuietRows == {<<"NEGOTIATING", "STOPPED", "none">>}

(* Packets.  A Terminate-Ack in OPENED takes the upper layer down and      *)
(* leaves the state alone; a peer that loops our packets back makes LCP    *)
(* close itself (CloseRows).                                               *)
PacketRows == {<<"STOPPED", "NEGOTIATING", "none">>,
               <<"NEGOTIATING", "OPENED", "up">>,
               <<"OPENED", "NEGOTIATING", "down">>,
               <<"OPENED", "STOPPING", "down">>,
               <<"OPENED", "OPENED", "down">>,
               <<"CLOSING", "CLOSED", "finished">>,
               <<"STOPPING", "STOPPED", "finished">>}

Rows == LowerUpRows \cup LowerDownRows \cup OpenRows \cup RestartRows
        \cup CloseRows \cup TimerRows \cup QuietRows \cup PacketRows
=============================================================================
