------------------------------- MODULE Layer -------------------------------
(***************************************************************************)
(* The tables of LayerTable as a specification: what an observer of the    *)
(* state and of the up and down callbacks can see of an automaton.         *)
(***************************************************************************)
EXTENDS LayerTable

VARIABLES
    state,          \* the state of the automaton
    upper           \* has the protocol above been told up and not yet down?

LayerInit == state = "INITIAL" /\ upper = FALSE

Told(call) == CASE call = "up" -> ~upper /\ upper'
                [] call = "down" -> ~upper'
                [] OTHER -> upper' = upper

LayerNext == \E r \in Rows : state = r[1] /\ state' = r[2] /\ Told(r[3])

(* Abstract specification.                                                 *)
LayerSpec == LayerInit /\ [][LayerNext]_<<state, upper>>
=============================================================================
