----------------------------- MODULE CapiListen -----------------------------
(***************************************************************************)
(* Listening for calls (pppdcapiplugin/capiconn.c): capiconn_listen sends  *)
(* a LISTEN_REQ with a mask of services, 0 to stop, and does not wait; the *)
(* LISTEN_CONF comes later and names no request.  The plugin calls it      *)
(* again whenever it begins or ends to wait for a call, with or without    *)
(* the confirmation of the last one.                                       *)
(***************************************************************************)
EXTENDS Naturals, Sequences

CONSTANTS
    Masks,          \* CIP masks; 0 asks for no calls
    QueueCap        \* bound on the requests that are not confirmed

ASSUME ListenAssumption == Masks \subseteq Nat /\ 0 \in Masks /\ QueueCap \in Nat

VARIABLES
    state,          \* card->state
    cipmask,        \* card->cipmask: the mask of the last call
    reqs,           \* masks of the LISTEN_REQ the controller has not served
    confs,          \* does the LISTEN_CONF on its way report success?
    active,         \* the mask the controller listens with
    refused         \* has the controller turned a request down?

vars == <<state, cipmask, reqs, confs, active, refused>>

Wait == {"WAIT_CONF", "ACTIVE_WAIT_CONF"}

Init == /\ state = "NONE" /\ cipmask = 0 /\ active = 0
        /\ reqs = <<>> /\ confs = <<>> /\ refused = FALSE

(* Mutant: an empty mask is confirmed like any other.                      *)
listentable_NoEmpty ==
    {<<"NONE", "REQ", "WAIT_CONF">>, <<"ACTIVE", "REQ", "ACTIVE_WAIT_CONF">>,
     <<"WAIT_CONF", "CONF_ERROR", "NONE">>,
     <<"ACTIVE_WAIT_CONF", "CONF_ERROR", "ACTIVE">>,
     <<"WAIT_CONF", "CONF_EMPTY", "ACTIVE">>,
     <<"ACTIVE_WAIT_CONF", "CONF_EMPTY", "ACTIVE">>,
     <<"WAIT_CONF", "CONF_OK", "ACTIVE">>,
     <<"ACTIVE_WAIT_CONF", "CONF_OK", "ACTIVE">>}

(* Mutant: a request that is turned down leaves the state waiting.         *)
listentable_NoError ==
    {<<"NONE", "REQ", "WAIT_CONF">>, <<"ACTIVE", "REQ", "ACTIVE_WAIT_CONF">>,
     <<"WAIT_CONF", "CONF_EMPTY", "NONE">>,
     <<"ACTIVE_WAIT_CONF", "CONF_EMPTY", "NONE">>,
     <<"WAIT_CONF", "CONF_OK", "ACTIVE">>,
     <<"ACTIVE_WAIT_CONF", "CONF_OK", "ACTIVE">>}

listentable ==
    {<<"NONE", "REQ", "WAIT_CONF">>, <<"ACTIVE", "REQ", "ACTIVE_WAIT_CONF">>,
     <<"WAIT_CONF", "CONF_ERROR", "NONE">>,
     <<"ACTIVE_WAIT_CONF", "CONF_ERROR", "ACTIVE">>,
     <<"WAIT_CONF", "CONF_EMPTY", "NONE">>,
     <<"ACTIVE_WAIT_CONF", "CONF_EMPTY", "NONE">>,
     <<"WAIT_CONF", "CONF_OK", "ACTIVE">>,
     <<"ACTIVE_WAIT_CONF", "CONF_OK", "ACTIVE">>}

(* An event the table has no row for changes nothing.                      *)
listen_change_state(s, event) ==
    LET rows == {r \in listentable : r[1] = s /\ r[2] = event}
    IN  IF rows = {} THEN s ELSE (CHOOSE r \in rows : TRUE)[3]

(* capiconn_listen and send_listen.                                        *)
capiconn_listen(mask) ==
    /\ Len(reqs) + Len(confs) < QueueCap
    /\ cipmask' = mask /\ reqs' = Append(reqs, mask)
    /\ state' = listen_change_state(state, "REQ")
    /\ UNCHANGED <<confs, active, refused>>

(* LISTEN_CONF in handle_controller: what was asked for is looked up in    *)
(* card->cipmask.                                                          *)
ListenConf ==
    /\ confs # <<>> /\ confs' = Tail(confs)
    /\ state' = listen_change_state(state,
                    IF ~Head(confs) THEN "CONF_ERROR"
                    ELSE IF cipmask = 0 THEN "CONF_EMPTY" ELSE "CONF_OK")
    /\ UNCHANGED <<cipmask, reqs, active, refused>>

(* The controller takes the requests in order and may turn them down.      *)
Serve == /\ reqs # <<>> /\ reqs' = Tail(reqs)
         /\ \E ok \in BOOLEAN :
              /\ confs' = Append(confs, ok)
              /\ active' = IF ok THEN Head(reqs) ELSE active
              /\ refused' = (refused \/ ~ok)
         /\ UNCHANGED <<state, cipmask>>

Next == (\E mask \in Masks : capiconn_listen(mask)) \/ ListenConf \/ Serve

(* The plugin polls (handlemessages) and the controller serves its queue.  *)
Spec == Init /\ [][Next]_vars /\ WF_vars(ListenConf) /\ WF_vars(Serve)

(* What capiconn_listenstate returns: CAPICONN_OK or CAPICONN_WRONG_STATE. *)
capiconn_listenstate == IF state \in Wait THEN "CAPICONN_WRONG_STATE" ELSE "CAPICONN_OK"

-----------------------------------------------------------------------------
(* When every request has been answered nothing is waited for, and the     *)
(* library believes that calls will be reported exactly when the           *)
(* controller reports them, although requests overlapped and each answer   *)
(* was read with the mask of a later one (listen_change_state; after a     *)
(* refusal the two may differ).                                            *)
ListenAgrees ==
    reqs = <<>> /\ confs = <<>> =>
        /\ capiconn_listenstate = "CAPICONN_OK"
        /\ ~refused => (state = "ACTIVE" <=> active # 0)

(* capiconn_listenstate does not answer CAPICONN_WRONG_STATE for ever,     *)
(* also when requests overlap and are turned down.                         *)
ListenSettles == capiconn_listenstate = "CAPICONN_WRONG_STATE"
                 ~> capiconn_listenstate = "CAPICONN_OK"
=============================================================================
