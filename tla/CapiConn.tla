------------------------------ MODULE CapiConn ------------------------------
(***************************************************************************)
(* The connection library of the pppd CAPI plugin                          *)
(* (pppdcapiplugin/capiconn.c): what one controller's capi_contr holds and *)
(* what each entry point does to it.  A C function on a "capi_contr *" is  *)
(* an operator from the structure before the call to the one after it.     *)
(*                                                                         *)
(*   conns    card->connections, the newest first                          *)
(*   msgid    the number of the next message that is remembered            *)
(*   out      the messages the current call handed to capi_put_message,    *)
(*            but for those that mean nothing to the controller            *)
(*                                                                         *)
(* A connection has the fields of struct capi_connection; ptr stands for   *)
(* its address.  An NCCI address is a PLCI and a number n that is 0 in an  *)
(* address which names the PLCI only.                                      *)
(***************************************************************************)
EXTENDS Integers, Sequences, SequencesExt

CONSTANTS
    Plcis,          \* the PLCIs of the controller, numbers above 0
    Ptrs,           \* addresses malloc may return, numbers
    Window,         \* CAPI_MAXDATAWINDOW, 8
    MsgMod,         \* a message number is a _cword: 65536
    HandleMod       \* a data handle is a _cword: 65536

ASSUME CapiAssumption == /\ Plcis \subseteq Nat \ {0} /\ Ptrs \subseteq Nat
                         /\ Window \in Nat \ {0}
                         /\ MsgMod \in Nat \ {0} /\ HandleMod \in Nat \ {0}

(* A window of data blocks has a handle for each of them.                  *)
ASSUME WindowAssumption == Window <= HandleMod

(* The states of the Layer 3 link of a connection (struct capi_ncci).      *)
NcciStates == {"NONE", "OUTGOING", "INCOMING", "ALLOCATED", "ACTIVE",
               "DISCONNECTING", "DISCONNECTED"}
PlciStates == {"NONE", "OUTGOING", "ALLOCATED", "ACTIVE", "INCOMING",
               "ACCEPTING", "DISCONNECTING", "DISCONNECTED"}

Ncci == [n : {0, 1}, state : NcciStates, oldstate : NcciStates,
         datahandle : 0 .. HandleMod - 1, ackqueue : Seq(0 .. HandleMod - 1)]
NoNcci == [n |-> -1]

Connection == [ptr : Ptrs, incoming : BOOLEAN, disconnecting : BOOLEAN,
               localdisconnect : BOOLEAN, plci : Plcis \cup {0},
               msgid : 0 .. MsgMod - 1, state : PlciStates,
               nccip : Ncci \cup {NoNcci}]

(* The messages of CAPI that pass between the library and a controller; a  *)
(* controller does nothing with the idle ones, so they are not queued.     *)
Idle == {"ALERT_REQ", "INFO_RESP", "CONNECT_ACTIVE_RESP", "DATA_B3_RESP",
         "CONNECT_B3_ACTIVE_RESP", "RESET_B3_RESP"}
Commands == Idle \cup
    {"CONNECT_REQ", "CONNECT_CONF", "CONNECT_IND", "CONNECT_RESP",
     "CONNECT_ACTIVE_IND", "INFO_IND",
     "CONNECT_B3_REQ", "CONNECT_B3_CONF", "CONNECT_B3_IND", "CONNECT_B3_RESP",
     "CONNECT_B3_ACTIVE_IND", "DATA_B3_REQ", "DATA_B3_CONF", "DATA_B3_IND",
     "RESET_B3_IND", "DISCONNECT_B3_REQ", "DISCONNECT_B3_CONF",
     "DISCONNECT_B3_IND", "DISCONNECT_B3_RESP",
     "DISCONNECT_REQ", "DISCONNECT_CONF", "DISCONNECT_IND", "DISCONNECT_RESP"}

Message == [cmd : Commands, plci : Plcis \cup {0}, n : {0, 1},
            num : 0 .. MsgMod - 1, arg : Nat]

-----------------------------------------------------------------------------
(* Sending.  A request takes the next message number, a response the one   *)
(* of the indication it answers (capi_cmsg_answer).  Only the numbers that *)
(* a connection remembers are counted: no other is looked at again.        *)
Put(k, m) == [k EXCEPT !.out = IF m.cmd \in Idle THEN @ ELSE Append(@, m)]

Remembered == {"CONNECT_REQ", "ALERT_REQ"}

(* Mutant: an int that is never reduced to a _cword.                       *)
Request_NoWrap(k, cmd, plci, n, arg) ==
    LET num == IF cmd \in Remembered THEN k.msgid ELSE 0
    IN  [Put(k, [cmd |-> cmd, plci |-> plci, n |-> n, num |-> num, arg |-> arg])
            EXCEPT !.msgid = IF cmd \in Remembered THEN @ + 1 ELSE @]

Request(k, cmd, plci, n, arg) ==
    LET num == IF cmd \in Remembered THEN k.msgid ELSE 0
    IN  [Put(k, [cmd |-> cmd, plci |-> plci, n |-> n, num |-> num, arg |-> arg])
            EXCEPT !.msgid = IF cmd \in Remembered THEN (@ + 1) % MsgMod ELSE @]

Answer(k, m, resp) == Put(k, [m EXCEPT !.cmd = resp, !.arg = 0])

(* The searches of the list; 0 when there is no such connection.           *)
find_plci_by_plci(k, plci) == SelectInSeq(k.conns, LAMBDA c : c.plci = plci)
find_plci_by_msgid(k, num) == SelectInSeq(k.conns, LAMBDA c : c.msgid = num)
find_ncci(k, plci) ==
    LET i == find_plci_by_plci(k, plci)
    IN  IF i # 0 /\ k.conns[i].nccip # NoNcci THEN i ELSE 0

Unused(k) == Ptrs \ {k.conns[i].ptr : i \in DOMAIN k.conns}

(* new_plci links a cleared connection in at the front of the list.        *)
new_plci(k, incoming, plci) ==
    [k EXCEPT !.conns = Cons([ptr |-> CHOOSE p \in Unused(k) : TRUE,
                              incoming |-> incoming, disconnecting |-> FALSE,
                              localdisconnect |-> FALSE, plci |-> plci,
                              msgid |-> 0, state |-> "NONE", nccip |-> NoNcci], @)]

new_ncci(k, i, n) ==
    [k EXCEPT !.conns[i].nccip =
        [n |-> n, state |-> "NONE", oldstate |-> "NONE",
         datahandle |-> 0, ackqueue |-> <<>>]]

free_ncci(k, i) == [k EXCEPT !.conns[i].nccip = NoNcci]

(* p0: the application is told, the connection is freed.                   *)
p0(k, i) == [k EXCEPT !.conns = RemoveAt(@, i)]

-----------------------------------------------------------------------------
(* Mutant: the rows that end a call the application has released.          *)
plcitable_NoP5 ==
    {<<"NONE", "CONNECT_REQ", "OUTGOING">>, <<"NONE", "CONNECT_IND", "INCOMING">>,
     <<"OUTGOING", "CONNECT_CONF_ERROR", "NONE">>,
     <<"OUTGOING", "CONNECT_CONF_OK", "ALLOCATED">>,
     <<"ALLOCATED", "CONNECT_ACTIVE_IND", "ACTIVE">>,
     <<"INCOMING", "CONNECT_RESP", "ACCEPTING">>,
     <<"ACCEPTING", "CONNECT_ACTIVE_IND", "ACTIVE">>,
     <<"DISCONNECTED", "DISCONNECT_RESP", "NONE">>}
    \cup ({"ALLOCATED", "ACTIVE", "INCOMING", "ACCEPTING"} \X
            {"DISCONNECT_REQ"} \X {"DISCONNECTING"})
    \cup ({"ALLOCATED", "ACTIVE", "INCOMING", "ACCEPTING"} \X
            {"DISCONNECT_IND"} \X {"DISCONNECTED"})

(* The rows of plcitable for the events the library raises: the state, the *)
(* event and the next state.  A row that leads to NONE calls p0.           *)
plcitable ==
    {<<"NONE", "CONNECT_REQ", "OUTGOING">>, <<"NONE", "CONNECT_IND", "INCOMING">>,
     <<"OUTGOING", "CONNECT_CONF_ERROR", "NONE">>,
     <<"OUTGOING", "CONNECT_CONF_OK", "ALLOCATED">>,
     <<"ALLOCATED", "CONNECT_ACTIVE_IND", "ACTIVE">>,
     <<"INCOMING", "CONNECT_RESP", "ACCEPTING">>,
     <<"ACCEPTING", "CONNECT_ACTIVE_IND", "ACTIVE">>,
     <<"DISCONNECTING", "DISCONNECT_IND", "DISCONNECTED">>,
     <<"DISCONNECTED", "DISCONNECT_RESP", "NONE">>}
    \cup ({"ALLOCATED", "ACTIVE", "INCOMING", "ACCEPTING"} \X
            {"DISCONNECT_REQ"} \X {"DISCONNECTING"})
    \cup ({"ALLOCATED", "ACTIVE", "INCOMING", "ACCEPTING"} \X
            {"DISCONNECT_IND"} \X {"DISCONNECTED"})

plci_change_state(k, i, event) ==
    LET rows == {r \in plcitable : r[1] = k.conns[i].state /\ r[2] = event}
    IN  IF rows = {} THEN k
        ELSE LET next == (CHOOSE r \in rows : TRUE)[3]
                 g == [k EXCEPT !.conns[i].state = next]
             IN  IF next = "NONE" THEN p0(g, i) ELSE g

(* n0: with its Layer 3 link gone the connection itself is cleared.        *)
n0(k, i) ==
    LET s == Request(k, "DISCONNECT_REQ", k.conns[i].plci, 0, 0)
    IN  free_ncci(plci_change_state(s, i, "DISCONNECT_REQ"), i)

(* nccitable in the same form; NONE calls n0, PREVIOUS goes back.          *)
nccitable ==
    {<<"NONE", "CONNECT_B3_REQ", "OUTGOING">>, <<"NONE", "CONNECT_B3_IND", "INCOMING">>,
     <<"OUTGOING", "CONNECT_B3_CONF_OK", "ALLOCATED">>,
     <<"OUTGOING", "CONNECT_B3_CONF_ERROR", "NONE">>,
     <<"INCOMING", "CONNECT_B3_RESP", "ALLOCATED">>,
     <<"ALLOCATED", "CONNECT_B3_ACTIVE_IND", "ACTIVE">>,
     <<"ACTIVE", "RESET_B3_IND", "ACTIVE">>,
     <<"DISCONNECTING", "DISCONNECT_B3_IND", "DISCONNECTED">>,
     <<"DISCONNECTING", "DISCONNECT_B3_CONF_ERROR", "PREVIOUS">>,
     <<"DISCONNECTED", "DISCONNECT_B3_RESP", "NONE">>}
    \cup ({"INCOMING", "ALLOCATED", "ACTIVE"} \X
            {"DISCONNECT_B3_REQ"} \X {"DISCONNECTING"})
    \cup ({"INCOMING", "ALLOCATED", "ACTIVE"} \X
            {"DISCONNECT_B3_IND"} \X {"DISCONNECTED"})

ncci_change_state(k, i, event) ==
    LET s == k.conns[i].nccip.state
        rows == {r \in nccitable : r[1] = s /\ r[2] = event}
    IN  IF rows = {} THEN k
        ELSE LET next == (CHOOSE r \in rows : TRUE)[3]
                 to == IF next = "PREVIOUS" THEN k.conns[i].nccip.oldstate ELSE next
                 g == [k EXCEPT !.conns[i].nccip.state = to,
                                !.conns[i].nccip.oldstate = s]
             IN  IF next = "NONE" THEN n0(g, i) ELSE g

-----------------------------------------------------------------------------
(* What the application may call.                                          *)

(* Mutant: the number of the request is not remembered.                    *)
capiconn_connect_NoMsgid(k) ==
    Request(plci_change_state(new_plci(k, FALSE, 0), 1, "CONNECT_REQ"),
            "CONNECT_REQ", 0, 0, 0)

capiconn_connect(k) ==
    LET g == new_plci(k, FALSE, 0)
        h == [g EXCEPT !.conns[1].msgid = g.msgid]
    IN  Request(plci_change_state(h, 1, "CONNECT_REQ"), "CONNECT_REQ", 0, 0, 0)

(* Mutant: the answer is sent whatever became of the call meanwhile.       *)
ConnectResp_Again(k, i, reject) ==
    Request(plci_change_state(k, i, "CONNECT_RESP"),
            "CONNECT_RESP", k.conns[i].plci, 0, reject)

(* capiconn_accept, capiconn_ignore and capiconn_reject answer a call with *)
(* 0, 1 or 2; all three raise EV_PLCI_CONNECT_RESP.                        *)
ConnectResp(k, i, reject) ==
    IF k.conns[i].state # "INCOMING" THEN k
    ELSE Request(plci_change_state(k, i, "CONNECT_RESP"),
                 "CONNECT_RESP", k.conns[i].plci, 0, reject)

capiconn_accept(k, i) == ConnectResp(k, i, 0)
capiconn_ignore(k, i) == ConnectResp(k, i, 1)
capiconn_reject(k, i) == ConnectResp(k, i, 2)

(* What capiconn_disconnect returns.                                       *)
DisconnectResult(c) ==
    IF c.disconnecting THEN "CAPICONN_ALREADY_DISCONNECTING"
    ELSE IF c.nccip # NoNcci \/ c.state = "INCOMING" \/ c.plci # 0
         THEN "CAPICONN_OK" ELSE "CAPICONN_WRONG_STATE"

capiconn_disconnect(k, i) ==
    LET c == k.conns[i]
        g == [k EXCEPT !.conns[i].disconnecting = TRUE,
                       !.conns[i].localdisconnect = TRUE]
    IN  IF DisconnectResult(c) # "CAPICONN_OK" THEN k
        ELSE IF c.nccip # NoNcci
             THEN ncci_change_state(Request(g, "DISCONNECT_B3_REQ", c.plci, c.nccip.n, 0),
                                    i, "DISCONNECT_B3_REQ")
             ELSE IF c.state = "INCOMING" THEN capiconn_reject(g, i)
                  ELSE plci_change_state(Request(g, "DISCONNECT_REQ", c.plci, 0, 0),
                                         i, "DISCONNECT_REQ")

(* Mutant: the window of unconfirmed data blocks is not enforced.          *)
CanSend_NoWindow(c) == c.nccip # NoNcci /\ c.nccip.state = "ACTIVE"

(* capiconn_send returns CAPICONN_OK.                                      *)
CanSend(c) == /\ c.nccip # NoNcci /\ c.nccip.state = "ACTIVE"
              /\ Len(c.nccip.ackqueue) < Window

(* A block that capi_put_message refused leaves the queue as it was.       *)
capiconn_send(k, i, put) ==
    LET c == k.conns[i]
        h == c.nccip.datahandle
        g == Request(k, "DATA_B3_REQ", c.plci, c.nccip.n, h)
    IN  IF ~CanSend(c) \/ ~put THEN k
        ELSE [g EXCEPT !.conns[i].nccip.ackqueue = Append(@, h),
                       !.conns[i].nccip.datahandle = (@ + 1) % HandleMod]

-----------------------------------------------------------------------------
(* What the controller sends.                                              *)

(***************************************************************************)
(* check_incoming_complete on the connection at i: when the number has all *)
(* its digits the application is asked.  It answers in the callback or     *)
(* leaves the call for later; then the caller hears that it rings.         *)
(***************************************************************************)
check_incoming_complete(k, i, complete, answer) ==
    LET g == CASE answer = "accept" -> capiconn_accept(k, i)
               [] answer = "ignore" -> capiconn_ignore(k, i)
               [] answer = "reject" -> capiconn_reject(k, i)
               [] OTHER -> k
    IN  IF ~complete THEN k
        ELSE IF g.conns[i].state # "INCOMING" THEN g
             ELSE Request([g EXCEPT !.conns[i].msgid = g.msgid],
                          "ALERT_REQ", g.conns[i].plci, 0, 0)

(* Without memory for it the call is ignored.                              *)
handle_incoming_call(k, m, complete, answer) ==
    IF Unused(k) = {} THEN Request(k, "CONNECT_RESP", m.plci, 0, 1)
    ELSE check_incoming_complete(
             plci_change_state(new_plci(k, TRUE, m.plci), 1, "CONNECT_IND"),
             1, complete, answer)

DisconnectInd(k, m) ==
    LET i == find_plci_by_plci(k, m.plci)
        g == plci_change_state([k EXCEPT !.conns[i].disconnecting = TRUE],
                               i, "DISCONNECT_IND")
    IN  IF i = 0 THEN Answer(k, m, "DISCONNECT_RESP")
        ELSE plci_change_state(Answer(g, m, "DISCONNECT_RESP"), i, "DISCONNECT_RESP")

DisconnectConf(k, m) ==
    LET i == find_plci_by_plci(k, m.plci)
    IN  IF i = 0 THEN k ELSE [k EXCEPT !.conns[i].disconnecting = TRUE]

ConnectConf(k, m) ==
    LET i == find_plci_by_msgid(k, m.num)
    IN  IF i = 0 THEN k
        ELSE plci_change_state([k EXCEPT !.conns[i].plci = m.plci], i,
                 IF m.arg # 0 THEN "CONNECT_CONF_ERROR" ELSE "CONNECT_CONF_OK")

(* The called side waits for the caller's Layer 3 link, the caller asks    *)
(* for it.                                                                 *)
ConnectActiveInd(k, m) ==
    LET i == find_plci_by_plci(k, m.plci)
        g == Answer(k, m, "CONNECT_ACTIVE_RESP")
        h == Request(new_ncci(g, i, 0), "CONNECT_B3_REQ", m.plci, 0, 0)
    IN  IF i = 0 THEN k
        ELSE IF k.conns[i].incoming THEN plci_change_state(g, i, "CONNECT_ACTIVE_IND")
             ELSE ncci_change_state(plci_change_state(h, i, "CONNECT_ACTIVE_IND"),
                                    i, "CONNECT_B3_REQ")

(* Mutant: more digits are taken for another call.                         *)
InfoInd_NewCall(k, m, complete, answer) ==
    Answer(handle_incoming_call(k, m, complete, answer), m, "INFO_RESP")

(* INFO_IND with more digits of the called number; other kinds only get    *)
(* their answer.                                                           *)
InfoInd(k, m, complete, answer) ==
    LET i == find_plci_by_plci(k, m.plci)
    IN  IF i = 0 THEN k
        ELSE Answer(check_incoming_complete(k, i, complete, answer), m, "INFO_RESP")

handle_plci(k, m, complete, answer) ==
    CASE m.cmd = "CONNECT_IND" -> handle_incoming_call(k, m, complete, answer)
      [] m.cmd = "CONNECT_CONF" -> ConnectConf(k, m)
      [] m.cmd = "CONNECT_ACTIVE_IND" -> ConnectActiveInd(k, m)
      [] m.cmd = "INFO_IND" -> InfoInd(k, m, complete, answer)
      [] m.cmd = "DISCONNECT_IND" -> DisconnectInd(k, m)
      [] m.cmd = "DISCONNECT_CONF" -> DisconnectConf(k, m)
      [] OTHER -> k

ResetB3Ind(k, m) ==
    LET i == find_ncci(k, m.plci)
    IN  IF i = 0 THEN k
        ELSE Answer(ncci_change_state(k, i, "RESET_B3_IND"), m, "RESET_B3_RESP")

(* The application's connected callback follows in any state.              *)
ConnectB3ActiveInd(k, m) ==
    LET i == find_ncci(k, m.plci)
    IN  IF i = 0 THEN k
        ELSE ncci_change_state(Answer(k, m, "CONNECT_B3_ACTIVE_RESP"), i,
                               "CONNECT_B3_ACTIVE_IND")

(* The code reads through a null pointer when there is no such connection. *)
ConnectB3Ind(k, m) ==
    LET i == find_plci_by_plci(k, m.plci)
        g == ncci_change_state(new_ncci(k, i, m.n), i, "CONNECT_B3_IND")
    IN  IF i = 0 THEN k
        ELSE ncci_change_state(Request(g, "CONNECT_B3_RESP", m.plci, m.n, 0), i,
                               "CONNECT_B3_RESP")

ConnectB3Conf(k, m) ==
    LET i == find_ncci(k, m.plci)
    IN  IF i = 0 THEN k
        ELSE ncci_change_state([k EXCEPT !.conns[i].nccip.n = m.n], i,
                 IF m.arg # 0 THEN "CONNECT_B3_CONF_ERROR" ELSE "CONNECT_B3_CONF_OK")

(* The block is taken off the queue and reported to the application.       *)
capi_del_ack(q, h) == RemoveFirst(q, h)

DataB3Conf(k, m) ==
    LET i == find_ncci(k, m.plci)
    IN  IF i = 0 THEN k
        ELSE [k EXCEPT !.conns[i].nccip.ackqueue = capi_del_ack(@, m.arg)]

(* Mutant: the indication is answered and the link kept.                   *)
DisconnectB3Ind_Keep(k, m) ==
    IF find_ncci(k, m.plci) = 0 THEN k ELSE Answer(k, m, "DISCONNECT_B3_RESP")

(* Mutant: the controller waits in vain for its answer.                    *)
DisconnectB3Ind_NoAnswer(k, m) ==
    LET i == find_ncci(k, m.plci)
    IN  IF i = 0 THEN k
        ELSE ncci_change_state(ncci_change_state(k, i, "DISCONNECT_B3_IND"), i,
                               "DISCONNECT_B3_RESP")

DisconnectB3Ind(k, m) ==
    LET i == find_ncci(k, m.plci)
        g == ncci_change_state([k EXCEPT !.conns[i].disconnecting = TRUE], i,
                               "DISCONNECT_B3_IND")
    IN  IF i = 0 THEN k
        ELSE ncci_change_state(Answer(g, m, "DISCONNECT_B3_RESP"), i,
                               "DISCONNECT_B3_RESP")

DisconnectB3Conf(k, m) ==
    LET i == find_ncci(k, m.plci)
    IN  IF i = 0 \/ m.arg = 0 THEN k
        ELSE ncci_change_state(k, i, "DISCONNECT_B3_CONF_ERROR")

handle_ncci(k, m) ==
    CASE m.cmd = "CONNECT_B3_ACTIVE_IND" -> ConnectB3ActiveInd(k, m)
      [] m.cmd = "CONNECT_B3_IND" -> ConnectB3Ind(k, m)
      [] m.cmd = "CONNECT_B3_CONF" -> ConnectB3Conf(k, m)
      [] m.cmd = "DATA_B3_CONF" -> DataB3Conf(k, m)
      [] m.cmd = "RESET_B3_IND" -> ResetB3Ind(k, m)
      [] m.cmd = "DISCONNECT_B3_IND" -> DisconnectB3Ind(k, m)
      [] m.cmd = "DISCONNECT_B3_CONF" -> DisconnectB3Conf(k, m)
      [] OTHER -> k

(* DATA_B3_IND: the data goes to the application, the answer back.         *)
handle_data(k, m) ==
    IF find_ncci(k, m.plci) = 0 THEN k ELSE Answer(k, m, "DATA_B3_RESP")

(* The address says who is meant: a PLCI alone or an NCCI.                 *)
capiconn_inject(k, m, complete, answer) ==
    IF m.cmd = "DATA_B3_IND" THEN handle_data(k, m)
    ELSE IF m.n = 0 THEN handle_plci(k, m, complete, answer)
         ELSE handle_ncci(k, m)
=============================================================================
