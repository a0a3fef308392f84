------------------------------ MODULE CapiLine ------------------------------
(***************************************************************************)
(* capiconn.c between an application (capiplugin.c) and a CAPI controller. *)
(* Two queues of messages lie between the library and the controller, so   *)
(* what one side does crosses with what the other has already sent.  The   *)
(* controller is not part of the repository: it follows the state diagrams *)
(* of CAPI 2.0 that plcitable and nccitable are the other half of.         *)
(***************************************************************************)
EXTENDS CapiConn, FiniteSets

CONSTANTS
    MsgStart,       \* the next message number: 1 after the first LISTEN_REQ
    QueueCap,       \* bound on the messages waiting on one side
    MaxCalls        \* bound on the calls, and digits sent late, of a behaviour

ASSUME LineAssumption == /\ MsgStart \in 0 .. MsgMod - 1
                         /\ QueueCap \in Nat /\ MaxCalls \in Nat

VARIABLES
    card,           \* the library's capi_contr
    toCapi,         \* messages from the library to the controller
    toApp,          \* messages from the controller to the library
    d,              \* d[p]: the controller's state of PLCI p
    b,              \* b[p]: its state of the Layer 3 link on p
    unconf,         \* unconf[p]: handles of data it has not confirmed
    calls           \* calls made and received, digits sent late, so far

vars == <<card, toCapi, toApp, d, b, unconf, calls>>

DStates == {"idle", "dialing", "ringing", "answered", "called", "active",
            "releasing", "clearing"}
BStates == {"none", "out", "in", "agreed", "up", "clearing"}

Init == /\ card = [conns |-> <<>>, msgid |-> MsgStart, out |-> <<>>]
        /\ toCapi = <<>> /\ toApp = <<>>
        /\ d = [p \in Plcis |-> "idle"] /\ b = [p \in Plcis |-> "none"]
        /\ unconf = [p \in Plcis |-> <<>>] /\ calls = 0

Room == Len(toApp) < QueueCap
Conns == DOMAIN card.conns

-----------------------------------------------------------------------------
(* Steps of the application and of the library.                            *)

Becomes(k) == /\ card' = [k EXCEPT !.out = <<>>]
              /\ toCapi' = toCapi \o k.out

Calm == Len(toCapi) < QueueCap

Controller == <<d, b, unconf>>

Connect == /\ Calm /\ calls < MaxCalls /\ Unused(card) # {}
           /\ Becomes(capiconn_connect(card)) /\ calls' = calls + 1
           /\ UNCHANGED <<toApp, Controller>>

(* An answer that the application took its time for.                       *)
Decide == /\ Calm
          /\ \E i \in Conns : card.conns[i].state = "INCOMING"
                /\ \/ Becomes(capiconn_accept(card, i))
                   \/ Becomes(capiconn_ignore(card, i))
                   \/ Becomes(capiconn_reject(card, i))
          /\ UNCHANGED <<toApp, Controller, calls>>

Disconnect == /\ Calm
              /\ \E i \in Conns : Becomes(capiconn_disconnect(card, i))
              /\ UNCHANGED <<toApp, Controller, calls>>

Send == /\ Calm
        /\ \E i \in Conns, put \in BOOLEAN :
             Becomes(capiconn_send(card, i, put))
        /\ UNCHANGED <<toApp, Controller, calls>>

(* The library takes the oldest message from the controller.               *)
Receive == toApp # <<>> /\ toApp' = Tail(toApp)

Inject == /\ Receive
          /\ \E complete \in BOOLEAN, answer \in {"accept", "ignore", "reject", "wait"} :
               Becomes(capiconn_inject(card, Head(toApp), complete, answer))
          /\ UNCHANGED <<Controller, calls>>

-----------------------------------------------------------------------------
(* Steps of the controller.                                                *)
Say(cmd, p, n, num, arg) == [cmd |-> cmd, plci |-> p, n |-> n, num |-> num, arg |-> arg]
Tell(q, m) == Append(q, m)
Ind(cmd, p, n) == Say(cmd, p, n, 0, 0)

(* PLCI p is released; the indication goes out when its link is gone.      *)
Release(p, q) ==
    IF b[p] \in {"none", "clearing"}
    THEN /\ d' = [d EXCEPT ![p] = IF b[p] = "none" THEN "clearing" ELSE "releasing"]
         /\ toApp' = IF b[p] = "none" THEN Tell(q, Ind("DISCONNECT_IND", p, 0)) ELSE q
         /\ UNCHANGED b
    ELSE /\ d' = [d EXCEPT ![p] = "releasing"] /\ b' = [b EXCEPT ![p] = "clearing"]
         /\ toApp' = Tell(q, Ind("DISCONNECT_B3_IND", p, 1))

InUse(p) == d[p] \in {"dialing", "ringing", "answered", "called", "active"}

TakeConnectReq(m) ==
    \E p \in Plcis, ok \in BOOLEAN :
      /\ m.cmd = "CONNECT_REQ" /\ d[p] = "idle"
      /\ d' = [d EXCEPT ![p] = IF ok THEN "dialing" ELSE @]
      /\ toApp' = Tell(toApp, Say("CONNECT_CONF", p, 0, m.num, IF ok THEN 0 ELSE 1))
      /\ UNCHANGED <<b, unconf>>

(* With no channel left the request is turned down.                        *)
RefuseConnectReq(m) ==
    /\ m.cmd = "CONNECT_REQ" /\ \A p \in Plcis : d[p] # "idle"
    /\ \E p \in Plcis : toApp' = Tell(toApp, Say("CONNECT_CONF", p, 0, m.num, 1))
    /\ UNCHANGED Controller

TakeConnectResp(m) ==
    /\ m.cmd = "CONNECT_RESP"
    /\ IF d[m.plci] # "ringing" THEN UNCHANGED <<toApp, d, b>>
       ELSE IF m.arg # 0 THEN Release(m.plci, toApp)
            ELSE d' = [d EXCEPT ![m.plci] = "answered"] /\ UNCHANGED <<toApp, b>>
    /\ UNCHANGED unconf

TakeB3Req(m) ==
    /\ m.cmd = "CONNECT_B3_REQ"
    /\ IF d[m.plci] = "active" /\ b[m.plci] = "none"
       THEN /\ b' = [b EXCEPT ![m.plci] = "out"]
            /\ toApp' = Tell(toApp, Say("CONNECT_B3_CONF", m.plci, 1, m.num, 0))
       ELSE /\ UNCHANGED b
            /\ \E n \in {0, 1} :
                 toApp' = Tell(toApp, Say("CONNECT_B3_CONF", m.plci, n, m.num, 1))
    /\ UNCHANGED <<d, unconf>>

TakeB3Resp(m) ==
    /\ m.cmd = "CONNECT_B3_RESP"
    /\ b' = [b EXCEPT ![m.plci] = IF @ = "in" THEN "agreed" ELSE @]
    /\ UNCHANGED <<toApp, d, unconf>>

(* A link number of 0 names no link: the request is an error.              *)
TakeDisconnectB3Req(m) ==
    /\ m.cmd = "DISCONNECT_B3_REQ"
    /\ IF m.n = 1 /\ b[m.plci] \notin {"none", "clearing"}
       THEN /\ b' = [b EXCEPT ![m.plci] = "clearing"]
            /\ toApp' = Tell(Tell(toApp, Say("DISCONNECT_B3_CONF", m.plci, 1, m.num, 0)),
                             Ind("DISCONNECT_B3_IND", m.plci, 1))
       ELSE /\ UNCHANGED b
            /\ toApp' = Tell(toApp, Say("DISCONNECT_B3_CONF", m.plci, m.n, m.num, 1))
    /\ UNCHANGED <<d, unconf>>

TakeDisconnectB3Resp(m) ==
    LET gone == d[m.plci] = "releasing"
    IN  /\ m.cmd = "DISCONNECT_B3_RESP"
        /\ b' = [b EXCEPT ![m.plci] = "none"]
        /\ unconf' = [unconf EXCEPT ![m.plci] = <<>>]
        /\ d' = [d EXCEPT ![m.plci] = IF gone THEN "clearing" ELSE @]
        /\ toApp' = IF gone THEN Tell(toApp, Ind("DISCONNECT_IND", m.plci, 0)) ELSE toApp

TakeDisconnectReq(m) ==
    LET ok == InUse(m.plci)
        q == Tell(toApp, Say("DISCONNECT_CONF", m.plci, 0, m.num, IF ok THEN 0 ELSE 1))
    IN  /\ m.cmd = "DISCONNECT_REQ"
        /\ IF ok THEN Release(m.plci, q) ELSE toApp' = q /\ UNCHANGED <<d, b>>
        /\ UNCHANGED unconf

TakeDisconnectResp(m) ==
    /\ m.cmd = "DISCONNECT_RESP"
    /\ d' = [d EXCEPT ![m.plci] = "idle"]
    /\ UNCHANGED <<toApp, b, unconf>>

(* Data for a link that is not up is dropped with it.                      *)
TakeData(m) ==
    /\ m.cmd = "DATA_B3_REQ"
    /\ unconf' = [unconf EXCEPT ![m.plci] = IF b[m.plci] = "up" THEN Append(@, m.arg) ELSE @]
    /\ UNCHANGED <<toApp, d, b>>

Serve == toCapi # <<>> /\ Room /\ toCapi' = Tail(toCapi)

Take == /\ Serve
        /\ LET m == Head(toCapi)
           IN  \/ TakeConnectReq(m) \/ RefuseConnectReq(m) \/ TakeConnectResp(m)
               \/ TakeB3Req(m) \/ TakeB3Resp(m) \/ TakeDisconnectB3Req(m)
               \/ TakeDisconnectB3Resp(m) \/ TakeDisconnectReq(m)
               \/ TakeDisconnectResp(m) \/ TakeData(m)
        /\ UNCHANGED <<card, calls>>

(* What comes from the network.                                            *)
Ring == /\ Room /\ calls < MaxCalls /\ calls' = calls + 1
        /\ \E p \in Plcis : /\ d[p] = "idle"
                            /\ d' = [d EXCEPT ![p] = "ringing"]
                            /\ toApp' = Tell(toApp, Ind("CONNECT_IND", p, 0))
        /\ UNCHANGED <<card, toCapi, b, unconf>>

Digits == /\ Room /\ calls < MaxCalls /\ calls' = calls + 1
          /\ \E p \in Plcis : /\ d[p] \in {"ringing", "answered"}
                              /\ toApp' = Tell(toApp, Ind("INFO_IND", p, 0))
          /\ UNCHANGED <<card, toCapi, Controller>>

(* A call we made becomes "active", one we answered "called".              *)
Answered == /\ Room
            /\ \E p \in Plcis :
                 /\ d[p] \in {"dialing", "answered"}
                 /\ d' = [d EXCEPT ![p] = IF @ = "dialing" THEN "active" ELSE "called"]
                 /\ toApp' = Tell(toApp, Ind("CONNECT_ACTIVE_IND", p, 0))
            /\ UNCHANGED <<card, toCapi, b, unconf, calls>>

LinkAsked == /\ Room
             /\ \E p \in Plcis : /\ d[p] = "called" /\ b[p] = "none"
                                 /\ b' = [b EXCEPT ![p] = "in"]
                                 /\ toApp' = Tell(toApp, Ind("CONNECT_B3_IND", p, 1))
             /\ UNCHANGED <<card, toCapi, d, unconf, calls>>

LinkUp == /\ Room
          /\ \E p \in Plcis : /\ b[p] \in {"out", "agreed"}
                              /\ b' = [b EXCEPT ![p] = "up"]
                              /\ toApp' = Tell(toApp, Ind("CONNECT_B3_ACTIVE_IND", p, 1))
          /\ UNCHANGED <<card, toCapi, d, unconf, calls>>

ConfirmData == /\ Room
               /\ \E p \in Plcis :
                    /\ unconf[p] # <<>> /\ b[p] = "up"
                    /\ unconf' = [unconf EXCEPT ![p] = Tail(@)]
                    /\ toApp' = Tell(toApp, Say("DATA_B3_CONF", p, 1, 0, Head(unconf[p])))
               /\ UNCHANGED <<card, toCapi, d, b, calls>>

DataOrReset == /\ Room
               /\ \E p \in Plcis, cmd \in {"DATA_B3_IND", "RESET_B3_IND"} :
                    b[p] = "up" /\ toApp' = Tell(toApp, Ind(cmd, p, 1))
               /\ UNCHANGED <<card, toCapi, Controller, calls>>

(* Layer 3 may be cleared by the other side while the call stays.          *)
LinkDown(p) == /\ Room /\ InUse(p) /\ b[p] \in {"out", "in", "agreed", "up"}
               /\ b' = [b EXCEPT ![p] = "clearing"]
               /\ toApp' = Tell(toApp, Ind("DISCONNECT_B3_IND", p, 1))
               /\ UNCHANGED <<card, toCapi, d, unconf, calls>>

Hangup(p) == /\ Room /\ InUse(p) /\ Release(p, toApp)
             /\ UNCHANGED <<card, toCapi, unconf, calls>>

Next == \/ Connect \/ Decide \/ Disconnect \/ Send \/ Inject
        \/ Take \/ Ring \/ Digits \/ Answered \/ LinkAsked \/ LinkUp
        \/ ConfirmData \/ DataOrReset \/ \E p \in Plcis : Hangup(p) \/ LinkDown(p)

Spec == Init /\ [][Next]_vars

(* The plugin polls the controller (handlemessages) and the controller     *)
(* serves its queue; nobody has to call, answer or hang up.  Receive and   *)
(* Serve are what Inject and Take do to the queues, and every message has  *)
(* a handler, so fairness of the queues is fairness of the two actions.    *)
FairSpec == Spec /\ WF_toApp(Receive) /\ WF_toCapi(Serve)

-----------------------------------------------------------------------------
TypeOK == /\ card.conns \in Seq(Connection) /\ card.msgid \in 0 .. MsgMod - 1
          /\ card.out = <<>>
          /\ toCapi \in Seq(Message) /\ toApp \in Seq(Message)
          /\ d \in [Plcis -> DStates] /\ b \in [Plcis -> BStates]

Still == toCapi = <<>> /\ toApp = <<>>
Of(p) == {i \in Conns : card.conns[i].plci = p}

(* No PLCI belongs to two connections, so the searches by PLCI find the    *)
(* call that is meant, also when the controller uses a PLCI again.         *)
OneCallPerPlci == \A p \in Plcis : Cardinality(Of(p)) <= 1

(* When no message is under way, library and controller know the same      *)
(* calls: none is forgotten on one side, however a hang-up crossed with a  *)
(* disconnect, an answer or a link set-up.                                 *)
SameCalls == Still => \A p \in Plcis : (Of(p) # {}) <=> (d[p] # "idle")

(* ... and the library takes a link for usable only when it is up.         *)
SameLink ==
    Still => \A i \in Conns :
        LET c == card.conns[i]
        IN  c.nccip # NoNcci /\ c.nccip.state = "ACTIVE" => b[c.plci] = "up"

(* A confirmation on its way finds its block in the queue: the handles of  *)
(* unconfirmed blocks are distinct, and all of them are queued.            *)
ConfirmsFindData ==
    \A i \in Conns : LET c == card.conns[i]
                         q == c.nccip.ackqueue
                     IN  c.nccip # NoNcci /\ c.nccip.state = "ACTIVE" =>
                           /\ Len(q) <= Window /\ IsInjective(q)
                           /\ \A h \in Range(unconf[c.plci]) : h \in Range(q)

(* The searches of the list find the call that is meant.  A confirmation   *)
(* of a call set-up finds the connection that asked for it (capiconn.c on  *)
(* the field msgid: "to identfy CONNECT_CONF"), and a link is offered only *)
(* on a call the library still has: the pointer that handle_ncci follows   *)
(* for CONNECT_B3_IND is never null.                                       *)
MessagesFindCall ==
    toApp # <<>> =>
      LET m == Head(toApp)
          i == find_plci_by_msgid(card, m.num)
      IN  /\ m.cmd = "CONNECT_CONF" => i # 0 /\ card.conns[i].state = "OUTGOING"
          /\ m.cmd = "CONNECT_B3_IND" => Of(m.plci) # {}

(* A call is answered once.  Digits that arrive late make                  *)
(* check_incoming_complete ask the application again, also about a call it *)
(* has answered; no second CONNECT_RESP may reach the controller.          *)
AnsweredOnce ==
    toCapi # <<>> /\ Head(toCapi).cmd = "CONNECT_RESP" =>
        d[Head(toCapi).plci] \in {"ringing", "releasing", "clearing"}

(* A call that ends, whoever ends it, is reported to the application and   *)
(* its PLCI becomes free again.                                            *)
EndIsReported ==
    \A p \in Plcis : d[p] \in {"releasing", "clearing"} ~> d[p] = "idle" /\ Of(p) = {}

-----------------------------------------------------------------------------
(* What capiconn.h promises and the code does not keep.                    *)

(* Of CAPICONN_OK as a result of capiconn_disconnect: "disconnect          *)
(* initiated", so the connection ends.                                     *)
DisconnectEnds ==
    \A x \in Ptrs : (\E i \in Conns : card.conns[i].ptr = x /\ card.conns[i].localdisconnect)
                    ~> (\A i \in Conns : card.conns[i].ptr # x)
=============================================================================
