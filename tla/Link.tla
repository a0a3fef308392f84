-------------------------------- MODULE Link --------------------------------
(***************************************************************************)
(* ipppd with all its links: the main loop, which in every pass fires the  *)
(* timers that are due, reads one packet from each link that has one, and  *)
(* takes down and opens again the links that ended.  The peers send what   *)
(* they like.                                                              *)
(***************************************************************************)
EXTENDS Daemon

CONSTANTS
    Options,        \* the ways ipppd can have been started
    MaxTimers       \* bound on the callouts of one kind pending for one unit
ASSUME LinkAssumption == Options \subseteq OptionRecord /\ MaxTimers \in Nat

VARIABLES
    d,              \* the tables
    at,             \* the place in a pass of the loop
    openfailed      \* history: has a device ever failed to open?
vars == <<d, at, openfailed>>

(***************************************************************************)
(* A pass: timers while at is 0; the input of link at; when at has reached *)
(* Sweeping, the loop over the dead links; from Opening on, the loop over  *)
(* the closed devices.  The program begins with that last loop.            *)
(***************************************************************************)
Sweeping == d.opt.numdev
Opening == 2 * d.opt.numdev

Init == /\ \E o \in Options : d = Fresh(o)
        /\ at = Opening
        /\ openfailed = FALSE

Running == ~d.failed
Tick(e) == Running /\ at = 0 /\ d' = e /\ UNCHANGED <<at, openfailed>>

-----------------------------------------------------------------------------
(* calltimeout                                                             *)

LcpTimer(u) ==
    /\ d.lcp[u].inuse
    /\ \E r \in TimerRows : d.lcp[u].state = r[1] /\ Tick(Step(d, u, r))

(* The peer never answers the Terminate-Requests.                          *)
TermTimer(u) == d.lcp[u].state \in {"CLOSING", "STOPPING"} /\ LcpTimer(u)

EchoTimer(u) ==
    /\ d.echo[u] > 0
    /\ \E quiet, ioctl \in BOOLEAN :
         Tick(LcpEchoTimeout([d EXCEPT !.echo[u] = @ - 1], u, quiet, ioctl))

IdleTimer(u) ==
    /\ d.idle[u] > 0
    /\ \E quiet, ioctl \in BOOLEAN :
         Tick(IdleTimeCheck([d EXCEPT !.idle[u] = @ - 1], u, quiet, ioctl))

ConnectTimer(i) == d.conn[i] > 0 /\ Tick(connect_time_expired(d, i))

(* CHAP or PAP gives up waiting for the peer.                              *)
AuthTimer(i) == d.lns[i].auth /\ Tick(CloseLink(d, i))

-----------------------------------------------------------------------------
(* get_input                                                               *)

(* Something comes in on link i, which makes e of the tables.              *)
Input(i, e) ==
    /\ Running /\ at <= i /\ i \in Devices(d) /\ d.lns[i].fd = "open"
    /\ \A u \in Slots : e.echo[u] <= MaxTimers /\ e.idle[u] <= MaxTimers
    /\ d' = e /\ at' = i + 1 /\ UNCHANGED openfailed

Hangup(i) == Input(i, link_terminated(Establish(d, i), i))

(* To come up takes a packet more than the one that opens LCP.             *)
LcpPacket(i) ==
    /\ d.lns[i].fd = "open"
    /\ LET e == Establish(d, i)
           u == e.lns[i].lcp_unit
       IN  \E r \in PacketRows :
             /\ r[1] = e.lcp[u].state
             /\ r[3] = "up" => d.lcp[u].state = "NEGOTIATING"
             /\ IF r[3] = "up"
                THEN \E disc \in (IF d.opt.mp THEN Discs ELSE {}) \cup {NoMp},
                        refuses \in BOOLEAN : Input(i, Rise(e, u, disc, refuses))
                ELSE Input(i, Step(e, u, r))

(* lcp_nakci finds its own requests in what comes back.                    *)
LoopedBack(i) ==
    /\ d.lns[i].fd = "open"
    /\ LcpOf(d, i).state = "NEGOTIATING"
    /\ Input(i, lcp_close(d, d.lns[i].lcp_unit))

EchoReply(i) ==
    /\ d.lns[i].fd = "open"
    /\ LcpOf(d, i).state = "OPENED"
    /\ Input(i, [d EXCEPT !.echos_pending = 0])

AuthPacket(i) ==
    /\ d.lns[i].auth /\ LcpOf(d, i).state = "OPENED"
    /\ Input(i, auth_success(d, i)) \/ Input(i, CloseLink(d, i))

(* The peer agrees to call back: cbcp_up.                                  *)
CbcpAck(i) ==
    /\ d.lns[i].phase = "CALLBACK" /\ LcpOf(d, i).state = "OPENED"
    /\ Input(i, CloseLink(d, i))

(* Anything else, and what the automaton answers without a change.         *)
OtherPacket(i) == Input(i, Establish(d, i))

-----------------------------------------------------------------------------
(* The end of the pass.                                                    *)

EndInput == Running /\ at < Sweeping /\ at' = Sweeping /\ UNCHANGED <<d, openfailed>>

SweepLink ==
    /\ Running /\ at \in Sweeping .. Opening - 1
    /\ LET i == at - Sweeping
       IN  d' = IF d.lns[i].phase = "DEAD" THEN TakeDown(d, i) ELSE d
    /\ at' = at + 1 /\ UNCHANGED openfailed

OpenDevice ==
    /\ Running /\ at >= Opening
    /\ LET i == at - Opening
       IN  IF d.lns[i].fd = "shut"
           THEN \E result \in {"open", "shut", "off"} :
                  /\ d' = init_unit(d, i, result)
                  /\ openfailed' = (openfailed \/ result # "open")
           ELSE UNCHANGED <<d, openfailed>>
    /\ at' = (at + 1) % (3 * d.opt.numdev)

Next == \/ \E u \in Slots : LcpTimer(u) \/ EchoTimer(u) \/ IdleTimer(u)
        \/ \E i \in Links : ConnectTimer(i) \/ AuthTimer(i) \/ Hangup(i)
                            \/ LcpPacket(i) \/ LoopedBack(i) \/ EchoReply(i)
                            \/ AuthPacket(i) \/ CbcpAck(i) \/ OtherPacket(i)
        \/ EndInput \/ SweepLink \/ OpenDevice

Spec == Init /\ [][Next]_vars

(* The loop never stops, and a Terminate-Request is repeated a bounded     *)
(* number of times (TerminationEnds of FsmMachine).                        *)
Fairness == /\ WF_vars(EndInput \/ SweepLink \/ OpenDevice)
           /\ \A u \in Slots : SF_vars(TermTimer(u))
FairSpec == Spec /\ Fairness

-----------------------------------------------------------------------------
(* Properties                                                              *)

Open == {i \in Devices(d) : d.lns[i].fd = "open"}
Up(i) == i \in Open /\ LcpOf(d, i).upper

(* The links tied to i: those that following bundle_next from i reaches.   *)
Ring(i) == {j \in Links : \A S \in SUBSET Links :
                             i \in S /\ (\A k \in S : d.lns[k].bundle_next \in S) => j \in S}

(* The tables hold what their declarations in ipppd.h, fsm.h, lcp.c and    *)
(* auth.c let them hold.                                                   *)
TypeOK == d \in Tables /\ at \in 0 .. 3 * NUM_PPP - 1 /\ openfailed \in BOOLEAN

(* Over every order of opening, failing, hanging up and taking down, each  *)
(* open link (main.c init_unit) owns one LCP unit that points back at it,  *)
(* no unit is left in use without a link (lcp_getunit, lcp_freeunit), and  *)
(* a free unit has come to rest.                                           *)
LcpOwned ==
    /\ \A i \in Open : /\ d.lns[i].lcp_unit # None
                       /\ LcpOf(d, i).inuse /\ LcpOf(d, i).unit = i
    /\ \A u \in Slots : IF d.lcp[u].inuse
                        THEN \E i \in Open : d.lns[i].lcp_unit = u
                        ELSE d.lcp[u].state = "INITIAL" /\ ~d.lcp[u].upper

(* connect_time_expired and network_phase use a link's number where the    *)
(* number of its LCP unit is due.  As long as every device opens at the    *)
(* first try the two are the same, however links come and go.              *)
UnitIsLink == ~openfailed => \A i \in Open : d.lns[i].lcp_unit = i

(* The rings of auth.c stay rings: every link follows exactly one other,   *)
(* and a link that shares its ring is in its network phase or has just     *)
(* been hung up (network_phase, link_down).                                *)
BundleRings ==
    /\ \A i, j \in Links : d.lns[i].bundle_next = d.lns[j].bundle_next => i = j
    /\ \A i \in Links : \/ link_lastlink(d, i)
                        \/ d.lns[i].phase \in {"NETWORK", "DEAD"}

(* Links are bundled only when they lead to the same endpoint              *)
(* (network_phase), as long as units and links have the same numbers.      *)
BundleSamePeer ==
    ~openfailed => \A i \in Open : \A j \in Ring(i) :
                     j # i => /\ LcpOf(d, i).disc # NoMp
                              /\ LcpOf(d, i).disc = LcpOf(d, j).disc

(* Without bundles the units of the network protocols are given back: one  *)
(* is in use only for a link that is up and owns it, and no two links      *)
(* share one (ipcp_getunit, link_down).                                    *)
NcpOwned ==
    ~d.opt.mp =>
      \A p \in Protocols, u \in Slots :
        /\ d.ncp[p][u].inuse => /\ Up(d.ncp[p][u].unit)
                                /\ d.lns[d.ncp[p][u].unit].unit[p] = u
        /\ \A i \in Open : d.lns[i].unit[p] = u => d.ncp[p][u] = [inuse |-> TRUE, unit |-> i]

(* Phase and LCP go together.  A link authenticates, waits for a callback  *)
(* or carries traffic only while LCP is up on it; one that is marked as    *)
(* terminating has left LCP, so that it does come to an end.  The          *)
(* exception is callback by RFC 1570, where callback_phase leaves the      *)
(* hanging up to the peer.                                                 *)
PhaseFitsLcp ==
    \A i \in Open :
      /\ d.lns[i].phase \in {"AUTHENTICATE", "CALLBACK", "NETWORK"} => Up(i)
      /\ d.lns[i].phase = "TERMINATE" /\ Up(i) => d.opt.cb = "rfc1570"

(* With one link the timers that all links share serve it: no assert of    *)
(* lcp.c fails, and while the link is up the echo and idle checks go on,   *)
(* each with its callout pending and its flag set (lcp_echo_lowerup,       *)
(* LcpEchoTimeout, IdleTimeCheck, lcp_echo_lowerdown).                     *)
OneLinkWatched ==
    d.opt.numdev = 1 =>
      /\ Running
      /\ d.opt.echo /\ Up(0) => d.echo_running /\ d.echo[d.lns[0].lcp_unit] > 0
      /\ d.opt.idle /\ Up(0) => d.idle_running /\ d.idle[d.lns[0].lcp_unit] > 0

(* A link whose LCP is terminating is taken down and waits for the next    *)
(* call, whatever its peer and the other links do.                         *)
LinkReturns ==
    \A i \in Links :
      (i \in Open /\ LcpOf(d, i).state \in {"CLOSING", "STOPPING"})
        ~> (d.lns[i].phase = "WAIT")

(* What the comment in link_down is about: when the link that carried the  *)
(* bundle's packets leaves, the others get a valid one.  So every link in  *)
(* its network phase uses units that are in use and that send through a    *)
(* link of its bundle.                                                     *)
NetworkHasUnits ==
    \A i \in Open : \A p \in Protocols :
      d.lns[i].phase = "NETWORK" =>
        LET u == d.lns[i].unit[p]
        IN  u # None /\ d.ncp[p][u].inuse /\ d.ncp[p][u].unit \in Ring(i)

(* The assertions of LcpEchoCheck and RestartIdleTimer hold.               *)
AssertsHold == Running
=============================================================================
