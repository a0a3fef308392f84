------------------------------- MODULE Daemon -------------------------------
(***************************************************************************)
(* The tables of ipppd and the functions that change them: the links       *)
(* (lns[]), the LCP automata, the automata of the network protocols, the   *)
(* rings that tie the links of a bundle together and the timers of lcp.c.  *)
(* A function of lcp.c, auth.c or main.c is an operator from the tables d  *)
(* before the call to the tables after it, under the name it has there.    *)
(* The LCP automaton itself is the one LayerTable promises (FsmMachine     *)
(* shows that fsm.c keeps the promise).                                    *)
(***************************************************************************)
EXTENDS Integers, FiniteSetsExt, LayerTable

CONSTANTS
    NUM_PPP,        \* entries of each table, and links at most
    Protocols,      \* the network protocols that are enabled: ipcp, ccp, ipxcp
    Discs,          \* endpoints a peer can name in the MP negotiation
    NoMp,           \* MP was not negotiated
    EchoFails,      \* lcp_echo_fails, 0 for no limit
    MaxOpenFails    \* 16 in init_unit

ASSUME DaemonAssumption == /\ NUM_PPP \in Nat \ {0} /\ NoMp \notin Discs
                           /\ EchoFails \in Nat /\ MaxOpenFails \in Nat \ {0}

Links == 0 .. NUM_PPP - 1
Slots == 0 .. NUM_PPP - 1
None == -1

Phases == {"WAIT", "DEAD", "ESTABLISH", "AUTHENTICATE", "CALLBACK",
           "NETWORK", "TERMINATE"}

(* What ipppd was started with.  mp: it offers MP; auth: the peer must     *)
(* authenticate itself; cb: it asks to be called back; the others say      *)
(* whether echo requests, an idle limit and a connect time are set.        *)
OptionRecord == [numdev : 1 .. NUM_PPP, mp : BOOLEAN, auth : BOOLEAN,
                 cb : {"no", "cbcp", "rfc1570"},
                 echo : BOOLEAN, idle : BOOLEAN, maxconnect : BOOLEAN]

(* fd: "shut" is -1, "off" is -2.  auth: CHAP or PAP is checking the peer. *)
LinkRecord == [phase : Phases, fd : {"shut", "off", "open"},
               openfails : 0 .. MaxOpenFails, bundle_next : Links,
               lcp_unit : Slots \cup {None}, auth : BOOLEAN,
               unit : [Protocols -> Slots \cup {None}]]

(* upper: between lcp_up and lcp_down.  disc: the MP options got and       *)
(* granted (neg_mp and the discriminator).                                 *)
LcpRecord == [inuse : BOOLEAN, unit : Links \cup {None}, state : LayerStates,
              upper : BOOLEAN, disc : Discs \cup {NoMp}]
NcpRecord == [inuse : BOOLEAN, unit : Links \cup {None}]

(* echo, idle, conn: how many callouts of LcpEchoTimeout, IdleTimeCheck    *)
(* and connect_time_expired are pending.  failed: an assert did not hold,  *)
(* which ends the program.                                                 *)
Tables == [opt : OptionRecord, lns : [Links -> LinkRecord],
           lcp : [Slots -> LcpRecord], ncp : [Protocols -> [Slots -> NcpRecord]],
           echo : [Slots -> Nat], idle : [Slots -> Nat], conn : [Links -> Nat],
           echo_running : BOOLEAN, idle_running : BOOLEAN,
           echos_pending : Nat, failed : BOOLEAN]

NoUnits == [p \in Protocols |-> None]
Free == [inuse |-> FALSE, unit |-> None]

(* The tables when main begins.                                            *)
Fresh(o) ==
    [opt |-> o,
     lns |-> [i \in Links |->
               [phase |-> "WAIT", fd |-> "shut", openfails |-> 0, bundle_next |-> i,
                lcp_unit |-> None, auth |-> FALSE, unit |-> NoUnits]],
     lcp |-> [u \in Slots |-> [inuse |-> FALSE, unit |-> u, state |-> "INITIAL",
                               upper |-> FALSE, disc |-> NoMp]],
     ncp |-> [p \in Protocols |-> [u \in Slots |-> Free]],
     echo |-> [u \in Slots |-> 0], idle |-> [u \in Slots |-> 0],
     conn |-> [i \in Links |-> 0],
     echo_running |-> FALSE, idle_running |-> FALSE,
     echos_pending |-> 0, failed |-> FALSE]

Devices(d) == 0 .. d.opt.numdev - 1
LcpOf(d, i) == d.lcp[d.lns[i].lcp_unit]
SetPhase(d, i, ph) == [d EXCEPT !.lns[i].phase = ph]

(* Mutant: the search for a free entry starts at the other end.            *)
getunit_Last(tab) == LET free == {u \in Slots : ~tab[u].inuse}
                     IN  IF free = {} THEN None ELSE Max(free)

(* The first free entry of a table.                                        *)
getunit(tab) == LET free == {u \in Slots : ~tab[u].inuse}
                IN  IF free = {} THEN None ELSE Min(free)

-----------------------------------------------------------------------------
(* Links that go down.                                                     *)

(* Mutant: a link that is terminating counts as dead already.              *)
link_terminated_Early(d, i) ==
    IF d.lns[i].phase = "TERMINATE" THEN d ELSE SetPhase(d, i, "DEAD")

link_terminated(d, i) == SetPhase(d, i, "DEAD")

link_lastlink(d, i) == d.lns[i].bundle_next = i

FreeUnits(d, i) ==
    [d EXCEPT !.lns[i].unit = NoUnits,
              !.ncp = [p \in Protocols |->
                         IF d.lns[i].unit[p] # None
                         THEN [d.ncp[p] EXCEPT ![d.lns[i].unit[p]] = Free]
                         ELSE d.ncp[p]]]

(***************************************************************************)
(* The others of the bundle go on: they get the automata to send through   *)
(* one of them.  The link keeps its unit numbers.  A number -1 (a protocol *)
(* that is not enabled) indexes the entry in front of the table, which is  *)
(* no part of it.                                                          *)
(***************************************************************************)
Unbundle(d, i) ==
    LET q == CHOOSE q \in Links \ {i} : d.lns[q].bundle_next = i
    IN  [d EXCEPT !.ncp = [p \in Protocols |->
                             IF d.lns[i].unit[p] # None
                             THEN [d.ncp[p] EXCEPT ![d.lns[i].unit[p]].unit = q]
                             ELSE d.ncp[p]],
                  !.lns[q].bundle_next = d.lns[i].bundle_next,
                  !.lns[i].bundle_next = i]

(* Mutant: a link that leaves a bundle stays in its ring.                  *)
link_down_InRing(d, i) ==
    SetPhase(IF link_lastlink(d, i) THEN FreeUnits(d, i) ELSE d, i, "TERMINATE")

(* Mutant: the units are not given back.                                   *)
link_down_Leak(d, i) ==
    SetPhase(IF link_lastlink(d, i) THEN [d EXCEPT !.lns[i].unit = NoUnits]
             ELSE Unbundle(d, i), i, "TERMINATE")

(* Mutant: the phase is left as it was.                                    *)
link_down_Phase(d, i) ==
    IF link_lastlink(d, i) THEN FreeUnits(d, i) ELSE Unbundle(d, i)

link_down(d, i) ==
    SetPhase(IF link_lastlink(d, i) THEN FreeUnits(d, i) ELSE Unbundle(d, i),
             i, "TERMINATE")

(* UNTIMEOUT removes one callout, when there is one.                       *)
Less(n) == IF n > 0 THEN n - 1 ELSE 0

(* Mutant: the echo timer is stopped but still counted as running.         *)
lcp_echo_lowerdown_Runs(d, u) ==
    [d EXCEPT !.echo[u] = IF d.echo_running THEN Less(@) ELSE @,
              !.idle[u] = IF d.idle_running THEN Less(@) ELSE @,
              !.echo_running = FALSE]

(* The flags are one for all links.                                        *)
lcp_echo_lowerdown(d, u) ==
    [d EXCEPT !.echo[u] = IF d.echo_running THEN Less(@) ELSE @,
              !.idle[u] = IF d.idle_running THEN Less(@) ELSE @,
              !.echo_running = FALSE, !.idle_running = FALSE]

(* CHAP and PAP stop with LCP (lowerdown).                                 *)
lcp_down(d, u) ==
    LET i == d.lcp[u].unit
        e == link_down([d EXCEPT !.lcp[u].upper = FALSE, !.lns[i].auth = FALSE], i)
    IN  lcp_echo_lowerdown(e, e.lns[i].lcp_unit)

(* The automaton u makes the change r; up is in Rise.                      *)
Step(d, u, r) ==
    LET e == [d EXCEPT !.lcp[u].state = r[2]]
    IN  CASE r[3] = "down" -> lcp_down(e, u)
          [] r[3] = "finished" -> link_terminated(e, e.lcp[u].unit)
          [] OTHER -> e

(* The change rows has for the state of u, or none.                        *)
By(rows, d, u) ==
    LET rs == {r \in rows : r[1] = d.lcp[u].state}
    IN  IF rs = {} THEN d ELSE Step(d, u, CHOOSE r \in rs : TRUE)

lcp_close(d, u) == IF u = None THEN d ELSE By(CloseRows, d, u)
lcp_lowerdown(d, u) == By(LowerDownRows, d, u)

(* auth_peer_fail, the end of cbcp_up and of an idle link: LCP is closed   *)
(* and the link marked.                                                    *)
CloseLink(d, i) == SetPhase(lcp_close(d, d.lns[i].lcp_unit), i, "TERMINATE")

-----------------------------------------------------------------------------
(* The timers of lcp.c.  quiet: nothing has come in for the interval.      *)

LcpLinkFailure(d, u) == IF d.lcp[u].state = "OPENED" THEN lcp_close(d, u) ELSE d

LcpSendEchoRequest(d, u) ==
    IF EchoFails = 0 THEN d
    ELSE IF d.echos_pending >= EchoFails
         THEN [LcpLinkFailure(d, u) EXCEPT !.echos_pending = 0]
         ELSE [d EXCEPT !.echos_pending = @ + 1]

LcpEchoCheck(d, u, quiet) ==
    LET e == IF quiet THEN LcpSendEchoRequest(d, u) ELSE d
    IN  [e EXCEPT !.failed = @ \/ e.echo_running,
                  !.echo[u] = @ + 1, !.echo_running = TRUE]

(* The entry may have been freed since; the ioctl then reads some other    *)
(* place for a file descriptor and may fail.                               *)
LcpEchoTimeout(d, u, quiet, ioctl) ==
    IF ~d.echo_running THEN d
    ELSE IF d.lcp[u].unit # None \/ ioctl
         THEN LcpEchoCheck([d EXCEPT !.echo_running = FALSE], u, quiet)
         ELSE [d EXCEPT !.echo_running = FALSE]

RestartIdleTimer(d, u, quiet) ==
    IF quiet /\ d.lcp[u].state = "OPENED" THEN CloseLink(d, d.lcp[u].unit)
    ELSE [d EXCEPT !.failed = @ \/ d.idle_running,
                   !.idle[u] = @ + 1, !.idle_running = TRUE]

IdleTimeCheck(d, u, quiet, ioctl) ==
    IF ~d.idle_running THEN d
    ELSE IF d.lcp[u].unit # None \/ ioctl
         THEN RestartIdleTimer([d EXCEPT !.idle_running = FALSE], u, quiet)
         ELSE [d EXCEPT !.idle_running = FALSE]

(* Packets of the negotiation have just come in, so the link is not quiet. *)
lcp_echo_lowerup(d, u) ==
    LET e == [d EXCEPT !.echos_pending = 0, !.echo_running = FALSE]
        f == IF d.opt.echo THEN LcpEchoCheck(e, u, FALSE) ELSE e
    IN  IF d.opt.idle THEN RestartIdleTimer(f, u, FALSE) ELSE f

-----------------------------------------------------------------------------
(* Links that come up.                                                     *)

(* Mutant: MP with anybody.                                                *)
Partners_Any(d, i) ==
    {j \in Devices(d) \ {i} : /\ d.lns[j].phase = "NETWORK"
                              /\ LcpOf(d, i).disc # NoMp /\ d.lcp[j].disc # NoMp}

(***************************************************************************)
(* network_phase looks for a link to the same peer that is in its network  *)
(* phase.  The options of that link are looked up under the number of the  *)
(* link, not of its LCP unit.                                              *)
(***************************************************************************)
Partners(d, i) ==
    {j \in Devices(d) \ {i} : /\ d.lns[j].phase = "NETWORK"
                              /\ LcpOf(d, i).disc # NoMp
                              /\ d.lcp[j].disc = LcpOf(d, i).disc}

Bundle(d, i, j) ==
    [d EXCEPT !.lns[i] = [@ EXCEPT !.bundle_next = d.lns[j].bundle_next,
                                   !.unit = d.lns[j].unit, !.phase = "NETWORK"],
              !.lns[j].bundle_next = i]

StartProtocols(d, i) ==
    LET got == [p \in Protocols |-> getunit(d.ncp[p])]
    IN  [d EXCEPT !.lns[i] = [@ EXCEPT !.unit = got, !.phase = "NETWORK"],
                  !.ncp = [p \in Protocols |->
                             IF got[p] = None THEN d.ncp[p]
                             ELSE [d.ncp[p] EXCEPT ![got[p]] =
                                     [inuse |-> TRUE, unit |-> i]]]]

network_phase(d, i) ==
    IF Partners(d, i) # {} THEN Bundle(d, i, Min(Partners(d, i)))
    ELSE StartProtocols(d, i)

callback_phase(d, i) ==
    CASE d.opt.cb = "cbcp" -> SetPhase(d, i, "CALLBACK")
      [] d.opt.cb = "rfc1570" -> SetPhase(d, i, "TERMINATE")
      [] OTHER -> network_phase(d, i)

(* refuses: the peer does not agree to authenticate itself.                *)
link_established(d, i, refuses) ==
    IF d.opt.auth /\ refuses THEN CloseLink(d, i)
    ELSE LET e == SetPhase(d, i, "AUTHENTICATE")
         IN  IF d.opt.auth THEN [e EXCEPT !.lns[i].auth = TRUE]
             ELSE callback_phase(e, i)

(* The automaton reaches OPENED: lcp_up.                                   *)
Rise(d, u, disc, refuses) ==
    link_established(
        lcp_echo_lowerup([d EXCEPT !.lcp[u].state = "OPENED", !.lcp[u].upper = TRUE,
                                   !.lcp[u].disc = disc], u),
        d.lcp[u].unit, refuses)

(* auth_peer_success and auth_withpeer_success with nothing left to do.    *)
auth_success(d, i) ==
    IF d.lns[i].phase = "AUTHENTICATE" THEN callback_phase(d, i) ELSE d

-----------------------------------------------------------------------------
(* main.c                                                                  *)

(* Mutant: no end to the attempts.                                         *)
init_unit_Endless(d, i, result) ==
    LET u == getunit(d.lcp)
    IN  IF result = "open"
        THEN [d EXCEPT !.lns[i].fd = "open", !.lns[i].openfails = 0,
                       !.lns[i].lcp_unit = u,
                       !.lcp[u] = [@ EXCEPT !.inuse = TRUE, !.unit = i,
                                            !.state = "CLOSED", !.upper = FALSE]]
        ELSE [d EXCEPT !.lns[i].openfails = @ + 1, !.lns[i].fd = result]

(* result: "open", "shut" to try again, "off" when there is no such device *)
init_unit(d, i, result) ==
    LET u == getunit(d.lcp)
    IN  IF result = "open"
        THEN [d EXCEPT !.lns[i].fd = "open", !.lns[i].openfails = 0,
                       !.lns[i].lcp_unit = u,
                       !.lcp[u] = [@ EXCEPT !.inuse = TRUE, !.unit = i,
                                            !.state = "CLOSED", !.upper = FALSE]]
        ELSE [d EXCEPT !.lns[i].openfails = @ + 1,
                       !.lns[i].fd = IF d.lns[i].openfails + 1 >= MaxOpenFails
                                     THEN "off" ELSE result]

(* The first input on a link that waits: LCP is opened.                    *)
Establish(d, i) ==
    IF d.lns[i].phase # "WAIT" THEN d
    ELSE [SetPhase(d, i, "ESTABLISH") EXCEPT
            !.lcp[d.lns[i].lcp_unit].state = "NEGOTIATING",
            !.conn[i] = IF d.opt.maxconnect THEN @ + 1 ELSE @]

(* Mutant: the LCP entry is not given back.                                *)
TakeDown_Kept(d, i) ==
    LET u == d.lns[i].lcp_unit
        e == lcp_lowerdown(lcp_close([d EXCEPT !.conn[i] = Less(@)], u), u)
    IN  [SetPhase(e, i, "WAIT") EXCEPT !.lns[i].fd = "shut"]

(* A link in PHASE_DEAD is taken down: the callout, LCP, its entry, the    *)
(* device.                                                                 *)
TakeDown(d, i) ==
    LET u == d.lns[i].lcp_unit
        e == lcp_lowerdown(lcp_close([d EXCEPT !.conn[i] = Less(@)], u), u)
    IN  [SetPhase(e, i, "WAIT") EXCEPT !.lcp[u].inuse = FALSE, !.lcp[u].unit = None,
                                       !.lns[i].fd = "shut"]

connect_time_expired(d, i) == lcp_close([d EXCEPT !.conn[i] = @ - 1], i)
=============================================================================
