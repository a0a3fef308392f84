------------------------------ MODULE PppPair ------------------------------
(***************************************************************************)
(* Two automata of fsm.c at the two ends of a line.  The options are what  *)
(* the callbacks of lcp.c make of them, reduced to one option: a value, or *)
(* NoCI when the option is left out, which every peer accepts.             *)
(***************************************************************************)
EXTENDS Fsm

CONSTANTS
    Peers,          \* the two ends
    WantOf,         \* lcp_wantoptions of a peer: the value it asks for
    AcceptOf,       \* lcp_allowoptions of a peer: the values it acknowledges
    HintOf,         \* the value a peer puts into a Nak
    Adopts,         \* does lcp_nakci of a peer take the value of a Nak?
    ChanCap,        \* packets in flight in one direction; more are lost
    TimerCap,       \* bound on the callouts pending for one automaton
    MaxFaults       \* bound on closes, hang-ups, losses and early timers

ASSUME PairAssumption ==
    /\ \E p, q \in Peers : p # q /\ Peers = {p, q}
    /\ WantOf \in [Peers -> CI] /\ HintOf \in [Peers -> CI]
    /\ AcceptOf \in [Peers -> SUBSET CI] /\ Adopts \in [Peers -> BOOLEAN]
    /\ \A p \in Peers : NoCI \in AcceptOf[p] /\ HintOf[p] \in AcceptOf[p]
    /\ ChanCap \in Nat \ {0} /\ MaxFaults \in Nat /\ TimerCap \in Nat

VARIABLES
    f,              \* f[p]: the automaton of peer p
    chan,           \* chan[p]: the packets on their way to p, oldest first
    faults          \* closes, hang-ups, losses and early timers so far

vars == <<f, chan, faults>>

Other(p) == CHOOSE q \in Peers : q # p

Init == /\ f = [p \in Peers |-> fsm_init({}, WantOf[p])]
        /\ chan = [p \in Peers |-> <<>>]
        /\ faults = 0

-----------------------------------------------------------------------------
(* The line takes what fits and loses the rest.                            *)
Carry(c, sent) == LET d == c \o sent
                  IN  SubSeq(d, 1, IF Len(d) > ChanCap THEN ChanCap ELSE Len(d))

(* Peer p is left in state g; what it sent goes on the line to the other.  *)
Becomes(p, g, line) ==
    /\ f' = [f EXCEPT ![p] = [g EXCEPT !.out = <<>>]]
    /\ chan' = [line EXCEPT ![Other(p)] = Carry(@, g.out)]

Fault == faults < MaxFaults /\ faults' = faults + 1
NoFault == UNCHANGED faults

lcp_open(p) == Becomes(p, fsm_open(f[p]), chan) /\ NoFault
lcp_close(p) == Becomes(p, fsm_close(f[p]), chan) /\ Fault
lcp_lowerup(p) == Becomes(p, fsm_lowerup(f[p]), chan) /\ NoFault

(* A hang-up takes everything that is still on the line with it.           *)
lcp_lowerdown(p) == /\ Becomes(p, fsm_lowerdown(f[p]), [q \in Peers |-> <<>>])
                    /\ Fault

(* A timer runs out with nothing on the line, or before an answer that is  *)
(* still on its way.  It goes on while packets chase each other: the first *)
(* of TimerCap timers runs out on a busy line too.                         *)
Overdue(p) == (\A q \in Peers : chan[q] = <<>>) \/ f[p].timers >= TimerCap

Timeout(p) == /\ f[p].timers > 0
              /\ Becomes(p, fsm_timeout([f[p] EXCEPT !.timers = @ - 1]), chan)
              /\ IF Overdue(p) THEN NoFault ELSE Fault

(* What reqci and nakci or rejci make of the options of a packet.          *)
lcp_reqci(p, ci) == IF ci \in AcceptOf[p] THEN "CONFACK" ELSE "CONFNAK"
lcp_nakci(p, ci) == IF Adopts[p] THEN ci ELSE f[p].go
lcp_rejci(p, ci) == NoCI

Results(p, m) ==
    [verdict |-> lcp_reqci(p, m.ci), hint |-> HintOf[p], tough |-> TRUE,
     refuse |-> FALSE, ret |-> 1, looped |-> FALSE, known |-> TRUE,
     try |-> IF m.code = "CONFNAK" THEN lcp_nakci(p, m.ci) ELSE lcp_rejci(p, m.ci)]

lcp_input(p) ==
    /\ chan[p] # <<>> /\ f[p].timers < TimerCap
    /\ LET m == Head(chan[p])
       IN  Becomes(p, fsm_input(f[p], m, Results(p, m)),
                   [chan EXCEPT ![p] = Tail(@)])
    /\ NoFault

Lose(p) == /\ chan[p] # <<>>
           /\ chan' = [chan EXCEPT ![p] = Tail(@)]
           /\ UNCHANGED f /\ Fault

Next == \E p \in Peers : \/ lcp_open(p) \/ lcp_close(p)
                         \/ lcp_lowerup(p) \/ lcp_lowerdown(p)
                         \/ Timeout(p) \/ lcp_input(p) \/ Lose(p)

Spec == Init /\ [][Next]_vars

(***************************************************************************)
(* A line that loses nothing and stays up once it is, and timers that are  *)
(* longer than a round trip (DEFTIMEOUT is 3 seconds).  The users open and *)
(* close as they like.  A callout keeps its due time whatever the other    *)
(* end does meanwhile, so a line that is busy now and then does not put it *)
(* off for ever: strong fairness.                                          *)
(***************************************************************************)
CalmNext == \E p \in Peers : \/ lcp_open(p) \/ lcp_close(p) \/ lcp_lowerup(p)
                             \/ lcp_input(p) \/ (Overdue(p) /\ Timeout(p))

CalmSpec == /\ Init /\ [][CalmNext]_vars
            /\ \A p \in Peers : WF_vars(lcp_input(p)) /\ SF_vars(Overdue(p) /\ Timeout(p))

-----------------------------------------------------------------------------
(* Two connected ends use the same options: what one end got is what the   *)
(* other granted, after any loss, repetition, restart or collision of      *)
(* requests (the ids and seen_ack keep stale answers out).                 *)
Agreement ==
    \A p, q \in Peers : p # q /\ f[p].upper /\ f[q].upper => f[p].go = f[q].ho

(* An id comes round only when nothing that carries it is left on the      *)
(* line: no request of p, and no Ack of one, has the id that p uses next.  *)
IdsFresh ==
    \A p \in Peers : LET n == NextId(f[p]) IN
        /\ \A i \in DOMAIN chan[Other(p)] :
              chan[Other(p)][i].code = "CONFREQ" => chan[Other(p)][i].id # n
        /\ \A i \in DOMAIN chan[p] : chan[p][i].code = "CONFACK" => chan[p][i].id # n

(* The user of p opens the connection and the line comes up.               *)
Willing(p) == WF_vars(lcp_open(p)) /\ WF_vars(lcp_lowerup(p))

(* The negotiation converges: when both ends are willing and neither       *)
(* closes, both upper layers come up for good, also when the two disagree  *)
(* at first and one insists (maxnakloops turns its request down in the     *)
(* end).                                                                   *)
Converges == [](faults = 0) /\ (\A p \in Peers : Willing(p))
                 => <>[](\A p \in Peers : f[p].upper)

(* When one end closes, the other learns of it: its upper layer goes down. *)
CloseReachesPeer ==
    \A p \in Peers : f[p].state \in {"CLOSING", "CLOSED"} ~> ~f[Other(p)].upper
=============================================================================
