---------------------------- MODULE FsmMachine ----------------------------
(***************************************************************************)
(* One automaton of fsm.c with everything around it left free: the layer   *)
(* above opens and closes it, the layer below comes and goes, the callout  *)
(* list fires its timers, and the peer, or a line that corrupts, repeats   *)
(* and invents packets, sends whatever it likes.                           *)
(***************************************************************************)
EXTENDS Fsm

CONSTANT TimerCap   \* bound on the callouts pending at once
ASSUME TimerCapAssumption == TimerCap \in Nat

VARIABLE f

(* The packets a step sends leave on the line; nothing here reads them.    *)
Sent(g) == [g EXCEPT !.out = <<>>]

Init == \E flags \in SUBSET Flags, want \in CI : f = fsm_init(flags, want)

LowerUp == f' = Sent(fsm_lowerup(f))
LowerDown == f' = Sent(fsm_lowerdown(f))
Open == f' = Sent(fsm_open(f))
Close == f' = Sent(fsm_close(f))
ProtReject == f' = Sent(fsm_protreject(f))

(* calltimeout takes the callout off the list, then calls fsm_timeout.     *)
Timeout == /\ f.timers > 0
           /\ f' = Sent(fsm_timeout([f EXCEPT !.timers = @ - 1]))

(* fsm_input drops everything that comes in before the line is up.         *)
Listening == f.state \notin {"INITIAL", "STARTING"} /\ f.timers < TimerCap

RcvConfReq ==
    /\ Listening
    /\ \E id \in Ids, ci \in CI, hint \in CI, tough \in BOOLEAN, refuse \in BOOLEAN,
          verdict \in {"CONFACK", "CONFNAK", "CONFREJ"} :
         f' = Sent(fsm_rconfreq(f, id, ci, verdict, hint, tough, refuse))

RcvConfAck ==
    /\ Listening
    /\ \E id \in Ids, ci \in CI, refuse \in BOOLEAN :
         f' = Sent(fsm_rconfack(f, id, ci, refuse))

RcvConfNakRej ==
    /\ Listening
    /\ \E id \in Ids, ret \in {-1, 0, 1}, try \in CI, looped \in BOOLEAN :
         f' = Sent(fsm_rconfnakrej(f, id, ret, try, looped))

RcvTermReq == Listening /\ \E id \in Ids : f' = Sent(fsm_rtermreq(f, id))
RcvTermAck == Listening /\ f' = Sent(fsm_rtermack(f))
RcvCodeRej == Listening /\ f' = Sent(fsm_rcoderej(f))
RcvUnknown == Listening /\ f' = Sent(SendCodeRej(f))

Next == \/ LowerUp \/ LowerDown \/ Open \/ Close \/ ProtReject \/ Timeout
        \/ RcvConfReq \/ RcvConfAck \/ RcvConfNakRej \/ RcvTermReq
        \/ RcvTermAck \/ RcvCodeRej \/ RcvUnknown

Spec == Init /\ [][Next]_f

(* The main loop sleeps no longer than timeleft() and calls calltimeout    *)
(* after every wake-up, so a pending callout is run sooner or later.       *)
FairSpec == Spec /\ WF_f(Timeout)

-----------------------------------------------------------------------------
TypeOK == f \in FsmRecord

(* In every state that waits for an answer a timer is pending, so no lost  *)
(* packet can leave the automaton waiting for ever (fsm_timeout).          *)
TimerArmed == f.state \in Negotiating \cup Terminating => f.timers > 0

(* The layer above is up only while the automaton is OPENED: every way out *)
(* of OPENED calls the down callback.                                      *)
UpperOnlyOpened == f.upper => f.state = "OPENED"

(* ACKRCVD means that the request outstanding has been acknowledged, so a  *)
(* second answer to it is tossed; the inductive invariant joins the parts. *)
AckRcvdSeen == f.state = "ACKRCVD" => f.seen_ack

IInv == TypeOK /\ TimerArmed /\ UpperOnlyOpened /\ AckRcvdSeen

(* The options negotiated for a connection do not change under the layer   *)
(* that uses them: go and ho stay as they are from up to down, whatever    *)
(* Acks, Naks and Rejects come in late (lcp_nakci, lcp_rejci).             *)
OptionsFrozen == [][f.upper /\ f'.upper => f'.go = f.go /\ f'.ho = f.ho]_f

(* Up is never announced twice without a down between, and never by a      *)
(* packet that answers an older request: the step that brings the layer    *)
(* above up has an Ack for the request outstanding, and nothing else       *)
(* pending but timers that went astray before.                             *)
UpOnlyByHandshake ==
    [][~f.upper /\ f'.upper => /\ f.state \in {"ACKRCVD", "ACKSENT"}
                               /\ f'.seen_ack
                               /\ f'.timers = f.timers - 1]_f

(* A termination ends whatever the peer does: closing is bounded by the    *)
(* retransmission counter, which no packet can refill.                     *)
TerminationEnds == f.state \in Terminating ~> f.state \notin Terminating

(* When peer and user fall silent the automaton gives up negotiating and   *)
(* comes to rest in a state that waits for nothing.                        *)
QuietSettles == <>[][Timeout]_f => <>[](f.state \notin Negotiating \cup Terminating)

(* The automaton as the protocols above it see it.                         *)
Seen == INSTANCE Layer WITH
            state <- IF f.state \in Negotiating THEN "NEGOTIATING" ELSE f.state,
            upper <- f.upper

(* Whatever the peer, the timers and the users do, the automaton only goes *)
(* through the changes that its users are written for, each with its       *)
(* callback: no change of state skips an up or a down (fsm_input,          *)
(* fsm_timeout, fsm_open, fsm_close, fsm_lowerup, fsm_lowerdown).          *)
ImplementsLayer == Seen!LayerSpec

(* fsm.h says of the callbacks "up: called when fsm reaches OPENED state"  *)
(* and "down: called when fsm leaves OPENED state", so an automaton in     *)
(* OPENED has its upper layer up.                                          *)
OpenedMeansUp == f.state = "OPENED" => f.upper
=============================================================================
