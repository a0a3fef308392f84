-------------------------------- MODULE Fsm --------------------------------
(***************************************************************************)
(* The option negotiation automaton of ipppd (ipppd/fsm.c), the code that  *)
(* LCP, IPCP, IPXCP and CCP all run on.  A C function on an "fsm *" is an  *)
(* operator from the structure before the call to the structure after it,  *)
(* under the name it has in fsm.c.  The fields of struct fsm keep their    *)
(* names; five kinds of fields stand for state that is kept elsewhere:     *)
(*                                                                         *)
(*   timers  how many fsm_timeout callouts are pending for this fsm        *)
(*   upper   TRUE between a call of the up and the next call of the down   *)
(*           callback: what the layer above believes                       *)
(*   want, go, ho                                                          *)
(*           the options wanted, got so far and granted to the peer        *)
(*           (lcp_wantoptions, lcp_gotoptions, lcp_hisoptions and their    *)
(*           likes in the other protocols), each a value of CI             *)
(*   out     the packets the current call handed to fsm_sdata, in order    *)
(*                                                                         *)
(* What the callbacks compute from a packet's options is a parameter of    *)
(* the handler: the modules that use this one choose it.                   *)
(***************************************************************************)
EXTENDS Integers, Sequences

CONSTANTS
    CI,             \* configuration information: values of one option list
    NoCI,           \* the empty option list
    MaxConfReq,     \* maxconfreqtransmits, 10 unless an option sets it
    MaxTermReq,     \* maxtermtransmits, 2 unless an option sets it
    MaxNakLoops,    \* maxnakloops, 5 unless an option sets it
    IdMod           \* an id is a u_char: 256 in the code

ASSUME CIAssumption == NoCI \in CI
ASSUME LimitAssumption == /\ MaxConfReq \in Nat
                          /\ MaxTermReq \in Nat
                          /\ MaxNakLoops \in Nat
ASSUME IdAssumption == IdMod \in Nat \ {0}

States == {"INITIAL", "STARTING", "CLOSED", "STOPPED", "CLOSING",
           "STOPPING", "REQSENT", "ACKRCVD", "ACKSENT", "OPENED"}
Flags == {"PASSIVE", "RESTART", "SILENT"}
Codes == {"CONFREQ", "CONFACK", "CONFNAK", "CONFREJ",
          "TERMREQ", "TERMACK", "CODEREJ", "EXT"}
Ids == 0 .. IdMod - 1

Negotiating == {"REQSENT", "ACKRCVD", "ACKSENT"}
Terminating == {"CLOSING", "STOPPING"}

Packet == [code : Codes, id : Ids, ci : CI]

FsmRecord == [state : States, flags : SUBSET Flags,
              id : Ids, reqid : Ids, seen_ack : BOOLEAN,
              retransmits : Int, nakloops : Nat,
              timers : Nat, upper : BOOLEAN,
              want : CI, go : CI, ho : CI, out : Seq(Packet)]

-----------------------------------------------------------------------------
(***************************************************************************)
(* The services a handler uses.  fsm_sdata sends one packet; a packet that *)
(* carries no options has NoCI.  TIMEOUT adds a callout,                   *)
(* UNTIMEOUT removes the first that matches and does nothing when there is *)
(* none (main.c, untimeout).                                               *)
(***************************************************************************)
fsm_sdata(f, code, id, ci) ==
    [f EXCEPT !.out = Append(@, [code |-> code, id |-> id, ci |-> ci])]

TIMEOUT(f) == [f EXCEPT !.timers = @ + 1]

UNTIMEOUT(f) == [f EXCEPT !.timers = IF @ > 0 THEN @ - 1 ELSE 0]

To(f, s) == [f EXCEPT !.state = s]

(* Mutant: an id that is an int and does not wrap.                         *)
NextId_NoWrap(f) == f.id + 1

NextId(f) == (f.id + 1) % IdMod

(* The down callback: the upper layer is told.                             *)
Down(f) == [f EXCEPT !.upper = FALSE]

-----------------------------------------------------------------------------
(***************************************************************************)
(* fsm_init sets state, flags and id.  The structures are static, so the   *)
(* other fields start at zero.                                             *)
(***************************************************************************)
fsm_init(flags, want) ==
    [state |-> "INITIAL", flags |-> flags, id |-> 0, reqid |-> 0,
     seen_ack |-> FALSE, retransmits |-> 0, nakloops |-> 0,
     timers |-> 0, upper |-> FALSE, want |-> want, go |-> NoCI, ho |-> NoCI,
     out |-> <<>>]

(***************************************************************************)
(* Three callbacks are the same for every protocol, one option at a time:  *)
(* resetci starts again from the options wanted, addci puts the options    *)
(* got so far into a request, and ackci takes an Ack that repeats them.    *)
(***************************************************************************)
resetci(f) == [f EXCEPT !.go = f.want]
addci(f) == f.go
ackci(f, ci) == ci = f.go

(* Mutant: a retransmission refills the counter as a new request does.     *)
fsm_sconfreq_Refill(f, retransmit) ==
    LET g == IF f.state \in Negotiating THEN f
             ELSE [resetci(f) EXCEPT !.nakloops = 0]
        h == [g EXCEPT !.retransmits = MaxConfReq,
                       !.id = IF retransmit THEN @ ELSE NextId(g),
                       !.reqid = IF retransmit THEN @ ELSE NextId(g)]
    IN  TIMEOUT(fsm_sdata([h EXCEPT !.seen_ack = FALSE, !.retransmits = @ - 1],
                          "CONFREQ", h.reqid, addci(h)))

(***************************************************************************)
(* Send a Configure-Request.  Outside of a negotiation the options start   *)
(* again from what we want; a request that is not a retransmission has a   *)
(* new id and a full retransmission counter.                               *)
(***************************************************************************)
fsm_sconfreq(f, retransmit) ==
    LET g == IF f.state \in Negotiating THEN f
             ELSE [resetci(f) EXCEPT !.nakloops = 0]
        h == IF retransmit THEN g
             ELSE [g EXCEPT !.retransmits = MaxConfReq,
                            !.id = NextId(g), !.reqid = NextId(g)]
        s == fsm_sdata([h EXCEPT !.seen_ack = FALSE, !.retransmits = @ - 1],
                       "CONFREQ", h.reqid, addci(h))
    IN TIMEOUT(s)

(* Mutant: every Terminate-Request starts the count afresh.                *)
SendTermReq_Refill(f) ==
    TIMEOUT(fsm_sdata([f EXCEPT !.id = NextId(f), !.reqid = NextId(f),
                                !.retransmits = MaxTermReq],
                      "TERMREQ", NextId(f), NoCI))

(* A Terminate-Request under a new id, with the timer that guards it.      *)
SendTermReq(f) ==
    TIMEOUT(fsm_sdata([f EXCEPT !.id = NextId(f), !.reqid = NextId(f),
                                !.retransmits = @ - 1],
                      "TERMREQ", NextId(f), NoCI))

-----------------------------------------------------------------------------
(* Events from below and above.                                            *)

(* The first request of a negotiation, or silence until the peer speaks.   *)
Begin(f) == IF "SILENT" \in f.flags THEN To(f, "STOPPED")
            ELSE To(fsm_sconfreq(f, FALSE), "REQSENT")

fsm_lowerup(f) ==
    CASE f.state = "INITIAL"  -> To(f, "CLOSED")
      [] f.state = "STARTING" -> Begin(f)
      [] OTHER -> f

(* Mutant: the upper layer is not told that the line is gone.              *)
fsm_lowerdown_Silent(f) ==
    CASE f.state = "CLOSED"  -> To(f, "INITIAL")
      [] f.state \in {"STOPPED", "OPENED"} -> To(f, "STARTING")
      [] f.state = "CLOSING" -> UNTIMEOUT(To(f, "INITIAL"))
      [] f.state \in Negotiating \cup {"STOPPING"} -> UNTIMEOUT(To(f, "STARTING"))
      [] OTHER -> f

fsm_lowerdown(f) ==
    CASE f.state = "CLOSED"  -> To(f, "INITIAL")
      [] f.state = "STOPPED" -> To(f, "STARTING")
      [] f.state = "CLOSING" -> UNTIMEOUT(To(f, "INITIAL"))
      [] f.state \in Negotiating \cup {"STOPPING"} -> UNTIMEOUT(To(f, "STARTING"))
      [] f.state = "OPENED"  -> To(Down(f), "STARTING")
      [] OTHER -> f

(* OPT_RESTART treats a second open as DOWN followed by UP.                *)
fsm_open(f) ==
    LET g == IF f.state = "CLOSING" THEN To(f, "STOPPING") ELSE f
    IN  CASE g.state = "INITIAL" -> To(g, "STARTING")
          [] g.state = "CLOSED"  -> Begin(g)
          [] \/ g.state \in {"STOPPED", "OPENED"}
             \/ f.state = "CLOSING" ->
               IF "RESTART" \in g.flags THEN fsm_lowerup(fsm_lowerdown(g)) ELSE g
          [] OTHER -> g

fsm_close(f) ==
    CASE f.state = "STARTING" -> To(f, "INITIAL")
      [] f.state = "STOPPED"  -> To(f, "CLOSED")
      [] f.state = "STOPPING" -> To(f, "CLOSING")
      [] f.state \in Negotiating \cup {"OPENED"} ->
            LET g == IF f.state = "OPENED" THEN Down(f) ELSE UNTIMEOUT(f)
            IN  To(SendTermReq([g EXCEPT !.retransmits = MaxTermReq]), "CLOSING")
      [] OTHER -> f

(* The up callback.  It may refuse the connection and close it before it   *)
(* returns (link_established without the required authentication, ipcp_up  *)
(* without addresses).                                                     *)
Up(f, refuse) ==
    LET g == [f EXCEPT !.upper = TRUE] IN IF refuse THEN fsm_close(g) ELSE g

(* A callout has been taken off the list and runs.                         *)
fsm_timeout(f) ==
    CASE f.state \in Terminating ->
            IF f.retransmits <= 0
            THEN To(f, IF f.state = "CLOSING" THEN "CLOSED" ELSE "STOPPED")
            ELSE SendTermReq(f)
      [] f.state \in Negotiating ->
            IF f.retransmits <= 0 THEN To(f, "STOPPED")
            ELSE LET g == fsm_sconfreq(f, TRUE)
                 IN  IF g.state = "ACKRCVD" THEN To(g, "REQSENT") ELSE g
      [] OTHER -> f

(* Mutant: a rejected protocol is left CLOSED, as if the user had closed   *)
(* it.                                                                     *)
fsm_protreject_Closed(f) ==
    CASE f.state \in Negotiating \cup Terminating -> To(UNTIMEOUT(f), "CLOSED")
      [] f.state = "OPENED" ->
            To(SendTermReq([Down(f) EXCEPT !.retransmits = MaxTermReq]), "STOPPING")
      [] OTHER -> f

fsm_protreject(f) ==
    CASE f.state = "CLOSING" -> To(UNTIMEOUT(f), "CLOSED")
      [] f.state \in Negotiating \cup {"STOPPING"} -> To(UNTIMEOUT(f), "STOPPED")
      [] f.state = "OPENED" ->
            To(SendTermReq([Down(f) EXCEPT !.retransmits = MaxTermReq]), "STOPPING")
      [] OTHER -> f

-----------------------------------------------------------------------------
(* Events from the peer.                                                   *)

(* Mutant: the limit on Naks is never enforced.                            *)
fsm_rconfreq_NakForever(f, id, ci, verdict, hint, tough, refuse) ==
    LET g == CASE f.state = "OPENED"  -> fsm_sconfreq(Down(f), FALSE)
               [] f.state = "STOPPED" -> To(fsm_sconfreq(f, FALSE), "REQSENT")
               [] OTHER -> f
        s == fsm_sdata(g, verdict, id, IF verdict = "CONFNAK" THEN hint ELSE ci)
        acked == [s EXCEPT !.ho = ci]
    IN  CASE f.state = "CLOSED" -> fsm_sdata(f, "TERMACK", id, NoCI)
          [] f.state \in Terminating -> f
          [] OTHER ->
               IF verdict = "CONFACK"
               THEN IF s.state = "ACKRCVD"
                    THEN Up(To(UNTIMEOUT(acked), "OPENED"), refuse)
                    ELSE To(acked, "ACKSENT")
               ELSE IF s.state = "ACKRCVD" THEN s ELSE To(s, "REQSENT")

(***************************************************************************)
(* Configure-Request.  verdict is what the reqci callback thinks of the    *)
(* options ci; once MaxNakLoops Naks have not helped, a reqci that is      *)
(* tough rejects instead (only a magic number is still Nak'd).  hint is    *)
(* the value a Nak proposes.  nakloops is only compared with the limit, so *)
(* it stops there.                                                         *)
(***************************************************************************)
fsm_rconfreq(f, id, ci, verdict, hint, tough, refuse) ==
    LET g == CASE f.state = "OPENED"  -> fsm_sconfreq(Down(f), FALSE)
               [] f.state = "STOPPED" -> To(fsm_sconfreq(f, FALSE), "REQSENT")
               [] OTHER -> f
        reject_if_disagree == g.nakloops >= MaxNakLoops
        code == IF verdict = "CONFNAK" /\ reject_if_disagree /\ tough
                THEN "CONFREJ" ELSE verdict
        s == fsm_sdata(g, code, id, IF code = "CONFNAK" THEN hint ELSE ci)
        acked == [s EXCEPT !.ho = ci]
        fed == [s EXCEPT !.nakloops = IF code = "CONFNAK" /\ ~reject_if_disagree
                                      THEN @ + 1 ELSE @]
    IN  CASE f.state = "CLOSED" -> fsm_sdata(f, "TERMACK", id, NoCI)
          [] f.state \in Terminating -> f
          [] OTHER ->
               IF code = "CONFACK"
               THEN [(IF s.state = "ACKRCVD"
                      THEN Up(To(UNTIMEOUT(acked), "OPENED"), refuse)
                      ELSE To(acked, "ACKSENT")) EXCEPT !.nakloops = 0]
               ELSE IF fed.state = "ACKRCVD" THEN fed ELSE To(fed, "REQSENT")

(* Ack, Nak and Reject count only for the request that is outstanding.     *)
Expected(f, id) == id = f.reqid /\ ~f.seen_ack

Restart(f) == To(fsm_sconfreq(f, FALSE), "REQSENT")

(* Mutant: the timer of the request that was acknowledged stays pending.   *)
fsm_rconfack_KeepTimer(f, id, ci, refuse) ==
    LET g == [f EXCEPT !.seen_ack = TRUE]
    IN  IF ~Expected(f, id) \/ ~ackci(f, ci) THEN f
        ELSE CASE g.state = "REQSENT" -> To(g, "ACKRCVD")
               [] g.state = "ACKSENT" -> Up(To(g, "OPENED"), refuse)
               [] g.state = "OPENED" -> Restart(Down(g))
               [] OTHER -> g

(* Mutant: any Ack counts, whatever request and options it answers.        *)
fsm_rconfack_AnyAck(f, id, ci, refuse) ==
    LET g == [f EXCEPT !.seen_ack = TRUE]
    IN  IF f.seen_ack THEN f
        ELSE CASE g.state = "REQSENT" ->
                    [To(g, "ACKRCVD") EXCEPT !.retransmits = MaxConfReq]
               [] g.state = "ACKRCVD" -> Restart(UNTIMEOUT(g))
               [] g.state = "ACKSENT" ->
                    Up([To(UNTIMEOUT(g), "OPENED") EXCEPT !.retransmits = MaxConfReq],
                       refuse)
               [] g.state = "OPENED" -> Restart(Down(g))
               [] OTHER -> g

(* Configure-Ack.                                                          *)
fsm_rconfack(f, id, ci, refuse) ==
    LET g == [f EXCEPT !.seen_ack = TRUE]
    IN  IF ~Expected(f, id) \/ ~ackci(f, ci) THEN f
        ELSE CASE g.state \in {"CLOSED", "STOPPED"} -> fsm_sdata(g, "TERMACK", id, NoCI)
               [] g.state = "REQSENT" ->
                    [To(g, "ACKRCVD") EXCEPT !.retransmits = MaxConfReq]
               [] g.state = "ACKRCVD" -> Restart(UNTIMEOUT(g))
               [] g.state = "ACKSENT" ->
                    Up([To(UNTIMEOUT(g), "OPENED") EXCEPT !.retransmits = MaxConfReq],
                       refuse)
               [] g.state = "OPENED" -> Restart(Down(g))
               [] OTHER -> g

(***************************************************************************)
(* Configure-Nak and Configure-Reject.  ret is what nakci or rejci returns *)
(* (0: a bad packet, -1: the protocol gives up), try the options it then   *)
(* settles on, looped that lcp_nakci saw our own magic number too often    *)
(* and called lcp_close before it returned.                                *)
(***************************************************************************)
fsm_rconfnakrej(f, id, ret, try, looped) ==
    LET opened == f.state = "OPENED"
        n == IF opened THEN f
             ELSE [(IF looped THEN fsm_close(f) ELSE f) EXCEPT !.go = try]
        g == [n EXCEPT !.seen_ack = TRUE]
    IN  IF ~Expected(f, id) \/ ret = 0 THEN f
        ELSE CASE g.state \in {"CLOSED", "STOPPED"} -> fsm_sdata(g, "TERMACK", id, NoCI)
               [] g.state \in {"REQSENT", "ACKSENT"} ->
                    IF ret < 0 THEN To(UNTIMEOUT(g), "STOPPED")
                    ELSE fsm_sconfreq(UNTIMEOUT(g), FALSE)
               [] g.state = "ACKRCVD" -> Restart(UNTIMEOUT(g))
               [] g.state = "OPENED" -> Restart(Down(g))
               [] OTHER -> g

(* Mutant: nothing bounds the wait for the end of the connection.          *)
fsm_rtermreq_NoTimer(f, id) ==
    LET g == CASE f.state \in {"ACKRCVD", "ACKSENT"} -> To(f, "REQSENT")
               [] f.state = "OPENED" ->
                    To([Down(f) EXCEPT !.retransmits = 0], "STOPPING")
               [] OTHER -> f
    IN  fsm_sdata(g, "TERMACK", id, NoCI)

(* Mutant: the request is acknowledged and otherwise ignored.              *)
fsm_rtermreq_AckOnly(f, id) == fsm_sdata(f, "TERMACK", id, NoCI)

fsm_rtermreq(f, id) ==
    LET g == CASE f.state \in {"ACKRCVD", "ACKSENT"} -> To(f, "REQSENT")
               [] f.state = "OPENED" ->
                    TIMEOUT(To([Down(f) EXCEPT !.retransmits = 0], "STOPPING"))
               [] OTHER -> f
    IN  fsm_sdata(g, "TERMACK", id, NoCI)

(* Mutant: a new negotiation starts behind the upper layer's back.         *)
fsm_rtermack_NoDown(f) ==
    CASE f.state = "CLOSING"  -> To(UNTIMEOUT(f), "CLOSED")
      [] f.state = "STOPPING" -> To(UNTIMEOUT(f), "STOPPED")
      [] f.state = "ACKRCVD"  -> To(f, "REQSENT")
      [] f.state = "OPENED"   -> fsm_sconfreq(f, FALSE)
      [] OTHER -> f

(* Terminate-Ack.  The OPENED case sends a new request but leaves the      *)
(* state alone, as the code does.                                          *)
fsm_rtermack(f) ==
    CASE f.state = "CLOSING"  -> To(UNTIMEOUT(f), "CLOSED")
      [] f.state = "STOPPING" -> To(UNTIMEOUT(f), "STOPPED")
      [] f.state = "ACKRCVD"  -> To(f, "REQSENT")
      [] f.state = "OPENED"   -> fsm_sconfreq(Down(f), FALSE)
      [] OTHER -> f

fsm_rcoderej(f) == IF f.state = "ACKRCVD" THEN To(f, "REQSENT") ELSE f

(* A code the automaton does not know and the protocol's extcode callback  *)
(* does not either.                                                        *)
SendCodeRej(f) ==
    fsm_sdata([f EXCEPT !.id = NextId(f)], "CODEREJ", NextId(f), NoCI)

(***************************************************************************)
(* fsm_input on a packet p.  env gives the callbacks' results: verdict,    *)
(* hint and tough of reqci, refuse of up, ret, try and looped of nakci and *)
(* rejci, known of extcode.                                                *)
(***************************************************************************)
fsm_input(f, p, env) ==
    IF f.state \in {"INITIAL", "STARTING"} THEN f
    ELSE CASE p.code = "CONFREQ" ->
                fsm_rconfreq(f, p.id, p.ci, env.verdict, env.hint, env.tough, env.refuse)
           [] p.code = "CONFACK" -> fsm_rconfack(f, p.id, p.ci, env.refuse)
           [] p.code \in {"CONFNAK", "CONFREJ"} ->
                fsm_rconfnakrej(f, p.id, env.ret, env.try, env.looped)
           [] p.code = "TERMREQ" -> fsm_rtermreq(f, p.id)
           [] p.code = "TERMACK" -> fsm_rtermack(f)
           [] p.code = "CODEREJ" -> fsm_rcoderej(f)
           [] OTHER -> IF env.known THEN f ELSE SendCodeRej(f)
=============================================================================
