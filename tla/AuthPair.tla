------------------------------ MODULE AuthPair ------------------------------
(***************************************************************************)
(* Two ipppd at the ends of a line that loses packets but keeps their      *)
(* order, authenticating each other with CHAP or PAP, one session after    *)
(* the other.                                                              *)
(***************************************************************************)
EXTENDS Auth

CONSTANTS
    Ends,           \* the two ends of the line
    Setups,         \* the ways they can be set up, see SetupRecord
    MaxInFlight,    \* bound on the packets on the way in one direction
    MaxCallouts     \* bound on the callouts of upap_timeout pending at once

(* ask: what the end asks of its peer; right: whether it has the secret    *)
(* the peer wants; again: whether a CHAP peer is challenged again.         *)
SetupRecord == [ask : [Ends -> {"none", "chap", "pap"}],
                right : [Ends -> BOOLEAN], again : BOOLEAN]
ASSUME PairAssumption == /\ \A e \in Ends : \E f \in Ends : Ends = {e, f} /\ e # f
                         /\ Setups \subseteq SetupRecord
                         /\ MaxInFlight \in Nat \ {0} /\ MaxCallouts \in Nat

VARIABLES
    setup,          \* how the ends are set up
    n,              \* the link at each end
    line,           \* the packets on the way to each end, oldest first
    session         \* the session each end is in, or was in last
vars == <<setup, n, line, session>>

Peer(e) == CHOOSE f \in Ends : f # e

(* LCP starts a session at an end only when the other end has left the     *)
(* session before, or is in the new one already.                           *)
After(s) == (s + 1) % 3

Init == /\ setup \in Setups
        /\ n = [e \in Ends |-> Quiet]
        /\ line = [e \in Ends |-> << >>]
        /\ session = [e \in Ends |-> 0]

(* The link at e becomes x; what it sent goes to the other end, or is lost *)
(* when there is no room.                                                  *)
Becomes(e, x, rest) ==
    LET sent == rest[Peer(e)] \o x.out
    IN  /\ n' = [n EXCEPT ![e] = [x EXCEPT !.out = << >>]]
        /\ line' = [rest EXCEPT ![Peer(e)] =
                      SubSeq(sent, 1, IF Len(sent) < MaxInFlight THEN Len(sent) ELSE MaxInFlight)]
        /\ UNCHANGED setup

(* The first end to come up starts the session.  The packets of LCP that   *)
(* made it do so have pushed everything older out of the line; what they   *)
(* pushed found the end they reached not up.  An end that comes up again   *)
(* before the other did starts the session anew.                           *)
Up(e) ==
    LET joins == session[Peer(e)] = After(session[e])
        again == session[e] = After(session[Peer(e)])
    IN  /\ ~n[e].up
        /\ joins \/ ~n[Peer(e)].up
        /\ session' = IF again THEN session ELSE [session EXCEPT ![e] = After(@)]
        /\ Becomes(e, lcp_up(n[e], setup.ask[e], setup.ask[Peer(e)], setup.right[e]),
                   IF joins THEN line ELSE [f \in Ends |-> << >>])

(* A hangup, a renegotiation or a timer of LCP.                            *)
Down(e) == n[e].up /\ Becomes(e, lcp_down(n[e]), line) /\ UNCHANGED session

(* The peer has left the session; LCP tells.                               *)
PeerLeft(e) == session[e] = session[Peer(e)] /\ ~n[Peer(e)].up /\ Down(e)

Lose(e) == /\ line[e] # << >>
           /\ line' = [line EXCEPT ![e] = Tail(@)]
           /\ UNCHANGED <<setup, n, session>>

(* get_input tosses what comes in while LCP is not up.                     *)
Input(e, kind, x) ==
    /\ line[e] # << >> /\ Head(line[e]).kind = kind /\ n[e].up
    /\ Becomes(e, x, [line EXCEPT ![e] = Tail(@)])
    /\ UNCHANGED session

RcvChallenge(e) == Input(e, "CHALLENGE", ChapReceiveChallenge(n[e], Head(line[e]), setup.right[e]))
RcvResponse(e) == Input(e, "RESPONSE", ChapReceiveResponse(n[e], Head(line[e]), setup.again))
RcvSuccess(e) == Input(e, "SUCCESS", ChapReceiveSuccess(n[e]))
RcvFailure(e) == Input(e, "FAILURE", ChapReceiveFailure(n[e]))
RcvAuthReq(e) == Input(e, "AUTHREQ", upap_rauthreq(n[e], Head(line[e])))
RcvAuthAck(e) == Input(e, "AUTHACK", upap_rauthack(n[e]))
RcvAuthNak(e) == Input(e, "AUTHNAK", upap_rauthnak(n[e]))

Receive(e) == \/ RcvChallenge(e) \/ RcvResponse(e) \/ RcvSuccess(e) \/ RcvFailure(e)
              \/ RcvAuthReq(e) \/ RcvAuthAck(e) \/ RcvAuthNak(e)

(* The peer does not know the protocol after all.                          *)
RcvProtReject(e) ==
    /\ n[e].up
    /\ \E x \in {ChapProtocolReject(n[e]), upap_protrej(n[e])} : Becomes(e, x, line)
    /\ UNCHANGED session

Fires(e, x) == Becomes(e, x, line) /\ UNCHANGED session

ChallengeTimer(e) ==
    /\ n[e].chap.chal_timers > 0
    /\ Fires(e, ChapChallengeTimeout([n[e] EXCEPT !.chap.chal_timers = @ - 1]))
RechallengeTimer(e) ==
    /\ n[e].chap.rechal_timers > 0
    /\ Fires(e, ChapRechallenge([n[e] EXCEPT !.chap.rechal_timers = @ - 1]))
ResponseTimer(e) ==
    /\ n[e].chap.resp_timers > 0
    /\ Fires(e, ChapResponseTimeout([n[e] EXCEPT !.chap.resp_timers = @ - 1]))
PapTimer(e) ==
    /\ n[e].pap.timers > 0
    /\ Fires(e, upap_timeout([n[e] EXCEPT !.pap.timers = @ - 1], setup.right[e]))
PapReqTimer(e) ==
    /\ n[e].pap.req_timers > 0
    /\ Fires(e, upap_reqtimeout([n[e] EXCEPT !.pap.req_timers = @ - 1]))

Next == \E e \in Ends :
          \/ Up(e) /\ n[e].pap.timers < MaxCallouts
          \/ Down(e) \/ Lose(e) \/ Receive(e) \/ RcvProtReject(e)
          \/ ChallengeTimer(e) \/ RechallengeTimer(e) \/ ResponseTimer(e)
          \/ PapTimer(e) \/ PapReqTimer(e)

(***************************************************************************)
(* The main loop calls every callout that is due, LCP notices that its     *)
(* peer has left, no packet stays on the line for ever, and of those sent  *)
(* again and again some get through.                                       *)
(***************************************************************************)
Fairness == \A e \in Ends :
              /\ WF_vars(ChallengeTimer(e)) /\ WF_vars(ResponseTimer(e))
              /\ WF_vars(PapTimer(e)) /\ WF_vars(PapReqTimer(e))
              /\ WF_vars(PeerLeft(e)) /\ WF_vars(Lose(e) \/ Receive(e))
              /\ SF_vars(RcvResponse(e)) /\ SF_vars(RcvSuccess(e))

Spec == Init /\ [][Next]_vars
FairSpec == Spec /\ Fairness

-----------------------------------------------------------------------------
(* Properties                                                              *)

TypeOK == /\ setup \in Setups
          /\ n \in [Ends -> LinkRecord]
          /\ \A e \in Ends : \A k \in DOMAIN line[e] : line[e][k] \in Packets
          /\ session \in [Ends -> 0 .. 2]

(* A link carries network traffic only when every check the set-up asks    *)
(* for was passed in this session: the peer has shown its secret to us,    *)
(* and while the peer is still in the session it has accepted ours         *)
(* (auth_pending in auth.c, the server states of chap.c and upap.c).       *)
Accepted(e, f) ==
    CASE setup.ask[e] = "chap" -> setup.right[f] /\ n[e].chap.serverstate \in {"OPEN", "RECHALLENGE"}
      [] setup.ask[e] = "pap" -> setup.right[f] /\ n[e].pap.us_serverstate \in {"OPEN", "INITIAL"}
      [] OTHER -> TRUE

NetworkMeansProved ==
    \A e \in Ends : n[e].phase = "NETWORK" =>
      /\ Accepted(e, Peer(e))
      /\ n[Peer(e)].up /\ session[e] = session[Peer(e)] => Accepted(Peer(e), e)

(* Whatever is lost, repeated or late, a peer that has the right secret is *)
(* never told that it failed: an answer to an old challenge does not count *)
(* against it (the ids of ChapReceiveResponse), and what was decided is    *)
(* repeated (chap.c, upap.c).                                              *)
RightSecretNeverFails ==
    \A e \in Ends : setup.right[e] =>
      \A k \in DOMAIN line[e] : line[e][k].kind \notin {"FAILURE", "AUTHNAK"}

(* The callouts are those the states need, so that no callout of an old    *)
(* challenge or session fires into a new one and none is missing           *)
(* (ChapLowerDown, upap_lowerdown: "Cancel all timeouts").  The callout of *)
(* upap_timeout is the exception: it may outlive its request.              *)
CalloutsFit ==
    \A e \in Ends :
      LET c == n[e].chap
          p == n[e].pap
      IN  /\ c.chal_timers = (IF c.serverstate \in {"INITIAL_CHAL", "RECHALLENGE"} THEN 1 ELSE 0)
          /\ c.rechal_timers = (IF c.serverstate = "OPEN" /\ setup.again THEN 1 ELSE 0)
          /\ c.resp_timers <= (IF c.clientstate = "RESPONSE" THEN 1 ELSE 0)
          /\ p.req_timers = (IF p.us_serverstate = "LISTEN" THEN 1 ELSE 0)
          /\ p.us_clientstate = "AUTHREQ" => p.timers > 0

(* The side that checks comes to a decision: the peer is accepted or the   *)
(* link goes down (max_transmits in ChapChallengeTimeout, upap_reqtimeout).*)
ServerDecides ==
    \A e \in Ends :
      (n[e].up /\ (\/ n[e].chap.serverstate \in {"INITIAL_CHAL", "RECHALLENGE"}
                   \/ n[e].pap.us_serverstate = "LISTEN"))
        ~> (\/ ~n[e].up \/ n[e].chap.serverstate = "OPEN"
            \/ n[e].pap.us_serverstate = "OPEN")

(* The side that is checked learns the outcome or loses the link, however  *)
(* many answers are lost: it asks again (ChapResponseTimeout) and is told  *)
(* again (ChapReceiveResponse); PAP gives up (upap_timeout).               *)
ClientSettles ==
    \A e \in Ends :
      (n[e].up /\ (n[e].chap.clientstate = "RESPONSE" \/ n[e].pap.us_clientstate = "AUTHREQ"))
        ~> (\/ ~n[e].up
            \/ n[e].chap.clientstate # "RESPONSE" /\ n[e].pap.us_clientstate # "AUTHREQ")
=============================================================================
