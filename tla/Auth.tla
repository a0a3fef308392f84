-------------------------------- MODULE Auth --------------------------------
(***************************************************************************)
(* What chap.c, upap.c and the authentication part of auth.c do with one   *)
(* link: operators from the record x of a link to the record after the     *)
(* call, under the names of the functions.  x.out collects the packets     *)
(* that the call sends.  The ids of PAP are left out: nothing reads them.  *)
(***************************************************************************)
EXTENDS Integers, Sequences

CONSTANTS
    MaxTransmits,   \* chap[].max_transmits, us_maxtransmits
    IdMod           \* 256: ids are octets
ASSUME AuthAssumption == MaxTransmits \in Nat \ {0} /\ IdMod \in Nat \ {0}

Ids == 0 .. IdMod - 1

(* A hash, by what goes into it: the id, the challenge, and whether the    *)
(* secret is the one the other side has.  Two challenges of drand48 that   *)
(* follow each other are different.                                        *)
Hashes == Ids \X Ids \X BOOLEAN
NoHash == <<0, 0, FALSE>>

Packets == [kind : {"CHALLENGE"}, id : Ids, data : Ids]
           \cup [kind : {"RESPONSE"}, id : Ids, data : Hashes]
           \cup [kind : {"SUCCESS", "FAILURE"}, id : Ids]
           \cup [kind : {"AUTHREQ"}, data : BOOLEAN]
           \cup [kind : {"AUTHACK", "AUTHNAK"}]

ServerStates == {"INITIAL", "CLOSED", "PENDING", "INITIAL_CHAL", "OPEN",
                 "RECHALLENGE", "BADAUTH"}
ClientStates == {"INITIAL", "CLOSED", "PENDING", "LISTEN", "RESPONSE", "OPEN"}

(* chap_state; the last three count the callouts of ChapChallengeTimeout,  *)
(* ChapRechallenge and ChapResponseTimeout that are pending.               *)
ChapRecord == [serverstate : ServerStates, clientstate : ClientStates,
               chal_id : Ids, challenge : Ids, chal_transmits : 0 .. MaxTransmits,
               resp_id : Ids, response : Hashes,
               chal_timers : Nat, rechal_timers : Nat, resp_timers : Nat]

(* upap_state; the callouts of upap_timeout and upap_reqtimeout.           *)
PapRecord == [us_clientstate : {"INITIAL", "CLOSED", "PENDING", "AUTHREQ", "OPEN", "BADAUTH"},
              us_serverstate : {"INITIAL", "CLOSED", "PENDING", "LISTEN", "OPEN", "BADAUTH"},
              us_transmits : 0 .. MaxTransmits, timers : Nat, req_timers : Nat]

Bits == {"CHAP_PEER", "UPAP_PEER", "CHAP_WITHPEER", "UPAP_WITHPEER"}

LinkRecord == [up : BOOLEAN, phase : {"DOWN", "AUTHENTICATE", "NETWORK"},
               auth_pending : SUBSET Bits, chap : ChapRecord, pap : PapRecord,
               out : Seq(Packets)]

Quiet ==
    [up |-> FALSE, phase |-> "DOWN", auth_pending |-> {},
     chap |-> [serverstate |-> "INITIAL", clientstate |-> "INITIAL", chal_id |-> 0,
               challenge |-> 0, chal_transmits |-> 0, resp_id |-> 0,
               response |-> NoHash, chal_timers |-> 0, rechal_timers |-> 0,
               resp_timers |-> 0],
     pap |-> [us_clientstate |-> "INITIAL", us_serverstate |-> "INITIAL",
              us_transmits |-> 0, timers |-> 0, req_timers |-> 0],
     out |-> << >>]

Send(x, m) == [x EXCEPT !.out = Append(@, m)]
Cancelled(n) == IF n > 0 THEN n - 1 ELSE 0          \* UNTIMEOUT

-----------------------------------------------------------------------------
(* LCP goes down                                                           *)

(* Mutant: the callout of a challenge is cancelled only the first time.    *)
ChapLowerDown_Initial(x) ==
    LET c == x.chap
    IN  [x EXCEPT !.chap =
           [c EXCEPT !.chal_timers = IF c.serverstate = "INITIAL_CHAL"
                                     THEN Cancelled(@) ELSE @,
                     !.rechal_timers = IF c.serverstate = "OPEN" THEN Cancelled(@) ELSE @,
                     !.resp_timers = IF c.clientstate = "RESPONSE" THEN Cancelled(@) ELSE @,
                     !.clientstate = "INITIAL", !.serverstate = "INITIAL"]]

ChapLowerDown(x) ==
    LET c == x.chap
    IN  [x EXCEPT !.chap =
           [c EXCEPT !.chal_timers = IF c.serverstate \in {"INITIAL_CHAL", "RECHALLENGE"}
                                     THEN Cancelled(@) ELSE @,
                     !.rechal_timers = IF c.serverstate = "OPEN" THEN Cancelled(@) ELSE @,
                     !.resp_timers = IF c.clientstate = "RESPONSE" THEN Cancelled(@) ELSE @,
                     !.clientstate = "INITIAL", !.serverstate = "INITIAL"]]

(* A callout that upap_rauthack or upap_rauthnak left behind stays.        *)
upap_lowerdown(x) ==
    LET p == x.pap
    IN  [x EXCEPT !.pap =
           [p EXCEPT !.timers = IF p.us_clientstate = "AUTHREQ" THEN Cancelled(@) ELSE @,
                     !.req_timers = IF p.us_serverstate = "LISTEN" THEN Cancelled(@) ELSE @,
                     !.us_clientstate = "INITIAL", !.us_serverstate = "INITIAL"]]

lcp_down(x) == upap_lowerdown(ChapLowerDown([x EXCEPT !.up = FALSE, !.phase = "DOWN"]))

(* LCP is closed.                                                          *)
auth_peer_fail(x) == IF x.up THEN lcp_down(x) ELSE x

(* The network phase begins when nothing is left to be checked.            *)
Settle(x, bit) ==
    LET rest == x.auth_pending \ {bit}
    IN  [x EXCEPT !.auth_pending = rest,
                  !.phase = IF rest = {} /\ x.phase = "AUTHENTICATE" THEN "NETWORK" ELSE @]

auth_peer_success(x, bit) == Settle(x, bit)

(* Mutant: our own success is enough.                                      *)
auth_withpeer_success_Enough(x, bit) == Settle([x EXCEPT !.auth_pending = {bit}], bit)

auth_withpeer_success(x, bit) == Settle(x, bit)

-----------------------------------------------------------------------------
(* chap.c                                                                  *)

(* Mutant: a challenge again and again under the same id.                  *)
ChapGenChallenge_SameId(x) ==
    [x EXCEPT !.chap.challenge = (@ + 1) % IdMod, !.chap.chal_transmits = 0]

ChapGenChallenge(x) ==
    [x EXCEPT !.chap.chal_id = (@ + 1) % IdMod,
              !.chap.challenge = (@ + 1) % IdMod,
              !.chap.chal_transmits = 0]

(* Mutant: the transmissions are not counted.                              *)
ChapSendChallenge_Uncounted(x) ==
    [Send(x, [kind |-> "CHALLENGE", id |-> x.chap.chal_id, data |-> x.chap.challenge])
       EXCEPT !.chap.chal_timers = @ + 1]

ChapSendChallenge(x) ==
    [Send(x, [kind |-> "CHALLENGE", id |-> x.chap.chal_id, data |-> x.chap.challenge])
       EXCEPT !.chap.chal_timers = @ + 1, !.chap.chal_transmits = @ + 1]

ChapSendStatus(x, code) == Send(x, [kind |-> code, id |-> x.chap.chal_id])

ChapSendResponse(x) ==
    [Send(x, [kind |-> "RESPONSE", id |-> x.chap.resp_id, data |-> x.chap.response])
       EXCEPT !.chap.clientstate = "RESPONSE", !.chap.resp_timers = @ + 1]

Challenge(x, state) ==
    [ChapSendChallenge(ChapGenChallenge(x)) EXCEPT !.chap.serverstate = state]

ChapAuthWithPeer(x) ==
    [x EXCEPT !.chap.clientstate =
                IF @ \in {"INITIAL", "PENDING"} THEN "PENDING" ELSE "LISTEN"]

ChapAuthPeer(x) ==
    IF x.chap.serverstate \in {"INITIAL", "PENDING"}
    THEN [x EXCEPT !.chap.serverstate = "PENDING"]
    ELSE Challenge(x, "INITIAL_CHAL")

ChapLowerUp(x) ==
    LET y == [x EXCEPT !.chap.clientstate = CASE @ = "INITIAL" -> "CLOSED"
                                              [] @ = "PENDING" -> "LISTEN"
                                              [] OTHER -> @]
    IN  CASE x.chap.serverstate = "INITIAL" -> [y EXCEPT !.chap.serverstate = "CLOSED"]
          [] x.chap.serverstate = "PENDING" -> Challenge(y, "INITIAL_CHAL")
          [] OTHER -> y

ChapChallengeTimeout(x) ==
    IF x.chap.serverstate \notin {"INITIAL_CHAL", "RECHALLENGE"} THEN x
    ELSE IF x.chap.chal_transmits >= MaxTransmits
    THEN auth_peer_fail([x EXCEPT !.chap.serverstate = "BADAUTH"])
    ELSE ChapSendChallenge(x)

ChapRechallenge(x) ==
    IF x.chap.serverstate = "OPEN" THEN Challenge(x, "RECHALLENGE") ELSE x

ChapResponseTimeout(x) ==
    IF x.chap.clientstate = "RESPONSE" THEN ChapSendResponse(x) ELSE x

(* right: we have the secret the peer has for us.                          *)
ChapReceiveChallenge(x, m, right) ==
    IF x.chap.clientstate \in {"CLOSED", "PENDING"} THEN x
    ELSE ChapSendResponse(
           [x EXCEPT !.chap.resp_timers = IF x.chap.clientstate = "RESPONSE"
                                          THEN Cancelled(@) ELSE @,
                     !.chap.resp_id = m.id,
                     !.chap.response = <<m.id, m.data, right>>])

(* again: the peer is to be challenged again after an interval.            *)
Judge(x, m, again) ==
    LET c == x.chap
        y == [x EXCEPT !.chap.chal_timers = Cancelled(@)]
    IN  IF m.data = <<c.chal_id, c.challenge, TRUE>>
        THEN LET z == [ChapSendStatus(y, "SUCCESS") EXCEPT
                         !.chap.serverstate = "OPEN",
                         !.chap.rechal_timers = IF again THEN @ + 1 ELSE @]
             IN  IF c.serverstate = "INITIAL_CHAL"
                 THEN auth_peer_success(z, "CHAP_PEER") ELSE z
        ELSE auth_peer_fail([ChapSendStatus(y, "FAILURE") EXCEPT
                               !.chap.serverstate = "BADAUTH"])

(* Mutant: an answer that was given is not repeated.                       *)
ChapReceiveResponse_Once(x, m, again) ==
    IF \/ x.chap.serverstate \in {"CLOSED", "PENDING", "OPEN", "BADAUTH"}
       \/ m.id # x.chap.chal_id
    THEN x ELSE Judge(x, m, again)

ChapReceiveResponse(x, m, again) ==
    IF x.chap.serverstate \in {"CLOSED", "PENDING"} \/ m.id # x.chap.chal_id THEN x
    ELSE IF x.chap.serverstate = "OPEN" THEN ChapSendStatus(x, "SUCCESS")
    ELSE IF x.chap.serverstate = "BADAUTH" THEN ChapSendStatus(x, "FAILURE")
    ELSE Judge(x, m, again)

(* The ids of Success and Failure are not looked at.                       *)
ChapReceiveSuccess(x) ==
    IF x.chap.clientstate # "RESPONSE" THEN x
    ELSE auth_withpeer_success([x EXCEPT !.chap.resp_timers = Cancelled(@),
                                         !.chap.clientstate = "OPEN"], "CHAP_WITHPEER")

(* The state stays RESPONSE, without a callout.                            *)
ChapReceiveFailure(x) ==
    IF x.chap.clientstate # "RESPONSE" THEN x
    ELSE [x EXCEPT !.chap.resp_timers = Cancelled(@)]

ChapProtocolReject(x) ==
    ChapLowerDown(IF x.chap.serverstate \notin {"INITIAL", "CLOSED"}
                  THEN auth_peer_fail(x) ELSE x)

-----------------------------------------------------------------------------
(* upap.c                                                                  *)

upap_sauthreq(x, right) ==
    [Send(x, [kind |-> "AUTHREQ", data |-> right]) EXCEPT
       !.pap.timers = @ + 1, !.pap.us_transmits = @ + 1, !.pap.us_clientstate = "AUTHREQ"]

upap_authwithpeer(x, right) ==
    LET y == [x EXCEPT !.pap.us_transmits = 0]
    IN  IF x.pap.us_clientstate \in {"INITIAL", "PENDING"}
        THEN [y EXCEPT !.pap.us_clientstate = "PENDING"]
        ELSE upap_sauthreq(y, right)

Listen(x) == [x EXCEPT !.pap.us_serverstate = "LISTEN", !.pap.req_timers = @ + 1]

upap_authpeer(x) ==
    IF x.pap.us_serverstate \in {"INITIAL", "PENDING"}
    THEN [x EXCEPT !.pap.us_serverstate = "PENDING"] ELSE Listen(x)

upap_lowerup(x, right) ==
    LET y == CASE x.pap.us_clientstate = "INITIAL" -> [x EXCEPT !.pap.us_clientstate = "CLOSED"]
               [] x.pap.us_clientstate = "PENDING" -> upap_sauthreq(x, right)
               [] OTHER -> x
    IN  CASE y.pap.us_serverstate = "INITIAL" -> [y EXCEPT !.pap.us_serverstate = "CLOSED"]
          [] y.pap.us_serverstate = "PENDING" -> Listen(y)
          [] OTHER -> y

(* Mutant: PAP never gives up.                                             *)
upap_timeout_Endless(x, right) ==
    IF x.pap.us_clientstate # "AUTHREQ" THEN x ELSE upap_sauthreq(x, right)

upap_timeout(x, right) ==
    IF x.pap.us_clientstate # "AUTHREQ" THEN x
    ELSE IF x.pap.us_transmits >= MaxTransmits THEN [x EXCEPT !.pap.us_clientstate = "BADAUTH"]
    ELSE upap_sauthreq(x, right)

(* The state is BADAUTH after LCP, and PAP with it, have gone down.        *)
upap_reqtimeout(x) ==
    IF x.pap.us_serverstate # "LISTEN" THEN x
    ELSE [auth_peer_fail(x) EXCEPT !.pap.us_serverstate = "BADAUTH"]

upap_rauthreq(x, m) ==
    CASE x.pap.us_serverstate \in {"INITIAL", "CLOSED", "PENDING"} -> x
      [] x.pap.us_serverstate = "OPEN" -> Send(x, [kind |-> "AUTHACK"])
      [] x.pap.us_serverstate = "BADAUTH" -> Send(x, [kind |-> "AUTHNAK"])
      [] OTHER ->
           LET y == IF m.data
                    THEN auth_peer_success([Send(x, [kind |-> "AUTHACK"]) EXCEPT
                           !.pap.us_serverstate = "OPEN"], "UPAP_PEER")
                    ELSE auth_peer_fail([Send(x, [kind |-> "AUTHNAK"]) EXCEPT
                           !.pap.us_serverstate = "BADAUTH"])
           IN  [y EXCEPT !.pap.req_timers = Cancelled(@)]

(* The callout of the request is not cancelled.                            *)
upap_rauthack(x) ==
    IF x.pap.us_clientstate # "AUTHREQ" THEN x
    ELSE auth_withpeer_success([x EXCEPT !.pap.us_clientstate = "OPEN"], "UPAP_WITHPEER")

upap_rauthnak(x) ==
    IF x.pap.us_clientstate # "AUTHREQ" THEN x
    ELSE [x EXCEPT !.pap.us_clientstate = "BADAUTH"]

upap_protrej(x) ==
    upap_lowerdown(IF x.pap.us_serverstate = "LISTEN" THEN auth_peer_fail(x) ELSE x)

-----------------------------------------------------------------------------
(***************************************************************************)
(* link_established.  we: the protocol by which the peer has to            *)
(* authenticate itself; they: the one by which we have to.                 *)
(***************************************************************************)
link_established(x, we, they, right) ==
    LET y == CASE we = "chap" -> ChapAuthPeer(x)
               [] we = "pap" -> upap_authpeer(x)
               [] OTHER -> x
        z == CASE they = "chap" -> ChapAuthWithPeer(y)
               [] they = "pap" -> upap_authwithpeer(y, right)
               [] OTHER -> y
        auth == {b \in Bits : \/ b = "CHAP_PEER" /\ we = "chap"
                              \/ b = "UPAP_PEER" /\ we = "pap"
                              \/ b = "CHAP_WITHPEER" /\ they = "chap"
                              \/ b = "UPAP_WITHPEER" /\ they = "pap"}
    IN  [z EXCEPT !.auth_pending = auth,
                  !.phase = IF auth = {} THEN "NETWORK" ELSE "AUTHENTICATE"]

lcp_up(x, we, they, right) ==
    link_established(upap_lowerup(ChapLowerUp([x EXCEPT !.up = TRUE]), right),
                     we, they, right)
=============================================================================
