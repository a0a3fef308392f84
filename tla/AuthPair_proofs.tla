--------------------------- MODULE AuthPair_proofs ---------------------------
(***************************************************************************)
(* What AuthPair checks on two ends and a few set-ups, proved for every    *)
(* set-up, every size of the line, every number of transmissions and every *)
(* size of an id.                                                          *)
(***************************************************************************)
EXTENDS AuthPair, SequenceTheorems, TLAPS

(* What an end and its peer ask of each other, and which of them has the   *)
(* secret the other one wants.                                             *)
Terms == [we : {"none", "chap", "pap"}, they : {"none", "chap", "pap"},
          mine : BOOLEAN, his : BOOLEAN, again : BOOLEAN]

TermsOf(e) == [we |-> setup.ask[e], they |-> setup.ask[Peer(e)],
               mine |-> setup.right[e], his |-> setup.right[Peer(e)],
               again |-> setup.again]

ChapPassed == {"OPEN", "RECHALLENGE"}
PapPassed == {"OPEN", "INITIAL"}

(* chap_state of a link between two handlers: the states that are left,    *)
(* what each one says about the peer, and the callouts that go with it.    *)
ChapServerFits(c, up, s) ==
    /\ c.serverstate \in {"INITIAL", "CLOSED", "INITIAL_CHAL", "OPEN", "RECHALLENGE"}
    /\ up /\ s.we = "chap" => c.serverstate \in {"INITIAL_CHAL", "OPEN", "RECHALLENGE"}
    /\ ~up => c.serverstate = "INITIAL"
    /\ c.serverstate \in ChapPassed => s.his
    /\ c.challenge = c.chal_id
    /\ c.chal_timers = IF c.serverstate \in {"INITIAL_CHAL", "RECHALLENGE"} THEN 1 ELSE 0
    /\ c.rechal_timers = IF c.serverstate = "OPEN" /\ s.again THEN 1 ELSE 0

ChapClientFits(c, up, s) ==
    /\ c.clientstate # "PENDING"
    /\ ~up => c.clientstate = "INITIAL"
    /\ c.resp_timers <= IF c.clientstate = "RESPONSE" THEN 1 ELSE 0
    /\ c.clientstate = "RESPONSE" => c.response = <<c.resp_id, c.resp_id, s.mine>>

(* upap_state of a link between two handlers.                              *)
PapServerFits(p, up, s) ==
    /\ p.us_serverstate \in {"INITIAL", "CLOSED", "LISTEN", "OPEN", "BADAUTH"}
    /\ p.us_serverstate \in {"LISTEN", "OPEN", "BADAUTH"} => s.we = "pap"
    /\ up => p.us_serverstate # "BADAUTH"
    /\ up /\ s.we = "pap" => p.us_serverstate # "CLOSED"
    /\ up /\ s.we = "pap" /\ p.us_serverstate # "LISTEN" => s.his
    /\ ~up => p.us_serverstate \in {"INITIAL", "BADAUTH"}
    /\ p.req_timers = IF p.us_serverstate = "LISTEN" THEN 1 ELSE 0

PapClientFits(p, up, s) ==
    /\ p.us_clientstate # "PENDING"
    /\ ~up => p.us_clientstate = "INITIAL"
    /\ p.us_clientstate = "AUTHREQ" => p.timers > 0

(* What is no longer pending was passed.                                   *)
PhaseFits(x, s) ==
    /\ x.up <=> x.phase # "DOWN"
    /\ x.phase = "NETWORK" => x.auth_pending = {}
    /\ x.up /\ s.we = "chap" /\ "CHAP_PEER" \notin x.auth_pending
         => x.chap.serverstate \in ChapPassed
    /\ x.up /\ s.we = "pap" /\ "UPAP_PEER" \notin x.auth_pending
         => x.pap.us_serverstate # "LISTEN"

Good(x, s) ==
    /\ x \in LinkRecord
    /\ ChapServerFits(x.chap, x.up, s) /\ ChapClientFits(x.chap, x.up, s)
    /\ PapServerFits(x.pap, x.up, s) /\ PapClientFits(x.pap, x.up, s)
    /\ PhaseFits(x, s)

(* The packets of the link x that may be on the line: an answer fits its   *)
(* challenge, and as long as x is up it stands by what it told the peer.   *)
Said(x, s) ==
    {m \in Packets :
       /\ m.kind = "CHALLENGE" => m.data = m.id
       /\ m.kind = "RESPONSE" => m.data = <<m.id, m.id, s.mine>>
       /\ m.kind = "AUTHREQ" => m.data = s.mine
       /\ m.kind = "SUCCESS" => s.his /\ (x.up => x.chap.serverstate \in ChapPassed)
       /\ m.kind = "AUTHACK" => s.his /\ (x.up => x.pap.us_serverstate \in PapPassed)
       /\ m.kind \in {"FAILURE", "AUTHNAK"} => ~s.his}

(* Our own checks that the peer has not yet confirmed.                     *)
AllPending(x, s) ==
    /\ s.they = "chap" => "CHAP_WITHPEER" \in x.auth_pending
    /\ s.they = "pap" => "UPAP_WITHPEER" \in x.auth_pending

Passed(x, y, s) ==
    /\ s.they = "chap" /\ "CHAP_WITHPEER" \notin x.auth_pending
         => s.mine /\ y.chap.serverstate \in ChapPassed
    /\ s.they = "pap" /\ "UPAP_WITHPEER" \notin x.auth_pending
         => s.mine /\ y.pap.us_serverstate \in PapPassed

LinksGood == \A e \in Ends : Good(n[e], TermsOf(e)) /\ n[e].out = << >>

LinesFit == \A e \in Ends : line[Peer(e)] \in Seq(Said(n[e], TermsOf(e)))

(* An end that is a session ahead has heard nothing in it.                 *)
AheadAlone ==
    \A e \in Ends : session[e] = After(session[Peer(e)]) =>
      /\ ~n[Peer(e)].up /\ line[e] = << >>
      /\ n[e].up => AllPending(n[e], TermsOf(e))

(* In a session that both are in, what we think passed did.                *)
BothKnow ==
    \A e \in Ends : n[e].up /\ n[Peer(e)].up /\ session[e] = session[Peer(e)]
                      => Passed(n[e], n[Peer(e)], TermsOf(e))

PairType == /\ setup \in Setups /\ n \in [Ends -> LinkRecord]
            /\ line \in [Ends -> Seq(Packets)] /\ session \in [Ends -> 0 .. 2]

AuthInv == PairType /\ LinksGood /\ LinesFit /\ AheadAlone /\ BothKnow

-----------------------------------------------------------------------------
(* What a handler may do to a link: it leaves it good, it never takes it   *)
(* up, it takes nothing back that the peer was told while the link is up,  *)
(* and a link that is down sends nothing.                                  *)
Moves(x, y, s) ==
    /\ Good(y, s)
    /\ y.up => x.up
    /\ y.up /\ x.chap.serverstate \in ChapPassed => y.chap.serverstate \in ChapPassed
    /\ y.up /\ x.pap.us_serverstate \in PapPassed => y.pap.us_serverstate \in PapPassed
    /\ y.out \in Seq(Said(y, s))
    /\ ~x.up => y.out = << >>

(* The types of the fields.                                                *)
LEMMA ChapTypes ==
  ASSUME NEW x \in LinkRecord
  PROVE  /\ x.chap \in ChapRecord
         /\ x.chap.serverstate \in ServerStates /\ x.chap.clientstate \in ClientStates
         /\ x.chap.chal_id \in Ids /\ x.chap.challenge \in Ids /\ x.chap.resp_id \in Ids
         /\ x.chap.response \in Hashes /\ x.chap.chal_transmits \in 0 .. MaxTransmits
         /\ x.chap.chal_timers \in Nat /\ x.chap.rechal_timers \in Nat
         /\ x.chap.resp_timers \in Nat
  BY DEF LinkRecord, ChapRecord

LEMMA PapTypes ==
  ASSUME NEW x \in LinkRecord
  PROVE  /\ x.pap \in PapRecord /\ x.pap.us_transmits \in 0 .. MaxTransmits
         /\ x.pap.timers \in Nat /\ x.pap.req_timers \in Nat
  BY DEF LinkRecord, PapRecord

LEMMA LinkTypes ==
  ASSUME NEW x \in LinkRecord
  PROVE  /\ x.up \in BOOLEAN /\ x.phase \in {"DOWN", "AUTHENTICATE", "NETWORK"}
         /\ x.auth_pending \in SUBSET Bits /\ x.out \in Seq(Packets)
  BY DEF LinkRecord

(* Changing a part of a link changes nothing else.                         *)
LEMMA SetChap ==
  ASSUME NEW x \in LinkRecord, NEW c \in ChapRecord
  PROVE  LET y == [x EXCEPT !.chap = c]
         IN  /\ y \in LinkRecord /\ y.chap = c /\ y.pap = x.pap /\ y.up = x.up
             /\ y.phase = x.phase /\ y.auth_pending = x.auth_pending /\ y.out = x.out
  BY DEF LinkRecord

LEMMA SetPap ==
  ASSUME NEW x \in LinkRecord, NEW p \in PapRecord
  PROVE  LET y == [x EXCEPT !.pap = p]
         IN  /\ y \in LinkRecord /\ y.pap = p /\ y.chap = x.chap /\ y.up = x.up
             /\ y.phase = x.phase /\ y.auth_pending = x.auth_pending /\ y.out = x.out
  BY DEF LinkRecord

LEMMA SendFacts ==
  ASSUME NEW x \in LinkRecord, NEW m \in Packets
  PROVE  LET y == Send(x, m)
         IN  /\ y \in LinkRecord /\ y.out = Append(x.out, m) /\ y.chap = x.chap
             /\ y.pap = x.pap /\ y.up = x.up /\ y.phase = x.phase
             /\ y.auth_pending = x.auth_pending
  <1>1. Append(x.out, m) \in Seq(Packets)
    BY LinkTypes
  <1>2. QED
    BY <1>1 DEF Send, LinkRecord

(* One packet is sent.                                                     *)
LEMMA OneSaid ==
  ASSUME NEW S, NEW m \in S
  PROVE  Append(<< >>, m) \in Seq(S) /\ << >> \in Seq(S)
  OBVIOUS

(* A handler of chap.c that leaves the link as it is.                      *)
LEMMA ChapUpdate ==
  ASSUME NEW s \in Terms, NEW x, Good(x, s), NEW y \in LinkRecord,
         y.up = x.up, y.phase = x.phase, y.auth_pending = x.auth_pending, y.pap = x.pap,
         ChapServerFits(y.chap, x.up, s), ChapClientFits(y.chap, x.up, s),
         x.chap.serverstate \in ChapPassed => y.chap.serverstate \in ChapPassed,
         y.out \in Seq(Said(y, s)), ~x.up => y.out = << >>
  PROVE  Moves(x, y, s)
  BY DEF Moves, Good, PhaseFits

(* A handler of upap.c that leaves the link as it is.                      *)
LEMMA PapUpdate ==
  ASSUME NEW s \in Terms, NEW x, Good(x, s), NEW y \in LinkRecord,
         y.up = x.up, y.phase = x.phase, y.auth_pending = x.auth_pending, y.chap = x.chap,
         PapServerFits(y.pap, x.up, s), PapClientFits(y.pap, x.up, s),
         x.pap.us_serverstate \in PapPassed => y.pap.us_serverstate \in PapPassed,
         x.pap.us_serverstate # "LISTEN" => y.pap.us_serverstate # "LISTEN",
         y.out \in Seq(Said(y, s)), ~x.up => y.out = << >>
  PROVE  Moves(x, y, s)
  BY DEF Moves, Good, PhaseFits

(* A handler that does nothing.                                            *)
LEMMA StaysPut ==
  ASSUME NEW s \in Terms, NEW x, Good(x, s), x.out = << >>
  PROVE  Moves(x, x, s)
  BY DEF Moves

(* ChapSendResponse.                                                       *)
LEMMA SendResponseFacts ==
  ASSUME NEW x \in LinkRecord
  PROVE  LET y == ChapSendResponse(x)
             m == [kind |-> "RESPONSE", id |-> x.chap.resp_id, data |-> x.chap.response]
         IN  /\ y \in LinkRecord /\ m \in Packets /\ y.out = Append(x.out, m)
             /\ y.pap = x.pap /\ y.up = x.up /\ y.phase = x.phase
             /\ y.auth_pending = x.auth_pending
             /\ y.chap = [x.chap EXCEPT !.clientstate = "RESPONSE", !.resp_timers = @ + 1]
  <1> DEFINE m == [kind |-> "RESPONSE", id |-> x.chap.resp_id, data |-> x.chap.response]
             z == Send(x, m)
             c == [x.chap EXCEPT !.clientstate = "RESPONSE", !.resp_timers = @ + 1]
  <1>1. m \in Packets
    BY ChapTypes DEF Packets
  <1>2. /\ z \in LinkRecord /\ z.out = Append(x.out, m) /\ z.chap = x.chap
        /\ z.pap = x.pap /\ z.up = x.up /\ z.phase = x.phase
        /\ z.auth_pending = x.auth_pending
    BY <1>1, SendFacts
  <1>3. c \in ChapRecord
    <2>1. x.chap \in ChapRecord /\ x.chap.resp_timers + 1 \in Nat
      BY ChapTypes
    <2>2. QED
      BY <2>1 DEF ChapRecord, ClientStates
  <1>4. ChapSendResponse(x) = [z EXCEPT !.chap = [z.chap EXCEPT !.clientstate = "RESPONSE",
                                                                 !.resp_timers = @ + 1]]
    BY DEF ChapSendResponse
  <1>5. ChapSendResponse(x) = [z EXCEPT !.chap = c]
    BY <1>2, <1>4
  <1> HIDE DEF z, m, c
  <1>6. LET y == [z EXCEPT !.chap = c]
        IN  /\ y \in LinkRecord /\ y.chap = c /\ y.pap = z.pap /\ y.up = z.up
            /\ y.phase = z.phase /\ y.auth_pending = z.auth_pending /\ y.out = z.out
    BY <1>2, <1>3, SetChap
  <1>7. QED
    BY <1>1, <1>2, <1>5, <1>6 DEF m, c

(* A response that fits what was asked may be on the line.                 *)
LEMMA ResponseSaid ==
  ASSUME NEW s \in Terms, NEW x, NEW i \in Ids
  PROVE  [kind |-> "RESPONSE", id |-> i, data |-> <<i, i, s.mine>>] \in Said(x, s)
  BY DEF Said, Packets, Hashes, Terms

(* ChapResponseTimeout: the response is sent again.                        *)
LEMMA ResponseTimerMoves ==
  ASSUME NEW s \in Terms, NEW x, Good(x, s), x.out = << >>, x.chap.resp_timers > 0
  PROVE  LET y == ChapResponseTimeout([x EXCEPT !.chap.resp_timers = @ - 1])
         IN  Moves(x, y, s) /\ y.auth_pending = x.auth_pending
  <1> DEFINE c == [x.chap EXCEPT !.resp_timers = x.chap.resp_timers - 1]
             w == [x EXCEPT !.chap = c]
             y == ChapSendResponse(w)
  <1>1. /\ x \in LinkRecord /\ x.chap.clientstate = "RESPONSE" /\ x.chap.resp_timers = 1
        /\ x.up
    BY ChapTypes DEF Good, ChapClientFits
  <1>2. x.chap \in ChapRecord /\ x.chap.resp_id \in Ids
    BY <1>1, ChapTypes
  <1>3. /\ c \in ChapRecord /\ c.clientstate = "RESPONSE" /\ c.resp_timers = 0
        /\ c.resp_id = x.chap.resp_id /\ c.response = x.chap.response
        /\ c.serverstate = x.chap.serverstate /\ c.chal_id = x.chap.chal_id
        /\ c.challenge = x.chap.challenge /\ c.chal_timers = x.chap.chal_timers
        /\ c.rechal_timers = x.chap.rechal_timers
    BY <1>1, <1>2 DEF ChapRecord
  <1>4. ChapResponseTimeout([x EXCEPT !.chap.resp_timers = @ - 1]) = ChapResponseTimeout(w)
    OBVIOUS
  <1> HIDE DEF c
  <1>6. /\ w \in LinkRecord /\ w.chap = c /\ w.pap = x.pap /\ w.up = x.up
        /\ w.phase = x.phase /\ w.auth_pending = x.auth_pending /\ w.out = x.out
    BY <1>1, <1>3, SetChap
  <1> HIDE DEF w
  <1>7. ChapResponseTimeout(w) = y
    BY <1>3, <1>6 DEF ChapResponseTimeout
  <1> DEFINE m == [kind |-> "RESPONSE", id |-> w.chap.resp_id, data |-> w.chap.response]
  <1>8. /\ y \in LinkRecord /\ y.out = Append(w.out, m)
        /\ y.pap = w.pap /\ y.up = w.up /\ y.phase = w.phase
        /\ y.auth_pending = w.auth_pending
        /\ y.chap = [w.chap EXCEPT !.clientstate = "RESPONSE", !.resp_timers = @ + 1]
    BY <1>6, SendResponseFacts
  <1>10. m = [kind |-> "RESPONSE", id |-> x.chap.resp_id,
              data |-> <<x.chap.resp_id, x.chap.resp_id, s.mine>>]
    BY <1>1, <1>3, <1>6 DEF Good, ChapClientFits
  <1> HIDE DEF y, m
  <1>9. /\ y.chap.clientstate = "RESPONSE" /\ y.chap.resp_timers = 1
        /\ y.chap.resp_id = x.chap.resp_id /\ y.chap.response = x.chap.response
        /\ y.chap.serverstate = x.chap.serverstate /\ y.chap.chal_id = x.chap.chal_id
        /\ y.chap.challenge = x.chap.challenge /\ y.chap.chal_timers = x.chap.chal_timers
        /\ y.chap.rechal_timers = x.chap.rechal_timers
    BY <1>3, <1>6, <1>8 DEF ChapRecord
  <1>11. m \in Said(y, s)
    BY <1>2, <1>10, ResponseSaid
  <1>12. y.out \in Seq(Said(y, s))
    BY <1>6, <1>8, <1>11, OneSaid
  <1>13. ChapServerFits(y.chap, x.up, s) /\ ChapClientFits(y.chap, x.up, s)
    BY <1>1, <1>9 DEF Good, ChapServerFits, ChapClientFits
  <1>14. Moves(x, y, s)
    BY <1>1, <1>6, <1>8, <1>9, <1>12, <1>13, ChapUpdate
  <1>15. QED
    BY <1>4, <1>6, <1>7, <1>8, <1>14

(* ChapReceiveChallenge: a new answer, with a callout of its own.          *)
LEMMA ReceiveChallengeMoves ==
  ASSUME NEW s \in Terms, NEW x, Good(x, s), x.out = << >>, x.up,
         NEW m \in Packets, m.kind = "CHALLENGE", m.data = m.id
  PROVE  LET y == ChapReceiveChallenge(x, m, s.mine)
         IN  Moves(x, y, s) /\ y.auth_pending = x.auth_pending
  <1>1. x \in LinkRecord /\ m.id \in Ids
    BY DEF Good, Packets
  <1>2. CASE x.chap.clientstate \in {"CLOSED", "PENDING"}
    BY <1>2, StaysPut DEF ChapReceiveChallenge
  <1>3. CASE x.chap.clientstate \notin {"CLOSED", "PENDING"}
    <2> DEFINE t == IF x.chap.clientstate = "RESPONSE" THEN Cancelled(x.chap.resp_timers)
                    ELSE x.chap.resp_timers
               c == [x.chap EXCEPT !.resp_timers = t, !.resp_id = m.id,
                                   !.response = <<m.id, m.data, s.mine>>]
               w == [x EXCEPT !.chap = c]
               y == ChapSendResponse(w)
               r == [kind |-> "RESPONSE", id |-> w.chap.resp_id, data |-> w.chap.response]
    <2>1. t = 0
      BY <1>1, ChapTypes DEF Cancelled, Good, ChapClientFits
    <2>2. ChapReceiveChallenge(x, m, s.mine) = y
      BY <1>3 DEF ChapReceiveChallenge
    <2> HIDE DEF t
    <2>3. x.chap \in ChapRecord /\ <<m.id, m.data, s.mine>> \in Hashes
      BY <1>1, ChapTypes DEF Hashes, Terms
    <2>4. /\ c \in ChapRecord /\ c.resp_timers = 0 /\ c.resp_id = m.id
          /\ c.response = <<m.id, m.id, s.mine>>
          /\ c.serverstate = x.chap.serverstate /\ c.chal_id = x.chap.chal_id
          /\ c.challenge = x.chap.challenge /\ c.chal_timers = x.chap.chal_timers
          /\ c.rechal_timers = x.chap.rechal_timers
      BY <1>1, <2>1, <2>3 DEF ChapRecord
    <2> HIDE DEF c
    <2>5. /\ w \in LinkRecord /\ w.chap = c /\ w.pap = x.pap /\ w.up = x.up
          /\ w.phase = x.phase /\ w.auth_pending = x.auth_pending /\ w.out = x.out
      BY <1>1, <2>4, SetChap
    <2> HIDE DEF w
    <2>6. /\ y \in LinkRecord /\ y.out = Append(w.out, r)
          /\ y.pap = w.pap /\ y.up = w.up /\ y.phase = w.phase
          /\ y.auth_pending = w.auth_pending
          /\ y.chap = [w.chap EXCEPT !.clientstate = "RESPONSE", !.resp_timers = @ + 1]
      BY <2>5, SendResponseFacts
    <2>7. r = [kind |-> "RESPONSE", id |-> m.id, data |-> <<m.id, m.id, s.mine>>]
      BY <2>4, <2>5
    <2> HIDE DEF y, r
    <2>8. /\ y.chap.clientstate = "RESPONSE" /\ y.chap.resp_timers = 1
          /\ y.chap.resp_id = m.id /\ y.chap.response = <<m.id, m.id, s.mine>>
          /\ y.chap.serverstate = x.chap.serverstate /\ y.chap.chal_id = x.chap.chal_id
          /\ y.chap.challenge = x.chap.challenge /\ y.chap.chal_timers = x.chap.chal_timers
          /\ y.chap.rechal_timers = x.chap.rechal_timers
      BY <2>4, <2>5, <2>6 DEF ChapRecord
    <2>9. y.out \in Seq(Said(y, s))
      BY <1>1, <2>5, <2>6, <2>7, ResponseSaid, OneSaid
    <2>10. ChapServerFits(y.chap, x.up, s)
      BY <2>8 DEF Good, ChapServerFits
    <2>11. ChapClientFits(y.chap, x.up, s)
      BY <2>8 DEF ChapClientFits
    <2>12. Moves(x, y, s)
      BY <2>5, <2>6, <2>8, <2>9, <2>10, <2>11, ChapUpdate
    <2>13. QED
      BY <2>2, <2>5, <2>6, <2>12
  <1>4. QED
    BY <1>2, <1>3

(* ChapReceiveFailure: only the callout goes.                              *)
LEMMA ReceiveFailureMoves ==
  ASSUME NEW s \in Terms, NEW x, Good(x, s), x.out = << >>
  PROVE  LET y == ChapReceiveFailure(x)
         IN  Moves(x, y, s) /\ y.auth_pending = x.auth_pending
  <1>1. CASE x.chap.clientstate # "RESPONSE"
    BY <1>1, StaysPut DEF ChapReceiveFailure
  <1>2. CASE x.chap.clientstate = "RESPONSE"
    <2> DEFINE t == Cancelled(x.chap.resp_timers)
               c == [x.chap EXCEPT !.resp_timers = t]
               y == [x EXCEPT !.chap = c]
    <2>1. x \in LinkRecord /\ x.chap \in ChapRecord /\ t = 0
      BY <1>2, ChapTypes DEF Cancelled, Good, ChapClientFits
    <2>2. ChapReceiveFailure(x) = y
      BY <1>2 DEF ChapReceiveFailure
    <2> HIDE DEF t
    <2>3. /\ c \in ChapRecord /\ c.resp_timers = 0 /\ c.resp_id = x.chap.resp_id
          /\ c.clientstate = x.chap.clientstate /\ c.response = x.chap.response
          /\ c.serverstate = x.chap.serverstate /\ c.chal_id = x.chap.chal_id
          /\ c.challenge = x.chap.challenge /\ c.chal_timers = x.chap.chal_timers
          /\ c.rechal_timers = x.chap.rechal_timers
      BY <2>1 DEF ChapRecord
    <2> HIDE DEF c
    <2>4. /\ y \in LinkRecord /\ y.chap = c /\ y.pap = x.pap /\ y.up = x.up
          /\ y.phase = x.phase /\ y.auth_pending = x.auth_pending /\ y.out = x.out
      BY <2>1, <2>3, SetChap
    <2> HIDE DEF y
    <2>5. ChapServerFits(y.chap, x.up, s) /\ ChapClientFits(y.chap, x.up, s)
      BY <2>3, <2>4 DEF Good, ChapServerFits, ChapClientFits
    <2>6. y.out \in Seq(Said(y, s))
      BY <2>4, EmptySeq
    <2>7. Moves(x, y, s)
      BY <2>3, <2>4, <2>5, <2>6, ChapUpdate
    <2>8. QED
      BY <2>2, <2>4, <2>7
  <1>3. QED
    BY <1>1, <1>2

-----------------------------------------------------------------------------
(* Settle, and what it does to a link whose check was passed.              *)
LEMMA SettleFacts ==
  ASSUME NEW x \in LinkRecord, NEW bit \in Bits
  PROVE  LET y == Settle(x, bit)
         IN  /\ y \in LinkRecord /\ y.chap = x.chap /\ y.pap = x.pap /\ y.up = x.up
             /\ y.out = x.out /\ y.auth_pending = x.auth_pending \ {bit}
             /\ x.phase = "DOWN" <=> y.phase = "DOWN"
             /\ y.phase = "NETWORK" => x.phase = "NETWORK" \/ y.auth_pending = {}
  BY DEF Settle, LinkRecord

(* ChapReceiveSuccess: the peer has accepted us.                           *)
LEMMA ReceiveSuccessMoves ==
  ASSUME NEW s \in Terms, NEW x, Good(x, s), x.out = << >>
  PROVE  LET y == ChapReceiveSuccess(x)
         IN  /\ Moves(x, y, s)
             /\ "UPAP_WITHPEER" \in x.auth_pending => "UPAP_WITHPEER" \in y.auth_pending
  <1>1. CASE x.chap.clientstate # "RESPONSE"
    BY <1>1, StaysPut DEF ChapReceiveSuccess
  <1>2. CASE x.chap.clientstate = "RESPONSE"
    <2> DEFINE t == Cancelled(x.chap.resp_timers)
               c == [x.chap EXCEPT !.resp_timers = t, !.clientstate = "OPEN"]
               w == [x EXCEPT !.chap = c]
               y == Settle(w, "CHAP_WITHPEER")
    <2>1. x \in LinkRecord /\ x.chap \in ChapRecord /\ t = 0 /\ x.up
      BY <1>2, ChapTypes DEF Cancelled, Good, ChapClientFits
    <2>2. ChapReceiveSuccess(x) = y
      BY <1>2 DEF ChapReceiveSuccess, auth_withpeer_success
    <2> HIDE DEF t
    <2>3. /\ c \in ChapRecord /\ c.resp_timers = 0 /\ c.clientstate = "OPEN"
          /\ c.serverstate = x.chap.serverstate /\ c.chal_id = x.chap.chal_id
          /\ c.challenge = x.chap.challenge /\ c.chal_timers = x.chap.chal_timers
          /\ c.rechal_timers = x.chap.rechal_timers
      BY <2>1 DEF ChapRecord, ClientStates
    <2> HIDE DEF c
    <2>4. /\ w \in LinkRecord /\ w.chap = c /\ w.pap = x.pap /\ w.up = x.up
          /\ w.phase = x.phase /\ w.auth_pending = x.auth_pending /\ w.out = x.out
      BY <2>1, <2>3, SetChap
    <2> HIDE DEF w
    <2>5. "CHAP_WITHPEER" \in Bits
      BY DEF Bits
    <2>6. /\ y \in LinkRecord /\ y.chap = w.chap /\ y.pap = w.pap /\ y.up = w.up
          /\ y.out = w.out /\ y.auth_pending = w.auth_pending \ {"CHAP_WITHPEER"}
          /\ w.phase = "DOWN" <=> y.phase = "DOWN"
          /\ y.phase = "NETWORK" => w.phase = "NETWORK" \/ y.auth_pending = {}
      BY <2>4, <2>5, SettleFacts
    <2> HIDE DEF y
    <2>7. y.out \in Seq(Said(y, s))
      BY <2>4, <2>6, EmptySeq
    <2>8. ChapServerFits(y.chap, y.up, s) /\ ChapClientFits(y.chap, y.up, s)
      BY <2>1, <2>3, <2>4, <2>6 DEF Good, ChapServerFits, ChapClientFits
    <2>9. PhaseFits(y, s)
      BY <2>1, <2>3, <2>4, <2>6 DEF Good, PhaseFits
    <2>10. Moves(x, y, s)
      BY <2>1, <2>3, <2>4, <2>6, <2>7, <2>8, <2>9 DEF Moves, Good
    <2>11. QED
      BY <2>2, <2>4, <2>6, <2>10
  <1>3. QED
    BY <1>1, <1>2

(* upap_rauthack: the peer has accepted our password.                      *)
LEMMA AuthAckMoves ==
  ASSUME NEW s \in Terms, NEW x, Good(x, s), x.out = << >>
  PROVE  LET y == upap_rauthack(x)
         IN  /\ Moves(x, y, s)
             /\ "CHAP_WITHPEER" \in x.auth_pending => "CHAP_WITHPEER" \in y.auth_pending
  <1>1. CASE x.pap.us_clientstate # "AUTHREQ"
    BY <1>1, StaysPut DEF upap_rauthack
  <1>2. CASE x.pap.us_clientstate = "AUTHREQ"
    <2> DEFINE p == [x.pap EXCEPT !.us_clientstate = "OPEN"]
               w == [x EXCEPT !.pap = p]
               y == Settle(w, "UPAP_WITHPEER")
    <2>1. x \in LinkRecord /\ x.pap \in PapRecord /\ x.up
      BY <1>2, PapTypes DEF Good, PapClientFits
    <2>2. upap_rauthack(x) = y
      BY <1>2 DEF upap_rauthack, auth_withpeer_success
    <2>3. /\ p \in PapRecord /\ p.us_clientstate = "OPEN"
          /\ p.us_serverstate = x.pap.us_serverstate /\ p.req_timers = x.pap.req_timers
      BY <2>1 DEF PapRecord
    <2> HIDE DEF p
    <2>4. /\ w \in LinkRecord /\ w.pap = p /\ w.chap = x.chap /\ w.up = x.up
          /\ w.phase = x.phase /\ w.auth_pending = x.auth_pending /\ w.out = x.out
      BY <2>1, <2>3, SetPap
    <2> HIDE DEF w
    <2>5. "UPAP_WITHPEER" \in Bits
      BY DEF Bits
    <2>6. /\ y \in LinkRecord /\ y.chap = w.chap /\ y.pap = w.pap /\ y.up = w.up
          /\ y.out = w.out /\ y.auth_pending = w.auth_pending \ {"UPAP_WITHPEER"}
          /\ w.phase = "DOWN" <=> y.phase = "DOWN"
          /\ y.phase = "NETWORK" => w.phase = "NETWORK" \/ y.auth_pending = {}
      BY <2>4, <2>5, SettleFacts
    <2> HIDE DEF y
    <2>7. y.out \in Seq(Said(y, s))
      BY <2>4, <2>6, EmptySeq
    <2>8. PapServerFits(y.pap, y.up, s) /\ PapClientFits(y.pap, y.up, s)
      BY <2>1, <2>3, <2>4, <2>6 DEF Good, PapServerFits, PapClientFits
    <2>9. PhaseFits(y, s)
      BY <2>1, <2>3, <2>4, <2>6 DEF Good, PhaseFits
    <2>10. Moves(x, y, s)
      BY <2>1, <2>3, <2>4, <2>6, <2>7, <2>8, <2>9 DEF Moves, Good
    <2>11. QED
      BY <2>2, <2>4, <2>6, <2>10
  <1>3. QED
    BY <1>1, <1>2

(* upap_rauthnak: the peer has turned our password down.                   *)
LEMMA AuthNakMoves ==
  ASSUME NEW s \in Terms, NEW x, Good(x, s), x.out = << >>
  PROVE  LET y == upap_rauthnak(x)
         IN  Moves(x, y, s) /\ y.auth_pending = x.auth_pending
  <1>1. CASE x.pap.us_clientstate # "AUTHREQ"
    BY <1>1, StaysPut DEF upap_rauthnak
  <1>2. CASE x.pap.us_clientstate = "AUTHREQ"
    <2> DEFINE p == [x.pap EXCEPT !.us_clientstate = "BADAUTH"]
               y == [x EXCEPT !.pap = p]
    <2>1. x \in LinkRecord /\ x.pap \in PapRecord /\ x.up
      BY <1>2, PapTypes DEF Good, PapClientFits
    <2>2. upap_rauthnak(x) = y
      BY <1>2 DEF upap_rauthnak
    <2>3. /\ p \in PapRecord /\ p.us_clientstate = "BADAUTH"
          /\ p.us_serverstate = x.pap.us_serverstate /\ p.req_timers = x.pap.req_timers
      BY <2>1 DEF PapRecord
    <2> HIDE DEF p
    <2>4. /\ y \in LinkRecord /\ y.pap = p /\ y.chap = x.chap /\ y.up = x.up
          /\ y.phase = x.phase /\ y.auth_pending = x.auth_pending /\ y.out = x.out
      BY <2>1, <2>3, SetPap
    <2> HIDE DEF y
    <2>5. PapServerFits(y.pap, x.up, s) /\ PapClientFits(y.pap, x.up, s)
      BY <2>1, <2>3, <2>4 DEF Good, PapServerFits, PapClientFits
    <2>6. y.out \in Seq(Said(y, s))
      BY <2>4, EmptySeq
    <2>7. Moves(x, y, s)
      BY <2>3, <2>4, <2>5, <2>6, PapUpdate
    <2>8. QED
      BY <2>2, <2>4, <2>7
  <1>3. QED
    BY <1>1, <1>2

-----------------------------------------------------------------------------
(* The callouts a link has are ones that going down cancels.               *)
ChapTimersLow(c) ==
    /\ c.chal_timers <= IF c.serverstate \in {"INITIAL_CHAL", "RECHALLENGE"} THEN 1 ELSE 0
    /\ c.rechal_timers <= IF c.serverstate = "OPEN" THEN 1 ELSE 0
    /\ c.resp_timers <= IF c.clientstate = "RESPONSE" THEN 1 ELSE 0

LEMMA CancelledType ==
  ASSUME NEW t \in Nat PROVE Cancelled(t) \in Nat /\ (t <= 1 => Cancelled(t) = 0)
  BY DEF Cancelled

LEMMA ChapLowerDownFacts ==
  ASSUME NEW x \in LinkRecord, ChapTimersLow(x.chap)
  PROVE  LET y == ChapLowerDown(x)
         IN  /\ y \in LinkRecord /\ y.pap = x.pap /\ y.up = x.up /\ y.phase = x.phase
             /\ y.auth_pending = x.auth_pending /\ y.out = x.out
             /\ y.chap.serverstate = "INITIAL" /\ y.chap.clientstate = "INITIAL"
             /\ y.chap.chal_timers = 0 /\ y.chap.rechal_timers = 0 /\ y.chap.resp_timers = 0
             /\ y.chap.chal_id = x.chap.chal_id /\ y.chap.challenge = x.chap.challenge
  <1> DEFINE t1 == IF x.chap.serverstate \in {"INITIAL_CHAL", "RECHALLENGE"}
                   THEN Cancelled(x.chap.chal_timers) ELSE x.chap.chal_timers
             t2 == IF x.chap.serverstate = "OPEN" THEN Cancelled(x.chap.rechal_timers)
                   ELSE x.chap.rechal_timers
             t3 == IF x.chap.clientstate = "RESPONSE" THEN Cancelled(x.chap.resp_timers)
                   ELSE x.chap.resp_timers
             c == [x.chap EXCEPT !.chal_timers = t1, !.rechal_timers = t2, !.resp_timers = t3,
                                 !.clientstate = "INITIAL", !.serverstate = "INITIAL"]
             y == [x EXCEPT !.chap = c]
  <1>1. x.chap \in ChapRecord
    BY ChapTypes
  <1>2. t1 = 0 /\ t2 = 0 /\ t3 = 0
    BY ChapTypes, CancelledType DEF ChapTimersLow
  <1>3. ChapLowerDown(x) = y
    BY DEF ChapLowerDown
  <1> HIDE DEF t1, t2, t3
  <1>4. /\ c \in ChapRecord /\ c.serverstate = "INITIAL" /\ c.clientstate = "INITIAL"
        /\ c.chal_timers = 0 /\ c.rechal_timers = 0 /\ c.resp_timers = 0
        /\ c.chal_id = x.chap.chal_id /\ c.challenge = x.chap.challenge
    BY <1>1, <1>2 DEF ChapRecord, ServerStates, ClientStates
  <1> HIDE DEF c
  <1>5. /\ y \in LinkRecord /\ y.chap = c /\ y.pap = x.pap /\ y.up = x.up
        /\ y.phase = x.phase /\ y.auth_pending = x.auth_pending /\ y.out = x.out
    BY <1>4, SetChap
  <1>6. QED
    BY <1>3, <1>4, <1>5

LEMMA PapLowerDownFacts ==
  ASSUME NEW x \in LinkRecord
  PROVE  LET y == upap_lowerdown(x)
         IN  /\ y \in LinkRecord /\ y.chap = x.chap /\ y.up = x.up /\ y.phase = x.phase
             /\ y.auth_pending = x.auth_pending /\ y.out = x.out
             /\ y.pap.us_serverstate = "INITIAL" /\ y.pap.us_clientstate = "INITIAL"
             /\ y.pap.req_timers = IF x.pap.us_serverstate = "LISTEN"
                                   THEN Cancelled(x.pap.req_timers) ELSE x.pap.req_timers
  <1> DEFINE t1 == IF x.pap.us_clientstate = "AUTHREQ" THEN Cancelled(x.pap.timers)
                   ELSE x.pap.timers
             t2 == IF x.pap.us_serverstate = "LISTEN" THEN Cancelled(x.pap.req_timers)
                   ELSE x.pap.req_timers
             p == [x.pap EXCEPT !.timers = t1, !.req_timers = t2,
                                !.us_clientstate = "INITIAL", !.us_serverstate = "INITIAL"]
             y == [x EXCEPT !.pap = p]
  <1>1. x.pap \in PapRecord /\ t1 \in Nat /\ t2 \in Nat
    BY PapTypes, CancelledType
  <1>2. upap_lowerdown(x) = y
    BY DEF upap_lowerdown
  <1> HIDE DEF t1, t2
  <1>3. /\ p \in PapRecord /\ p.us_serverstate = "INITIAL" /\ p.us_clientstate = "INITIAL"
        /\ p.req_timers = t2
    BY <1>1 DEF PapRecord
  <1> HIDE DEF p
  <1>4. /\ y \in LinkRecord /\ y.pap = p /\ y.chap = x.chap /\ y.up = x.up
        /\ y.phase = x.phase /\ y.auth_pending = x.auth_pending /\ y.out = x.out
    BY <1>3, SetPap
  <1>5. QED
    BY <1>2, <1>3, <1>4 DEF t2

(* lcp_down, as a relation of the link before and after.                   *)
Falls(x, y) ==
    /\ y \in LinkRecord /\ y.up = FALSE /\ y.phase = "DOWN"
    /\ y.auth_pending = x.auth_pending /\ y.out = x.out
    /\ y.chap.serverstate = "INITIAL" /\ y.chap.clientstate = "INITIAL"
    /\ y.chap.chal_timers = 0 /\ y.chap.rechal_timers = 0 /\ y.chap.resp_timers = 0
    /\ y.chap.chal_id = x.chap.chal_id /\ y.chap.challenge = x.chap.challenge
    /\ y.pap.us_serverstate = "INITIAL" /\ y.pap.us_clientstate = "INITIAL"
    /\ y.pap.req_timers = IF x.pap.us_serverstate = "LISTEN"
                          THEN Cancelled(x.pap.req_timers) ELSE x.pap.req_timers

LEMMA LcpDownFalls ==
  ASSUME NEW x \in LinkRecord, ChapTimersLow(x.chap) PROVE Falls(x, lcp_down(x))
  <1> DEFINE w == [x EXCEPT !.up = FALSE, !.phase = "DOWN"]
             v == ChapLowerDown(w)
             y == upap_lowerdown(v)
  <1>1. /\ w \in LinkRecord /\ w.chap = x.chap /\ w.pap = x.pap /\ w.up = FALSE
        /\ w.phase = "DOWN" /\ w.auth_pending = x.auth_pending /\ w.out = x.out
    BY DEF LinkRecord
  <1>2. lcp_down(x) = y
    BY DEF lcp_down
  <1> HIDE DEF w
  <1>3. /\ v \in LinkRecord /\ v.pap = w.pap /\ v.up = w.up /\ v.phase = w.phase
        /\ v.auth_pending = w.auth_pending /\ v.out = w.out
        /\ v.chap.serverstate = "INITIAL" /\ v.chap.clientstate = "INITIAL"
        /\ v.chap.chal_timers = 0 /\ v.chap.rechal_timers = 0 /\ v.chap.resp_timers = 0
        /\ v.chap.chal_id = w.chap.chal_id /\ v.chap.challenge = w.chap.challenge
    BY <1>1, ChapLowerDownFacts
  <1> HIDE DEF v
  <1>4. /\ y \in LinkRecord /\ y.chap = v.chap /\ y.up = v.up /\ y.phase = v.phase
        /\ y.auth_pending = v.auth_pending /\ y.out = v.out
        /\ y.pap.us_serverstate = "INITIAL" /\ y.pap.us_clientstate = "INITIAL"
        /\ y.pap.req_timers = IF v.pap.us_serverstate = "LISTEN"
                              THEN Cancelled(v.pap.req_timers) ELSE v.pap.req_timers
    BY <1>3, PapLowerDownFacts
  <1>5. QED
    BY <1>1, <1>2, <1>3, <1>4 DEF Falls

(* A link that has fallen, perhaps with a bad peer in mind, is good.       *)
Fallen(y, s) ==
    /\ y \in LinkRecord /\ y.up = FALSE /\ y.phase = "DOWN"
    /\ y.chap.serverstate = "INITIAL" /\ y.chap.clientstate = "INITIAL"
    /\ y.chap.chal_timers = 0 /\ y.chap.rechal_timers = 0 /\ y.chap.resp_timers = 0
    /\ y.chap.challenge = y.chap.chal_id
    /\ y.pap.us_clientstate = "INITIAL" /\ y.pap.req_timers = 0
    /\ \/ y.pap.us_serverstate = "INITIAL"
       \/ y.pap.us_serverstate = "BADAUTH" /\ s.we = "pap"

LEMMA FallenMoves ==
  ASSUME NEW s \in Terms, NEW x, NEW y, Fallen(y, s),
         y.out \in Seq(Said(y, s)), x.up \/ y.out = << >>
  PROVE  Moves(x, y, s)
  <1>1. ChapServerFits(y.chap, y.up, s) /\ ChapClientFits(y.chap, y.up, s)
    BY DEF Fallen, ChapServerFits, ChapClientFits, ChapPassed
  <1>2. PapServerFits(y.pap, y.up, s) /\ PapClientFits(y.pap, y.up, s)
    BY DEF Fallen, PapServerFits, PapClientFits
  <1>3. PhaseFits(y, s)
    BY DEF Fallen, PhaseFits
  <1>4. QED
    BY <1>1, <1>2, <1>3 DEF Fallen, Moves, Good

LEMMA GoodTimersLow ==
  ASSUME NEW s \in Terms, NEW x, Good(x, s)
  PROVE  /\ x \in LinkRecord /\ ChapTimersLow(x.chap) /\ x.chap.challenge = x.chap.chal_id
         /\ x.pap.req_timers = IF x.pap.us_serverstate = "LISTEN" THEN 1 ELSE 0
         /\ (IF x.pap.us_serverstate = "LISTEN"
             THEN Cancelled(x.pap.req_timers) ELSE x.pap.req_timers) = 0
  BY DEF Good, ChapServerFits, ChapClientFits, ChapTimersLow, PapServerFits, Cancelled

(* LCP goes down.                                                          *)
LEMMA DownMoves ==
  ASSUME NEW s \in Terms, NEW x, Good(x, s), x.out = << >>
  PROVE  Moves(x, lcp_down(x), s)
  <1> DEFINE y == lcp_down(x)
  <1>1. /\ x \in LinkRecord /\ ChapTimersLow(x.chap) /\ x.chap.challenge = x.chap.chal_id
        /\ (IF x.pap.us_serverstate = "LISTEN"
            THEN Cancelled(x.pap.req_timers) ELSE x.pap.req_timers) = 0
    BY GoodTimersLow
  <1>2. Falls(x, y)
    BY <1>1, LcpDownFalls
  <1> SUFFICES Moves(x, y, s)
    OBVIOUS
  <1> HIDE DEF y
  <1>3. y.out \in Seq(Said(y, s)) /\ y.out = << >>
    BY <1>2, EmptySeq DEF Falls
  <1>4. y.chap.challenge = y.chap.chal_id /\ y.pap.req_timers = 0
    BY <1>1, <1>2 DEF Falls
  <1>5. Fallen(y, s)
    BY <1>2, <1>4 DEF Falls, Fallen
  <1>6. x.up \/ y.out = << >>
    BY <1>3
  <1>7. y.out \in Seq(Said(y, s))
    BY <1>3
  <1>8. QED
    BY <1>5, <1>6, <1>7, FallenMoves, Zenon

-----------------------------------------------------------------------------
(* ChapSendChallenge.                                                      *)
LEMMA SendChallengeFacts ==
  ASSUME NEW x \in LinkRecord, x.chap.chal_transmits < MaxTransmits
  PROVE  LET y == ChapSendChallenge(x)
             m == [kind |-> "CHALLENGE", id |-> x.chap.chal_id, data |-> x.chap.challenge]
         IN  /\ y \in LinkRecord /\ m \in Packets /\ y.out = Append(x.out, m)
             /\ y.pap = x.pap /\ y.up = x.up /\ y.phase = x.phase
             /\ y.auth_pending = x.auth_pending
             /\ y.chap = [x.chap EXCEPT !.chal_timers = @ + 1, !.chal_transmits = @ + 1]
  <1> DEFINE m == [kind |-> "CHALLENGE", id |-> x.chap.chal_id, data |-> x.chap.challenge]
             z == Send(x, m)
             c == [x.chap EXCEPT !.chal_timers = @ + 1, !.chal_transmits = @ + 1]
  <1>1. m \in Packets
    BY ChapTypes DEF Packets
  <1>2. /\ z \in LinkRecord /\ z.out = Append(x.out, m) /\ z.chap = x.chap
        /\ z.pap = x.pap /\ z.up = x.up /\ z.phase = x.phase
        /\ z.auth_pending = x.auth_pending
    BY <1>1, SendFacts
  <1>3. c \in ChapRecord
    <2>1. /\ x.chap \in ChapRecord /\ x.chap.chal_timers + 1 \in Nat
          /\ x.chap.chal_transmits + 1 \in 0 .. MaxTransmits
      BY ChapTypes, AuthAssumption
    <2>2. QED
      BY <2>1 DEF ChapRecord
  <1>4. ChapSendChallenge(x) = [z EXCEPT !.chap = [z.chap EXCEPT !.chal_timers = @ + 1,
                                                                  !.chal_transmits = @ + 1]]
    BY DEF ChapSendChallenge
  <1>5. ChapSendChallenge(x) = [z EXCEPT !.chap = c]
    BY <1>2, <1>4
  <1> HIDE DEF z, m, c
  <1>6. LET y == [z EXCEPT !.chap = c]
        IN  /\ y \in LinkRecord /\ y.chap = c /\ y.pap = z.pap /\ y.up = z.up
            /\ y.phase = z.phase /\ y.auth_pending = z.auth_pending /\ y.out = z.out
    BY <1>2, <1>3, SetChap
  <1>7. QED
    BY <1>1, <1>2, <1>5, <1>6 DEF m, c

(* A challenge goes by its id.                                             *)
LEMMA ChallengeSaid ==
  ASSUME NEW s \in Terms, NEW x, NEW i \in Ids
  PROVE  [kind |-> "CHALLENGE", id |-> i, data |-> i] \in Said(x, s)
  BY DEF Said, Packets

(* A new challenge, with its callout.                                      *)
Challenged(x, y, state) ==
    /\ y \in LinkRecord /\ y.pap = x.pap /\ y.up = x.up /\ y.phase = x.phase
    /\ y.auth_pending = x.auth_pending
    /\ y.chap.serverstate = state /\ y.chap.chal_timers = x.chap.chal_timers + 1
    /\ y.chap.rechal_timers = x.chap.rechal_timers
    /\ y.chap.challenge = y.chap.chal_id
    /\ y.chap.clientstate = x.chap.clientstate /\ y.chap.resp_timers = x.chap.resp_timers
    /\ y.chap.resp_id = x.chap.resp_id /\ y.chap.response = x.chap.response
    /\ \E i \in Ids : y.out = Append(x.out, [kind |-> "CHALLENGE", id |-> i, data |-> i])

LEMMA ChallengeFacts ==
  ASSUME NEW x \in LinkRecord, x.chap.challenge = x.chap.chal_id, NEW state \in ServerStates
  PROVE  Challenged(x, Challenge(x, state), state)
  <1> DEFINE i == (x.chap.chal_id + 1) % IdMod
             j == (x.chap.challenge + 1) % IdMod
             c == [x.chap EXCEPT !.chal_id = i, !.challenge = j, !.chal_transmits = 0]
             w == [x EXCEPT !.chap = c]
             m == [kind |-> "CHALLENGE", id |-> w.chap.chal_id, data |-> w.chap.challenge]
             v == ChapSendChallenge(w)
             d == [v.chap EXCEPT !.serverstate = state]
             y == [v EXCEPT !.chap = d]
  <1>1. i \in Ids /\ j = i /\ 0 \in 0 .. MaxTransmits /\ 0 < MaxTransmits
    BY ChapTypes, AuthAssumption DEF Ids
  <1>2. Challenge(x, state) = y
    BY DEF Challenge, ChapGenChallenge
  <1> HIDE DEF i, j
  <1>3. x.chap \in ChapRecord
    BY ChapTypes
  <1>4. /\ c \in ChapRecord /\ c.chal_id = i /\ c.challenge = i /\ c.chal_transmits = 0
        /\ c.chal_timers = x.chap.chal_timers /\ c.rechal_timers = x.chap.rechal_timers
        /\ c.clientstate = x.chap.clientstate /\ c.resp_timers = x.chap.resp_timers
        /\ c.resp_id = x.chap.resp_id /\ c.response = x.chap.response
    BY <1>1, <1>3 DEF ChapRecord
  <1> HIDE DEF c
  <1>5. /\ w \in LinkRecord /\ w.chap = c /\ w.pap = x.pap /\ w.up = x.up
        /\ w.phase = x.phase /\ w.auth_pending = x.auth_pending /\ w.out = x.out
    BY <1>4, SetChap
  <1> HIDE DEF w
  <1>6. w.chap.chal_transmits < MaxTransmits
    BY <1>1, <1>4, <1>5
  <1>7. /\ v \in LinkRecord /\ v.out = Append(w.out, m)
        /\ v.pap = w.pap /\ v.up = w.up /\ v.phase = w.phase
        /\ v.auth_pending = w.auth_pending
        /\ v.chap = [w.chap EXCEPT !.chal_timers = @ + 1, !.chal_transmits = @ + 1]
    BY <1>5, <1>6, SendChallengeFacts
  <1>8. m = [kind |-> "CHALLENGE", id |-> i, data |-> i]
    BY <1>4, <1>5
  <1> HIDE DEF v, m
  <1>9. v.chap \in ChapRecord
    BY <1>7, ChapTypes
  <1>10. /\ v.chap.chal_id = i /\ v.chap.challenge = i
         /\ v.chap.chal_timers = x.chap.chal_timers + 1
         /\ v.chap.rechal_timers = x.chap.rechal_timers
         /\ v.chap.clientstate = x.chap.clientstate /\ v.chap.resp_timers = x.chap.resp_timers
         /\ v.chap.resp_id = x.chap.resp_id /\ v.chap.response = x.chap.response
    BY <1>4, <1>5, <1>7 DEF ChapRecord
  <1>11. /\ d \in ChapRecord /\ d.serverstate = state
         /\ d.chal_id = i /\ d.challenge = i /\ d.chal_timers = v.chap.chal_timers
         /\ d.rechal_timers = v.chap.rechal_timers
         /\ d.clientstate = v.chap.clientstate /\ d.resp_timers = v.chap.resp_timers
         /\ d.resp_id = v.chap.resp_id /\ d.response = v.chap.response
    BY <1>9, <1>10 DEF ChapRecord
  <1> HIDE DEF d
  <1>12. /\ y \in LinkRecord /\ y.chap = d /\ y.pap = v.pap /\ y.up = v.up
         /\ y.phase = v.phase /\ y.auth_pending = v.auth_pending /\ y.out = v.out
    BY <1>7, <1>11, SetChap
  <1> SUFFICES Challenged(x, y, state)
    BY <1>2
  <1> HIDE DEF y
  <1>13. y.out = Append(x.out, [kind |-> "CHALLENGE", id |-> i, data |-> i])
    BY <1>5, <1>7, <1>8, <1>12
  <1>14. QED
    BY <1>1, <1>5, <1>7, <1>10, <1>11, <1>12, <1>13 DEF Challenged

(* ChapRechallenge.                                                        *)
LEMMA RechallengeTimerMoves ==
  ASSUME NEW s \in Terms, NEW x, Good(x, s), x.out = << >>, x.chap.rechal_timers > 0
  PROVE  LET y == ChapRechallenge([x EXCEPT !.chap.rechal_timers = @ - 1])
         IN  Moves(x, y, s) /\ y.auth_pending = x.auth_pending
  <1> DEFINE c == [x.chap EXCEPT !.rechal_timers = x.chap.rechal_timers - 1]
             w == [x EXCEPT !.chap = c]
             y == Challenge(w, "RECHALLENGE")
  <1>1. /\ x \in LinkRecord /\ x.chap.serverstate = "OPEN" /\ x.chap.rechal_timers = 1
        /\ x.chap.chal_timers = 0 /\ x.up /\ x.chap.challenge = x.chap.chal_id
    BY DEF Good, ChapServerFits
  <1>2. x.chap \in ChapRecord
    BY <1>1, ChapTypes
  <1>3. /\ c \in ChapRecord /\ c.serverstate = "OPEN" /\ c.rechal_timers = 0
        /\ c.chal_timers = 0 /\ c.challenge = c.chal_id
        /\ c.clientstate = x.chap.clientstate /\ c.resp_timers = x.chap.resp_timers
        /\ c.resp_id = x.chap.resp_id /\ c.response = x.chap.response
    BY <1>1, <1>2 DEF ChapRecord
  <1>4. ChapRechallenge([x EXCEPT !.chap.rechal_timers = @ - 1]) = ChapRechallenge(w)
    OBVIOUS
  <1> HIDE DEF c
  <1>5. /\ w \in LinkRecord /\ w.chap = c /\ w.pap = x.pap /\ w.up = x.up
        /\ w.phase = x.phase /\ w.auth_pending = x.auth_pending /\ w.out = x.out
    BY <1>1, <1>3, SetChap
  <1> HIDE DEF w
  <1>6. ChapRechallenge(w) = y
    BY <1>3, <1>5 DEF ChapRechallenge
  <1>7. Challenged(w, y, "RECHALLENGE")
    BY <1>3, <1>5, ChallengeFacts DEF ServerStates
  <1> SUFFICES Moves(x, y, s) /\ y.auth_pending = x.auth_pending
    BY <1>4, <1>6
  <1> HIDE DEF y
  <1>8. PICK i \in Ids : y.out = Append(<< >>, [kind |-> "CHALLENGE", id |-> i, data |-> i])
    BY <1>5, <1>7 DEF Challenged
  <1>9. y.out \in Seq(Said(y, s))
    BY <1>8, ChallengeSaid, OneSaid
  <1>10. ChapServerFits(y.chap, x.up, s)
    BY <1>1, <1>3, <1>5, <1>7 DEF Good, ChapServerFits, ChapPassed, Challenged
  <1>11. ChapClientFits(y.chap, x.up, s)
    BY <1>1, <1>3, <1>5, <1>7 DEF Good, ChapClientFits, Challenged
  <1>12. QED
    BY <1>1, <1>5, <1>7, <1>9, <1>10, <1>11, ChapUpdate DEF Challenged, ChapPassed

(* A link that falls after its peer was told, or was told nothing.         *)
LEMMA FallsMoves ==
  ASSUME NEW s \in Terms, NEW x, NEW v \in LinkRecord, x.up = TRUE, ChapTimersLow(v.chap),
         v.chap.challenge = v.chap.chal_id,
         (IF v.pap.us_serverstate = "LISTEN"
          THEN Cancelled(v.pap.req_timers) ELSE v.pap.req_timers) = 0,
         \A y : y.up = FALSE => v.out \in Seq(Said(y, s))
  PROVE  Moves(x, lcp_down(v), s) /\ lcp_down(v).auth_pending = v.auth_pending
  <1> DEFINE y == lcp_down(v)
  <1>1. Falls(v, y)
    BY LcpDownFalls
  <1> SUFFICES Moves(x, y, s) /\ y.auth_pending = v.auth_pending
    OBVIOUS
  <1> HIDE DEF y
  <1>2. y.chap.challenge = y.chap.chal_id /\ y.pap.req_timers = 0
    BY <1>1 DEF Falls
  <1>3. Fallen(y, s)
    BY <1>1, <1>2 DEF Falls, Fallen
  <1>4. y.out \in Seq(Said(y, s))
    BY <1>1 DEF Falls
  <1>5. QED
    BY <1>1, <1>3, <1>4, FallenMoves DEF Falls

(* ChapChallengeTimeout: again, or the peer has failed.                    *)
LEMMA ChallengeTimerMoves ==
  ASSUME NEW s \in Terms, NEW x, Good(x, s), x.out = << >>, x.chap.chal_timers > 0
  PROVE  LET y == ChapChallengeTimeout([x EXCEPT !.chap.chal_timers = @ - 1])
         IN  Moves(x, y, s) /\ y.auth_pending = x.auth_pending
  <1> DEFINE c == [x.chap EXCEPT !.chal_timers = x.chap.chal_timers - 1]
             w == [x EXCEPT !.chap = c]
  <1>1. /\ x \in LinkRecord /\ x.chap.chal_timers = 1 /\ x.chap.rechal_timers = 0
        /\ x.chap.serverstate \in {"INITIAL_CHAL", "RECHALLENGE"}
        /\ x.up = TRUE /\ x.chap.challenge = x.chap.chal_id
        /\ x.chap.resp_timers <= IF x.chap.clientstate = "RESPONSE" THEN 1 ELSE 0
    BY LinkTypes DEF Good, ChapServerFits, ChapClientFits
  <1>2. /\ x.chap \in ChapRecord /\ x.chap.chal_transmits \in 0 .. MaxTransmits
        /\ x.chap.chal_id \in Ids
    BY <1>1, ChapTypes
  <1>3. /\ c \in ChapRecord /\ c.serverstate = x.chap.serverstate /\ c.rechal_timers = 0
        /\ c.chal_timers = 0 /\ c.chal_id = x.chap.chal_id /\ c.challenge = x.chap.chal_id
        /\ c.clientstate = x.chap.clientstate /\ c.resp_timers = x.chap.resp_timers
        /\ c.resp_id = x.chap.resp_id /\ c.response = x.chap.response
        /\ c.chal_transmits = x.chap.chal_transmits
    BY <1>1, <1>2 DEF ChapRecord
  <1>4. [x EXCEPT !.chap.chal_timers = @ - 1] = w
    OBVIOUS
  <1> HIDE DEF c
  <1>5. /\ w \in LinkRecord /\ w.chap = c /\ w.pap = x.pap /\ w.up = x.up
        /\ w.phase = x.phase /\ w.auth_pending = x.auth_pending /\ w.out = x.out
    BY <1>1, <1>3, SetChap
  <1> HIDE DEF w
  <1> SUFFICES /\ Moves(x, ChapChallengeTimeout(w), s)
               /\ ChapChallengeTimeout(w).auth_pending = x.auth_pending
    BY <1>4
  <1>6. CASE x.chap.chal_transmits >= MaxTransmits
    <2> DEFINE d == [w.chap EXCEPT !.serverstate = "BADAUTH"]
               v == [w EXCEPT !.chap = d]
    <2>1. /\ d \in ChapRecord /\ d.serverstate = "BADAUTH" /\ d.rechal_timers = 0
          /\ d.chal_timers = 0 /\ d.chal_id = x.chap.chal_id /\ d.challenge = x.chap.chal_id
          /\ d.clientstate = x.chap.clientstate /\ d.resp_timers = x.chap.resp_timers
      BY <1>3, <1>5 DEF ChapRecord, ServerStates
    <2>2. ChapChallengeTimeout(w) = auth_peer_fail(v)
      BY <1>1, <1>3, <1>5, <1>6 DEF ChapChallengeTimeout
    <2> HIDE DEF d
    <2>3. /\ v \in LinkRecord /\ v.chap = d /\ v.pap = w.pap /\ v.up = w.up
          /\ v.phase = w.phase /\ v.auth_pending = w.auth_pending /\ v.out = w.out
      BY <1>5, <2>1, SetChap
    <2> HIDE DEF v
    <2>4. auth_peer_fail(v) = lcp_down(v)
      BY <1>1, <1>5, <2>3 DEF auth_peer_fail
    <2>5. ChapTimersLow(v.chap) /\ v.chap.challenge = v.chap.chal_id
      BY <1>1, <2>1, <2>3 DEF ChapTimersLow
    <2>6. (IF v.pap.us_serverstate = "LISTEN"
           THEN Cancelled(v.pap.req_timers) ELSE v.pap.req_timers) = 0
      BY <1>5, <2>3, GoodTimersLow
    <2>7. \A y : y.up = FALSE => v.out \in Seq(Said(y, s))
      BY <1>5, <2>3, EmptySeq
    <2>8. QED
      BY <1>1, <1>5, <2>2, <2>3, <2>4, <2>5, <2>6, <2>7, FallsMoves
  <1>7. CASE ~(x.chap.chal_transmits >= MaxTransmits)
    <2> DEFINE y == ChapSendChallenge(w)
               m == [kind |-> "CHALLENGE", id |-> w.chap.chal_id, data |-> w.chap.challenge]
    <2>1. ChapChallengeTimeout(w) = y
      BY <1>1, <1>3, <1>5, <1>7 DEF ChapChallengeTimeout
    <2>2. w.chap.chal_transmits < MaxTransmits
      BY <1>2, <1>3, <1>5, <1>7, AuthAssumption
    <2>3. /\ y \in LinkRecord /\ y.out = Append(w.out, m)
          /\ y.pap = w.pap /\ y.up = w.up /\ y.phase = w.phase
          /\ y.auth_pending = w.auth_pending
          /\ y.chap = [w.chap EXCEPT !.chal_timers = @ + 1, !.chal_transmits = @ + 1]
      BY <1>5, <2>2, SendChallengeFacts
    <2>4. m = [kind |-> "CHALLENGE", id |-> x.chap.chal_id, data |-> x.chap.chal_id]
      BY <1>3, <1>5
    <2> SUFFICES Moves(x, y, s) /\ y.auth_pending = x.auth_pending
      BY <2>1
    <2> HIDE DEF y, m
    <2>5. /\ y.chap.serverstate = x.chap.serverstate /\ y.chap.rechal_timers = 0
          /\ y.chap.chal_timers = 1 /\ y.chap.chal_id = y.chap.challenge
          /\ y.chap.clientstate = x.chap.clientstate
          /\ y.chap.resp_timers = x.chap.resp_timers
          /\ y.chap.resp_id = x.chap.resp_id /\ y.chap.response = x.chap.response
      BY <1>3, <1>5, <2>3 DEF ChapRecord
    <2>6. y.out \in Seq(Said(y, s))
      BY <1>2, <1>5, <2>3, <2>4, ChallengeSaid, OneSaid
    <2>7. ChapServerFits(y.chap, x.up, s) /\ ChapClientFits(y.chap, x.up, s)
      BY <1>1, <2>5 DEF Good, ChapServerFits, ChapClientFits
    <2>8. QED
      BY <1>1, <1>5, <2>3, <2>5, <2>6, <2>7, ChapUpdate
  <1>8. QED
    BY <1>6, <1>7

(* What the two verdicts may be.                                           *)
LEMMA VerdictSaid ==
  ASSUME NEW s \in Terms, NEW x, NEW i \in Ids
  PROVE  /\ s.his /\ (x.up => x.chap.serverstate \in ChapPassed)
              => [kind |-> "SUCCESS", id |-> i] \in Said(x, s)
         /\ ~s.his => [kind |-> "FAILURE", id |-> i] \in Said(x, s)
  BY DEF Said, Packets

LEMMA StatusFacts ==
  ASSUME NEW x \in LinkRecord, NEW code \in {"SUCCESS", "FAILURE"}
  PROVE  LET y == ChapSendStatus(x, code)
         IN  /\ y \in LinkRecord /\ y.chap = x.chap /\ y.pap = x.pap /\ y.up = x.up
             /\ y.phase = x.phase /\ y.auth_pending = x.auth_pending
             /\ y.out = Append(x.out, [kind |-> code, id |-> x.chap.chal_id])
  <1>1. [kind |-> code, id |-> x.chap.chal_id] \in Packets
    BY ChapTypes DEF Packets
  <1>2. QED
    BY <1>1, SendFacts DEF ChapSendStatus

(* Judge: the answer is to the challenge that is out, so the verdict is    *)
(* the one the secret of the peer deserves.                                *)
LEMMA JudgeMoves ==
  ASSUME NEW s \in Terms, NEW x, Good(x, s), x.out = << >>, x.up,
         x.chap.serverstate \in {"INITIAL", "INITIAL_CHAL", "RECHALLENGE"},
         NEW m \in Packets, m.kind = "RESPONSE", m.data = <<m.id, m.id, s.his>>,
         m.id = x.chap.chal_id
  PROVE  LET y == Judge(x, m, s.again)
         IN  /\ Moves(x, y, s)
             /\ \A b \in {"CHAP_WITHPEER", "UPAP_WITHPEER"} :
                  b \in x.auth_pending => b \in y.auth_pending
  <1> DEFINE t == Cancelled(x.chap.chal_timers)
             c == [x.chap EXCEPT !.chal_timers = t]
             w == [x EXCEPT !.chap = c]
  <1>1. /\ x \in LinkRecord /\ x.up = TRUE /\ x.chap.rechal_timers = 0 /\ t = 0
        /\ x.chap.challenge = x.chap.chal_id
        /\ x.chap.resp_timers <= IF x.chap.clientstate = "RESPONSE" THEN 1 ELSE 0
    BY LinkTypes DEF Good, ChapServerFits, ChapClientFits, Cancelled
  <1>2. x.chap \in ChapRecord /\ x.chap.chal_id \in Ids
    BY <1>1, ChapTypes
  <1>3. w = [x EXCEPT !.chap.chal_timers = Cancelled(@)]
    OBVIOUS
  <1> HIDE DEF t
  <1>4. /\ c \in ChapRecord /\ c.serverstate = x.chap.serverstate /\ c.rechal_timers = 0
        /\ c.chal_timers = 0 /\ c.chal_id = x.chap.chal_id /\ c.challenge = x.chap.chal_id
        /\ c.clientstate = x.chap.clientstate /\ c.resp_timers = x.chap.resp_timers
        /\ c.resp_id = x.chap.resp_id /\ c.response = x.chap.response
    BY <1>1, <1>2 DEF ChapRecord
  <1> HIDE DEF c
  <1>5. /\ w \in LinkRecord /\ w.chap = c /\ w.pap = x.pap /\ w.up = x.up
        /\ w.phase = x.phase /\ w.auth_pending = x.auth_pending /\ w.out = x.out
    BY <1>1, <1>4, SetChap
  <1>6. s.his \in BOOLEAN /\ s.again \in BOOLEAN
    BY DEF Terms
  <1>7. CASE s.his = TRUE
    <2> DEFINE u == ChapSendStatus(w, "SUCCESS")
               r == IF s.again THEN u.chap.rechal_timers + 1 ELSE u.chap.rechal_timers
               d == [u.chap EXCEPT !.serverstate = "OPEN", !.rechal_timers = r]
               z == [u EXCEPT !.chap = d]
               y == IF x.chap.serverstate = "INITIAL_CHAL" THEN Settle(z, "CHAP_PEER") ELSE z
    <2>1. m.data = <<x.chap.chal_id, x.chap.challenge, TRUE>>
      BY <1>1, <1>7
    <2>2. Judge(x, m, s.again) = y
      <3> DEFINE q == [ChapSendStatus([x EXCEPT !.chap.chal_timers = Cancelled(@)], "SUCCESS")
                         EXCEPT !.chap.serverstate = "OPEN",
                                !.chap.rechal_timers = IF s.again THEN @ + 1 ELSE @]
      <3>1. Judge(x, m, s.again) = IF x.chap.serverstate = "INITIAL_CHAL"
                                   THEN Settle(q, "CHAP_PEER") ELSE q
        BY <2>1 DEF Judge, auth_peer_success
      <3>2. q = [u EXCEPT !.chap.serverstate = "OPEN",
                          !.chap.rechal_timers = IF s.again THEN @ + 1 ELSE @]
        BY <1>3, Zenon
      <3> HIDE DEF u
      <3>3. q = z
        BY <3>2
      <3> HIDE DEF q, z
      <3>4. QED
        BY <3>1, <3>3
    <2> HIDE DEF w
    <2>3. /\ u \in LinkRecord /\ u.chap = w.chap /\ u.pap = w.pap /\ u.up = w.up
          /\ u.phase = w.phase /\ u.auth_pending = w.auth_pending
          /\ u.out = Append(w.out, [kind |-> "SUCCESS", id |-> w.chap.chal_id])
      BY <1>5, StatusFacts
    <2> HIDE DEF u
    <2>31. r = (IF s.again THEN 1 ELSE 0) /\ r \in Nat
      BY <1>4, <1>5, <2>3
    <2> HIDE DEF r
    <2>32. u.chap \in ChapRecord
      BY <2>3, ChapTypes
    <2>4. /\ d \in ChapRecord /\ d.serverstate = "OPEN" /\ d.rechal_timers = r
          /\ d.chal_timers = 0 /\ d.chal_id = x.chap.chal_id /\ d.challenge = x.chap.chal_id
          /\ d.clientstate = x.chap.clientstate /\ d.resp_timers = x.chap.resp_timers
          /\ d.resp_id = x.chap.resp_id /\ d.response = x.chap.response
      BY <1>4, <1>5, <2>3, <2>31, <2>32, ZenonT(60) DEF ChapRecord, ServerStates
    <2> HIDE DEF d
    <2>5. /\ z \in LinkRecord /\ z.chap = d /\ z.pap = u.pap /\ z.up = u.up
          /\ z.phase = u.phase /\ z.auth_pending = u.auth_pending /\ z.out = u.out
      BY <2>3, <2>4, SetChap
    <2> HIDE DEF z
    <2>6. "CHAP_PEER" \in Bits
      BY DEF Bits
    <2>61. /\ z.up = TRUE /\ z.pap = x.pap /\ z.phase = x.phase
           /\ z.auth_pending = x.auth_pending
           /\ z.out = Append(<< >>, [kind |-> "SUCCESS", id |-> x.chap.chal_id])
      BY <1>1, <1>4, <1>5, <2>3, <2>5
    <2>7. /\ y \in LinkRecord /\ y.chap = z.chap /\ y.pap = z.pap /\ y.up = z.up
          /\ y.out = z.out
          /\ y.auth_pending = z.auth_pending \/ y.auth_pending = z.auth_pending \ {"CHAP_PEER"}
          /\ z.phase = "DOWN" <=> y.phase = "DOWN"
          /\ y.phase = "NETWORK" => z.phase = "NETWORK" \/ y.auth_pending = {}
      <3>1. CASE x.chap.serverstate = "INITIAL_CHAL"
        BY <2>5, <2>6, <3>1, SettleFacts
      <3>2. CASE x.chap.serverstate # "INITIAL_CHAL"
        BY <2>5, <3>2
      <3>3. QED
        BY <3>1, <3>2
    <2> SUFFICES /\ Moves(x, y, s)
                 /\ \A b \in {"CHAP_WITHPEER", "UPAP_WITHPEER"} :
                      b \in x.auth_pending => b \in y.auth_pending
      BY <2>2
    <2> HIDE DEF y
    <2>71. y.chap.serverstate \in ChapPassed
      BY <2>4, <2>5, <2>7 DEF ChapPassed
    <2>72. [kind |-> "SUCCESS", id |-> x.chap.chal_id] \in Said(y, s)
      BY <1>2, <1>7, <2>71, VerdictSaid
    <2>8. y.out \in Seq(Said(y, s))
      BY <2>61, <2>7, <2>72, OneSaid
    <2>9. ChapServerFits(y.chap, y.up, s)
      BY <1>6, <1>7, <2>31, <2>4, <2>5, <2>61, <2>7 DEF ChapServerFits
    <2>10. ChapClientFits(y.chap, y.up, s)
      BY <1>1, <2>4, <2>5, <2>61, <2>7 DEF Good, ChapClientFits
    <2>11. PapServerFits(y.pap, y.up, s) /\ PapClientFits(y.pap, y.up, s)
      BY <1>1, <2>61, <2>7 DEF Good
    <2>12. PhaseFits(y, s)
      <3>1. y.phase # "DOWN" /\ (y.phase = "NETWORK" => y.auth_pending = {})
        BY <1>1, <2>61, <2>7 DEF Good, PhaseFits
      <3>2. "UPAP_PEER" \notin y.auth_pending => "UPAP_PEER" \notin x.auth_pending
        BY <2>61, <2>7
      <3>3. QED
        BY <1>1, <2>61, <2>7, <2>71, <3>1, <3>2 DEF Good, PhaseFits
    <2>13. Moves(x, y, s)
      BY <1>1, <2>61, <2>7, <2>71, <2>8, <2>9, <2>10, <2>11, <2>12 DEF Moves, Good
    <2>14. QED
      BY <2>61, <2>7, <2>13
  <1>8. CASE s.his = FALSE
    <2> DEFINE u == ChapSendStatus(w, "FAILURE")
               d == [u.chap EXCEPT !.serverstate = "BADAUTH"]
               v == [u EXCEPT !.chap = d]
    <2>1. m.data # <<x.chap.chal_id, x.chap.challenge, TRUE>>
      <3> DEFINE h == <<x.chap.chal_id, x.chap.challenge, TRUE>>
      <3>1. m.data[3] = FALSE
        BY <1>8
      <3>2. h[3] = TRUE
        OBVIOUS
      <3> HIDE DEF h
      <3>3. m.data # h
        BY <3>1, <3>2
      <3>4. QED
        BY <3>3 DEF h
    <2>2. Judge(x, m, s.again) = auth_peer_fail(v)
      BY <1>3, <2>1 DEF Judge
    <2> HIDE DEF w
    <2>3. /\ u \in LinkRecord /\ u.chap = w.chap /\ u.pap = w.pap /\ u.up = w.up
          /\ u.phase = w.phase /\ u.auth_pending = w.auth_pending
          /\ u.out = Append(w.out, [kind |-> "FAILURE", id |-> w.chap.chal_id])
      BY <1>5, StatusFacts
    <2> HIDE DEF u
    <2>4. /\ d \in ChapRecord /\ d.serverstate = "BADAUTH" /\ d.rechal_timers = 0
          /\ d.chal_timers = 0 /\ d.chal_id = x.chap.chal_id /\ d.challenge = x.chap.chal_id
          /\ d.clientstate = x.chap.clientstate /\ d.resp_timers = x.chap.resp_timers
      BY <1>4, <1>5, <2>3 DEF ChapRecord, ServerStates
    <2> HIDE DEF d
    <2>5. /\ v \in LinkRecord /\ v.chap = d /\ v.pap = u.pap /\ v.up = u.up
          /\ v.phase = u.phase /\ v.auth_pending = u.auth_pending /\ v.out = u.out
      BY <2>3, <2>4, SetChap
    <2> HIDE DEF v
    <2>6. auth_peer_fail(v) = lcp_down(v)
      BY <1>1, <1>5, <2>3, <2>5 DEF auth_peer_fail
    <2>7. ChapTimersLow(v.chap) /\ v.chap.challenge = v.chap.chal_id
      BY <1>1, <2>4, <2>5 DEF ChapTimersLow
    <2>8. (IF v.pap.us_serverstate = "LISTEN"
           THEN Cancelled(v.pap.req_timers) ELSE v.pap.req_timers) = 0
      BY <1>5, <2>3, <2>5, GoodTimersLow
    <2>9. \A y : y.up = FALSE => v.out \in Seq(Said(y, s))
      <3> DEFINE f == [kind |-> "FAILURE", id |-> w.chap.chal_id]
      <3>1. w.chap.chal_id \in Ids /\ w.out = << >>
        BY <1>2, <1>4, <1>5, ZenonT(60)
      <3>2. \A y : f \in Said(y, s)
        BY <1>8, <3>1, VerdictSaid
      <3>3. v.out = Append(<< >>, f)
        BY <2>3, <2>5, <3>1
      <3> HIDE DEF f
      <3>4. QED
        BY <3>2, <3>3, OneSaid
    <2>10. QED
      BY <1>1, <1>5, <2>2, <2>3, <2>5, <2>6, <2>7, <2>8, <2>9, FallsMoves, ZenonT(60)
  <1>9. QED
    BY <1>6, <1>7, <1>8

(* ChapReceiveResponse.                                                    *)
LEMMA ReceiveResponseMoves ==
  ASSUME NEW s \in Terms, NEW x, Good(x, s), x.out = << >>, x.up,
         NEW m \in Packets, m.kind = "RESPONSE", m.data = <<m.id, m.id, s.his>>
  PROVE  LET y == ChapReceiveResponse(x, m, s.again)
         IN  /\ Moves(x, y, s)
             /\ \A b \in {"CHAP_WITHPEER", "UPAP_WITHPEER"} :
                  b \in x.auth_pending => b \in y.auth_pending
  <1>1. /\ x \in LinkRecord /\ x.up = TRUE
        /\ x.chap.serverstate \in {"INITIAL", "CLOSED", "INITIAL_CHAL", "OPEN", "RECHALLENGE"}
    BY LinkTypes DEF Good, ChapServerFits
  <1>2. CASE x.chap.serverstate = "CLOSED" \/ m.id # x.chap.chal_id
    <2>1. ChapReceiveResponse(x, m, s.again) = x
      BY <1>1, <1>2 DEF ChapReceiveResponse
    <2>2. QED
      BY <2>1, StaysPut
  <1>3. CASE x.chap.serverstate = "OPEN" /\ m.id = x.chap.chal_id
    <2> DEFINE y == ChapSendStatus(x, "SUCCESS")
    <2>1. ChapReceiveResponse(x, m, s.again) = y
      BY <1>3 DEF ChapReceiveResponse
    <2>2. /\ y \in LinkRecord /\ y.chap = x.chap /\ y.pap = x.pap /\ y.up = x.up
          /\ y.phase = x.phase /\ y.auth_pending = x.auth_pending
          /\ y.out = Append(x.out, [kind |-> "SUCCESS", id |-> x.chap.chal_id])
      BY <1>1, StatusFacts
    <2> SUFFICES Moves(x, y, s) /\ y.auth_pending = x.auth_pending
      BY <2>1
    <2> HIDE DEF y
    <2>3. s.his /\ y.chap.serverstate \in ChapPassed /\ x.chap.chal_id \in Ids
      BY <1>1, <1>3, <2>2, ChapTypes DEF Good, ChapServerFits, ChapPassed
    <2>4. y.out \in Seq(Said(y, s))
      BY <2>2, <2>3, VerdictSaid, OneSaid
    <2>5. ChapServerFits(y.chap, x.up, s) /\ ChapClientFits(y.chap, x.up, s)
      BY <2>2 DEF Good
    <2>6. QED
      BY <1>1, <2>2, <2>4, <2>5, ChapUpdate
  <1>4. CASE x.chap.serverstate \in {"INITIAL", "INITIAL_CHAL", "RECHALLENGE"}
             /\ m.id = x.chap.chal_id
    <2>1. ChapReceiveResponse(x, m, s.again) = Judge(x, m, s.again)
      BY <1>4 DEF ChapReceiveResponse
    <2>2. QED
      BY <1>4, <2>1, JudgeMoves
  <1>5. QED
    BY <1>1, <1>2, <1>3, <1>4

(* ChapProtocolReject: the peer that has to authenticate itself has        *)
(* failed; CHAP goes down in any case.                                     *)
LEMMA ChapRejectMoves ==
  ASSUME NEW s \in Terms, NEW x, Good(x, s), x.out = << >>, x.up
  PROVE  LET y == ChapProtocolReject(x)
         IN  Moves(x, y, s) /\ y.auth_pending = x.auth_pending
  <1>1. /\ x \in LinkRecord /\ ChapTimersLow(x.chap) /\ x.chap.challenge = x.chap.chal_id
        /\ (IF x.pap.us_serverstate = "LISTEN"
            THEN Cancelled(x.pap.req_timers) ELSE x.pap.req_timers) = 0
    BY GoodTimersLow
  <1>2. x.up = TRUE
    BY <1>1, LinkTypes
  <1>3. CASE x.chap.serverstate \in {"INITIAL", "CLOSED"}
    <2> DEFINE y == ChapLowerDown(x)
    <2>1. ChapProtocolReject(x) = y
      BY <1>3 DEF ChapProtocolReject
    <2>2. /\ y \in LinkRecord /\ y.pap = x.pap /\ y.up = x.up /\ y.phase = x.phase
          /\ y.auth_pending = x.auth_pending /\ y.out = x.out
          /\ y.chap.serverstate = "INITIAL" /\ y.chap.clientstate = "INITIAL"
          /\ y.chap.chal_timers = 0 /\ y.chap.rechal_timers = 0 /\ y.chap.resp_timers = 0
          /\ y.chap.chal_id = x.chap.chal_id /\ y.chap.challenge = x.chap.challenge
      BY <1>1, ChapLowerDownFacts
    <2> SUFFICES Moves(x, y, s) /\ y.auth_pending = x.auth_pending
      BY <2>1
    <2> HIDE DEF y
    <2>3. y.out \in Seq(Said(y, s))
      BY <2>2, EmptySeq
    <2>4. ChapServerFits(y.chap, x.up, s)
      BY <1>1, <1>2, <1>3, <2>2 DEF Good, ChapServerFits, ChapPassed
    <2>5. ChapClientFits(y.chap, x.up, s)
      BY <2>2 DEF ChapClientFits
    <2>6. QED
      BY <1>2, <1>3, <2>2, <2>3, <2>4, <2>5, ChapUpdate DEF ChapPassed
  <1>4. CASE x.chap.serverstate \notin {"INITIAL", "CLOSED"}
    <2> DEFINE v == lcp_down(x)
               y == ChapLowerDown(v)
    <2>1. ChapProtocolReject(x) = y
      BY <1>2, <1>4 DEF ChapProtocolReject, auth_peer_fail
    <2>2. Falls(x, v)
      BY <1>1, LcpDownFalls
    <2> HIDE DEF v
    <2>3. v \in LinkRecord /\ ChapTimersLow(v.chap)
      BY <2>2 DEF Falls, ChapTimersLow
    <2>4. /\ y \in LinkRecord /\ y.pap = v.pap /\ y.up = v.up /\ y.phase = v.phase
          /\ y.auth_pending = v.auth_pending /\ y.out = v.out
          /\ y.chap.serverstate = "INITIAL" /\ y.chap.clientstate = "INITIAL"
          /\ y.chap.chal_timers = 0 /\ y.chap.rechal_timers = 0 /\ y.chap.resp_timers = 0
          /\ y.chap.chal_id = v.chap.chal_id /\ y.chap.challenge = v.chap.challenge
      BY <2>3, ChapLowerDownFacts
    <2> SUFFICES Moves(x, y, s) /\ y.auth_pending = x.auth_pending
      BY <2>1
    <2> HIDE DEF y
    <2>5. Fallen(y, s)
      BY <1>1, <2>2, <2>4 DEF Falls, Fallen
    <2>6. y.out = << >> /\ y.out \in Seq(Said(y, s))
      BY <2>2, <2>4, EmptySeq DEF Falls
    <2>7. QED
      BY <2>2, <2>4, <2>5, <2>6, FallenMoves DEF Falls
  <1>5. QED
    BY <1>3, <1>4

-----------------------------------------------------------------------------
(* upap_protrej: the peer that has to show a password has failed; PAP goes *)
(* down in any case.                                                       *)
LEMMA PapRejectMoves ==
  ASSUME NEW s \in Terms, NEW x, Good(x, s), x.out = << >>, x.up
  PROVE  LET y == upap_protrej(x)
         IN  Moves(x, y, s) /\ y.auth_pending = x.auth_pending
  <1>1. /\ x \in LinkRecord /\ ChapTimersLow(x.chap) /\ x.chap.challenge = x.chap.chal_id
        /\ x.pap.req_timers = (IF x.pap.us_serverstate = "LISTEN" THEN 1 ELSE 0)
        /\ (IF x.pap.us_serverstate = "LISTEN"
            THEN Cancelled(x.pap.req_timers) ELSE x.pap.req_timers) = 0
    BY GoodTimersLow
  <1>2. x.up = TRUE
    BY <1>1, LinkTypes
  <1>3. CASE x.pap.us_serverstate # "LISTEN"
    <2> DEFINE y == upap_lowerdown(x)
    <2>1. upap_protrej(x) = y
      BY <1>3 DEF upap_protrej
    <2>2. /\ y \in LinkRecord /\ y.chap = x.chap /\ y.up = x.up /\ y.phase = x.phase
          /\ y.auth_pending = x.auth_pending /\ y.out = x.out
          /\ y.pap.us_serverstate = "INITIAL" /\ y.pap.us_clientstate = "INITIAL"
          /\ y.pap.req_timers = IF x.pap.us_serverstate = "LISTEN"
                                THEN Cancelled(x.pap.req_timers) ELSE x.pap.req_timers
      BY <1>1, PapLowerDownFacts
    <2> SUFFICES Moves(x, y, s) /\ y.auth_pending = x.auth_pending
      BY <2>1
    <2> HIDE DEF y
    <2>3. y.out \in Seq(Said(y, s))
      BY <2>2, EmptySeq
    <2>4. PapServerFits(y.pap, x.up, s)
      BY <1>1, <1>2, <1>3, <2>2 DEF Good, PapServerFits
    <2>5. PapClientFits(y.pap, x.up, s)
      BY <2>2 DEF PapClientFits
    <2>6. QED
      BY <1>2, <1>3, <2>2, <2>3, <2>4, <2>5, PapUpdate DEF PapPassed
  <1>4. CASE x.pap.us_serverstate = "LISTEN"
    <2> DEFINE v == lcp_down(x)
               y == upap_lowerdown(v)
    <2>1. upap_protrej(x) = y
      BY <1>2, <1>4 DEF upap_protrej, auth_peer_fail
    <2>2. Falls(x, v)
      BY <1>1, LcpDownFalls
    <2> HIDE DEF v
    <2>3. v \in LinkRecord
      BY <2>2 DEF Falls
    <2>4. /\ y \in LinkRecord /\ y.chap = v.chap /\ y.up = v.up /\ y.phase = v.phase
          /\ y.auth_pending = v.auth_pending /\ y.out = v.out
          /\ y.pap.us_serverstate = "INITIAL" /\ y.pap.us_clientstate = "INITIAL"
          /\ y.pap.req_timers = IF v.pap.us_serverstate = "LISTEN"
                                THEN Cancelled(v.pap.req_timers) ELSE v.pap.req_timers
      BY <2>3, PapLowerDownFacts
    <2> SUFFICES Moves(x, y, s) /\ y.auth_pending = x.auth_pending
      BY <2>1
    <2> HIDE DEF y
    <2>5. Fallen(y, s)
      BY <1>1, <2>2, <2>4 DEF Falls, Fallen
    <2>6. y.out = << >> /\ y.out \in Seq(Said(y, s))
      BY <2>2, <2>4, EmptySeq DEF Falls
    <2>7. QED
      BY <2>2, <2>4, <2>5, <2>6, FallenMoves DEF Falls
  <1>5. QED
    BY <1>3, <1>4

(* upap_sauthreq.                                                          *)
LEMMA SauthreqFacts ==
  ASSUME NEW x \in LinkRecord, x.pap.us_transmits < MaxTransmits, NEW right \in BOOLEAN
  PROVE  LET y == upap_sauthreq(x, right)
         IN  /\ y \in LinkRecord /\ y.out = Append(x.out, [kind |-> "AUTHREQ", data |-> right])
             /\ y.chap = x.chap /\ y.up = x.up /\ y.phase = x.phase
             /\ y.auth_pending = x.auth_pending
             /\ y.pap.us_clientstate = "AUTHREQ" /\ y.pap.timers = x.pap.timers + 1
             /\ y.pap.us_serverstate = x.pap.us_serverstate
             /\ y.pap.req_timers = x.pap.req_timers
  <1> DEFINE m == [kind |-> "AUTHREQ", data |-> right]
             z == Send(x, m)
             p == [z.pap EXCEPT !.timers = @ + 1, !.us_transmits = @ + 1,
                                !.us_clientstate = "AUTHREQ"]
             y == [z EXCEPT !.pap = p]
  <1>1. m \in Packets
    BY DEF Packets
  <1>2. upap_sauthreq(x, right) = y
    BY DEF upap_sauthreq
  <1> HIDE DEF m
  <1>3. /\ z \in LinkRecord /\ z.out = Append(x.out, m) /\ z.chap = x.chap
        /\ z.pap = x.pap /\ z.up = x.up /\ z.phase = x.phase
        /\ z.auth_pending = x.auth_pending
    BY <1>1, SendFacts
  <1> HIDE DEF z
  <1>4. /\ z.pap \in PapRecord /\ z.pap.timers + 1 \in Nat
        /\ z.pap.us_transmits + 1 \in 0 .. MaxTransmits
    BY <1>3, PapTypes, AuthAssumption
  <1>5. /\ p \in PapRecord /\ p.us_clientstate = "AUTHREQ" /\ p.timers = x.pap.timers + 1
        /\ p.us_serverstate = x.pap.us_serverstate /\ p.req_timers = x.pap.req_timers
    BY <1>3, <1>4 DEF PapRecord
  <1> HIDE DEF p
  <1>6. /\ y \in LinkRecord /\ y.pap = p /\ y.chap = z.chap /\ y.up = z.up
        /\ y.phase = z.phase /\ y.auth_pending = z.auth_pending /\ y.out = z.out
    BY <1>3, <1>5, SetPap
  <1> HIDE DEF y
  <1>7. QED
    BY <1>2, <1>3, <1>5, <1>6 DEF m

(* The request names our password, the verdict judges the one of the peer. *)
LEMMA PapSaid ==
  ASSUME NEW s \in Terms, NEW x
  PROVE  /\ [kind |-> "AUTHREQ", data |-> s.mine] \in Said(x, s)
         /\ s.his /\ (x.up => x.pap.us_serverstate \in PapPassed)
              => [kind |-> "AUTHACK"] \in Said(x, s)
         /\ ~s.his => [kind |-> "AUTHNAK"] \in Said(x, s)
  BY DEF Said, Packets, Terms

(* upap_timeout: a late one does nothing; in time, the request is sent     *)
(* again or given up.                                                      *)
LEMMA PapTimerMoves ==
  ASSUME NEW s \in Terms, NEW x, Good(x, s), x.out = << >>, x.pap.timers > 0
  PROVE  LET y == upap_timeout([x EXCEPT !.pap.timers = @ - 1], s.mine)
         IN  Moves(x, y, s) /\ y.auth_pending = x.auth_pending
  <1> DEFINE p == [x.pap EXCEPT !.timers = x.pap.timers - 1]
             w == [x EXCEPT !.pap = p]
             y == upap_timeout(w, s.mine)
  <1>1. /\ x \in LinkRecord /\ x.pap \in PapRecord /\ x.pap.timers - 1 \in Nat
        /\ x.pap.us_transmits \in 0 .. MaxTransmits
    BY PapTypes DEF Good
  <1>2. /\ p \in PapRecord /\ p.us_clientstate = x.pap.us_clientstate
        /\ p.timers = x.pap.timers - 1 /\ p.us_transmits = x.pap.us_transmits
        /\ p.us_serverstate = x.pap.us_serverstate /\ p.req_timers = x.pap.req_timers
    BY <1>1 DEF PapRecord
  <1>3. [x EXCEPT !.pap.timers = @ - 1] = w
    OBVIOUS
  <1> HIDE DEF p
  <1>4. /\ w \in LinkRecord /\ w.pap = p /\ w.chap = x.chap /\ w.up = x.up
        /\ w.phase = x.phase /\ w.auth_pending = x.auth_pending /\ w.out = x.out
    BY <1>1, <1>2, SetPap
  <1> HIDE DEF w
  <1> SUFFICES Moves(x, y, s) /\ y.auth_pending = x.auth_pending
    BY <1>3
  <1>5. CASE x.pap.us_clientstate # "AUTHREQ"
    <2>1. y = w
      BY <1>2, <1>4, <1>5 DEF upap_timeout
    <2> HIDE DEF y
    <2>2. y.out \in Seq(Said(y, s))
      BY <1>4, <2>1, EmptySeq
    <2>3. PapServerFits(y.pap, x.up, s) /\ PapClientFits(y.pap, x.up, s)
      BY <1>2, <1>4, <1>5, <2>1 DEF Good, PapServerFits, PapClientFits
    <2>4. QED
      BY <1>2, <1>4, <2>1, <2>2, <2>3, PapUpdate
  <1>6. CASE x.pap.us_clientstate = "AUTHREQ" /\ x.pap.us_transmits >= MaxTransmits
    <2> DEFINE q == [w.pap EXCEPT !.us_clientstate = "BADAUTH"]
    <2>1. y = [w EXCEPT !.pap = q]
      BY <1>2, <1>4, <1>6 DEF upap_timeout
    <2>2. /\ q \in PapRecord /\ q.us_clientstate = "BADAUTH"
          /\ q.us_serverstate = x.pap.us_serverstate /\ q.req_timers = x.pap.req_timers
      BY <1>2, <1>4 DEF PapRecord
    <2> HIDE DEF q, y
    <2>3. /\ y \in LinkRecord /\ y.pap = q /\ y.chap = w.chap /\ y.up = w.up
          /\ y.phase = w.phase /\ y.auth_pending = w.auth_pending /\ y.out = w.out
      BY <1>4, <2>1, <2>2, SetPap
    <2>4. x.up
      BY <1>6 DEF Good, PapClientFits
    <2>5. y.out \in Seq(Said(y, s))
      BY <1>4, <2>3, EmptySeq
    <2>6. PapServerFits(y.pap, x.up, s) /\ PapClientFits(y.pap, x.up, s)
      BY <2>2, <2>3, <2>4 DEF Good, PapServerFits, PapClientFits
    <2>7. QED
      BY <1>4, <2>2, <2>3, <2>4, <2>5, <2>6, PapUpdate
  <1>7. CASE x.pap.us_clientstate = "AUTHREQ" /\ ~(x.pap.us_transmits >= MaxTransmits)
    <2>1. y = upap_sauthreq(w, s.mine)
      BY <1>2, <1>4, <1>7 DEF upap_timeout
    <2>2. w.pap.us_transmits < MaxTransmits /\ s.mine \in BOOLEAN
      BY <1>1, <1>2, <1>4, <1>7, AuthAssumption DEF Terms
    <2> HIDE DEF y
    <2>3. /\ y \in LinkRecord
          /\ y.out = Append(w.out, [kind |-> "AUTHREQ", data |-> s.mine])
          /\ y.chap = w.chap /\ y.up = w.up /\ y.phase = w.phase
          /\ y.auth_pending = w.auth_pending
          /\ y.pap.us_clientstate = "AUTHREQ" /\ y.pap.timers = w.pap.timers + 1
          /\ y.pap.us_serverstate = w.pap.us_serverstate
          /\ y.pap.req_timers = w.pap.req_timers
      BY <1>4, <2>1, <2>2, SauthreqFacts
    <2>4. x.up
      BY <1>7 DEF Good, PapClientFits
    <2>5. y.out \in Seq(Said(y, s))
      BY <1>4, <2>3, PapSaid, OneSaid
    <2>6. PapServerFits(y.pap, x.up, s)
      BY <1>2, <1>4, <2>3 DEF Good, PapServerFits
    <2>7. PapClientFits(y.pap, x.up, s)
      BY <1>1, <1>2, <1>4, <2>3, <2>4 DEF PapClientFits
    <2>8. QED
      BY <1>2, <1>4, <2>3, <2>4, <2>5, <2>6, <2>7, PapUpdate
  <1>8. QED
    BY <1>5, <1>6, <1>7

(* upap_reqtimeout: the peer has not shown a password in time.             *)
LEMMA PapReqTimerMoves ==
  ASSUME NEW s \in Terms, NEW x, Good(x, s), x.out = << >>, x.pap.req_timers > 0
  PROVE  LET y == upap_reqtimeout([x EXCEPT !.pap.req_timers = @ - 1])
         IN  Moves(x, y, s) /\ y.auth_pending = x.auth_pending
  <1> DEFINE p == [x.pap EXCEPT !.req_timers = x.pap.req_timers - 1]
             w == [x EXCEPT !.pap = p]
             v == lcp_down(w)
             q == [v.pap EXCEPT !.us_serverstate = "BADAUTH"]
             y == [v EXCEPT !.pap = q]
  <1>1. /\ x \in LinkRecord /\ x.pap \in PapRecord /\ x.up = TRUE /\ s.we = "pap"
        /\ x.pap.us_serverstate = "LISTEN" /\ x.pap.req_timers = 1
    BY LinkTypes, PapTypes DEF Good, PapServerFits
  <1>2. ChapTimersLow(x.chap) /\ x.chap.challenge = x.chap.chal_id
    BY GoodTimersLow
  <1>3. p \in PapRecord /\ p.us_serverstate = "LISTEN" /\ p.req_timers = 0
    BY <1>1 DEF PapRecord
  <1>4. [x EXCEPT !.pap.req_timers = @ - 1] = w
    OBVIOUS
  <1> HIDE DEF p
  <1>5. /\ w \in LinkRecord /\ w.pap = p /\ w.chap = x.chap /\ w.up = x.up
        /\ w.phase = x.phase /\ w.auth_pending = x.auth_pending /\ w.out = x.out
    BY <1>1, <1>3, SetPap
  <1> HIDE DEF w
  <1>6. upap_reqtimeout(w) = y
    BY <1>1, <1>3, <1>5 DEF upap_reqtimeout, auth_peer_fail
  <1>7. Falls(w, v)
    BY <1>2, <1>5, LcpDownFalls
  <1> HIDE DEF v
  <1>8. v \in LinkRecord /\ v.pap \in PapRecord /\ v.pap.req_timers = 0
    BY <1>3, <1>5, <1>7, PapTypes DEF Falls, Cancelled
  <1>9. /\ q \in PapRecord /\ q.us_serverstate = "BADAUTH" /\ q.us_clientstate = "INITIAL"
        /\ q.req_timers = 0
    BY <1>7, <1>8 DEF Falls, PapRecord
  <1> HIDE DEF q
  <1>10. /\ y \in LinkRecord /\ y.pap = q /\ y.chap = v.chap /\ y.up = v.up
         /\ y.phase = v.phase /\ y.auth_pending = v.auth_pending /\ y.out = v.out
    BY <1>8, <1>9, SetPap
  <1> SUFFICES Moves(x, y, s) /\ y.auth_pending = x.auth_pending
    BY <1>4, <1>6
  <1> HIDE DEF y
  <1>11. Fallen(y, s)
    BY <1>1, <1>2, <1>5, <1>7, <1>9, <1>10 DEF Falls, Fallen
  <1>12. y.out = << >> /\ y.out \in Seq(Said(y, s)) /\ y.auth_pending = x.auth_pending
    BY <1>5, <1>7, <1>10, EmptySeq DEF Falls
  <1>13. QED
    BY <1>11, <1>12, FallenMoves

(* upap_rauthreq: the password is judged once, the verdict repeated.       *)
LEMMA AuthReqMoves ==
  ASSUME NEW s \in Terms, NEW x, Good(x, s), x.out = << >>, x.up,
         NEW m \in Packets, m.kind = "AUTHREQ", m.data = s.his
  PROVE  LET y == upap_rauthreq(x, m)
         IN  /\ Moves(x, y, s)
             /\ \A b \in {"CHAP_WITHPEER", "UPAP_WITHPEER"} :
                  b \in x.auth_pending => b \in y.auth_pending
  <1>1. /\ x \in LinkRecord /\ x.up = TRUE /\ x.pap \in PapRecord /\ s.his \in BOOLEAN
        /\ x.pap.us_serverstate \in {"INITIAL", "CLOSED", "LISTEN", "OPEN"}
    BY LinkTypes, PapTypes DEF Good, PapServerFits, Terms
  <1>2. CASE x.pap.us_serverstate \in {"INITIAL", "CLOSED"}
    <2>1. upap_rauthreq(x, m) = x
      BY <1>2 DEF upap_rauthreq
    <2>2. QED
      BY <2>1, StaysPut
  <1>3. CASE x.pap.us_serverstate = "OPEN"
    <2> DEFINE y == Send(x, [kind |-> "AUTHACK"])
    <2>1. upap_rauthreq(x, m) = y
      BY <1>3 DEF upap_rauthreq
    <2>2. [kind |-> "AUTHACK"] \in Packets
      BY DEF Packets
    <2>3. /\ y \in LinkRecord /\ y.out = Append(x.out, [kind |-> "AUTHACK"])
          /\ y.chap = x.chap /\ y.pap = x.pap /\ y.up = x.up /\ y.phase = x.phase
          /\ y.auth_pending = x.auth_pending
      BY <1>1, <2>2, SendFacts
    <2> SUFFICES Moves(x, y, s) /\ y.auth_pending = x.auth_pending
      BY <2>1
    <2> HIDE DEF y
    <2>4. s.his /\ y.pap.us_serverstate \in PapPassed
      BY <1>1, <1>3, <2>3 DEF Good, PapServerFits, PapPassed
    <2>5. y.out \in Seq(Said(y, s))
      BY <2>3, <2>4, PapSaid, OneSaid
    <2>6. PapServerFits(y.pap, x.up, s) /\ PapClientFits(y.pap, x.up, s)
      BY <2>3 DEF Good
    <2>7. QED
      BY <1>1, <2>3, <2>5, <2>6, PapUpdate
  <1>4. CASE x.pap.us_serverstate = "LISTEN" /\ s.his = TRUE
    <2> DEFINE u == Send(x, [kind |-> "AUTHACK"])
               p == [u.pap EXCEPT !.us_serverstate = "OPEN"]
               w == [u EXCEPT !.pap = p]
               v == Settle(w, "UPAP_PEER")
               q == [v.pap EXCEPT !.req_timers = Cancelled(@)]
               y == [v EXCEPT !.pap = q]
    <2>1. upap_rauthreq(x, m) = y
      BY <1>4 DEF upap_rauthreq, auth_peer_success
    <2>2. [kind |-> "AUTHACK"] \in Packets
      BY DEF Packets
    <2>3. /\ u \in LinkRecord /\ u.out = Append(x.out, [kind |-> "AUTHACK"])
          /\ u.chap = x.chap /\ u.pap = x.pap /\ u.up = x.up /\ u.phase = x.phase
          /\ u.auth_pending = x.auth_pending
      BY <1>1, <2>2, SendFacts
    <2> HIDE DEF u
    <2>4. /\ p \in PapRecord /\ p.us_serverstate = "OPEN"
          /\ p.req_timers = x.pap.req_timers /\ p.us_clientstate = x.pap.us_clientstate
          /\ p.timers = x.pap.timers
      BY <1>1, <2>3 DEF PapRecord
    <2> HIDE DEF p
    <2>5. /\ w \in LinkRecord /\ w.pap = p /\ w.chap = u.chap /\ w.up = u.up
          /\ w.phase = u.phase /\ w.auth_pending = u.auth_pending /\ w.out = u.out
      BY <2>3, <2>4, SetPap
    <2> HIDE DEF w
    <2>6. "UPAP_PEER" \in Bits
      BY DEF Bits
    <2>7. /\ v \in LinkRecord /\ v.chap = w.chap /\ v.pap = w.pap /\ v.up = w.up
          /\ v.out = w.out /\ v.auth_pending = w.auth_pending \ {"UPAP_PEER"}
          /\ w.phase = "DOWN" <=> v.phase = "DOWN"
          /\ v.phase = "NETWORK" => w.phase = "NETWORK" \/ v.auth_pending = {}
      BY <2>5, <2>6, SettleFacts
    <2> HIDE DEF v
    <2>8. x.pap.req_timers = 1
      BY <1>1, <1>4 DEF Good, PapServerFits
    <2>9. Cancelled(v.pap.req_timers) = 0 /\ v.pap = p
      BY <2>4, <2>5, <2>7, <2>8 DEF Cancelled
    <2>10. /\ q \in PapRecord /\ q.us_serverstate = "OPEN" /\ q.req_timers = 0
           /\ q.us_clientstate = x.pap.us_clientstate /\ q.timers = x.pap.timers
      BY <2>4, <2>9 DEF PapRecord
    <2> HIDE DEF q
    <2>11. /\ y \in LinkRecord /\ y.pap = q /\ y.chap = v.chap /\ y.up = v.up
           /\ y.phase = v.phase /\ y.auth_pending = v.auth_pending /\ y.out = v.out
      BY <2>7, <2>10, SetPap
    <2> SUFFICES /\ Moves(x, y, s)
                 /\ \A b \in {"CHAP_WITHPEER", "UPAP_WITHPEER"} :
                      b \in x.auth_pending => b \in y.auth_pending
      BY <2>1
    <2> HIDE DEF y
    <2>12. /\ y.up = TRUE /\ y.chap = x.chap /\ y.pap.us_serverstate = "OPEN"
           /\ y.out = Append(<< >>, [kind |-> "AUTHACK"])
           /\ y.auth_pending = x.auth_pending \ {"UPAP_PEER"}
           /\ x.phase = "DOWN" <=> y.phase = "DOWN"
           /\ y.phase = "NETWORK" => x.phase = "NETWORK" \/ y.auth_pending = {}
      BY <1>1, <2>3, <2>5, <2>7, <2>10, <2>11
    <2>13. [kind |-> "AUTHACK"] \in Said(y, s)
      BY <1>4, <2>12, PapSaid DEF PapPassed
    <2>14. y.out \in Seq(Said(y, s))
      BY <2>12, <2>13, OneSaid
    <2>15. PapServerFits(y.pap, y.up, s)
      BY <1>1, <1>4, <2>10, <2>11, <2>12 DEF Good, PapServerFits
    <2>16. PapClientFits(y.pap, y.up, s)
      BY <1>1, <2>10, <2>11, <2>12 DEF Good, PapClientFits
    <2>17. ChapServerFits(y.chap, y.up, s) /\ ChapClientFits(y.chap, y.up, s)
      BY <1>1, <2>12 DEF Good
    <2>18. PhaseFits(y, s)
      BY <1>1, <2>12 DEF Good, PhaseFits
    <2>19. Moves(x, y, s)
      BY <1>1, <2>11, <2>12, <2>14, <2>15, <2>16, <2>17, <2>18 DEF Moves, Good, PapPassed
    <2>20. QED
      BY <2>12, <2>19
  <1>5. CASE x.pap.us_serverstate = "LISTEN" /\ s.his = FALSE
    <2> DEFINE u == Send(x, [kind |-> "AUTHNAK"])
               p == [u.pap EXCEPT !.us_serverstate = "BADAUTH"]
               w == [u EXCEPT !.pap = p]
               v == lcp_down(w)
               q == [v.pap EXCEPT !.req_timers = Cancelled(@)]
               y == [v EXCEPT !.pap = q]
    <2>1. upap_rauthreq(x, m) = [auth_peer_fail(w) EXCEPT !.pap.req_timers = Cancelled(@)]
      BY <1>5 DEF upap_rauthreq
    <2>2. [kind |-> "AUTHNAK"] \in Packets
      BY DEF Packets
    <2>3. /\ u \in LinkRecord /\ u.out = Append(x.out, [kind |-> "AUTHNAK"])
          /\ u.chap = x.chap /\ u.pap = x.pap /\ u.up = x.up /\ u.phase = x.phase
          /\ u.auth_pending = x.auth_pending
      BY <1>1, <2>2, SendFacts
    <2> HIDE DEF u
    <2>4. p \in PapRecord /\ p.us_serverstate = "BADAUTH" /\ p.req_timers = x.pap.req_timers
      BY <1>1, <2>3 DEF PapRecord
    <2> HIDE DEF p
    <2>5. /\ w \in LinkRecord /\ w.pap = p /\ w.chap = u.chap /\ w.up = u.up
          /\ w.phase = u.phase /\ w.auth_pending = u.auth_pending /\ w.out = u.out
      BY <2>3, <2>4, SetPap
    <2> HIDE DEF w
    <2>6. auth_peer_fail(w) = v
      BY <1>1, <2>3, <2>5 DEF auth_peer_fail
    <2>7. ChapTimersLow(w.chap) /\ w.chap.challenge = w.chap.chal_id
      BY <2>3, <2>5, GoodTimersLow
    <2>8. Falls(w, v)
      BY <2>5, <2>7, LcpDownFalls
    <2>9. upap_rauthreq(x, m) = y
      BY <2>1, <2>6
    <2> HIDE DEF v
    <2>10. x.pap.req_timers = 1
      BY <1>1, <1>5 DEF Good, PapServerFits
    <2>11. v \in LinkRecord /\ v.pap \in PapRecord /\ Cancelled(v.pap.req_timers) = 0
      BY <2>4, <2>5, <2>8, <2>10, PapTypes DEF Falls, Cancelled
    <2>12. /\ q \in PapRecord /\ q.us_serverstate = "INITIAL" /\ q.us_clientstate = "INITIAL"
           /\ q.req_timers = 0
      BY <2>8, <2>11 DEF Falls, PapRecord
    <2> HIDE DEF q
    <2>13. /\ y \in LinkRecord /\ y.pap = q /\ y.chap = v.chap /\ y.up = v.up
           /\ y.phase = v.phase /\ y.auth_pending = v.auth_pending /\ y.out = v.out
      BY <2>11, <2>12, SetPap
    <2> SUFFICES Moves(x, y, s) /\ y.auth_pending = x.auth_pending
      BY <2>9
    <2> HIDE DEF y
    <2>14. Fallen(y, s)
      BY <2>7, <2>8, <2>12, <2>13 DEF Falls, Fallen
    <2>15. /\ y.out = Append(<< >>, [kind |-> "AUTHNAK"])
           /\ y.auth_pending = x.auth_pending
      BY <2>3, <2>5, <2>8, <2>13 DEF Falls
    <2>16. [kind |-> "AUTHNAK"] \in Said(y, s)
      BY <1>5, PapSaid
    <2>17. y.out \in Seq(Said(y, s))
      BY <2>15, <2>16, OneSaid
    <2>18. QED
      BY <1>1, <2>14, <2>15, <2>17, FallenMoves
  <1>6. QED
    BY <1>1, <1>2, <1>3, <1>4, <1>5

-----------------------------------------------------------------------------
(* LCP comes up: first both protocols leave their initial states, ...      *)
Opened(y, s) ==
    /\ y \in LinkRecord /\ y.up = TRUE /\ y.out = << >>
    /\ y.chap.serverstate = "CLOSED" /\ y.chap.clientstate = "CLOSED"
    /\ y.chap.chal_timers = 0 /\ y.chap.rechal_timers = 0 /\ y.chap.resp_timers = 0
    /\ y.chap.challenge = y.chap.chal_id
    /\ y.pap.us_clientstate = "CLOSED" /\ y.pap.req_timers = 0
    /\ \/ y.pap.us_serverstate = "CLOSED"
       \/ y.pap.us_serverstate = "BADAUTH" /\ s.we = "pap"

LEMMA LowerUpOpened ==
  ASSUME NEW s \in Terms, NEW x, Good(x, s), x.out = << >>, ~x.up, NEW right
  PROVE  Opened(upap_lowerup(ChapLowerUp([x EXCEPT !.up = TRUE]), right), s)
  <1> DEFINE w == [x EXCEPT !.up = TRUE]
             c == [w.chap EXCEPT !.clientstate = "CLOSED", !.serverstate = "CLOSED"]
             v == [w EXCEPT !.chap = c]
             p == [v.pap EXCEPT !.us_clientstate = "CLOSED"]
             u == [v EXCEPT !.pap = p]
             q == [u.pap EXCEPT !.us_serverstate = "CLOSED"]
             y == IF u.pap.us_serverstate = "INITIAL" THEN [u EXCEPT !.pap = q] ELSE u
  <1>1. /\ x \in LinkRecord /\ x.chap.serverstate = "INITIAL"
        /\ x.chap.clientstate = "INITIAL" /\ x.chap.challenge = x.chap.chal_id
        /\ x.chap.chal_timers = 0 /\ x.chap.rechal_timers = 0 /\ x.chap.resp_timers \in Nat
        /\ x.chap.resp_timers <= 0
        /\ x.pap.us_clientstate = "INITIAL" /\ x.pap.req_timers = 0
        /\ x.pap.us_serverstate \in {"INITIAL", "BADAUTH"}
        /\ x.pap.us_serverstate = "BADAUTH" => s.we = "pap"
    BY ChapTypes DEF Good, ChapServerFits, ChapClientFits, PapServerFits, PapClientFits
  <1>2. /\ w \in LinkRecord /\ w.up = TRUE /\ w.chap = x.chap /\ w.pap = x.pap
        /\ w.out = x.out
    BY <1>1 DEF LinkRecord
  <1> HIDE DEF w
  <1>3. ChapLowerUp(w) = v
    BY <1>1, <1>2 DEF ChapLowerUp
  <1>4. w.chap \in ChapRecord /\ w.pap \in PapRecord
    BY <1>2, ChapTypes, PapTypes
  <1>5. /\ c \in ChapRecord /\ c.serverstate = "CLOSED" /\ c.clientstate = "CLOSED"
        /\ c.chal_timers = 0 /\ c.rechal_timers = 0 /\ c.resp_timers = 0
        /\ c.challenge = c.chal_id
    <2>1. w.chap.resp_timers = 0
      BY <1>1, <1>2
    <2>2. QED
      BY <1>1, <1>2, <1>4, <2>1 DEF ChapRecord, ServerStates, ClientStates
  <1> HIDE DEF c
  <1>6. /\ v \in LinkRecord /\ v.chap = c /\ v.pap = w.pap /\ v.up = w.up
        /\ v.out = w.out
    BY <1>2, <1>5, SetChap
  <1> HIDE DEF v
  <1>7. /\ p \in PapRecord /\ p.us_clientstate = "CLOSED" /\ p.req_timers = 0
        /\ p.us_serverstate = x.pap.us_serverstate
    BY <1>1, <1>2, <1>4, <1>6 DEF PapRecord
  <1>8. upap_lowerup(v, right) = y
    <2>1. v.pap.us_clientstate = "INITIAL"
      BY <1>1, <1>2, <1>6
    <2>2. u.pap.us_serverstate \in {"INITIAL", "BADAUTH"}
      BY <1>1, <1>6, <1>7, SetPap
    <2>3. (CASE v.pap.us_clientstate = "INITIAL" -> [v EXCEPT !.pap.us_clientstate = "CLOSED"]
             [] v.pap.us_clientstate = "PENDING" -> upap_sauthreq(v, right)
             [] OTHER -> v) = u
      BY <2>1
    <2>4. upap_lowerup(v, right)
            = (CASE u.pap.us_serverstate = "INITIAL" ->
                      [u EXCEPT !.pap.us_serverstate = "CLOSED"]
                 [] u.pap.us_serverstate = "PENDING" -> Listen(u)
                 [] OTHER -> u)
      BY <2>3, Zenon DEF upap_lowerup
    <2> HIDE DEF u
    <2>5. CASE u.pap.us_serverstate = "INITIAL"
      BY <2>4, <2>5
    <2>6. CASE u.pap.us_serverstate = "BADAUTH"
      BY <2>4, <2>6
    <2>7. QED
      BY <2>2, <2>5, <2>6
  <1> HIDE DEF p
  <1>9. /\ u \in LinkRecord /\ u.pap = p /\ u.chap = v.chap /\ u.up = v.up
        /\ u.out = v.out
    BY <1>6, <1>7, SetPap
  <1> HIDE DEF u
  <1>10. CASE x.pap.us_serverstate = "INITIAL"
    <2>1. /\ q \in PapRecord /\ q.us_serverstate = "CLOSED" /\ q.us_clientstate = "CLOSED"
          /\ q.req_timers = 0
      BY <1>7, <1>9 DEF PapRecord
    <2>2. y = [u EXCEPT !.pap = q]
      BY <1>7, <1>9, <1>10
    <2> SUFFICES Opened(y, s)
      BY <1>3, <1>8 DEF w
    <2> HIDE DEF q, y
    <2>3. /\ y \in LinkRecord /\ y.pap = q /\ y.chap = u.chap /\ y.up = u.up
          /\ y.out = u.out
      BY <1>9, <2>1, <2>2, SetPap
    <2>4. QED
      BY <1>2, <1>5, <1>6, <1>9, <2>1, <2>3 DEF Opened
  <1>11. CASE x.pap.us_serverstate = "BADAUTH"
    <2>1. y = u
      BY <1>7, <1>9, <1>11
    <2> SUFFICES Opened(u, s)
      BY <1>3, <1>8, <2>1 DEF w
    <2>2. QED
      BY <1>1, <1>2, <1>5, <1>6, <1>7, <1>9, <1>11 DEF Opened
  <1>12. QED
    BY <1>1, <1>10, <1>11

(* ... then the peer is asked to authenticate itself, ...                  *)
Asked(y, s) ==
    /\ y \in LinkRecord /\ y.up = TRUE
    /\ ChapServerFits(y.chap, TRUE, s) /\ PapServerFits(y.pap, TRUE, s)
    /\ y.chap.clientstate = "CLOSED" /\ y.chap.resp_timers = 0
    /\ y.pap.us_clientstate = "CLOSED"
    /\ \A z : y.out \in Seq(Said(z, s))

LEMMA AuthPeerAsked ==
  ASSUME NEW s \in Terms, NEW x, Opened(x, s)
  PROVE  Asked(CASE s.we = "chap" -> ChapAuthPeer(x)
                 [] s.we = "pap" -> upap_authpeer(x)
                 [] OTHER -> x, s)
  <1>1. x \in LinkRecord /\ x.pap \in PapRecord
    BY PapTypes DEF Opened
  <1>2. CASE s.we = "chap"
    <2> DEFINE y == Challenge(x, "INITIAL_CHAL")
    <2>1. (CASE s.we = "chap" -> ChapAuthPeer(x)
             [] s.we = "pap" -> upap_authpeer(x)
             [] OTHER -> x) = ChapAuthPeer(x)
      BY <1>2
    <2>2. ChapAuthPeer(x) = y
      BY DEF ChapAuthPeer, Opened
    <2>3. Challenged(x, y, "INITIAL_CHAL")
      BY ChallengeFacts DEF Opened, ServerStates
    <2> SUFFICES Asked(y, s)
      BY <2>1, <2>2
    <2> HIDE DEF y
    <2>4. PICK i \in Ids : y.out = Append(<< >>, [kind |-> "CHALLENGE", id |-> i, data |-> i])
      BY <2>3 DEF Challenged, Opened
    <2>5. \A z : y.out \in Seq(Said(z, s))
      BY <2>4, ChallengeSaid, OneSaid
    <2>6. ChapServerFits(y.chap, TRUE, s)
      BY <2>3 DEF Challenged, Opened, ChapServerFits, ChapPassed
    <2>7. PapServerFits(y.pap, TRUE, s)
      BY <1>2, <2>3 DEF Challenged, Opened, PapServerFits
    <2>8. QED
      BY <2>3, <2>5, <2>6, <2>7 DEF Asked, Challenged, Opened
  <1>3. CASE s.we = "pap"
    <2> DEFINE r == x.pap.req_timers + 1
               p == [x.pap EXCEPT !.us_serverstate = "LISTEN", !.req_timers = r]
               y == [x EXCEPT !.pap = p]
    <2>1. (CASE s.we = "chap" -> ChapAuthPeer(x)
             [] s.we = "pap" -> upap_authpeer(x)
             [] OTHER -> x) = upap_authpeer(x)
      BY <1>3
    <2>2. upap_authpeer(x) = y
      BY DEF upap_authpeer, Opened, Listen
    <2>3. r = 1 /\ x.pap.us_clientstate = "CLOSED"
      BY DEF Opened
    <2> HIDE DEF r
    <2>4. /\ p \in PapRecord /\ p.us_serverstate = "LISTEN" /\ p.req_timers = 1
          /\ p.us_clientstate = "CLOSED"
      BY <1>1, <2>3 DEF PapRecord
    <2> HIDE DEF p
    <2>5. y \in LinkRecord /\ y.pap = p /\ y.chap = x.chap /\ y.up = x.up /\ y.out = x.out
      BY <1>1, <2>4, SetPap
    <2> SUFFICES Asked(y, s)
      BY <2>1, <2>2
    <2> HIDE DEF y
    <2>6. \A z : y.out \in Seq(Said(z, s))
      BY <2>5, EmptySeq DEF Opened
    <2>7. ChapServerFits(y.chap, TRUE, s)
      BY <1>3, <2>5 DEF Opened, ChapServerFits, ChapPassed
    <2>8. PapServerFits(y.pap, TRUE, s)
      BY <1>3, <2>4, <2>5 DEF PapServerFits
    <2>9. QED
      BY <2>4, <2>5, <2>6, <2>7, <2>8 DEF Asked, Opened
  <1>4. CASE s.we = "none"
    <2>1. (CASE s.we = "chap" -> ChapAuthPeer(x)
             [] s.we = "pap" -> upap_authpeer(x)
             [] OTHER -> x) = x
      BY <1>4
    <2>2. \A z : x.out \in Seq(Said(z, s))
      BY EmptySeq DEF Opened
    <2>3. ChapServerFits(x.chap, TRUE, s)
      BY <1>4 DEF Opened, ChapServerFits, ChapPassed
    <2>4. PapServerFits(x.pap, TRUE, s)
      BY <1>4 DEF Opened, PapServerFits
    <2>5. QED
      BY <2>1, <2>2, <2>3, <2>4 DEF Asked, Opened
  <1>5. QED
    BY <1>2, <1>3, <1>4 DEF Terms

(* ... and what the peer asks of us is begun.                              *)
Begun(y, s) ==
    /\ y \in LinkRecord /\ y.up = TRUE
    /\ ChapServerFits(y.chap, TRUE, s) /\ PapServerFits(y.pap, TRUE, s)
    /\ ChapClientFits(y.chap, TRUE, s) /\ PapClientFits(y.pap, TRUE, s)
    /\ \A z : y.out \in Seq(Said(z, s))

LEMMA AuthWithPeerBegun ==
  ASSUME NEW s \in Terms, NEW x, Asked(x, s)
  PROVE  Begun(CASE s.they = "chap" -> ChapAuthWithPeer(x)
                 [] s.they = "pap" -> upap_authwithpeer(x, s.mine)
                 [] OTHER -> x, s)
  <1>1. x \in LinkRecord /\ x.pap \in PapRecord /\ x.chap \in ChapRecord
    BY ChapTypes, PapTypes DEF Asked
  <1>2. CASE s.they = "chap"
    <2> DEFINE c == [x.chap EXCEPT !.clientstate = "LISTEN"]
               y == [x EXCEPT !.chap = c]
    <2>1. (CASE s.they = "chap" -> ChapAuthWithPeer(x)
             [] s.they = "pap" -> upap_authwithpeer(x, s.mine)
             [] OTHER -> x) = ChapAuthWithPeer(x)
      BY <1>2
    <2>2. ChapAuthWithPeer(x) = y
      BY DEF ChapAuthWithPeer, Asked
    <2>3. /\ c \in ChapRecord /\ c.clientstate = "LISTEN" /\ c.resp_timers = x.chap.resp_timers
          /\ c.serverstate = x.chap.serverstate /\ c.chal_id = x.chap.chal_id
          /\ c.challenge = x.chap.challenge /\ c.chal_timers = x.chap.chal_timers
          /\ c.rechal_timers = x.chap.rechal_timers
      BY <1>1 DEF ChapRecord, ClientStates
    <2> HIDE DEF c
    <2>4. y \in LinkRecord /\ y.chap = c /\ y.pap = x.pap /\ y.up = x.up /\ y.out = x.out
      BY <1>1, <2>3, SetChap
    <2> SUFFICES Begun(y, s)
      BY <2>1, <2>2
    <2> HIDE DEF y
    <2>5. ChapServerFits(y.chap, TRUE, s)
      BY <2>3, <2>4 DEF Asked, ChapServerFits
    <2>6. ChapClientFits(y.chap, TRUE, s)
      BY <2>3, <2>4 DEF Asked, ChapClientFits
    <2>7. PapClientFits(y.pap, TRUE, s)
      BY <2>4 DEF Asked, PapClientFits
    <2>8. QED
      BY <2>4, <2>5, <2>6, <2>7 DEF Asked, Begun
  <1>3. CASE s.they = "pap"
    <2> DEFINE p == [x.pap EXCEPT !.us_transmits = 0]
               w == [x EXCEPT !.pap = p]
               y == upap_sauthreq(w, s.mine)
    <2>1. (CASE s.they = "chap" -> ChapAuthWithPeer(x)
             [] s.they = "pap" -> upap_authwithpeer(x, s.mine)
             [] OTHER -> x) = upap_authwithpeer(x, s.mine)
      BY <1>3
    <2>2. upap_authwithpeer(x, s.mine) = y
      BY DEF upap_authwithpeer, Asked
    <2>3. 0 \in 0 .. MaxTransmits /\ 0 < MaxTransmits /\ s.mine \in BOOLEAN
      BY AuthAssumption DEF Terms
    <2>4. /\ p \in PapRecord /\ p.us_transmits = 0 /\ p.req_timers = x.pap.req_timers
          /\ p.us_serverstate = x.pap.us_serverstate /\ p.timers = x.pap.timers
      BY <1>1, <2>3 DEF PapRecord
    <2> HIDE DEF p
    <2>5. w \in LinkRecord /\ w.pap = p /\ w.chap = x.chap /\ w.up = x.up /\ w.out = x.out
      BY <1>1, <2>4, SetPap
    <2> HIDE DEF w
    <2>6. w.pap.us_transmits < MaxTransmits
      BY <2>3, <2>4, <2>5
    <2>7. /\ y \in LinkRecord
          /\ y.out = Append(w.out, [kind |-> "AUTHREQ", data |-> s.mine])
          /\ y.chap = w.chap /\ y.up = w.up
          /\ y.pap.us_clientstate = "AUTHREQ" /\ y.pap.timers = w.pap.timers + 1
          /\ y.pap.us_serverstate = w.pap.us_serverstate
          /\ y.pap.req_timers = w.pap.req_timers
      BY <2>3, <2>5, <2>6, SauthreqFacts
    <2> SUFFICES Begun(y, s)
      BY <2>1, <2>2
    <2> HIDE DEF y
    <2>8. ASSUME NEW z PROVE y.out \in Seq(Said(z, s))
      <3>1. x.out \in Seq(Said(z, s)) /\ [kind |-> "AUTHREQ", data |-> s.mine] \in Said(z, s)
        BY PapSaid DEF Asked
      <3>2. QED
        BY <2>5, <2>7, <3>1, AppendProperties
    <2>9. PapServerFits(y.pap, TRUE, s)
      BY <2>4, <2>5, <2>7 DEF Asked, PapServerFits
    <2>10. PapClientFits(y.pap, TRUE, s)
      <3>1. x.pap.timers \in Nat
        BY <1>1, PapTypes
      <3>2. QED
        BY <2>4, <2>5, <2>7, <3>1 DEF PapClientFits
    <2>11. ChapClientFits(y.chap, TRUE, s)
      BY <2>5, <2>7 DEF Asked, ChapClientFits
    <2>12. QED
      BY <2>5, <2>7, <2>8, <2>9, <2>10, <2>11 DEF Asked, Begun
  <1>4. CASE s.they = "none"
    <2>1. (CASE s.they = "chap" -> ChapAuthWithPeer(x)
             [] s.they = "pap" -> upap_authwithpeer(x, s.mine)
             [] OTHER -> x) = x
      BY <1>4
    <2>2. ChapClientFits(x.chap, TRUE, s) /\ PapClientFits(x.pap, TRUE, s)
      BY DEF Asked, ChapClientFits, PapClientFits
    <2>3. QED
      BY <2>1, <2>2 DEF Asked, Begun
  <1>5. QED
    BY <1>2, <1>3, <1>4 DEF Terms

(* lcp_up: everything that was asked for is pending, and what is sent      *)
(* holds whatever becomes of the link.                                     *)
LEMMA UpFacts ==
  ASSUME NEW s \in Terms, NEW x, Good(x, s), x.out = << >>, ~x.up
  PROVE  LET y == lcp_up(x, s.we, s.they, s.mine)
         IN  /\ Good(y, s) /\ y.up = TRUE /\ AllPending(y, s)
             /\ \A z : y.out \in Seq(Said(z, s))
  <1> DEFINE u == upap_lowerup(ChapLowerUp([x EXCEPT !.up = TRUE]), s.mine)
             v == CASE s.we = "chap" -> ChapAuthPeer(u)
                    [] s.we = "pap" -> upap_authpeer(u)
                    [] OTHER -> u
             w == CASE s.they = "chap" -> ChapAuthWithPeer(v)
                    [] s.they = "pap" -> upap_authwithpeer(v, s.mine)
                    [] OTHER -> v
             auth == {b \in Bits : \/ b = "CHAP_PEER" /\ s.we = "chap"
                                   \/ b = "UPAP_PEER" /\ s.we = "pap"
                                   \/ b = "CHAP_WITHPEER" /\ s.they = "chap"
                                   \/ b = "UPAP_WITHPEER" /\ s.they = "pap"}
             ph == IF auth = {} THEN "NETWORK" ELSE "AUTHENTICATE"
             y == [w EXCEPT !.auth_pending = auth, !.phase = ph]
  <1>1. lcp_up(x, s.we, s.they, s.mine) = y
    BY Zenon DEF lcp_up, link_established
  <1>2. Opened(u, s)
    BY LowerUpOpened
  <1> HIDE DEF u
  <1>3. Asked(v, s)
    BY <1>2, AuthPeerAsked
  <1> HIDE DEF v
  <1>4. Begun(w, s)
    BY <1>3, AuthWithPeerBegun
  <1> HIDE DEF w
  <1>5. /\ auth \in SUBSET Bits /\ ph \in {"NETWORK", "AUTHENTICATE"}
        /\ ph = "NETWORK" => auth = {}
        /\ s.we = "chap" => "CHAP_PEER" \in auth
        /\ s.we = "pap" => "UPAP_PEER" \in auth
        /\ s.they = "chap" => "CHAP_WITHPEER" \in auth
        /\ s.they = "pap" => "UPAP_WITHPEER" \in auth
    BY DEF Bits
  <1> HIDE DEF auth, ph
  <1>6. /\ y \in LinkRecord /\ y.up = TRUE /\ y.chap = w.chap /\ y.pap = w.pap
        /\ y.out = w.out /\ y.auth_pending = auth /\ y.phase = ph
    BY <1>4, <1>5 DEF LinkRecord, Begun
  <1> SUFFICES /\ Good(y, s) /\ y.up = TRUE /\ AllPending(y, s)
               /\ \A z : y.out \in Seq(Said(z, s))
    BY <1>1
  <1> HIDE DEF y
  <1>7. PhaseFits(y, s)
    BY <1>5, <1>6 DEF PhaseFits
  <1>8. Good(y, s)
    BY <1>4, <1>6, <1>7 DEF Good, Begun
  <1>9. AllPending(y, s)
    BY <1>5, <1>6 DEF AllPending
  <1>10. QED
    BY <1>4, <1>6, <1>8, <1>9 DEF Begun

-----------------------------------------------------------------------------
(* The line between the two ends                                           *)

LEMMA PeerFacts ==
  ASSUME NEW e \in Ends
  PROVE  /\ Peer(e) \in Ends /\ Peer(e) # e /\ Peer(Peer(e)) = e
         /\ Ends = {e, Peer(e)}
  <1>1. PICK f \in Ends : Ends = {e, f} /\ e # f
    BY PairAssumption
  <1>2. Peer(e) \in Ends /\ Peer(e) # e
    BY <1>1 DEF Peer
  <1>3. Peer(e) = f
    BY <1>1, <1>2
  <1>4. Peer(f) \in Ends /\ Peer(f) # f
    BY <1>1 DEF Peer
  <1>5. QED
    BY <1>1, <1>3, <1>4

LEMMA TermsFacts ==
  ASSUME NEW e \in Ends, setup \in Setups
  PROVE  /\ TermsOf(e) \in Terms
         /\ TermsOf(Peer(e)).we = TermsOf(e).they /\ TermsOf(Peer(e)).they = TermsOf(e).we
         /\ TermsOf(Peer(e)).mine = TermsOf(e).his /\ TermsOf(Peer(e)).his = TermsOf(e).mine
  <1>1. setup \in SetupRecord /\ Peer(e) \in Ends /\ Peer(Peer(e)) = e
    BY PeerFacts, PairAssumption
  <1>2. TermsOf(e) \in Terms
    BY <1>1 DEF SetupRecord, TermsOf, Terms
  <1>3. QED
    BY <1>1, <1>2 DEF TermsOf

(* What an end stands by after a handler includes what it stood by before. *)
LEMMA SaidMonotone ==
  ASSUME NEW x, NEW y, NEW s, Moves(x, y, s) PROVE Said(x, s) \subseteq Said(y, s)
  BY DEF Moves, Said

LEMMA SaidPackets ==
  ASSUME NEW x, NEW s, NEW q \in Seq(Said(x, s)) PROVE q \in Seq(Packets)
  <1>1. Said(x, s) \subseteq Packets
    BY DEF Said
  <1>2. QED
    BY <1>1, SeqMonotonic

(* The line takes what it has room for.                                    *)
LEMMA CutFacts ==
  ASSUME NEW S, NEW a \in Seq(S), NEW b \in Seq(S)
  PROVE  LET sent == a \o b
             c == SubSeq(sent, 1, IF Len(sent) < MaxInFlight THEN Len(sent) ELSE MaxInFlight)
         IN  c \in Seq(S) /\ (a = << >> /\ b = << >> => c = << >>)
  <1> DEFINE sent == a \o b
             k == IF Len(sent) < MaxInFlight THEN Len(sent) ELSE MaxInFlight
             c == SubSeq(sent, 1, k)
  <1>1. sent \in Seq(S) /\ Len(sent) = Len(a) + Len(b)
    BY ConcatProperties
  <1>2. k \in Nat /\ k <= Len(sent)
    BY <1>1, PairAssumption
  <1>3. a = << >> /\ b = << >> => k = 0
    BY <1>1, PairAssumption
  <1> HIDE DEF sent, k
  <1>4. \A i \in 1 .. k : sent[i] \in S
    BY <1>1, <1>2, ElementOfSeq
  <1>5. c \in Seq(S) /\ Len(c) = k
    BY <1>2, <1>4, SubSeqProperties
  <1>6. a = << >> /\ b = << >> => c = << >>
    BY <1>2, <1>3, <1>5, EmptySeq
  <1>7. QED
    BY <1>5, <1>6 DEF sent, k

(* What a handler has sent is on the line, not in the link.                *)
Resting(x) == [x EXCEPT !.out = << >>]

LEMMA RestingGood ==
  ASSUME NEW s \in Terms, NEW x, Good(x, s)
  PROVE  LET y == Resting(x)
         IN  /\ Good(y, s) /\ y.out = << >> /\ y.up = x.up /\ y.chap = x.chap
             /\ y.pap = x.pap /\ y.auth_pending = x.auth_pending
  <1> DEFINE y == Resting(x)
  <1>1. x \in LinkRecord /\ << >> \in Seq(Packets)
    BY EmptySeq DEF Good
  <1>2. /\ y \in LinkRecord /\ y.out = << >> /\ y.up = x.up /\ y.chap = x.chap
        /\ y.pap = x.pap /\ y.auth_pending = x.auth_pending /\ y.phase = x.phase
    BY <1>1 DEF Resting, LinkRecord
  <1> HIDE DEF y
  <1>3. Good(y, s)
    BY <1>2 DEF Good, PhaseFits
  <1>4. QED
    BY <1>2, <1>3 DEF y

(* Becomes, end by end.                                                    *)
LEMMA BecomesFacts ==
  ASSUME PairType, NEW e \in Ends, NEW x, NEW rest \in [Ends -> Seq(Packets)],
         Good(x, TermsOf(e)), x.out \in Seq(Packets), Becomes(e, x, rest)
  PROVE  /\ setup' = setup /\ n' \in [Ends -> LinkRecord] /\ line' \in [Ends -> Seq(Packets)]
         /\ n'[e] = Resting(x) /\ n'[Peer(e)] = n[Peer(e)] /\ line'[e] = rest[e]
         /\ \A S : rest[Peer(e)] \in Seq(S) /\ x.out \in Seq(S) => line'[Peer(e)] \in Seq(S)
         /\ rest[Peer(e)] = << >> /\ x.out = << >> => line'[Peer(e)] = << >>
  <1> DEFINE f == Peer(e)
             sent == rest[f] \o x.out
             c == SubSeq(sent, 1, IF Len(sent) < MaxInFlight THEN Len(sent) ELSE MaxInFlight)
  <1>1. f \in Ends /\ f # e
    BY PeerFacts
  <1>2. /\ setup' = setup /\ n' = [n EXCEPT ![e] = Resting(x)]
        /\ line' = [rest EXCEPT ![f] = c]
    BY DEF Becomes, Resting
  <1>3. TermsOf(e) \in Terms
    BY TermsFacts DEF PairType
  <1>4. Resting(x) \in LinkRecord
    BY <1>3, RestingGood DEF Good
  <1>5. rest[f] \in Seq(Packets) /\ n \in [Ends -> LinkRecord]
    BY <1>1 DEF PairType
  <1>6. \A S : rest[f] \in Seq(S) /\ x.out \in Seq(S) => c \in Seq(S)
    BY CutFacts
  <1>7. c \in Seq(Packets) /\ (rest[f] = << >> /\ x.out = << >> => c = << >>)
    BY <1>5, CutFacts
  <1> HIDE DEF c, f
  <1>8. line' \in [Ends -> Seq(Packets)] /\ line'[f] = c /\ line'[e] = rest[e]
    BY <1>1, <1>2, <1>7
  <1>9. n' \in [Ends -> LinkRecord] /\ n'[e] = Resting(x) /\ n'[f] = n[f]
    BY <1>1, <1>2, <1>4, <1>5
  <1>10. QED
    BY <1>2, <1>6, <1>7, <1>8, <1>9 DEF f

(* A packet taken from the line.                                           *)
Takes(e, rest) == \/ rest = line
                  \/ line[e] # << >> /\ rest = [line EXCEPT ![e] = Tail(@)]

LEMMA TakesFacts ==
  ASSUME PairType, NEW e \in Ends, NEW rest, Takes(e, rest)
  PROVE  /\ rest \in [Ends -> Seq(Packets)] /\ rest[Peer(e)] = line[Peer(e)]
         /\ \A S : line[e] \in Seq(S) => rest[e] \in Seq(S)
         /\ line[e] = << >> => rest[e] = << >>
  <1>1. line[e] \in Seq(Packets) /\ Peer(e) \in Ends /\ Peer(e) # e
    BY PeerFacts DEF PairType
  <1>2. \A S : line[e] \in Seq(S) /\ line[e] # << >> => Tail(line[e]) \in Seq(S)
    BY HeadTailProperties
  <1>3. CASE rest = line
    BY <1>1, <1>3 DEF PairType
  <1>4. CASE line[e] # << >> /\ rest = [line EXCEPT ![e] = Tail(@)]
    BY <1>1, <1>2, <1>4 DEF PairType
  <1>5. QED
    BY <1>3, <1>4 DEF Takes

-----------------------------------------------------------------------------
(* The invariant of two ends, once the facts about e and its peer are      *)
(* known.                                                                  *)
EndFits(e) ==
    /\ Good(n[e], TermsOf(e)) /\ n[e].out = << >>
    /\ line[Peer(e)] \in Seq(Said(n[e], TermsOf(e)))
    /\ session[e] = After(session[Peer(e)]) =>
         /\ ~n[Peer(e)].up /\ line[e] = << >>
         /\ n[e].up => AllPending(n[e], TermsOf(e))
    /\ n[e].up /\ n[Peer(e)].up /\ session[e] = session[Peer(e)]
         => Passed(n[e], n[Peer(e)], TermsOf(e))

LEMMA InvByEnds == AuthInv <=> PairType /\ \A e \in Ends : EndFits(e)
  BY DEF AuthInv, EndFits, LinksGood, LinesFit, AheadAlone, BothKnow

LEMMA InvByEndsPrime == PairType' /\ (\A e \in Ends : EndFits(e)') => AuthInv'
  BY DEF AuthInv, EndFits, LinksGood, LinesFit, AheadAlone, BothKnow

LEMMA TwoEnds ==
  ASSUME NEW e \in Ends, PairType', EndFits(e)', EndFits(Peer(e))' PROVE AuthInv'
  <1>1. \A f \in Ends : f = e \/ f = Peer(e)
    BY PeerFacts
  <1>2. \A f \in Ends : EndFits(f)'
    BY <1>1
  <1>3. QED
    BY <1>2, InvByEndsPrime

(* A handler runs at e: it moves the link, takes at most one packet from   *)
(* the line, and settles a check of ours only when the peer has passed it. *)
LEMMA HandlerStep ==
  ASSUME AuthInv, NEW e \in Ends, NEW x, NEW rest, Takes(e, rest),
         Moves(n[e], x, TermsOf(e)), Becomes(e, x, rest), session' = session,
         line[e] = << >> /\ AllPending(n[e], TermsOf(e)) => AllPending(x, TermsOf(e)),
         n[Peer(e)].up /\ Passed(n[e], n[Peer(e)], TermsOf(e))
           => Passed(x, n[Peer(e)], TermsOf(e))
  PROVE  AuthInv'
  <1> DEFINE f == Peer(e)
             s == TermsOf(e)
             r == TermsOf(f)
  <1>1. PairType /\ EndFits(e) /\ EndFits(f) /\ f \in Ends /\ f # e /\ Peer(f) = e
    BY InvByEnds, PeerFacts
  <1>2. s \in Terms /\ r \in Terms
    BY <1>1, TermsFacts DEF PairType
  <1>3. Good(x, s) /\ x.out \in Seq(Said(x, s))
    BY DEF Moves
  <1>4. x.out \in Seq(Packets)
    BY <1>3, SaidPackets
  <1>5. /\ rest \in [Ends -> Seq(Packets)] /\ rest[f] = line[f]
        /\ \A S : line[e] \in Seq(S) => rest[e] \in Seq(S)
        /\ line[e] = << >> => rest[e] = << >>
    BY <1>1, TakesFacts
  <1>6. /\ setup' = setup /\ n' \in [Ends -> LinkRecord] /\ line' \in [Ends -> Seq(Packets)]
        /\ n'[e] = Resting(x) /\ n'[f] = n[f] /\ line'[e] = rest[e]
        /\ \A S : rest[f] \in Seq(S) /\ x.out \in Seq(S) => line'[f] \in Seq(S)
        /\ rest[f] = << >> /\ x.out = << >> => line'[f] = << >>
    BY <1>1, <1>3, <1>4, <1>5, BecomesFacts
  <1>7. TermsOf(e)' = s /\ TermsOf(f)' = r /\ Peer(e)' = f /\ Peer(f)' = e
    BY <1>1, <1>6 DEF TermsOf
  <1>8. /\ Good(n'[e], s) /\ n'[e].out = << >> /\ n'[e].up = x.up /\ n'[e].chap = x.chap
        /\ n'[e].pap = x.pap /\ n'[e].auth_pending = x.auth_pending
    BY <1>2, <1>3, <1>6, RestingGood
  <1>9. PairType'
    BY <1>1, <1>6 DEF PairType
  <1>10. line'[f] \in Seq(Said(n'[e], s))
    <2>1. line[f] \in Seq(Said(n[e], s))
      BY <1>1 DEF EndFits
    <2>2. line[f] \in Seq(Said(x, s))
      BY <2>1, SaidMonotone, SeqMonotonic
    <2>3. Said(n'[e], s) = Said(x, s)
      BY <1>8 DEF Said
    <2>4. QED
      BY <1>3, <1>5, <1>6, <2>2, <2>3
  <1>11. line'[e] \in Seq(Said(n'[f], r))
    BY <1>1, <1>5, <1>6 DEF EndFits
  <1>12. session[e] = After(session[f]) =>
           /\ ~n'[f].up /\ line'[e] = << >> /\ (n'[e].up => AllPending(n'[e], s))
    <2> SUFFICES ASSUME session[e] = After(session[f])
                 PROVE  ~n'[f].up /\ line'[e] = << >> /\ (n'[e].up => AllPending(n'[e], s))
      OBVIOUS
    <2>1. ~n[f].up /\ line[e] = << >> /\ (n[e].up => AllPending(n[e], s))
      BY <1>1 DEF EndFits
    <2>2. x.up => AllPending(x, s)
      BY <2>1 DEF Moves
    <2>3. QED
      BY <1>5, <1>6, <1>8, <2>1, <2>2 DEF AllPending
  <1>13. session[f] = After(session[e]) =>
           /\ ~n'[e].up /\ line'[f] = << >> /\ (n'[f].up => AllPending(n'[f], r))
    <2> SUFFICES ASSUME session[f] = After(session[e])
                 PROVE  ~n'[e].up /\ line'[f] = << >> /\ (n'[f].up => AllPending(n'[f], r))
      OBVIOUS
    <2>1. ~n[e].up /\ line[f] = << >> /\ (n[f].up => AllPending(n[f], r))
      BY <1>1 DEF EndFits
    <2>2. ~x.up /\ x.out = << >>
      BY <2>1 DEF Moves
    <2>3. QED
      BY <1>5, <1>6, <1>8, <2>1, <2>2
  <1>14. n'[e].up /\ n'[f].up /\ session[e] = session[f] => Passed(n'[e], n'[f], s)
    <2> SUFFICES ASSUME n'[e].up, n'[f].up, session[e] = session[f]
                 PROVE  Passed(n'[e], n'[f], s)
      OBVIOUS
    <2>1. n[e].up /\ n[f].up
      BY <1>6, <1>8 DEF Moves
    <2>2. Passed(n[e], n[f], s)
      BY <1>1, <2>1 DEF EndFits
    <2>3. Passed(x, n[f], s)
      BY <2>1, <2>2
    <2>4. QED
      BY <1>6, <1>8, <2>3 DEF Passed
  <1>15. n'[f].up /\ n'[e].up /\ session[f] = session[e] => Passed(n'[f], n'[e], r)
    <2> SUFFICES ASSUME n'[f].up, n'[e].up, session[f] = session[e]
                 PROVE  Passed(n'[f], n'[e], r)
      OBVIOUS
    <2>1. n[f].up /\ n[e].up
      BY <1>6, <1>8 DEF Moves
    <2>2. Passed(n[f], n[e], r)
      BY <1>1, <2>1 DEF EndFits
    <2>3. /\ n[e].chap.serverstate \in ChapPassed => x.chap.serverstate \in ChapPassed
          /\ n[e].pap.us_serverstate \in PapPassed => x.pap.us_serverstate \in PapPassed
      BY <1>8 DEF Moves
    <2>4. QED
      BY <1>6, <1>8, <2>2, <2>3 DEF Passed
  <1>16. EndFits(e)'
    BY <1>6, <1>7, <1>8, <1>10, <1>12, <1>14 DEF EndFits
  <1>17. EndFits(f)'
    <2>1. Good(n'[f], r) /\ n'[f].out = << >>
      BY <1>1, <1>6 DEF EndFits
    <2>2. QED
      BY <1>6, <1>7, <1>11, <1>13, <1>15, <2>1 DEF EndFits
  <1>18. QED
    BY <1>9, <1>16, <1>17, TwoEnds

(* A handler that settles nothing of ours.                                 *)
LEMMA KeepingStep ==
  ASSUME AuthInv, NEW e \in Ends, NEW x, NEW rest, Takes(e, rest),
         Moves(n[e], x, TermsOf(e)), Becomes(e, x, rest), session' = session,
         \A b \in {"CHAP_WITHPEER", "UPAP_WITHPEER"} :
           b \in n[e].auth_pending => b \in x.auth_pending
  PROVE  AuthInv'
  <1>1. AllPending(n[e], TermsOf(e)) => AllPending(x, TermsOf(e))
    BY DEF AllPending
  <1>2. Passed(n[e], n[Peer(e)], TermsOf(e)) => Passed(x, n[Peer(e)], TermsOf(e))
    BY DEF Passed
  <1>3. QED
    BY <1>1, <1>2, HandlerStep


-----------------------------------------------------------------------------
(* The steps, one by one                                                   *)

LEMMA AfterFacts ==
  ASSUME NEW a \in 0 .. 2, NEW b \in 0 .. 2
  PROVE  /\ After(a) \in 0 .. 2 /\ After(a) # a
         /\ b = After(a) => a # After(b)
         /\ b # After(a) /\ a # After(b) => a = b
  BY DEF After

LEMMA UpStep ==
  ASSUME AuthInv, NEW e \in Ends, Up(e) PROVE AuthInv'
  <1> DEFINE f == Peer(e)
             s == TermsOf(e)
             r == TermsOf(f)
             x == lcp_up(n[e], s.we, s.they, s.mine)
             joins == session[f] = After(session[e])
             ahead == session[e] = After(session[f])
             rest == IF joins THEN line ELSE [g \in Ends |-> << >>]
  <1>1. PairType /\ EndFits(e) /\ EndFits(f) /\ f \in Ends /\ f # e /\ Peer(f) = e
    BY InvByEnds, PeerFacts
  <1>2. s \in Terms /\ r \in Terms
    BY <1>1, TermsFacts DEF PairType
  <1>3. Good(n[e], s) /\ n[e].out = << >> /\ ~n[e].up
    BY <1>1 DEF EndFits, Up
  <1>4. /\ Good(x, s) /\ x.up = TRUE /\ AllPending(x, s)
        /\ \A z : x.out \in Seq(Said(z, s))
    BY <1>2, <1>3, UpFacts
  <1>5. /\ Becomes(e, x, rest) /\ (joins \/ ~n[f].up)
        /\ session' = IF ahead THEN session ELSE [session EXCEPT ![e] = After(@)]
    BY DEF Up, TermsOf
  <1> HIDE DEF x
  <1>6. rest \in [Ends -> Seq(Packets)] /\ x.out \in Seq(Packets)
    <2>1. << >> \in Seq(Packets)
      BY EmptySeq
    <2>2. x.out \in Seq(Packets)
      BY <1>4, SaidPackets
    <2>3. QED
      BY <1>1, <2>1, <2>2 DEF PairType
  <1>7. /\ setup' = setup /\ n' \in [Ends -> LinkRecord] /\ line' \in [Ends -> Seq(Packets)]
        /\ n'[e] = Resting(x) /\ n'[f] = n[f] /\ line'[e] = rest[e]
        /\ \A S : rest[f] \in Seq(S) /\ x.out \in Seq(S) => line'[f] \in Seq(S)
    <2> HIDE DEF rest
    <2>1. QED
      BY <1>1, <1>4, <1>5, <1>6, BecomesFacts
  <1>8. TermsOf(e)' = s /\ TermsOf(f)' = r /\ Peer(e)' = f /\ Peer(f)' = e
    BY <1>1, <1>7 DEF TermsOf
  <1>9. /\ Good(n'[e], s) /\ n'[e].out = << >> /\ n'[e].up = TRUE
        /\ n'[e].auth_pending = x.auth_pending
    BY <1>2, <1>4, <1>7, RestingGood
  <1>10. AllPending(n'[e], s)
    BY <1>4, <1>9 DEF AllPending
  <1>11. session \in [Ends -> 0 .. 2] /\ session[e] \in 0 .. 2 /\ session[f] \in 0 .. 2
    BY <1>1 DEF PairType
  <1>12. /\ After(session[e]) \in 0 .. 2 /\ session' \in [Ends -> 0 .. 2]
         /\ session'[f] = session[f]
         /\ session'[e] = IF ahead THEN session[e] ELSE After(session[e])
    BY <1>1, <1>5, <1>11, AfterFacts
  <1>13. PairType'
    BY <1>1, <1>7, <1>12 DEF PairType
  <1>14. Good(n'[f], r) /\ n'[f].out = << >>
    BY <1>1, <1>7 DEF EndFits
  <1>15. CASE joins
    <2>1. session'[e] = session'[f] /\ session'[e] \in 0 .. 2
      BY <1>11, <1>12, <1>15, AfterFacts
    <2>2. session'[e] # After(session'[f]) /\ session'[f] # After(session'[e])
      BY <2>1, AfterFacts
    <2>3. line[f] = << >> /\ (n[f].up => AllPending(n[f], r))
      BY <1>1, <1>15 DEF EndFits
    <2>4. line'[f] \in Seq(Said(n'[e], s))
      BY <1>4, <1>7, <1>15, <2>3, EmptySeq
    <2>5. line'[e] \in Seq(Said(n'[f], r))
      BY <1>1, <1>7, <1>15 DEF EndFits
    <2>6. Passed(n'[e], n'[f], s)
      BY <1>10 DEF AllPending, Passed
    <2>7. n'[f].up => Passed(n'[f], n'[e], r)
      BY <1>7, <2>3 DEF AllPending, Passed
    <2>8. EndFits(e)'
      BY <1>8, <1>9, <2>2, <2>4, <2>6 DEF EndFits
    <2>9. EndFits(f)'
      BY <1>8, <1>14, <2>2, <2>5, <2>7 DEF EndFits
    <2>10. QED
      BY <1>13, <2>8, <2>9, TwoEnds
  <1>16. CASE ~joins
    <2>1. session'[e] = After(session'[f])
      BY <1>11, <1>12, <1>16, AfterFacts
    <2>2. session'[f] # After(session'[e]) /\ session'[e] # session'[f]
      BY <1>11, <1>12, <2>1, AfterFacts
    <2>3. rest[e] = << >> /\ rest[f] = << >> /\ ~n'[f].up
      BY <1>1, <1>5, <1>7, <1>16
    <2>4. line'[f] \in Seq(Said(n'[e], s))
      BY <1>4, <1>7, <2>3, EmptySeq
    <2>5. line'[e] = << >> /\ line'[e] \in Seq(Said(n'[f], r))
      BY <1>7, <2>3, EmptySeq
    <2>6. EndFits(e)'
      BY <1>8, <1>9, <1>10, <2>2, <2>3, <2>4, <2>5 DEF EndFits
    <2>7. EndFits(f)'
      BY <1>8, <1>14, <2>2, <2>3, <2>5 DEF EndFits
    <2>8. QED
      BY <1>13, <2>6, <2>7, TwoEnds
  <1>17. QED
    BY <1>15, <1>16

LEMMA LoseStep ==
  ASSUME AuthInv, NEW e \in Ends, Lose(e) PROVE AuthInv'
  <1> DEFINE f == Peer(e)
             s == TermsOf(e)
             r == TermsOf(f)
  <1>1. PairType /\ EndFits(e) /\ EndFits(f) /\ f \in Ends /\ f # e /\ Peer(f) = e
    BY InvByEnds, PeerFacts
  <1>2. /\ line[e] # << >> /\ line' = [line EXCEPT ![e] = Tail(@)]
        /\ setup' = setup /\ n' = n /\ session' = session
    BY DEF Lose
  <1>3. Takes(e, line')
    BY <1>2 DEF Takes
  <1>4. /\ line' \in [Ends -> Seq(Packets)] /\ line'[f] = line[f]
        /\ \A S : line[e] \in Seq(S) => line'[e] \in Seq(S)
        /\ line[e] = << >> => line'[e] = << >>
    BY <1>1, <1>3, TakesFacts
  <1>5. TermsOf(e)' = s /\ TermsOf(f)' = r /\ Peer(e)' = f /\ Peer(f)' = e
    BY <1>1, <1>2 DEF TermsOf
  <1>6. PairType'
    BY <1>1, <1>2, <1>4 DEF PairType
  <1>7. EndFits(e)'
    BY <1>1, <1>2, <1>4, <1>5 DEF EndFits
  <1>8. EndFits(f)'
    BY <1>1, <1>2, <1>4, <1>5 DEF EndFits
  <1>9. QED
    BY <1>6, <1>7, <1>8, TwoEnds

LEMMA QuietGood == ASSUME NEW s \in Terms PROVE Good(Quiet, s) /\ Quiet.out = << >>
  <1>1. << >> \in Seq(Packets)
    BY EmptySeq
  <1>2. 0 \in Ids /\ 0 \in 0 .. MaxTransmits /\ NoHash \in Hashes
    <2>1. 0 \in Ids /\ 0 \in 0 .. MaxTransmits
      BY AuthAssumption DEF Ids
    <2>2. NoHash \in Hashes
      BY <2>1 DEF NoHash, Hashes
    <2>3. QED
      BY <2>1, <2>2
  <1>3. Quiet.chap \in ChapRecord
    <2>1. /\ "INITIAL" \in ServerStates /\ "INITIAL" \in ClientStates
      BY DEF ServerStates, ClientStates
    <2>2. Quiet.chap = [serverstate |-> "INITIAL", clientstate |-> "INITIAL", chal_id |-> 0,
                        challenge |-> 0, chal_transmits |-> 0, resp_id |-> 0,
                        response |-> NoHash, chal_timers |-> 0, rechal_timers |-> 0,
                        resp_timers |-> 0]
      BY DEF Quiet
    <2>3. QED
      BY <1>2, <2>1, <2>2 DEF ChapRecord
  <1>4. Quiet.pap \in PapRecord
    BY <1>2 DEF Quiet, PapRecord
  <1>5. Quiet \in LinkRecord
    <2>1. \A c \in ChapRecord, p \in PapRecord :
            [up |-> FALSE, phase |-> "DOWN", auth_pending |-> {}, chap |-> c, pap |-> p,
             out |-> << >>] \in LinkRecord
      BY <1>1 DEF LinkRecord
    <2>2. QED
      BY <1>3, <1>4, <2>1 DEF Quiet
  <1>6. ChapServerFits(Quiet.chap, Quiet.up, s) /\ ChapClientFits(Quiet.chap, Quiet.up, s)
    BY DEF Quiet, ChapServerFits, ChapClientFits, ChapPassed
  <1>7. PapServerFits(Quiet.pap, Quiet.up, s) /\ PapClientFits(Quiet.pap, Quiet.up, s)
    BY DEF Quiet, PapServerFits, PapClientFits
  <1>8. PhaseFits(Quiet, s)
    BY DEF Quiet, PhaseFits
  <1>9. QED
    BY <1>5, <1>6, <1>7, <1>8 DEF Good, Quiet

LEMMA InitInv == Init => AuthInv
  <1> SUFFICES ASSUME Init PROVE AuthInv
    OBVIOUS
  <1>1. setup \in Setups /\ session \in [Ends -> 0 .. 2]
    BY DEF Init
  <1>2. \A e \in Ends : TermsOf(e) \in Terms /\ Good(n[e], TermsOf(e)) /\ n[e].out = << >>
    BY <1>1, TermsFacts, QuietGood DEF Init
  <1>3. n \in [Ends -> LinkRecord]
    BY <1>2 DEF Good, Init
  <1>4. line \in [Ends -> Seq(Packets)] /\ \A S : << >> \in Seq(S)
    BY EmptySeq DEF Init
  <1>5. \A e \in Ends : /\ ~n[e].up /\ line[e] = << >> /\ session[e] = 0
                        /\ Peer(e) \in Ends
    BY PeerFacts DEF Init, Quiet
  <1>6. After(0) # 0
    BY AfterFacts
  <1>7. \A e \in Ends : EndFits(e)
    BY <1>2, <1>4, <1>5, <1>6 DEF EndFits
  <1>8. QED
    BY <1>1, <1>3, <1>4, <1>7, InvByEnds DEF PairType

LEMMA EndFacts ==
  ASSUME AuthInv, NEW e \in Ends
  PROVE  /\ PairType /\ TermsOf(e) \in Terms /\ Good(n[e], TermsOf(e)) /\ n[e].out = << >>
         /\ TermsOf(e).we = setup.ask[e] /\ TermsOf(e).they = setup.ask[Peer(e)]
         /\ TermsOf(e).mine = setup.right[e] /\ TermsOf(e).again = setup.again
  <1>1. PairType /\ EndFits(e)
    BY InvByEnds
  <1>2. TermsOf(e) \in Terms
    BY <1>1, TermsFacts DEF PairType
  <1>3. QED
    BY <1>1, <1>2 DEF EndFits, TermsOf

(* What the next packet on the line to e says.                             *)
LEMMA HeardFacts ==
  ASSUME AuthInv, NEW e \in Ends, line[e] # << >>
  PROVE  LET m == Head(line[e])
             s == TermsOf(e)
             y == n[Peer(e)]
         IN  /\ m \in Packets
             /\ m.kind = "CHALLENGE" => m.data = m.id
             /\ m.kind = "RESPONSE" => m.data = <<m.id, m.id, s.his>>
             /\ m.kind = "AUTHREQ" => m.data = s.his
             /\ m.kind = "SUCCESS" => s.mine /\ (y.up => y.chap.serverstate \in ChapPassed)
             /\ m.kind = "AUTHACK" => s.mine /\ (y.up => y.pap.us_serverstate \in PapPassed)
  <1> DEFINE f == Peer(e)
             m == Head(line[e])
             s == TermsOf(e)
             r == TermsOf(f)
  <1>1. PairType /\ EndFits(f) /\ f \in Ends /\ Peer(f) = e
    BY InvByEnds, PeerFacts
  <1>2. line[e] \in Seq(Said(n[f], r))
    BY <1>1 DEF EndFits
  <1>3. m \in Said(n[f], r)
    BY <1>2, HeadTailProperties
  <1>4. r.mine = s.his /\ r.his = s.mine
    BY <1>1, TermsFacts DEF PairType
  <1> HIDE DEF m, r, s
  <1>5. /\ m \in Packets
        /\ m.kind = "CHALLENGE" => m.data = m.id
        /\ m.kind = "RESPONSE" => m.data = <<m.id, m.id, r.mine>>
        /\ m.kind = "AUTHREQ" => m.data = r.mine
        /\ m.kind = "SUCCESS" => r.his /\ (n[f].up => n[f].chap.serverstate \in ChapPassed)
        /\ m.kind = "AUTHACK" => r.his /\ (n[f].up => n[f].pap.us_serverstate \in PapPassed)
    BY <1>3 DEF Said
  <1>6. QED
    BY <1>4, <1>5 DEF m, s

LEMMA InputFacts ==
  ASSUME NEW e \in Ends, NEW kind, NEW x, Input(e, kind, x)
  PROVE  LET rest == [line EXCEPT ![e] = Tail(@)]
         IN  /\ line[e] # << >> /\ Head(line[e]).kind = kind /\ n[e].up
             /\ Takes(e, rest) /\ Becomes(e, x, rest) /\ session' = session
  BY DEF Input, Takes

LEMMA KeepingInput ==
  ASSUME AuthInv, NEW e \in Ends, NEW kind, NEW x, Input(e, kind, x),
         Moves(n[e], x, TermsOf(e)),
         \A b \in {"CHAP_WITHPEER", "UPAP_WITHPEER"} :
           b \in n[e].auth_pending => b \in x.auth_pending
  PROVE  AuthInv'
  <1> DEFINE rest == [line EXCEPT ![e] = Tail(@)]
  <1>1. Takes(e, rest) /\ Becomes(e, x, rest) /\ session' = session
    BY InputFacts
  <1> HIDE DEF rest
  <1>2. QED
    BY <1>1, KeepingStep

LEMMA DownStep ==
  ASSUME AuthInv, NEW e \in Ends, Down(e) PROVE AuthInv'
  <1> DEFINE x == lcp_down(n[e])
  <1>1. Becomes(e, x, line) /\ session' = session /\ Takes(e, line)
    BY DEF Down, Takes
  <1>2. Moves(n[e], x, TermsOf(e))
    BY EndFacts, DownMoves
  <1>3. x.auth_pending = n[e].auth_pending
    BY EndFacts, GoodTimersLow, LcpDownFalls DEF Falls
  <1> HIDE DEF x
  <1>4. QED
    BY <1>1, <1>2, <1>3, KeepingStep

LEMMA ChallengeStep ==
  ASSUME AuthInv, NEW e \in Ends, RcvChallenge(e) PROVE AuthInv'
  <1> DEFINE m == Head(line[e])
             s == TermsOf(e)
             x == ChapReceiveChallenge(n[e], m, s.mine)
  <1>1. Input(e, "CHALLENGE", x)
    BY EndFacts DEF RcvChallenge
  <1>2. line[e] # << >> /\ m.kind = "CHALLENGE" /\ n[e].up
    BY <1>1, InputFacts
  <1>3. m \in Packets /\ m.data = m.id
    BY <1>2, HeardFacts
  <1>4. Moves(n[e], x, s) /\ x.auth_pending = n[e].auth_pending
    <2> HIDE DEF m
    <2>1. QED
      BY <1>2, <1>3, EndFacts, ReceiveChallengeMoves
  <1> HIDE DEF x
  <1>5. QED
    BY <1>1, <1>4, KeepingInput

LEMMA ResponseStep ==
  ASSUME AuthInv, NEW e \in Ends, RcvResponse(e) PROVE AuthInv'
  <1> DEFINE m == Head(line[e])
             s == TermsOf(e)
             x == ChapReceiveResponse(n[e], m, s.again)
  <1>1. Input(e, "RESPONSE", x)
    BY EndFacts DEF RcvResponse
  <1>2. line[e] # << >> /\ m.kind = "RESPONSE" /\ n[e].up
    BY <1>1, InputFacts
  <1>3. m \in Packets /\ m.data = <<m.id, m.id, s.his>>
    BY <1>2, HeardFacts
  <1>4. /\ Moves(n[e], x, s)
        /\ \A b \in {"CHAP_WITHPEER", "UPAP_WITHPEER"} :
             b \in n[e].auth_pending => b \in x.auth_pending
    <2> HIDE DEF m
    <2>1. QED
      BY <1>2, <1>3, EndFacts, ReceiveResponseMoves
  <1> HIDE DEF x
  <1>5. QED
    BY <1>1, <1>4, KeepingInput

LEMMA AuthReqStep ==
  ASSUME AuthInv, NEW e \in Ends, RcvAuthReq(e) PROVE AuthInv'
  <1> DEFINE m == Head(line[e])
             s == TermsOf(e)
             x == upap_rauthreq(n[e], m)
  <1>1. Input(e, "AUTHREQ", x)
    BY DEF RcvAuthReq
  <1>2. line[e] # << >> /\ m.kind = "AUTHREQ" /\ n[e].up
    BY <1>1, InputFacts
  <1>3. m \in Packets /\ m.data = s.his
    BY <1>2, HeardFacts
  <1>4. /\ Moves(n[e], x, s)
        /\ \A b \in {"CHAP_WITHPEER", "UPAP_WITHPEER"} :
             b \in n[e].auth_pending => b \in x.auth_pending
    <2> HIDE DEF m
    <2>1. QED
      BY <1>2, <1>3, EndFacts, AuthReqMoves
  <1> HIDE DEF x
  <1>5. QED
    BY <1>1, <1>4, KeepingInput

LEMMA FailureStep ==
  ASSUME AuthInv, NEW e \in Ends, RcvFailure(e) \/ RcvAuthNak(e) PROVE AuthInv'
  <1>1. CASE RcvFailure(e)
    <2> DEFINE x == ChapReceiveFailure(n[e])
    <2>1. Moves(n[e], x, TermsOf(e)) /\ x.auth_pending = n[e].auth_pending
      BY EndFacts, ReceiveFailureMoves
    <2>2. Input(e, "FAILURE", x)
      BY <1>1 DEF RcvFailure
    <2> HIDE DEF x
    <2>3. QED
      BY <2>1, <2>2, KeepingInput
  <1>2. CASE RcvAuthNak(e)
    <2> DEFINE x == upap_rauthnak(n[e])
    <2>1. Moves(n[e], x, TermsOf(e)) /\ x.auth_pending = n[e].auth_pending
      BY EndFacts, AuthNakMoves
    <2>2. Input(e, "AUTHNAK", x)
      BY <1>2 DEF RcvAuthNak
    <2> HIDE DEF x
    <2>3. QED
      BY <2>1, <2>2, KeepingInput
  <1>3. QED
    BY <1>1, <1>2

(* The peer says that we passed: it has our secret, and as long as it is   *)
(* up its own state says so too.                                           *)
LEMMA SuccessStep ==
  ASSUME AuthInv, NEW e \in Ends, RcvSuccess(e) PROVE AuthInv'
  <1> DEFINE s == TermsOf(e)
             y == n[Peer(e)]
             x == ChapReceiveSuccess(n[e])
             rest == [line EXCEPT ![e] = Tail(@)]
  <1>1. /\ line[e] # << >> /\ Head(line[e]).kind = "SUCCESS"
        /\ Takes(e, rest) /\ Becomes(e, x, rest) /\ session' = session
    BY InputFacts DEF RcvSuccess
  <1>2. s.mine /\ (y.up => y.chap.serverstate \in ChapPassed)
    BY <1>1, HeardFacts
  <1>3. /\ Moves(n[e], x, s)
        /\ "UPAP_WITHPEER" \in n[e].auth_pending => "UPAP_WITHPEER" \in x.auth_pending
    BY EndFacts, ReceiveSuccessMoves
  <1> HIDE DEF x, rest
  <1>4. y.up /\ Passed(n[e], y, s) => Passed(x, y, s)
    BY <1>2, <1>3 DEF Passed
  <1>5. QED
    BY <1>1, <1>3, <1>4, HandlerStep

LEMMA AuthAckStep ==
  ASSUME AuthInv, NEW e \in Ends, RcvAuthAck(e) PROVE AuthInv'
  <1> DEFINE s == TermsOf(e)
             y == n[Peer(e)]
             x == upap_rauthack(n[e])
             rest == [line EXCEPT ![e] = Tail(@)]
  <1>1. /\ line[e] # << >> /\ Head(line[e]).kind = "AUTHACK"
        /\ Takes(e, rest) /\ Becomes(e, x, rest) /\ session' = session
    BY InputFacts DEF RcvAuthAck
  <1>2. s.mine /\ (y.up => y.pap.us_serverstate \in PapPassed)
    BY <1>1, HeardFacts
  <1>3. /\ Moves(n[e], x, s)
        /\ "CHAP_WITHPEER" \in n[e].auth_pending => "CHAP_WITHPEER" \in x.auth_pending
    BY EndFacts, AuthAckMoves
  <1> HIDE DEF x, rest
  <1>4. y.up /\ Passed(n[e], y, s) => Passed(x, y, s)
    BY <1>2, <1>3 DEF Passed
  <1>5. QED
    BY <1>1, <1>3, <1>4, HandlerStep

LEMMA FiresStep ==
  ASSUME AuthInv, NEW e \in Ends, NEW x, Becomes(e, x, line), session' = session,
         Moves(n[e], x, TermsOf(e)), x.auth_pending = n[e].auth_pending
  PROVE  AuthInv'
  <1>1. Takes(e, line)
    BY DEF Takes
  <1>2. QED
    BY <1>1, KeepingStep

LEMMA RejectStep ==
  ASSUME AuthInv, NEW e \in Ends, RcvProtReject(e) PROVE AuthInv'
  <1> DEFINE a == ChapProtocolReject(n[e])
             b == upap_protrej(n[e])
  <1>1. n[e].up /\ session' = session /\ (Becomes(e, a, line) \/ Becomes(e, b, line))
    BY DEF RcvProtReject
  <1>2. /\ Moves(n[e], a, TermsOf(e)) /\ a.auth_pending = n[e].auth_pending
        /\ Moves(n[e], b, TermsOf(e)) /\ b.auth_pending = n[e].auth_pending
    BY <1>1, EndFacts, ChapRejectMoves, PapRejectMoves
  <1> HIDE DEF a, b
  <1>3. QED
    BY <1>1, <1>2, FiresStep

LEMMA TimerStep ==
  ASSUME AuthInv, NEW e \in Ends,
         \/ ChallengeTimer(e) \/ RechallengeTimer(e) \/ ResponseTimer(e)
         \/ PapTimer(e) \/ PapReqTimer(e)
  PROVE  AuthInv'
  <1> DEFINE s == TermsOf(e)
  <1>1. CASE ChallengeTimer(e)
    <2> DEFINE x == ChapChallengeTimeout([n[e] EXCEPT !.chap.chal_timers = @ - 1])
    <2>1. Moves(n[e], x, s) /\ x.auth_pending = n[e].auth_pending
      BY <1>1, EndFacts, ChallengeTimerMoves DEF ChallengeTimer
    <2>2. Becomes(e, x, line) /\ session' = session
      BY <1>1 DEF ChallengeTimer, Fires
    <2> HIDE DEF x
    <2>3. QED
      BY <2>1, <2>2, FiresStep
  <1>2. CASE RechallengeTimer(e)
    <2> DEFINE x == ChapRechallenge([n[e] EXCEPT !.chap.rechal_timers = @ - 1])
    <2>1. Moves(n[e], x, s) /\ x.auth_pending = n[e].auth_pending
      BY <1>2, EndFacts, RechallengeTimerMoves DEF RechallengeTimer
    <2>2. Becomes(e, x, line) /\ session' = session
      BY <1>2 DEF RechallengeTimer, Fires
    <2> HIDE DEF x
    <2>3. QED
      BY <2>1, <2>2, FiresStep
  <1>3. CASE ResponseTimer(e)
    <2> DEFINE x == ChapResponseTimeout([n[e] EXCEPT !.chap.resp_timers = @ - 1])
    <2>1. Moves(n[e], x, s) /\ x.auth_pending = n[e].auth_pending
      BY <1>3, EndFacts, ResponseTimerMoves DEF ResponseTimer
    <2>2. Becomes(e, x, line) /\ session' = session
      BY <1>3 DEF ResponseTimer, Fires
    <2> HIDE DEF x
    <2>3. QED
      BY <2>1, <2>2, FiresStep
  <1>4. CASE PapTimer(e)
    <2> DEFINE x == upap_timeout([n[e] EXCEPT !.pap.timers = @ - 1], s.mine)
    <2>1. Moves(n[e], x, s) /\ x.auth_pending = n[e].auth_pending
      BY <1>4, EndFacts, PapTimerMoves DEF PapTimer
    <2>2. Becomes(e, x, line) /\ session' = session
      BY <1>4, EndFacts DEF PapTimer, Fires
    <2> HIDE DEF x
    <2>3. QED
      BY <2>1, <2>2, FiresStep
  <1>5. CASE PapReqTimer(e)
    <2> DEFINE x == upap_reqtimeout([n[e] EXCEPT !.pap.req_timers = @ - 1])
    <2>1. Moves(n[e], x, s) /\ x.auth_pending = n[e].auth_pending
      BY <1>5, EndFacts, PapReqTimerMoves DEF PapReqTimer
    <2>2. Becomes(e, x, line) /\ session' = session
      BY <1>5 DEF PapReqTimer, Fires
    <2> HIDE DEF x
    <2>3. QED
      BY <2>1, <2>2, FiresStep
  <1>6. QED
    BY <1>1, <1>2, <1>3, <1>4, <1>5

LEMMA StutterStep == AuthInv /\ UNCHANGED vars => AuthInv'
  BY DEF AuthInv, PairType, LinksGood, LinesFit, AheadAlone, BothKnow, TermsOf, vars

LEMMA NextStep ==
  ASSUME AuthInv, [Next]_vars PROVE AuthInv'
  <1>1. CASE Next
    <2>1. PICK e \in Ends :
            \/ Up(e) /\ n[e].pap.timers < MaxCallouts
            \/ Down(e) \/ Lose(e) \/ Receive(e) \/ RcvProtReject(e)
            \/ ChallengeTimer(e) \/ RechallengeTimer(e) \/ ResponseTimer(e)
            \/ PapTimer(e) \/ PapReqTimer(e)
      BY <1>1 DEF Next
    <2>2. CASE Receive(e)
      BY <2>2, ChallengeStep, ResponseStep, SuccessStep, FailureStep, AuthReqStep,
         AuthAckStep DEF Receive
    <2>3. QED
      BY <2>1, <2>2, UpStep, DownStep, LoseStep, RejectStep, TimerStep
  <1>2. CASE UNCHANGED vars
    BY <1>2, StutterStep
  <1>3. QED
    BY <1>1, <1>2

(* Along every behaviour of two ends each link is in a state that fits its *)
(* set-up, every packet on the line agrees with what its sender stands by, *)
(* and in a session both are in, what an end takes as passed was passed.   *)
THEOREM AuthInductive == Spec => []AuthInv
  <1>1. Init => AuthInv
    BY InitInv
  <1>2. AuthInv /\ [Next]_vars => AuthInv'
    BY NextStep
  <1>3. QED
    BY <1>1, <1>2, PTL DEF Spec

(* The records of chap.c, upap.c and auth.c keep their ranges, ids and     *)
(* transmission counters included.                                         *)
THEOREM AuthTypes == Spec => []TypeOK
  <1>1. AuthInv => TypeOK
    <2> SUFFICES ASSUME AuthInv PROVE TypeOK
      OBVIOUS
    <2>1. \A e \in Ends : \A k \in DOMAIN line[e] : line[e][k] \in Packets
      BY ElementOfSeq DEF AuthInv, PairType
    <2>2. QED
      BY <2>1 DEF AuthInv, PairType, TypeOK
  <1>2. QED
    BY <1>1, AuthInductive, PTL

(* The callouts of chap.c and upap.c are those the states need, whatever   *)
(* order packets, losses, hangups and timers come in.                      *)
THEOREM AuthCallouts == Spec => []CalloutsFit
  <1>1. AuthInv => CalloutsFit
    <2> SUFFICES ASSUME AuthInv, NEW e \in Ends
                 PROVE  LET c == n[e].chap
                            p == n[e].pap
                        IN  /\ c.chal_timers = (IF c.serverstate \in {"INITIAL_CHAL", "RECHALLENGE"} THEN 1 ELSE 0)
                            /\ c.rechal_timers = (IF c.serverstate = "OPEN" /\ setup.again THEN 1 ELSE 0)
                            /\ c.resp_timers <= (IF c.clientstate = "RESPONSE" THEN 1 ELSE 0)
                            /\ p.req_timers = (IF p.us_serverstate = "LISTEN" THEN 1 ELSE 0)
                            /\ p.us_clientstate = "AUTHREQ" => p.timers > 0
      BY DEF CalloutsFit
    <2>1. Good(n[e], TermsOf(e)) /\ TermsOf(e).again = setup.again
      BY EndFacts
    <2>2. QED
      BY <2>1 DEF Good, ChapServerFits, ChapClientFits, PapServerFits, PapClientFits
  <1>2. QED
    BY <1>1, AuthInductive, PTL

(* A peer that has the right secret is never told that it failed.          *)
THEOREM AuthRightSecret == Spec => []RightSecretNeverFails
  <1>1. AuthInv => RightSecretNeverFails
    <2> SUFFICES ASSUME AuthInv, NEW e \in Ends, setup.right[e], NEW k \in DOMAIN line[e]
                 PROVE  line[e][k].kind \notin {"FAILURE", "AUTHNAK"}
      BY DEF RightSecretNeverFails
    <2> DEFINE f == Peer(e)
    <2>1. PairType /\ EndFits(f) /\ f \in Ends /\ Peer(f) = e
      BY InvByEnds, PeerFacts
    <2>2. line[e] \in Seq(Said(n[f], TermsOf(f)))
      BY <2>1 DEF EndFits
    <2>3. line[e][k] \in Said(n[f], TermsOf(f))
      BY <2>2, ElementOfSeq
    <2>4. TermsOf(f).his
      BY <2>1 DEF TermsOf
    <2>5. QED
      BY <2>3, <2>4 DEF Said
  <1>2. QED
    BY <1>1, AuthInductive, PTL

(* Network traffic runs only over a link whose checks were all passed in   *)
(* this session, at both ends.                                             *)
THEOREM AuthNetwork == Spec => []NetworkMeansProved
  <1>1. AuthInv => NetworkMeansProved
    <2> SUFFICES ASSUME AuthInv, NEW e \in Ends, n[e].phase = "NETWORK"
                 PROVE  /\ Accepted(e, Peer(e))
                        /\ n[Peer(e)].up /\ session[e] = session[Peer(e)] => Accepted(Peer(e), e)
      BY DEF NetworkMeansProved
    <2> DEFINE f == Peer(e)
               s == TermsOf(e)
    <2>1. PairType /\ EndFits(e) /\ f \in Ends /\ s \in Terms
      BY InvByEnds, PeerFacts, TermsFacts DEF PairType
    <2>2. /\ s.we = setup.ask[e] /\ s.they = setup.ask[f]
          /\ s.mine = setup.right[e] /\ s.his = setup.right[f]
      BY DEF TermsOf
    <2>3. Good(n[e], s) /\ n[e].up /\ n[e].auth_pending = {}
      BY <2>1 DEF EndFits, Good, PhaseFits
    <2>4. Accepted(e, f)
      <3>1. CASE s.we = "chap"
        <4>1. s.his /\ n[e].chap.serverstate \in ChapPassed
          BY <2>3, <3>1 DEF Good, PhaseFits, ChapServerFits
        <4>2. QED
          BY <2>2, <3>1, <4>1 DEF Accepted, ChapPassed
      <3>2. CASE s.we = "pap"
        <4>1. /\ n[e].pap.us_serverstate # "LISTEN" /\ s.his
              /\ n[e].pap.us_serverstate \in {"OPEN", "INITIAL"}
          BY <2>3, <3>2 DEF Good, PhaseFits, PapServerFits
        <4>2. QED
          BY <2>2, <3>2, <4>1 DEF Accepted
      <3>3. CASE s.we = "none"
        BY <2>2, <3>3 DEF Accepted
      <3>4. QED
        BY <2>1, <3>1, <3>2, <3>3 DEF Terms
    <2>5. ASSUME n[f].up, session[e] = session[f] PROVE Accepted(f, e)
      <3>1. Passed(n[e], n[f], s)
        BY <2>1, <2>3, <2>5 DEF EndFits
      <3>2. CASE s.they = "chap"
        BY <2>2, <2>3, <3>1, <3>2 DEF Accepted, Passed, ChapPassed
      <3>3. CASE s.they = "pap"
        BY <2>2, <2>3, <3>1, <3>3 DEF Accepted, Passed, PapPassed
      <3>4. CASE s.they = "none"
        BY <2>2, <3>4 DEF Accepted
      <3>5. QED
        BY <2>1, <3>2, <3>3, <3>4 DEF Terms
    <2>6. QED
      BY <2>4, <2>5
  <1>2. QED
    BY <1>1, AuthInductive, PTL
=============================================================================
