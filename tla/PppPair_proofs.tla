--------------------------- MODULE PppPair_proofs ---------------------------
(***************************************************************************)
(* Two connected ends use the same options, for every pair of peers with   *)
(* any options, lines of any length and any number of faults.  Direction   *)
(* is the inductive invariant for one of the two directions; each function *)
(* of fsm.c is described by what it does to the requests of its own end    *)
(* (Asks) and to the options it grants.                                    *)
(***************************************************************************)
EXTENDS PppPair, TLAPS

(* The states in which the options got so far are those of the request.    *)
Talking == {"REQSENT", "ACKRCVD", "ACKSENT", "OPENED"}

(* The request of g has been acknowledged and nothing was asked since.     *)
Acked(g) == g.state = "ACKRCVD" \/ g.upper

Request(m) == m.code = "CONFREQ"
Ack(m, n) == m.code = "CONFACK" /\ m.id = n

(* The requests on the line s from g with its latest id have its present   *)
(* options, and no older one comes after them.                             *)
Latest(g, s) ==
    \A i \in DOMAIN s : Request(s[i]) /\ s[i].id = g.reqid =>
      /\ g.state \in Talking => s[i].ci = g.go
      /\ \A j \in DOMAIN s : j > i /\ Request(s[j]) => s[j].id = g.reqid

(* Once k has acknowledged the latest request of g, its last grant is what *)
(* g asks for, and no older request is left that would change it.          *)
Granted(g, k, s, r) ==
    g.state \in Talking /\ (Acked(g) \/ \E i \in DOMAIN r : Ack(r[i], g.reqid)) =>
      /\ k.ho = g.go
      /\ \A i \in DOMAIN s : Request(s[i]) => s[i].id = g.reqid

Direction(g, k, s, r) == Latest(g, s) /\ Granted(g, k, s, r)

Fields == {"state", "flags", "id", "reqid", "seen_ack", "retransmits", "nakloops",
           "timers", "upper", "want", "go", "ho", "out"}

Rec(g) == g = [x \in Fields |-> g[x]]

(* The structure of one end.                                               *)
Machine(g) ==
    /\ Rec(g)
    /\ g.state \in States /\ g.upper \in BOOLEAN /\ g.flags = {}
    /\ g.id \in Ids /\ g.reqid \in Ids /\ g.want \in CI /\ g.go \in CI /\ g.ho \in CI
    /\ g.out \in Seq(Packet)
    /\ g.upper => g.state = "OPENED"

PairInv ==
    /\ DOMAIN f = Peers /\ DOMAIN chan = Peers
    /\ \A p \in Peers : /\ Machine(f[p]) /\ f[p].out = <<>>
                        /\ chan[p] \in Seq(Packet)
                        /\ Direction(f[p], f[Other(p)], chan[Other(p)], chan[p])

-----------------------------------------------------------------------------
(* The services: what they change, what they leave alone.                  *)

(* The fields that matter here are the same in g and h.                    *)
Same(g, h) == /\ h.state = g.state /\ h.upper = g.upper /\ h.flags = g.flags
              /\ h.id = g.id /\ h.reqid = g.reqid
              /\ h.want = g.want /\ h.go = g.go /\ h.ho = g.ho

LEMMA NextIdType ==
  ASSUME NEW g, g.id \in Ids PROVE NextId(g) \in Ids
  BY IdAssumption DEF NextId, Ids

LEMMA TimerFacts ==
  ASSUME NEW g, Rec(g)
  PROVE  /\ Rec(TIMEOUT(g)) /\ Same(g, TIMEOUT(g)) /\ TIMEOUT(g).out = g.out
         /\ Rec(UNTIMEOUT(g)) /\ Same(g, UNTIMEOUT(g)) /\ UNTIMEOUT(g).out = g.out
  BY DEF Rec, Fields, Same, TIMEOUT, UNTIMEOUT

LEMMA SendFacts ==
  ASSUME NEW g, Rec(g), NEW code, NEW id, NEW ci
  PROVE  LET h == fsm_sdata(g, code, id, ci)
         IN  /\ Rec(h) /\ Same(g, h)
             /\ h.out = Append(g.out, [code |-> code, id |-> id, ci |-> ci])
  BY DEF Rec, Fields, Same, fsm_sdata

LEMMA ToFacts ==
  ASSUME NEW g, Rec(g), NEW st
  PROVE  LET h == To(g, st)
         IN  /\ Rec(h) /\ h.state = st /\ h.upper = g.upper /\ h.flags = g.flags
             /\ h.id = g.id /\ h.reqid = g.reqid
             /\ h.want = g.want /\ h.go = g.go /\ h.ho = g.ho /\ h.out = g.out
  BY DEF Rec, Fields, To

LEMMA DownFacts ==
  ASSUME NEW g, Rec(g)
  PROVE  LET h == Down(g)
         IN  /\ Rec(h) /\ h.upper = FALSE /\ h.state = g.state /\ h.flags = g.flags
             /\ h.id = g.id /\ h.reqid = g.reqid
             /\ h.want = g.want /\ h.go = g.go /\ h.ho = g.ho /\ h.out = g.out
  BY DEF Rec, Fields, Down

(* A new request has the next id and the options got so far.               *)
NewRequest(g, h) ==
    /\ Rec(h) /\ h.state = g.state /\ h.upper = g.upper /\ h.flags = g.flags
    /\ h.id = NextId(g) /\ h.reqid = NextId(g) /\ h.want = g.want /\ h.ho = g.ho
    /\ h.go \in {g.go, g.want}
    /\ h.out = Append(g.out, [code |-> "CONFREQ", id |-> h.reqid, ci |-> h.go])

LEMMA RequestFacts ==
  ASSUME NEW g, Rec(g)
  PROVE  NewRequest(g, fsm_sconfreq(g, FALSE))
  <1> DEFINE a == IF g.state \in Negotiating THEN g ELSE [resetci(g) EXCEPT !.nakloops = 0]
             b == [a EXCEPT !.retransmits = MaxConfReq, !.id = NextId(a), !.reqid = NextId(a)]
             c == [b EXCEPT !.seen_ack = FALSE, !.retransmits = @ - 1]
             d == fsm_sdata(c, "CONFREQ", b.reqid, addci(b))
  <1>1. /\ Rec(a) /\ a.state = g.state /\ a.upper = g.upper /\ a.flags = g.flags
        /\ a.id = g.id /\ a.want = g.want /\ a.ho = g.ho /\ a.out = g.out
        /\ a.go \in {g.go, g.want}
    BY DEF Rec, Fields, resetci
  <1>2. NextId(a) = NextId(g)
    BY <1>1 DEF NextId
  <1> HIDE DEF a
  <1>3. /\ Rec(b) /\ b.state = a.state /\ b.upper = a.upper /\ b.flags = a.flags
        /\ b.id = NextId(a) /\ b.reqid = NextId(a) /\ b.want = a.want /\ b.ho = a.ho
        /\ b.go = a.go /\ b.out = a.out
    BY <1>1 DEF Rec, Fields
  <1> HIDE DEF b
  <1>4. Rec(c) /\ Same(b, c) /\ c.out = b.out
    BY <1>3 DEF Rec, Fields, Same
  <1> HIDE DEF c
  <1>5. /\ Rec(d) /\ Same(c, d)
        /\ d.out = Append(c.out, [code |-> "CONFREQ", id |-> b.reqid, ci |-> b.go])
    BY <1>4, SendFacts DEF addci
  <1> HIDE DEF d
  <1>6. Rec(TIMEOUT(d)) /\ Same(d, TIMEOUT(d)) /\ TIMEOUT(d).out = d.out
    BY <1>5, TimerFacts
  <1>7. fsm_sconfreq(g, FALSE) = TIMEOUT(d)
    BY DEF fsm_sconfreq, a, b, c, d
  <1> DEFINE e == TIMEOUT(d)
  <1> HIDE DEF e
  <1>8. NewRequest(g, e)
    BY <1>1, <1>2, <1>3, <1>4, <1>5, <1>6 DEF NewRequest, Same, e
  <1>9. QED
    BY <1>7, <1>8 DEF e

(* A repeated one is the same packet again.                                *)
LEMMA RepeatFacts ==
  ASSUME NEW g, Rec(g), g.state \in Negotiating
  PROVE  LET h == fsm_sconfreq(g, TRUE)
         IN  /\ Rec(h) /\ Same(g, h)
             /\ h.out = Append(g.out, [code |-> "CONFREQ", id |-> g.reqid, ci |-> g.go])
  <1> DEFINE c == [g EXCEPT !.seen_ack = FALSE, !.retransmits = @ - 1]
             d == fsm_sdata(c, "CONFREQ", g.reqid, g.go)
  <1>1. Rec(c) /\ Same(g, c) /\ c.out = g.out
    BY DEF Rec, Fields, Same
  <1> HIDE DEF c
  <1>2. /\ Rec(d) /\ Same(c, d)
        /\ d.out = Append(c.out, [code |-> "CONFREQ", id |-> g.reqid, ci |-> g.go])
    BY <1>1 DEF Rec, Fields, Same, fsm_sdata
  <1>3. fsm_sconfreq(g, TRUE) = TIMEOUT(d)
    <2>1. /\ [g EXCEPT !.seen_ack = FALSE, !.retransmits = @ - 1] = c
          /\ fsm_sdata(c, "CONFREQ", g.reqid, g.go) = d
      BY DEF c, d
    <2>2. QED
      BY <2>1 DEF fsm_sconfreq, addci
  <1> HIDE DEF d
  <1>4. Rec(TIMEOUT(d)) /\ Same(d, TIMEOUT(d)) /\ TIMEOUT(d).out = d.out
    BY <1>2, TimerFacts
  <1>5. QED
    BY <1>1, <1>2, <1>3, <1>4 DEF Same

(* A Terminate-Request takes an id of its own.                             *)
NewEnd(g, h) ==
    /\ Rec(h) /\ h.state = g.state /\ h.upper = g.upper /\ h.flags = g.flags
    /\ h.id = NextId(g) /\ h.reqid = NextId(g)
    /\ h.want = g.want /\ h.go = g.go /\ h.ho = g.ho
    /\ h.out = Append(g.out, [code |-> "TERMREQ", id |-> NextId(g), ci |-> NoCI])

LEMMA EndFacts ==
  ASSUME NEW g, Rec(g)
  PROVE  NewEnd(g, SendTermReq(g))
  <1> DEFINE c == [g EXCEPT !.id = NextId(g), !.reqid = NextId(g), !.retransmits = @ - 1]
             d == fsm_sdata(c, "TERMREQ", NextId(g), NoCI)
  <1>1. /\ Rec(c) /\ c.state = g.state /\ c.upper = g.upper /\ c.flags = g.flags
        /\ c.id = NextId(g) /\ c.reqid = NextId(g)
        /\ c.want = g.want /\ c.go = g.go /\ c.ho = g.ho /\ c.out = g.out
    BY DEF Rec, Fields
  <1> HIDE DEF c
  <1>2. /\ Rec(d) /\ Same(c, d)
        /\ d.out = Append(c.out, [code |-> "TERMREQ", id |-> NextId(g), ci |-> NoCI])
    BY <1>1, SendFacts
  <1>3. SendTermReq(g) = TIMEOUT(d)
    BY DEF SendTermReq, c, d
  <1> HIDE DEF d
  <1>4. Rec(TIMEOUT(d)) /\ Same(d, TIMEOUT(d)) /\ TIMEOUT(d).out = d.out
    BY <1>2, TimerFacts
  <1>5. QED
    BY <1>1, <1>2, <1>3, <1>4 DEF Same, NewEnd

-----------------------------------------------------------------------------
(* What a call may do to the requests of its own end: leave the latest one *)
(* as it is and perhaps repeat it, or give it up for a new one.            *)
Asks(g, h) ==
    /\ Machine(h)
    /\ \A i \in DOMAIN h.out : Request(h.out[i]) => h.out[i].id = h.reqid /\ h.out[i].ci = h.go
    /\ \/ /\ h.reqid = g.reqid
          /\ h.state \in Talking => g.state \in Talking /\ h.go = g.go
          /\ Acked(h) => Acked(g)
       \/ h.reqid = NextId(g) /\ ~Acked(h)

(* ... and to the requests of the other end: nothing ...                   *)
Does(g, h) ==
    Asks(g, h) /\ h.ho = g.ho /\ \A i \in DOMAIN h.out : h.out[i].code # "CONFACK"

(* ... or it grants the one that it has read.                              *)
Grants(g, h, m) ==
    /\ Asks(g, h) /\ Request(m) /\ h.ho = m.ci
    /\ \A i \in DOMAIN h.out : h.out[i].code = "CONFACK" => h.out[i].id = m.id

(* It may also take the Ack of its latest request.                         *)
Accepts(g, h, m) ==
    /\ Machine(h) /\ h.out = <<>> /\ g.state \in Talking /\ Ack(m, g.reqid)
    /\ h.reqid = g.reqid /\ h.go = g.go /\ h.ho = g.ho

(* An end before a call.                                                   *)
Ready(g) == Machine(g) /\ g.out = <<>>

LEMMA OneSaid ==
  ASSUME NEW m PROVE Append(<<>>, m) = <<m>> /\ DOMAIN <<m>> = {1} /\ <<m>>[1] = m
  OBVIOUS

LEMMA SaidType ==
  ASSUME NEW code \in Codes, NEW id \in Ids, NEW ci \in CI
  PROVE  /\ [code |-> code, id |-> id, ci |-> ci] \in Packet
         /\ <<[code |-> code, id |-> id, ci |-> ci]>> \in Seq(Packet)
  BY DEF Packet

(* No packet and no new id.                                                *)
LEMMA Silent ==
  ASSUME NEW g, Ready(g), NEW h, Rec(h), h.out = <<>>, h.state \in States,
         h.upper \in BOOLEAN, h.flags = {}, h.id = g.id, h.reqid = g.reqid,
         h.want = g.want, h.ho = g.ho, h.go \in CI,
         h.state \in Talking => g.state \in Talking /\ h.go = g.go,
         h.upper => g.upper /\ h.state = "OPENED",
         h.state = "ACKRCVD" => g.state = "ACKRCVD"
  PROVE  Does(g, h)
  <1>1. Machine(h)
    BY DEF Ready, Machine
  <1>2. QED
    BY <1>1 DEF Does, Asks, Acked

(* A new request from an end that is like g in what matters.               *)
LEMMA Renewed ==
  ASSUME NEW g, Ready(g), NEW a, Rec(a), a.out = <<>>, a.id = g.id, a.ho = g.ho,
         a.want \in CI, a.go \in CI, a.flags = {}, a.upper = FALSE,
         NEW st \in {"REQSENT", "ACKSENT", "OPENED"}
  PROVE  Does(g, To(fsm_sconfreq(a, FALSE), st))
  <1> DEFINE b == fsm_sconfreq(a, FALSE)
             h == To(b, st)
  <1>1. NewRequest(a, b)
    BY RequestFacts
  <1>2. NextId(a) = NextId(g) /\ NextId(g) \in Ids /\ g.ho \in CI
    BY NextIdType DEF NextId, Ready, Machine
  <1> HIDE DEF b
  <1>3. /\ Rec(h) /\ h.state = st /\ h.upper = FALSE /\ h.flags = {}
        /\ h.id = NextId(g) /\ h.reqid = NextId(g) /\ h.want = a.want /\ h.ho = g.ho
        /\ h.go \in CI
        /\ h.out = Append(a.out, [code |-> "CONFREQ", id |-> h.reqid, ci |-> h.go])
    BY <1>1, <1>2, ToFacts DEF NewRequest
  <1> HIDE DEF h
  <1> DEFINE m == [code |-> "CONFREQ", id |-> h.reqid, ci |-> h.go]
  <1>4. m.code = "CONFREQ" /\ m.id = h.reqid /\ m.ci = h.go /\ <<m>> \in Seq(Packet)
    BY <1>2, <1>3, SaidType DEF Codes
  <1>5. h.out = Append(<<>>, m)
    BY <1>3
  <1> HIDE DEF m
  <1>6. h.out = <<m>> /\ DOMAIN h.out = {1} /\ h.out[1] = m
    BY <1>5, OneSaid
  <1>7. Machine(h)
    BY <1>2, <1>3, <1>4, <1>6 DEF Machine, States
  <1>8. ~Acked(h)
    BY <1>3 DEF Acked
  <1>9. Does(g, h)
    BY <1>3, <1>4, <1>6, <1>7, <1>8 DEF Does, Asks, Request
  <1>10. QED
    BY <1>9 DEF b, h

(* A Terminate-Request from one, and the wait for its answer.              *)
LEMMA Ended ==
  ASSUME NEW g, Ready(g), NEW a, Rec(a), a.out = <<>>, a.id = g.id, a.ho = g.ho,
         a.want \in CI, a.go \in CI, a.flags = {}, a.upper = FALSE,
         NEW st \in {"CLOSING", "STOPPING"}
  PROVE  Does(g, To(SendTermReq(a), st))
  <1> DEFINE b == SendTermReq(a)
             h == To(b, st)
             m == [code |-> "TERMREQ", id |-> NextId(a), ci |-> NoCI]
  <1>1. NewEnd(a, b)
    BY EndFacts
  <1>2. NextId(a) = NextId(g) /\ NextId(g) \in Ids /\ g.ho \in CI
    BY NextIdType DEF NextId, Ready, Machine
  <1> HIDE DEF b
  <1>3. /\ Rec(h) /\ h.state = st /\ h.upper = FALSE /\ h.flags = {}
        /\ h.id = NextId(g) /\ h.reqid = NextId(g) /\ h.want = a.want /\ h.ho = g.ho
        /\ h.go \in CI /\ h.out = Append(<<>>, m)
    BY <1>1, <1>2, ToFacts DEF NewEnd
  <1> HIDE DEF h
  <1>4. m.code = "TERMREQ" /\ <<m>> \in Seq(Packet)
    BY <1>2, CIAssumption, SaidType DEF Codes
  <1> HIDE DEF m
  <1>5. h.out = <<m>> /\ DOMAIN h.out = {1} /\ h.out[1] = m
    BY <1>3, OneSaid
  <1>6. Machine(h)
    BY <1>2, <1>3, <1>4, <1>5 DEF Machine, States
  <1>7. ~Acked(h)
    BY <1>3 DEF Acked
  <1>8. Does(g, h)
    BY <1>3, <1>4, <1>5, <1>6, <1>7 DEF Does, Asks, Request
  <1>9. QED
    BY <1>8 DEF b, h

(* An answer that is neither a request nor an Ack.                         *)
LEMMA Answered ==
  ASSUME NEW g, NEW a, Does(g, a), a.out = <<>>, NEW code \in Codes \ {"CONFREQ", "CONFACK"},
         NEW id \in Ids, NEW ci \in CI
  PROVE  Does(g, fsm_sdata(a, code, id, ci))
  <1> DEFINE h == fsm_sdata(a, code, id, ci)
             m == [code |-> code, id |-> id, ci |-> ci]
  <1>1. Machine(a) /\ Rec(a)
    BY DEF Does, Asks, Machine
  <1>2. Rec(h) /\ Same(a, h) /\ h.out = Append(<<>>, m)
    BY <1>1, SendFacts
  <1> HIDE DEF h
  <1>3. m.code = code /\ <<m>> \in Seq(Packet)
    BY SaidType
  <1> HIDE DEF m
  <1>4. h.out = <<m>> /\ DOMAIN h.out = {1} /\ h.out[1] = m
    BY <1>2, OneSaid
  <1>5. Machine(h)
    BY <1>1, <1>2, <1>3, <1>4 DEF Machine, Same
  <1>6. Does(g, h)
    BY <1>2, <1>3, <1>4, <1>5 DEF Does, Asks, Request, Same, Acked
  <1>7. QED
    BY <1>6 DEF h

-----------------------------------------------------------------------------
(* The calls from above and below.                                         *)
LEMMA ReadyFacts ==
  ASSUME NEW g, Ready(g)
  PROVE  /\ Rec(g) /\ g.out = <<>> /\ g.state \in States /\ g.upper \in BOOLEAN /\ g.flags = {}
         /\ g.id \in Ids /\ g.reqid \in Ids /\ g.want \in CI /\ g.go \in CI /\ g.ho \in CI
         /\ g.upper => g.state = "OPENED"
  BY DEF Ready, Machine

LEMMA Stays == ASSUME NEW g, Ready(g) PROVE Does(g, g)
  BY ReadyFacts, Silent

(* Another state, without the upper layer, outside of a negotiation.       *)
LEMMA Leaves ==
  ASSUME NEW g, Ready(g), NEW a, Rec(a), Same(g, a) \/ Same(Down(g), a), a.out = <<>>,
         ~a.upper, NEW st \in States \ Talking
  PROVE  Does(g, To(a, st)) /\ To(a, st).out = <<>>
  <1> DEFINE h == To(a, st)
  <1>1. /\ Rec(g) /\ g.flags = {} /\ g.go \in CI
    BY ReadyFacts
  <1>2. /\ a.flags = g.flags /\ a.id = g.id /\ a.reqid = g.reqid /\ a.want = g.want
        /\ a.go = g.go /\ a.ho = g.ho /\ a.upper \in BOOLEAN
    BY <1>1, ReadyFacts, DownFacts DEF Same
  <1>3. /\ Rec(h) /\ h.state = st /\ h.upper = a.upper /\ h.flags = {} /\ h.id = g.id
        /\ h.reqid = g.reqid /\ h.want = g.want /\ h.go = g.go /\ h.ho = g.ho /\ h.out = <<>>
    BY <1>1, <1>2, ToFacts
  <1> HIDE DEF h
  <1>4. Does(g, h)
    BY <1>1, <1>2, <1>3, Silent DEF Talking
  <1>5. QED
    BY <1>3, <1>4 DEF h

LEMMA Began ==
  ASSUME NEW g, Ready(g), ~g.upper
  PROVE  Does(g, Begin(g))
  BY ReadyFacts, Renewed DEF Begin

LEMMA LowerupDoes ==
  ASSUME NEW g, Ready(g) PROVE Does(g, fsm_lowerup(g))
  <1>1. CASE g.state = "INITIAL"
    <2>1. fsm_lowerup(g) = To(g, "CLOSED")
      BY <1>1 DEF fsm_lowerup
    <2>2. QED
      BY <1>1, <2>1, ReadyFacts, Leaves DEF States, Talking, Same
  <1>2. CASE g.state = "STARTING"
    <2>1. fsm_lowerup(g) = Begin(g)
      BY <1>2 DEF fsm_lowerup
    <2>2. QED
      BY <1>2, <2>1, ReadyFacts, Began
  <1>3. CASE g.state \notin {"INITIAL", "STARTING"}
    <2>1. fsm_lowerup(g) = g
      BY <1>3 DEF fsm_lowerup
    <2>2. QED
      BY <2>1, Stays
  <1>4. QED
    BY <1>1, <1>2, <1>3

LEMMA LowerdownDoes ==
  ASSUME NEW g, Ready(g) PROVE Does(g, fsm_lowerdown(g))
  <1>1. Rec(g) /\ Same(g, g) /\ g.out = <<>> /\ g.state \in States
    BY ReadyFacts DEF Same
  <1>2. CASE g.state \in {"CLOSED", "STOPPED"}
    <2>1. ~g.upper
      BY <1>2, ReadyFacts
    <2>2. fsm_lowerdown(g) = To(g, "INITIAL") \/ fsm_lowerdown(g) = To(g, "STARTING")
      BY <1>2 DEF fsm_lowerdown, Negotiating
    <2>3. QED
      BY <1>1, <2>1, <2>2, Leaves DEF States, Talking
  <1>3. CASE g.state \in Negotiating \cup Terminating
    <2>1. /\ Rec(UNTIMEOUT(g)) /\ Same(g, UNTIMEOUT(g)) /\ UNTIMEOUT(g).out = <<>>
          /\ ~UNTIMEOUT(g).upper
      BY <1>1, <1>3, ReadyFacts, TimerFacts DEF Same, Negotiating, Terminating
    <2>2. \/ fsm_lowerdown(g) = UNTIMEOUT(To(g, "INITIAL"))
          \/ fsm_lowerdown(g) = UNTIMEOUT(To(g, "STARTING"))
      BY <1>3 DEF fsm_lowerdown, Negotiating, Terminating
    <2>3. ASSUME NEW st \in {"INITIAL", "STARTING"} PROVE Does(g, UNTIMEOUT(To(g, st)))
      <3>1. UNTIMEOUT(To(g, st)) = To(UNTIMEOUT(g), st)
        BY <1>1 DEF UNTIMEOUT, To, Rec, Fields
      <3>2. QED
        BY <2>1, <3>1, Leaves DEF States, Talking
    <2>4. QED
      BY <2>2, <2>3
  <1>4. CASE g.state = "OPENED"
    <2>1. fsm_lowerdown(g) = To(Down(g), "STARTING")
      BY <1>4 DEF fsm_lowerdown, Negotiating
    <2>2. Rec(Down(g)) /\ ~Down(g).upper /\ Down(g).out = <<>> /\ Same(Down(g), Down(g))
      BY <1>1, DownFacts DEF Same
    <2>3. QED
      BY <2>1, <2>2, Leaves DEF States, Talking
  <1>5. CASE g.state \in {"INITIAL", "STARTING"}
    <2>1. fsm_lowerdown(g) = g
      BY <1>5 DEF fsm_lowerdown, Negotiating
    <2>2. QED
      BY <2>1, Stays
  <1>6. QED
    BY <1>1, <1>2, <1>3, <1>4, <1>5 DEF States, Negotiating, Terminating

LEMMA OpenDoes ==
  ASSUME NEW g, Ready(g) PROVE Does(g, fsm_open(g))
  <1>1. Rec(g) /\ Same(g, g) /\ g.out = <<>> /\ g.state \in States /\ g.flags = {}
    BY ReadyFacts DEF Same
  <1>2. CASE g.state \in {"CLOSING", "INITIAL"}
    <2>1. \/ fsm_open(g) = To(g, "STARTING")
          \/ fsm_open(g) = To(g, "STOPPING")
      <3>1. To(g, "STOPPING").state = "STOPPING" /\ To(g, "STOPPING").flags = {}
        BY <1>1, ToFacts
      <3>2. QED
        BY <1>2, <3>1 DEF fsm_open
    <2>2. ~g.upper
      BY <1>2, ReadyFacts
    <2>3. QED
      BY <1>1, <2>1, <2>2, Leaves DEF States, Talking
  <1>3. CASE g.state = "CLOSED"
    <2>1. fsm_open(g) = Begin(g)
      BY <1>3 DEF fsm_open
    <2>2. QED
      BY <1>3, <2>1, ReadyFacts, Began
  <1>4. CASE g.state \notin {"CLOSING", "INITIAL", "CLOSED"}
    <2>1. fsm_open(g) = g
      BY <1>1, <1>4 DEF fsm_open
    <2>2. QED
      BY <2>1, Stays
  <1>5. QED
    BY <1>2, <1>3, <1>4

LEMMA CloseDoes ==
  ASSUME NEW g, Ready(g) PROVE Does(g, fsm_close(g))
  <1>1. Rec(g) /\ Same(g, g) /\ g.out = <<>> /\ g.state \in States /\ g.flags = {}
    BY ReadyFacts DEF Same
  <1>2. CASE g.state \in {"STARTING", "STOPPED", "STOPPING"}
    <2>1. \/ fsm_close(g) = To(g, "INITIAL")
          \/ fsm_close(g) = To(g, "CLOSED")
          \/ fsm_close(g) = To(g, "CLOSING")
      BY <1>2 DEF fsm_close, Negotiating
    <2>2. ~g.upper
      BY <1>2, ReadyFacts
    <2>3. QED
      BY <1>1, <2>1, <2>2, Leaves DEF States, Talking
  <1>3. CASE g.state \in Negotiating \cup {"OPENED"}
    <2> DEFINE d == IF g.state = "OPENED" THEN Down(g) ELSE UNTIMEOUT(g)
               a == [d EXCEPT !.retransmits = MaxTermReq]
    <2>1. /\ Rec(d) /\ d.id = g.id /\ d.ho = g.ho /\ d.want = g.want /\ d.go = g.go
          /\ d.flags = {} /\ d.out = <<>> /\ d.upper = FALSE
      <3>1. CASE g.state = "OPENED"
        BY <1>1, <3>1, DownFacts
      <3>2. CASE g.state # "OPENED"
        <4>1. g.upper = FALSE
          BY <3>2, ReadyFacts
        <4>2. QED
          BY <1>1, <3>2, <4>1, TimerFacts DEF Same
      <3>3. QED
        BY <3>1, <3>2
    <2> HIDE DEF d
    <2>2. /\ Rec(a) /\ a.id = g.id /\ a.ho = g.ho /\ a.want = g.want /\ a.go = g.go
          /\ a.flags = {} /\ a.out = <<>> /\ a.upper = FALSE
      BY <2>1 DEF Rec, Fields
    <2>3. fsm_close(g) = To(SendTermReq(a), "CLOSING")
      BY <1>3 DEF fsm_close, Negotiating, d
    <2> HIDE DEF a
    <2>4. QED
      BY <2>2, <2>3, ReadyFacts, Ended
  <1>4. CASE g.state \in {"INITIAL", "CLOSED", "CLOSING"}
    <2>1. fsm_close(g) = g
      BY <1>4 DEF fsm_close, Negotiating
    <2>2. QED
      BY <2>1, Stays
  <1>5. QED
    BY <1>1, <1>2, <1>3, <1>4 DEF States, Negotiating

(* The timer: a repetition, another Terminate-Request or the end.          *)
LEMMA Repeated ==
  ASSUME NEW g, Ready(g), NEW a, Rec(a), Same(g, a), a.out = <<>>, a.state \in Negotiating,
         NEW st \in Negotiating, st = "ACKRCVD" => g.state = "ACKRCVD"
  PROVE  Does(g, To(fsm_sconfreq(a, TRUE), st))
  <1> DEFINE b == fsm_sconfreq(a, TRUE)
             h == To(b, st)
             m == [code |-> "CONFREQ", id |-> a.reqid, ci |-> a.go]
  <1>1. Rec(b) /\ Same(a, b) /\ b.out = Append(<<>>, m)
    BY RepeatFacts
  <1>2. g.state \in Negotiating /\ g.upper = FALSE
    BY ReadyFacts DEF Same, Negotiating
  <1> HIDE DEF b
  <1>3. m.code = "CONFREQ" /\ m.id = g.reqid /\ m.ci = g.go /\ <<m>> \in Seq(Packet)
    BY ReadyFacts, SaidType DEF Same, Codes
  <1> HIDE DEF m
  <1>4. /\ Rec(h) /\ h.state = st /\ h.upper = g.upper /\ h.flags = g.flags
        /\ h.id = g.id /\ h.reqid = g.reqid
        /\ h.want = g.want /\ h.go = g.go /\ h.ho = g.ho /\ h.out = b.out
    BY <1>1, ToFacts DEF Same
  <1> HIDE DEF h
  <1>5. h.out = <<m>> /\ DOMAIN h.out = {1} /\ h.out[1] = m
    BY <1>1, <1>4, OneSaid
  <1>6. Machine(h)
    BY <1>2, <1>3, <1>4, <1>5, ReadyFacts DEF Machine, States, Negotiating
  <1>7. (Acked(h) => Acked(g)) /\ g.state \in Talking
    BY <1>2, <1>4 DEF Acked, Negotiating, Talking
  <1>8. Does(g, h)
    BY <1>3, <1>4, <1>5, <1>6, <1>7 DEF Does, Asks, Request
  <1>9. QED
    BY <1>8 DEF b, h

LEMMA TimeoutDoes ==
  ASSUME NEW g, Ready(g), NEW a, Rec(a), Same(g, a), a.out = <<>>
  PROVE  Does(g, fsm_timeout(a))
  <1>1. /\ a.state = g.state /\ a.id = g.id /\ a.ho = g.ho /\ a.want \in CI /\ a.go \in CI
        /\ a.flags = {} /\ g.state \in States
    BY ReadyFacts DEF Same
  <1>2. CASE a.state \in Terminating \cup Negotiating /\ a.retransmits <= 0
    <2>1. \/ fsm_timeout(a) = To(a, "CLOSED")
          \/ fsm_timeout(a) = To(a, "STOPPED")
      BY <1>2 DEF fsm_timeout
    <2>2. ~a.upper
      BY <1>1, <1>2, ReadyFacts DEF Same, Negotiating, Terminating
    <2>3. QED
      BY <2>1, <2>2, Leaves DEF States, Talking
  <1>3. CASE a.state \in Terminating /\ ~(a.retransmits <= 0)
    <2>1. fsm_timeout(a) = SendTermReq(a) /\ NewEnd(a, SendTermReq(a))
      BY <1>3, EndFacts DEF fsm_timeout, Negotiating, Terminating
    <2>2. SendTermReq(a) = To(SendTermReq(a), a.state)
      BY <2>1 DEF NewEnd, To, Rec, Fields
    <2>3. a.upper = FALSE /\ a.state \in {"CLOSING", "STOPPING"}
      BY <1>1, <1>3, ReadyFacts DEF Same, Terminating
    <2>4. Does(g, To(SendTermReq(a), a.state))
      BY <1>1, <2>3, Ended
    <2>5. QED
      BY <2>1, <2>2, <2>4
  <1>4. CASE a.state \in Negotiating /\ ~(a.retransmits <= 0)
    <2> DEFINE b == fsm_sconfreq(a, TRUE)
    <2>1. Rec(b) /\ b.state = a.state
      BY <1>4, RepeatFacts DEF Same
    <2>2. fsm_timeout(a) = IF b.state = "ACKRCVD" THEN To(b, "REQSENT") ELSE b
      BY <1>4 DEF fsm_timeout, Negotiating, Terminating
    <2> HIDE DEF b
    <2>3. b = To(b, a.state)
      BY <2>1 DEF To, Rec, Fields
    <2>4. CASE a.state = "ACKRCVD"
      <3>1. Does(g, To(b, "REQSENT"))
        BY <1>4, Repeated DEF Negotiating, b
      <3>2. QED
        BY <2>1, <2>2, <2>4, <3>1
    <2>5. CASE a.state # "ACKRCVD"
      <3>1. Does(g, To(b, a.state))
        BY <1>4, <2>5, Repeated DEF b
      <3>2. QED
        BY <2>1, <2>2, <2>3, <2>5, <3>1
    <2>6. QED
      BY <2>4, <2>5
  <1>5. CASE a.state \notin Terminating \cup Negotiating
    <2>1. fsm_timeout(a) = a
      BY <1>5 DEF fsm_timeout
    <2>2. QED
      BY <1>1, <2>1, ReadyFacts, Silent DEF Same
  <1>6. QED
    BY <1>2, <1>3, <1>4, <1>5

-----------------------------------------------------------------------------
(* The packets.                                                            *)
LEMMA RcoderejDoes ==
  ASSUME NEW g, Ready(g) PROVE Does(g, fsm_rcoderej(g))
  <1>1. CASE g.state = "ACKRCVD"
    <2> DEFINE h == To(g, "REQSENT")
    <2>1. /\ Rec(h) /\ h.state = "REQSENT" /\ h.upper = g.upper /\ h.flags = {}
          /\ h.id = g.id /\ h.reqid = g.reqid /\ h.out = <<>>
          /\ h.want = g.want /\ h.go = g.go /\ h.ho = g.ho
      BY ReadyFacts, ToFacts
    <2>2. fsm_rcoderej(g) = h
      BY <1>1 DEF fsm_rcoderej
    <2> HIDE DEF h
    <2>3. QED
      BY <1>1, <2>1, <2>2, ReadyFacts, Silent DEF States, Talking
  <1>2. CASE g.state # "ACKRCVD"
    BY <1>2, Stays DEF fsm_rcoderej
  <1>3. QED
    BY <1>1, <1>2

LEMMA RtermackDoes ==
  ASSUME NEW g, Ready(g) PROVE Does(g, fsm_rtermack(g))
  <1>1. Rec(g) /\ Same(g, g) /\ g.out = <<>> /\ g.state \in States
    BY ReadyFacts DEF Same
  <1>2. CASE g.state \in Terminating
    <2>1. /\ Rec(UNTIMEOUT(g)) /\ Same(g, UNTIMEOUT(g)) /\ UNTIMEOUT(g).out = <<>>
          /\ ~UNTIMEOUT(g).upper
      BY <1>1, <1>2, ReadyFacts, TimerFacts DEF Same, Terminating
    <2>2. \/ fsm_rtermack(g) = To(UNTIMEOUT(g), "CLOSED")
          \/ fsm_rtermack(g) = To(UNTIMEOUT(g), "STOPPED")
      BY <1>2 DEF fsm_rtermack, Terminating
    <2>3. QED
      BY <2>1, <2>2, Leaves DEF States, Talking
  <1>3. CASE g.state = "ACKRCVD"
    BY <1>3, RcoderejDoes DEF fsm_rtermack, fsm_rcoderej
  <1>4. CASE g.state = "OPENED"
    <2> DEFINE d == Down(g)
               b == fsm_sconfreq(d, FALSE)
    <2>1. /\ Rec(d) /\ d.out = <<>> /\ d.id = g.id /\ d.ho = g.ho /\ d.upper = FALSE
          /\ d.want \in CI /\ d.go \in CI /\ d.flags = {} /\ d.state = "OPENED"
      BY <1>1, <1>4, ReadyFacts, DownFacts
    <2>2. fsm_rtermack(g) = b
      BY <1>4 DEF fsm_rtermack
    <2> HIDE DEF d
    <2>3. Rec(b) /\ b.state = "OPENED"
      BY <2>1, RequestFacts DEF NewRequest
    <2>4. Does(g, To(b, "OPENED"))
      BY <2>1, Renewed
    <2> HIDE DEF b
    <2>5. b = To(b, "OPENED")
      BY <2>3 DEF To, Rec, Fields
    <2>6. QED
      BY <2>2, <2>4, <2>5
  <1>5. CASE g.state \notin Terminating \cup {"ACKRCVD", "OPENED"}
    <2>1. fsm_rtermack(g) = g
      BY <1>5 DEF fsm_rtermack, Terminating
    <2>2. QED
      BY <2>1, Stays
  <1>6. QED
    BY <1>2, <1>3, <1>4, <1>5

LEMMA RtermreqDoes ==
  ASSUME NEW g, Ready(g), NEW id \in Ids PROVE Does(g, fsm_rtermreq(g, id))
  <1>1. Rec(g) /\ Same(g, g) /\ g.out = <<>> /\ g.state \in States
    BY ReadyFacts DEF Same
  <1> DEFINE a == CASE g.state \in {"ACKRCVD", "ACKSENT"} -> To(g, "REQSENT")
                    [] g.state = "OPENED" ->
                         TIMEOUT(To([Down(g) EXCEPT !.retransmits = 0], "STOPPING"))
                    [] OTHER -> g
  <1>2. Does(g, a) /\ a.out = <<>>
    <2>1. CASE g.state \in {"ACKRCVD", "ACKSENT"}
      <3> DEFINE h == To(g, "REQSENT")
      <3>1. /\ Rec(h) /\ h.state = "REQSENT" /\ h.upper = g.upper /\ h.flags = {}
            /\ h.id = g.id /\ h.reqid = g.reqid /\ h.out = <<>>
            /\ h.want = g.want /\ h.go = g.go /\ h.ho = g.ho
        BY ReadyFacts, ToFacts
      <3>2. a = h
        BY <2>1
      <3> HIDE DEF h, a
      <3>3. QED
        BY <2>1, <3>1, <3>2, ReadyFacts, Silent DEF States, Talking
    <2>2. CASE g.state = "OPENED"
      <3> DEFINE d == [Down(g) EXCEPT !.retransmits = 0]
                 h == TIMEOUT(To(d, "STOPPING"))
      <3>1. Rec(d) /\ Same(Down(g), d) /\ d.out = <<>> /\ ~d.upper
        BY <1>1, DownFacts DEF Rec, Fields, Same
      <3>2. a = h
        BY <2>2
      <3> HIDE DEF d, a
      <3>3. h = To(TIMEOUT(d), "STOPPING")
        BY <3>1 DEF TIMEOUT, To, Rec, Fields
      <3>4. /\ Rec(TIMEOUT(d)) /\ Same(Down(g), TIMEOUT(d)) /\ TIMEOUT(d).out = <<>>
            /\ ~TIMEOUT(d).upper
        BY <3>1, TimerFacts DEF Same
      <3>5. QED
        BY <3>2, <3>3, <3>4, Leaves DEF States, Talking
    <2>3. CASE g.state \notin {"ACKRCVD", "ACKSENT", "OPENED"}
      <3>1. a = g
        BY <2>3
      <3>2. QED
        BY <1>1, <3>1, Stays
    <2>4. QED
      BY <2>1, <2>2, <2>3
  <1>3. fsm_rtermreq(g, id) = fsm_sdata(a, "TERMACK", id, NoCI)
    BY DEF fsm_rtermreq
  <1> HIDE DEF a
  <1>4. QED
    BY <1>2, <1>3, CIAssumption, Answered DEF Codes

(* An Ack: only that of the latest request, with its options, counts.      *)
LEMMA RconfackDoes ==
  ASSUME NEW g, Ready(g), NEW m \in Packet, m.code = "CONFACK"
  PROVE  LET h == fsm_rconfack(g, m.id, m.ci, FALSE)
         IN  Does(g, h) \/ Accepts(g, h, m)
  <1> DEFINE a == [g EXCEPT !.seen_ack = TRUE]
             h == fsm_rconfack(g, m.id, m.ci, FALSE)
  <1>1. Rec(g) /\ g.out = <<>> /\ g.state \in States /\ m.id \in Ids /\ g.want \in CI /\ g.go \in CI
    BY ReadyFacts DEF Packet
  <1>2. Rec(a) /\ Same(g, a) /\ a.out = <<>>
    BY <1>1 DEF Rec, Fields, Same
  <1>3. CASE ~Expected(g, m.id) \/ ~ackci(g, m.ci)
    <2>1. h = g
      BY <1>3 DEF fsm_rconfack
    <2>2. QED
      BY <2>1, Stays
  <1>4. CASE Expected(g, m.id) /\ ackci(g, m.ci)
    <2>1. Ack(m, g.reqid)
      BY <1>4 DEF Expected, Ack
    <2>2. h = CASE a.state \in {"CLOSED", "STOPPED"} -> fsm_sdata(a, "TERMACK", m.id, NoCI)
                [] a.state = "REQSENT" ->
                     [To(a, "ACKRCVD") EXCEPT !.retransmits = MaxConfReq]
                [] a.state = "ACKRCVD" -> Restart(UNTIMEOUT(a))
                [] a.state = "ACKSENT" ->
                     Up([To(UNTIMEOUT(a), "OPENED") EXCEPT !.retransmits = MaxConfReq], FALSE)
                [] a.state = "OPENED" -> Restart(Down(a))
                [] OTHER -> a
      BY <1>4 DEF fsm_rconfack
    <2> HIDE DEF h, a
    <2>3. a.state = g.state
      BY <1>2 DEF Same
    <2>4. Does(g, a)
      BY <1>1, <1>2, ReadyFacts, Silent DEF Same
    <2>5. CASE g.state \in {"CLOSED", "STOPPED"}
      <3>1. h = fsm_sdata(a, "TERMACK", m.id, NoCI)
        BY <2>2, <2>3, <2>5
      <3>2. QED
        BY <1>1, <1>2, <2>4, <3>1, CIAssumption, Answered DEF Codes, h
    <2>6. CASE g.state = "REQSENT"
      <3> DEFINE b == To(a, "ACKRCVD")
      <3>1. h = [b EXCEPT !.retransmits = MaxConfReq]
        BY <2>2, <2>3, <2>6
      <3>2. /\ Rec(b) /\ b.state = "ACKRCVD" /\ b.upper = g.upper /\ b.flags = g.flags
            /\ b.id = g.id /\ b.reqid = g.reqid
            /\ b.want = g.want /\ b.go = g.go /\ b.ho = g.ho /\ b.out = <<>>
        BY <1>2, ToFacts DEF Same
      <3> HIDE DEF b
      <3>3. Rec(h) /\ Same(b, h) /\ h.out = <<>>
        BY <3>1, <3>2 DEF Rec, Fields, Same
      <3>4. Machine(h)
        BY <2>6, <3>2, <3>3, ReadyFacts DEF Machine, Same, States
      <3>5. Accepts(g, h, m)
        BY <2>1, <2>6, <3>2, <3>3, <3>4 DEF Accepts, Same, Talking
      <3>6. QED
        BY <3>5 DEF h
    <2>7. CASE g.state \in {"ACKRCVD", "OPENED"}
      <3> DEFINE b == IF g.state = "OPENED" THEN Down(a) ELSE UNTIMEOUT(a)
      <3>1. h = To(fsm_sconfreq(b, FALSE), "REQSENT")
        BY <2>2, <2>3, <2>7 DEF Restart
      <3>2. CASE g.state = "OPENED"
        <4>1. /\ Rec(b) /\ b.upper = FALSE /\ b.flags = {} /\ b.id = g.id /\ b.out = <<>>
              /\ b.want = g.want /\ b.go = g.go /\ b.ho = g.ho
          BY <1>2, <3>2, DownFacts, ReadyFacts DEF Same
        <4> HIDE DEF b
        <4>2. QED
          BY <1>1, <3>1, <4>1, Renewed DEF h
      <3>3. CASE g.state = "ACKRCVD"
        <4>1. g.upper = FALSE /\ g.flags = {}
          BY <3>3, ReadyFacts
        <4>2. /\ Rec(b) /\ b.upper = FALSE /\ b.flags = {} /\ b.id = g.id /\ b.out = <<>>
              /\ b.want = g.want /\ b.go = g.go /\ b.ho = g.ho
          BY <1>2, <3>3, <4>1, TimerFacts DEF Same
        <4> HIDE DEF b
        <4>3. QED
          BY <1>1, <3>1, <4>2, Renewed DEF h
      <3>4. QED
        BY <2>7, <3>2, <3>3
    <2>8. CASE g.state = "ACKSENT"
      <3> DEFINE u == UNTIMEOUT(a)
                 b == To(u, "OPENED")
                 c == [b EXCEPT !.retransmits = MaxConfReq]
      <3>1. h = [c EXCEPT !.upper = TRUE]
        BY <2>2, <2>3, <2>8 DEF Up
      <3>2. Rec(u) /\ Same(g, u) /\ u.out = <<>>
        BY <1>2, TimerFacts DEF Same
      <3> HIDE DEF u
      <3>3. /\ Rec(b) /\ b.state = "OPENED" /\ b.flags = g.flags
            /\ b.id = g.id /\ b.reqid = g.reqid
            /\ b.want = g.want /\ b.go = g.go /\ b.ho = g.ho /\ b.out = <<>>
        BY <3>2, ToFacts DEF Same
      <3> HIDE DEF b
      <3>4. Rec(c) /\ Same(b, c) /\ c.out = <<>>
        BY <3>3 DEF Rec, Fields, Same
      <3> HIDE DEF c
      <3>5. /\ Rec(h) /\ h.state = "OPENED" /\ h.flags = g.flags /\ h.upper = TRUE
            /\ h.id = g.id /\ h.reqid = g.reqid
            /\ h.want = g.want /\ h.go = g.go /\ h.ho = g.ho /\ h.out = <<>>
        BY <3>1, <3>3, <3>4 DEF Rec, Fields, Same
      <3>6. Machine(h)
        <4>1. /\ g.flags = {} /\ g.id \in Ids /\ g.reqid \in Ids /\ g.out \in Seq(Packet)
              /\ g.want \in CI /\ g.go \in CI /\ g.ho \in CI /\ g.out = <<>>
          BY DEF Ready, Machine
        <4>2. QED
          BY <3>5, <4>1 DEF Machine, States
      <3>7. Accepts(g, h, m)
        BY <2>1, <2>8, <3>5, <3>6 DEF Accepts, Talking
      <3>8. QED
        BY <3>7 DEF h
    <2>9. CASE g.state \notin {"CLOSED", "STOPPED"} \cup Talking
      <3>1. h = a
        BY <2>2, <2>3, <2>9 DEF Talking
      <3>2. QED
        BY <2>4, <3>1 DEF h
    <2>10. QED
      BY <2>5, <2>6, <2>7, <2>8, <2>9 DEF Talking
  <1>5. QED
    BY <1>3, <1>4

(* A Nak or Reject: other options, under a new request.                    *)
LEMMA RconfnakrejDoes ==
  ASSUME NEW g, Ready(g), NEW id \in Ids, NEW try \in CI
  PROVE  Does(g, fsm_rconfnakrej(g, id, 1, try, FALSE))
  <1> DEFINE n == IF g.state = "OPENED" THEN g ELSE [g EXCEPT !.go = try]
             a == [n EXCEPT !.seen_ack = TRUE]
             h == fsm_rconfnakrej(g, id, 1, try, FALSE)
  <1>1. Rec(g) /\ g.out = <<>> /\ g.state \in States /\ g.want \in CI /\ g.go \in CI
    BY ReadyFacts
  <1>2. /\ Rec(a) /\ a.state = g.state /\ a.upper = g.upper /\ a.flags = g.flags
        /\ a.id = g.id /\ a.reqid = g.reqid /\ a.out = <<>>
        /\ a.want = g.want /\ a.go \in CI /\ a.ho = g.ho
        /\ g.state = "OPENED" => a.go = g.go
    <2>1. /\ Rec(n) /\ n.state = g.state /\ n.upper = g.upper /\ n.flags = g.flags
          /\ n.id = g.id /\ n.reqid = g.reqid /\ n.out = <<>>
          /\ n.want = g.want /\ n.go \in CI /\ n.ho = g.ho
          /\ g.state = "OPENED" => n.go = g.go
      BY <1>1 DEF Rec, Fields
    <2> HIDE DEF n
    <2>2. QED
      BY <2>1 DEF Rec, Fields
  <1>3. CASE ~Expected(g, id)
    <2>1. h = g
      BY <1>3 DEF fsm_rconfnakrej
    <2>2. QED
      BY <2>1, Stays
  <1>4. CASE Expected(g, id)
    <2>1. h = CASE a.state \in {"CLOSED", "STOPPED"} -> fsm_sdata(a, "TERMACK", id, NoCI)
                [] a.state \in {"REQSENT", "ACKSENT"} -> fsm_sconfreq(UNTIMEOUT(a), FALSE)
                [] a.state = "ACKRCVD" -> Restart(UNTIMEOUT(a))
                [] a.state = "OPENED" -> Restart(Down(a))
                [] OTHER -> a
      BY <1>4 DEF fsm_rconfnakrej
    <2> HIDE DEF h, a
    <2>2. CASE g.state \notin Talking
      <3>1. Does(g, a)
        BY <1>1, <1>2, <2>2, ReadyFacts, Silent DEF Talking
      <3>2. CASE g.state \in {"CLOSED", "STOPPED"}
        <4>1. h = fsm_sdata(a, "TERMACK", id, NoCI)
          BY <1>2, <2>1, <3>2
        <4>2. QED
          BY <1>2, <3>1, <4>1, CIAssumption, Answered DEF Codes, h
      <3>3. CASE g.state \notin {"CLOSED", "STOPPED"}
        <4>1. h = a
          BY <1>2, <2>1, <2>2, <3>3 DEF Talking
        <4>2. QED
          BY <3>1, <4>1 DEF h
      <3>4. QED
        BY <3>2, <3>3
    <2>3. CASE g.state \in Negotiating
      <3> DEFINE u == UNTIMEOUT(a)
                 b == fsm_sconfreq(u, FALSE)
      <3>1. g.upper = FALSE /\ g.flags = {}
        BY <2>3, ReadyFacts DEF Negotiating
      <3>2. /\ Rec(u) /\ u.upper = FALSE /\ u.flags = {} /\ u.id = g.id /\ u.out = <<>>
            /\ u.want = g.want /\ u.go \in CI /\ u.ho = g.ho /\ u.state = g.state
        BY <1>2, <3>1, TimerFacts DEF Same
      <3> HIDE DEF u
      <3>3. CASE g.state = "ACKRCVD"
        <4>1. h = To(b, "REQSENT")
          BY <1>2, <2>1, <3>3 DEF Restart, u
        <4>2. QED
          BY <1>1, <3>2, <4>1, Renewed DEF h
      <3>4. CASE g.state \in {"REQSENT", "ACKSENT"}
        <4>1. h = b
          BY <1>2, <2>1, <3>4 DEF u
        <4>2. Does(g, To(b, g.state))
          BY <1>1, <3>2, <3>4, Renewed
        <4>3. Rec(b) /\ b.state = g.state
          BY <3>2, RequestFacts DEF NewRequest
        <4> HIDE DEF b
        <4>4. To(b, g.state) = b
          BY <4>3 DEF To, Rec, Fields
        <4>5. QED
          BY <4>1, <4>2, <4>4 DEF h
      <3>5. QED
        BY <2>3, <3>3, <3>4 DEF Negotiating
    <2>4. CASE g.state = "OPENED"
      <3> DEFINE u == Down(a)
      <3>1. h = To(fsm_sconfreq(u, FALSE), "REQSENT")
        BY <1>2, <2>1, <2>4 DEF Restart
      <3>2. /\ Rec(u) /\ u.upper = FALSE /\ u.flags = {} /\ u.id = g.id /\ u.out = <<>>
            /\ u.want = g.want /\ u.go \in CI /\ u.ho = g.ho
        BY <1>2, DownFacts, ReadyFacts
      <3> HIDE DEF u
      <3>3. QED
        BY <1>1, <3>1, <3>2, Renewed DEF h
    <2>5. QED
      BY <2>2, <2>3, <2>4 DEF Talking, Negotiating
  <1>5. QED
    BY <1>3, <1>4

(* A Request.  The answer follows the request that the automaton may have  *)
(* to send first.                                                          *)
LEMMA AppendFacts ==
  ASSUME NEW s \in Seq(Packet), NEW m \in Packet
  PROVE  /\ Append(s, m) \in Seq(Packet)
         /\ \A i \in DOMAIN Append(s, m) :
              Append(s, m)[i] = m \/ (i \in DOMAIN s /\ Append(s, m)[i] = s[i])
  OBVIOUS

LEMMA Spoken ==
  ASSUME NEW g, NEW a, Does(g, a), NEW code \in Codes \ {"CONFREQ"}, NEW id \in Ids, NEW ci \in CI
  PROVE  LET s == fsm_sdata(a, code, id, ci)
         IN  /\ Asks(g, s) /\ Rec(s) /\ Same(a, s)
             /\ \A i \in DOMAIN s.out : s.out[i].code = "CONFACK" =>
                  code = "CONFACK" /\ s.out[i].id = id
  <1> DEFINE s == fsm_sdata(a, code, id, ci)
             m == [code |-> code, id |-> id, ci |-> ci]
  <1>1. /\ Machine(a) /\ Rec(a) /\ a.out \in Seq(Packet)
        /\ \A i \in DOMAIN a.out : /\ a.out[i].code # "CONFACK"
                                   /\ Request(a.out[i]) => a.out[i].id = a.reqid /\ a.out[i].ci = a.go
    BY DEF Does, Asks, Machine
  <1>2. Rec(s) /\ Same(a, s) /\ s.out = Append(a.out, m)
    BY <1>1, SendFacts
  <1>3. m \in Packet /\ m.code = code /\ m.id = id
    BY SaidType
  <1> HIDE DEF s, m
  <1>4. /\ s.out \in Seq(Packet)
        /\ \A i \in DOMAIN s.out : s.out[i] = m \/ (i \in DOMAIN a.out /\ s.out[i] = a.out[i])
    BY <1>1, <1>2, <1>3, AppendFacts
  <1>5. Machine(s)
    BY <1>1, <1>2, <1>4 DEF Machine, Same
  <1>6. \A i \in DOMAIN s.out : Request(s.out[i]) => s.out[i].id = s.reqid /\ s.out[i].ci = s.go
    BY <1>1, <1>2, <1>3, <1>4 DEF Request, Same
  <1>7. \A i \in DOMAIN s.out : s.out[i].code = "CONFACK" => code = "CONFACK" /\ s.out[i].id = id
    BY <1>1, <1>3, <1>4
  <1>8. Asks(g, s)
    BY <1>2, <1>5, <1>6 DEF Does, Asks, Same, Acked
  <1>9. QED
    BY <1>2, <1>7, <1>8 DEF s

(* Another state of the negotiation, with the same request.                *)
LEMMA Turned ==
  ASSUME NEW g, NEW s, Asks(g, s), s.state \in Talking, NEW h, Rec(h),
         h.id = s.id, h.reqid = s.reqid, h.go = s.go, h.want = s.want, h.flags = s.flags,
         h.out = s.out, h.ho \in CI, h.upper \in BOOLEAN, h.state \in Talking,
         h.upper => h.state = "OPENED", Acked(h) => s.state = "ACKRCVD"
  PROVE  Asks(g, h)
  <1>1. Machine(s)
    BY DEF Asks
  <1>2. Machine(h)
    BY <1>1 DEF Machine, Talking, States
  <1>3. Acked(h) => Acked(s)
    BY DEF Acked
  <1>4. QED
    BY <1>2, <1>3 DEF Asks

(* What the automaton does before it answers.                              *)
Opening(g) == CASE g.state = "OPENED"  -> fsm_sconfreq(Down(g), FALSE)
                [] g.state = "STOPPED" -> To(fsm_sconfreq(g, FALSE), "REQSENT")
                [] OTHER -> g

LEMMA OpeningDoes ==
  ASSUME NEW g, Ready(g), g.state \in Talking \cup {"STOPPED"}
  PROVE  LET a == Opening(g) IN Does(g, a) /\ ~a.upper /\ a.state \in Talking
  <1>1. Rec(g) /\ g.out = <<>> /\ g.flags = {} /\ g.want \in CI /\ g.go \in CI
    BY ReadyFacts
  <1>2. CASE g.state = "OPENED"
    <2> DEFINE d == Down(g)
               b == fsm_sconfreq(d, FALSE)
    <2>1. /\ Rec(d) /\ d.out = <<>> /\ d.id = g.id /\ d.ho = g.ho /\ d.upper = FALSE
          /\ d.want \in CI /\ d.go \in CI /\ d.flags = {} /\ d.state = "OPENED"
      BY <1>1, <1>2, DownFacts
    <2>2. Opening(g) = b
      BY <1>2 DEF Opening
    <2> HIDE DEF d
    <2>3. Rec(b) /\ b.state = "OPENED" /\ b.upper = FALSE
      BY <2>1, RequestFacts DEF NewRequest
    <2>4. Does(g, To(b, "OPENED"))
      BY <2>1, Renewed
    <2> HIDE DEF b
    <2>5. b = To(b, "OPENED")
      BY <2>3 DEF To, Rec, Fields
    <2>6. QED
      BY <2>2, <2>3, <2>4, <2>5 DEF Talking
  <1>3. CASE g.state = "STOPPED"
    <2> DEFINE b == fsm_sconfreq(g, FALSE)
    <2>1. g.upper = FALSE
      BY <1>3, ReadyFacts
    <2>2. Opening(g) = To(b, "REQSENT")
      BY <1>3 DEF Opening
    <2>3. Rec(b) /\ b.upper = FALSE
      BY <1>1, <2>1, RequestFacts DEF NewRequest
    <2>4. Does(g, To(b, "REQSENT"))
      BY <1>1, <2>1, Renewed
    <2> HIDE DEF b
    <2>5. QED
      BY <2>2, <2>3, <2>4, ToFacts DEF Talking
  <1>4. CASE g.state \in Negotiating
    <2>1. Opening(g) = g /\ ~g.upper
      BY <1>4, ReadyFacts DEF Opening, Negotiating
    <2>2. QED
      BY <1>4, <2>1, Stays DEF Negotiating, Talking
  <1>5. QED
    BY <1>2, <1>3, <1>4 DEF Talking, Negotiating

LEMMA RconfreqDoes ==
  ASSUME NEW g, Ready(g), g.state \notin {"INITIAL", "STARTING"},
         NEW m \in Packet, m.code = "CONFREQ",
         NEW v \in {"CONFACK", "CONFNAK"}, NEW hint \in CI
  PROVE  LET h == fsm_rconfreq(g, m.id, m.ci, v, hint, TRUE, FALSE)
         IN  Does(g, h) \/ Grants(g, h, m)
  <1>1. m.id \in Ids /\ m.ci \in CI /\ g.state \in States
    BY ReadyFacts DEF Packet
  <1> DEFINE h == fsm_rconfreq(g, m.id, m.ci, v, hint, TRUE, FALSE)
  <1>2. CASE g.state = "CLOSED"
    <2>1. h = fsm_sdata(g, "TERMACK", m.id, NoCI)
      BY <1>2 DEF fsm_rconfreq, Terminating
    <2> HIDE DEF h
    <2>2. Does(g, h)
      BY <1>1, <2>1, CIAssumption, ReadyFacts, Stays, Answered DEF Codes
    <2>3. QED
      BY <2>2 DEF h
  <1>3. CASE g.state \in Terminating
    <2>1. h = g
      BY <1>3 DEF fsm_rconfreq, Terminating
    <2>2. QED
      BY <2>1, Stays
  <1>4. CASE g.state \in Talking \cup {"STOPPED"}
    <2> DEFINE a == CASE g.state = "OPENED"  -> fsm_sconfreq(Down(g), FALSE)
                      [] g.state = "STOPPED" -> To(fsm_sconfreq(g, FALSE), "REQSENT")
                      [] OTHER -> g
               late == a.nakloops >= MaxNakLoops
               code == IF v = "CONFNAK" /\ late /\ TRUE THEN "CONFREJ" ELSE v
               ci == IF code = "CONFNAK" THEN hint ELSE m.ci
               s == fsm_sdata(a, code, m.id, ci)
               acked == [s EXCEPT !.ho = m.ci]
               fed == [s EXCEPT !.nakloops = IF code = "CONFNAK" /\ ~late THEN @ + 1 ELSE @]
               open == Up(To(UNTIMEOUT(acked), "OPENED"), FALSE)
               sent == To(acked, "ACKSENT")
    <2>1. \/ code = "CONFACK" /\ s.state = "ACKRCVD" /\ h = [open EXCEPT !.nakloops = 0]
          \/ code = "CONFACK" /\ s.state # "ACKRCVD" /\ h = [sent EXCEPT !.nakloops = 0]
          \/ code # "CONFACK" /\ fed.state = "ACKRCVD" /\ h = fed
          \/ code # "CONFACK" /\ fed.state # "ACKRCVD" /\ h = To(fed, "REQSENT")
      <3>1. g.state # "CLOSED" /\ g.state \notin Terminating
        BY <1>4 DEF Talking, Terminating
      <3>2. h = CASE g.state = "CLOSED" -> fsm_sdata(g, "TERMACK", m.id, NoCI)
                  [] g.state \in Terminating -> g
                  [] OTHER ->
                       IF code = "CONFACK"
                       THEN [(IF s.state = "ACKRCVD" THEN open ELSE sent) EXCEPT !.nakloops = 0]
                       ELSE IF fed.state = "ACKRCVD" THEN fed ELSE To(fed, "REQSENT")
        BY DEF fsm_rconfreq
      <3> HIDE DEF h, code, s, fed, open, sent
      <3>3. QED
        BY <3>1, <3>2
    <2>2. Does(g, a) /\ ~a.upper /\ a.state \in Talking
      BY <1>4, OpeningDoes DEF Opening
    <2>3. code \in Codes \ {"CONFREQ"} /\ ci \in CI /\ (code = "CONFACK" => v = "CONFACK")
      BY <1>1 DEF Codes
    <2> HIDE DEF h, a, code, ci, late
    <2>4. /\ Asks(g, s) /\ Rec(s) /\ Same(a, s)
          /\ \A i \in DOMAIN s.out : s.out[i].code = "CONFACK" =>
               code = "CONFACK" /\ s.out[i].id = m.id
      BY <1>1, <2>2, <2>3, Spoken
    <2>5. ~s.upper /\ s.state \in Talking /\ s.upper \in BOOLEAN /\ s.ho = g.ho /\ g.ho \in CI
      BY <2>2, <2>4, ReadyFacts DEF Same, Does, Asks, Machine
    <2> HIDE DEF s
    <2>6. CASE code # "CONFACK"
      <3>1. Rec(fed) /\ Same(s, fed) /\ fed.out = s.out
        BY <2>4 DEF Rec, Fields, Same
      <3> HIDE DEF fed
      <3>2. h = IF s.state = "ACKRCVD" THEN fed ELSE To(fed, "REQSENT")
        BY <2>1, <2>6, <3>1 DEF Same
      <3>3. /\ Rec(h) /\ h.id = s.id /\ h.reqid = s.reqid /\ h.go = s.go /\ h.want = s.want
            /\ h.flags = s.flags /\ h.out = s.out /\ h.ho = s.ho /\ h.upper = s.upper
            /\ h.state = IF s.state = "ACKRCVD" THEN "ACKRCVD" ELSE "REQSENT"
        <4>1. CASE s.state = "ACKRCVD"
          BY <3>1, <3>2, <4>1 DEF Same
        <4>2. CASE s.state # "ACKRCVD"
          BY <3>1, <3>2, <4>2, ToFacts DEF Same
        <4>3. QED
          BY <4>1, <4>2
      <3>4. Asks(g, h)
        BY <2>4, <2>5, <3>3, Turned DEF Talking, Acked
      <3>5. Does(g, h)
        BY <2>4, <2>5, <2>6, <3>3, <3>4 DEF Does
      <3>6. QED
        BY <3>5 DEF h
    <2>7. CASE code = "CONFACK"
      <3> DEFINE st == IF s.state = "ACKRCVD" THEN "OPENED" ELSE "ACKSENT"
      <3>1. /\ Rec(acked) /\ acked.id = s.id /\ acked.reqid = s.reqid /\ acked.go = s.go
            /\ acked.want = s.want /\ acked.flags = s.flags /\ acked.out = s.out
            /\ acked.ho = m.ci /\ acked.upper = s.upper
        BY <2>4 DEF Rec, Fields
      <3> HIDE DEF acked
      <3>2. /\ Rec(h) /\ h.id = s.id /\ h.reqid = s.reqid /\ h.go = s.go /\ h.want = s.want
            /\ h.flags = s.flags /\ h.out = s.out /\ h.ho = m.ci /\ h.state = st
            /\ h.upper = IF s.state = "ACKRCVD" THEN TRUE ELSE s.upper
        <4>1. CASE s.state = "ACKRCVD"
          <5> DEFINE u == UNTIMEOUT(acked)
                     t == To(u, "OPENED")
          <5>1. h = [[t EXCEPT !.upper = TRUE] EXCEPT !.nakloops = 0]
            BY <2>1, <2>7, <4>1 DEF Up
          <5>2. Rec(u) /\ Same(acked, u) /\ u.out = s.out
            BY <3>1, TimerFacts
          <5> HIDE DEF u
          <5>3. /\ Rec(t) /\ t.state = "OPENED" /\ t.id = u.id /\ t.reqid = u.reqid
                /\ t.go = u.go /\ t.want = u.want /\ t.flags = u.flags /\ t.ho = u.ho
                /\ t.out = u.out
            BY <5>2, ToFacts
          <5> HIDE DEF t
          <5>4. /\ Rec(h) /\ h.state = "OPENED" /\ h.upper = TRUE /\ h.id = t.id
                /\ h.reqid = t.reqid /\ h.go = t.go /\ h.want = t.want /\ h.flags = t.flags
                /\ h.ho = t.ho /\ h.out = t.out
            BY <5>1, <5>3 DEF Rec, Fields
          <5>5. QED
            <6>1. /\ u.id = s.id /\ u.reqid = s.reqid /\ u.go = s.go /\ u.want = s.want
                  /\ u.flags = s.flags /\ u.ho = m.ci
              BY <3>1, <5>2 DEF Same
            <6>2. QED
              BY <4>1, <5>2, <5>3, <5>4, <6>1
        <4>2. CASE s.state # "ACKRCVD"
          <5> DEFINE t == To(acked, "ACKSENT")
          <5>1. h = [t EXCEPT !.nakloops = 0]
            BY <2>1, <2>7, <4>2
          <5>2. /\ Rec(t) /\ t.state = "ACKSENT" /\ t.id = s.id /\ t.reqid = s.reqid
                /\ t.go = s.go /\ t.want = s.want /\ t.flags = s.flags /\ t.ho = m.ci
                /\ t.out = s.out /\ t.upper = s.upper
            BY <3>1, ToFacts
          <5> HIDE DEF t
          <5>3. QED
            BY <4>2, <5>1, <5>2 DEF Rec, Fields
        <4>3. QED
          BY <4>1, <4>2
      <3>3. Asks(g, h)
        BY <1>1, <2>4, <2>5, <3>2, Turned DEF Talking, Acked
      <3>4. Grants(g, h, m)
        BY <2>4, <3>2, <3>3 DEF Grants, Request
      <3>5. QED
        BY <3>4 DEF h
    <2>8. QED
      BY <2>6, <2>7
  <1>5. QED
    BY <1>1, <1>2, <1>3, <1>4 DEF States, Talking, Terminating

(* fsm_input, with the callbacks of lcp.c.                                 *)
LEMMA InputDoes ==
  ASSUME NEW p \in Peers, Ready(f[p]), NEW m \in Packet
  PROVE  LET h == fsm_input(f[p], m, Results(p, m))
         IN  Does(f[p], h) \/ Accepts(f[p], h, m) \/ Grants(f[p], h, m)
  <1> DEFINE g == f[p]
             env == Results(p, m)
             h == fsm_input(g, m, env)
  <1>1. /\ env.verdict \in {"CONFACK", "CONFNAK"} /\ env.hint = HintOf[p] /\ env.tough = TRUE
        /\ env.refuse = FALSE /\ env.ret = 1 /\ env.looped = FALSE /\ env.known = TRUE
    BY DEF Results, lcp_reqci
  <1>2. env.try \in CI
    BY CIAssumption, ReadyFacts DEF Results, lcp_nakci, lcp_rejci, Packet
  <1>3. HintOf[p] \in CI /\ m.code \in Codes /\ m.id \in Ids
    BY PairAssumption DEF Packet
  <1> HIDE DEF env
  <1>4. CASE g.state \in {"INITIAL", "STARTING"}
    <2>1. h = g
      BY <1>4 DEF fsm_input
    <2>2. QED
      BY <2>1, Stays DEF env
  <1>5. CASE g.state \notin {"INITIAL", "STARTING"}
    <2>1. CASE m.code = "CONFREQ"
      <3>1. h = fsm_rconfreq(g, m.id, m.ci, env.verdict, env.hint, TRUE, FALSE)
        BY <1>1, <1>5, <2>1 DEF fsm_input
      <3> HIDE DEF h, g
      <3>2. Does(g, h) \/ Grants(g, h, m)
        BY <1>1, <1>3, <1>5, <2>1, <3>1, RconfreqDoes DEF g
      <3>3. QED
        BY <3>2 DEF h, g, env
    <2>2. CASE m.code = "CONFACK"
      <3>1. h = fsm_rconfack(g, m.id, m.ci, FALSE)
        BY <1>1, <1>5, <2>2 DEF fsm_input
      <3> HIDE DEF h, g
      <3>2. Does(g, h) \/ Accepts(g, h, m)
        BY <2>2, <3>1, RconfackDoes DEF g
      <3>3. QED
        BY <3>2 DEF h, g, env
    <2>3. CASE m.code \in {"CONFNAK", "CONFREJ"}
      <3>1. h = fsm_rconfnakrej(g, m.id, 1, env.try, FALSE)
        BY <1>1, <1>5, <2>3 DEF fsm_input
      <3> HIDE DEF h, g
      <3>2. Does(g, h)
        BY <1>2, <1>3, <3>1, RconfnakrejDoes DEF g
      <3>3. QED
        BY <3>2 DEF h, g, env
    <2>4. CASE m.code = "TERMREQ"
      <3>1. h = fsm_rtermreq(g, m.id)
        BY <1>5, <2>4 DEF fsm_input
      <3> HIDE DEF h, g
      <3>2. Does(g, h)
        BY <1>3, <3>1, RtermreqDoes DEF g
      <3>3. QED
        BY <3>2 DEF h, g, env
    <2>5. CASE m.code \in {"TERMACK", "CODEREJ", "EXT"}
      <3>1. h \in {g, fsm_rtermack(g), fsm_rcoderej(g)}
        BY <1>1, <1>5, <2>5 DEF fsm_input
      <3> HIDE DEF h, g
      <3>2. Does(g, h)
        BY <3>1, Stays, RtermackDoes, RcoderejDoes DEF g
      <3>3. QED
        BY <3>2 DEF h, g, env
    <2>6. QED
      BY <1>3, <2>1, <2>2, <2>3, <2>4, <2>5 DEF Codes
  <1>6. QED
    BY <1>4, <1>5

-----------------------------------------------------------------------------
(* The lines.  What is left of a line after a loss, a hang-up or a reading *)
(* is a piece of it.                                                       *)
Piece(t, s) == /\ t \in Seq(Packet)
               /\ \E d \in Nat : \A i \in DOMAIN t : i + d \in DOMAIN s /\ t[i] = s[i + d]

LEMMA PieceDirection ==
  ASSUME NEW g, NEW k, NEW s \in Seq(Packet), NEW r \in Seq(Packet), Direction(g, k, s, r),
         NEW t, NEW u, Piece(t, s), Piece(u, r)
  PROVE  Direction(g, k, t, u)
  <1>1. PICK d \in Nat : \A i \in DOMAIN t : i + d \in DOMAIN s /\ t[i] = s[i + d]
    BY DEF Piece
  <1>2. PICK e \in Nat : \A i \in DOMAIN u : i + e \in DOMAIN r /\ u[i] = r[i + e]
    BY DEF Piece
  <1>3. DOMAIN t \subseteq Nat
    BY DEF Piece
  <1>4. Latest(g, t)
    <2> SUFFICES ASSUME NEW i \in DOMAIN t, Request(t[i]), t[i].id = g.reqid
                 PROVE  /\ g.state \in Talking => t[i].ci = g.go
                        /\ \A j \in DOMAIN t : j > i /\ Request(t[j]) => t[j].id = g.reqid
      BY DEF Latest
    <2>1. i + d \in DOMAIN s /\ t[i] = s[i + d]
      BY <1>1
    <2>2. /\ g.state \in Talking => t[i].ci = g.go
          /\ \A j \in DOMAIN s : j > i + d /\ Request(s[j]) => s[j].id = g.reqid
      BY <2>1 DEF Direction, Latest
    <2>3. ASSUME NEW j \in DOMAIN t, j > i, Request(t[j]) PROVE t[j].id = g.reqid
      <3>1. j + d \in DOMAIN s /\ t[j] = s[j + d] /\ j + d > i + d
        BY <1>1, <1>3, <2>3
      <3>2. QED
        BY <2>2, <2>3, <3>1
    <2>4. QED
      BY <2>2, <2>3
  <1>5. Granted(g, k, t, u)
    <2>1. (\E i \in DOMAIN u : Ack(u[i], g.reqid)) => \E i \in DOMAIN r : Ack(r[i], g.reqid)
      BY <1>2
    <2>2. QED
      BY <1>1, <2>1 DEF Direction, Granted
  <1>6. QED
    BY <1>4, <1>5 DEF Direction

LEMMA WholePiece == ASSUME NEW s \in Seq(Packet) PROVE Piece(s, s)
  <1>1. \A i \in DOMAIN s : i + 0 \in DOMAIN s /\ s[i] = s[i + 0]
    OBVIOUS
  <1>2. QED
    BY <1>1 DEF Piece

LEMMA TailPiece ==
  ASSUME NEW s \in Seq(Packet), s # <<>>
  PROVE  Piece(Tail(s), s) /\ Head(s) \in Packet /\ 1 \in DOMAIN s /\ Head(s) = s[1]
  <1>1. /\ Tail(s) \in Seq(Packet)
        /\ \A i \in DOMAIN Tail(s) : i + 1 \in DOMAIN s /\ Tail(s)[i] = s[i + 1]
    OBVIOUS
  <1>2. Head(s) \in Packet /\ 1 \in DOMAIN s /\ Head(s) = s[1]
    OBVIOUS
  <1>3. QED
    BY <1>1, <1>2 DEF Piece

LEMMA NoPiece == ASSUME NEW s PROVE Piece(<<>>, s)
  BY DEF Piece

(* A line with what is sent on it.                                         *)
LEMMA Joined ==
  ASSUME NEW s \in Seq(Packet), NEW o \in Seq(Packet)
  PROVE  /\ s \o o \in Seq(Packet)
         /\ \A i \in DOMAIN s : i \in DOMAIN (s \o o) /\ (s \o o)[i] = s[i]
         /\ \A i \in DOMAIN (s \o o) :
              \/ i \in DOMAIN s /\ (s \o o)[i] = s[i]
              \/ /\ i > Len(s) /\ i - Len(s) \in DOMAIN o
                 /\ (s \o o)[i] = o[i - Len(s)]
  OBVIOUS

LEMMA CarryPiece ==
  ASSUME NEW s \in Seq(Packet), NEW o \in Seq(Packet)
  PROVE  Piece(Carry(s, o), s \o o)
  <1> DEFINE d == s \o o
             n == IF Len(d) > ChanCap THEN ChanCap ELSE Len(d)
  <1>1. d \in Seq(Packet) /\ Carry(s, o) = SubSeq(d, 1, n)
    BY DEF Carry
  <1> HIDE DEF d
  <1>2. n \in 0 .. Len(d)
    BY <1>1, PairAssumption
  <1> HIDE DEF n
  <1>3. /\ SubSeq(d, 1, n) \in Seq(Packet)
        /\ \A i \in DOMAIN SubSeq(d, 1, n) : i + 0 \in DOMAIN d /\ SubSeq(d, 1, n)[i] = d[i + 0]
    BY <1>1, <1>2
  <1>4. Piece(SubSeq(d, 1, n), d)
    BY <1>3 DEF Piece
  <1>5. QED
    BY <1>1, <1>4 DEF d

(* After a hang-up only what is sent then can be on it.                    *)
LEMMA AnewPiece ==
  ASSUME NEW s \in Seq(Packet), NEW o \in Seq(Packet)
  PROVE  Piece(Carry(<<>>, o), s \o o)
  <1>1. <<>> \o o = o
    OBVIOUS
  <1>2. Piece(Carry(<<>>, o), o)
    <2>1. <<>> \in Seq(Packet)
      OBVIOUS
    <2>2. Piece(Carry(<<>>, o), <<>> \o o)
      BY <2>1, CarryPiece
    <2>3. QED
      BY <1>1, <2>2
  <1> DEFINE t == Carry(<<>>, o)
  <1> HIDE DEF t
  <1>3. PICK d \in Nat : \A i \in DOMAIN t : i + d \in DOMAIN o /\ t[i] = o[i + d]
    BY <1>2 DEF Piece, t
  <1>4. t \in Seq(Packet) /\ DOMAIN t \subseteq Nat
    BY <1>2 DEF Piece, t
  <1>5. \A j \in DOMAIN o : j + Len(s) \in DOMAIN (s \o o) /\ (s \o o)[j + Len(s)] = o[j]
    OBVIOUS
  <1>6. Len(s) \in Nat
    OBVIOUS
  <1>7. ASSUME NEW i \in DOMAIN t
        PROVE  i + (d + Len(s)) \in DOMAIN (s \o o) /\ t[i] = (s \o o)[i + (d + Len(s))]
    <2>1. i + d \in DOMAIN o /\ t[i] = o[i + d] /\ i + (d + Len(s)) = (i + d) + Len(s)
      BY <1>3, <1>4, <1>6
    <2>2. QED
      BY <1>5, <2>1
  <1>8. Piece(t, s \o o)
    <2>1. d + Len(s) \in Nat
      BY <1>6
    <2>2. QED
      BY <1>4, <1>7, <2>1 DEF Piece
  <1>9. QED
    BY <1>8 DEF t

-----------------------------------------------------------------------------
(* The four things a step does to a direction.                             *)

(* The id that g takes next is not on the lines.                           *)
Free(g, s, r) == /\ \A i \in DOMAIN s : Request(s[i]) => s[i].id # NextId(g)
                 /\ \A i \in DOMAIN r : ~Ack(r[i], NextId(g))

(* The end that asks.                                                      *)
LEMMA AskDirection ==
  ASSUME NEW g, NEW k, NEW s \in Seq(Packet), NEW r \in Seq(Packet), Direction(g, k, s, r),
         Free(g, s, r), NEW h, Asks(g, h)
  PROVE  Direction(h, k, s \o h.out, r)
  <1> DEFINE o == h.out
             x == s \o o
  <1>1. /\ o \in Seq(Packet)
        /\ \A i \in DOMAIN o : Request(o[i]) => o[i].id = h.reqid /\ o[i].ci = h.go
    BY DEF Asks, Machine
  <1>2. \A i \in DOMAIN x : \/ i \in DOMAIN s /\ x[i] = s[i]
                            \/ /\ Request(x[i]) => x[i].id = h.reqid /\ x[i].ci = h.go
                               /\ i > Len(s)
    BY <1>1, Joined
  <1>3. DOMAIN s = 1 .. Len(s) /\ Len(s) \in Nat /\ DOMAIN x \subseteq Nat
    BY <1>1
  <1> HIDE DEF o, x
  <1>4. CASE /\ h.reqid = g.reqid
             /\ h.state \in Talking => g.state \in Talking /\ h.go = g.go
             /\ Acked(h) => Acked(g)
    <2>1. Latest(h, x)
      <3> SUFFICES ASSUME NEW i \in DOMAIN x, Request(x[i]), x[i].id = h.reqid
                   PROVE  /\ h.state \in Talking => x[i].ci = h.go
                          /\ \A j \in DOMAIN x : j > i /\ Request(x[j]) => x[j].id = h.reqid
        BY DEF Latest
      <3>1. h.state \in Talking => x[i].ci = h.go
        BY <1>2, <1>4 DEF Direction, Latest
      <3>2. ASSUME NEW j \in DOMAIN x, j > i, Request(x[j]) PROVE x[j].id = h.reqid
        <4>1. CASE j \in DOMAIN s /\ x[j] = s[j]
          <5>1. i \in DOMAIN s /\ x[i] = s[i]
            BY <1>2, <1>3, <3>2, <4>1
          <5>2. QED
            BY <1>4, <3>2, <4>1, <5>1 DEF Direction, Latest
        <4>2. QED
          BY <1>2, <3>2, <4>1
      <3>3. QED
        BY <3>1, <3>2
    <2>2. Granted(h, k, x, r)
      <3> SUFFICES ASSUME h.state \in Talking,
                          Acked(h) \/ \E i \in DOMAIN r : Ack(r[i], h.reqid)
                   PROVE  /\ k.ho = h.go
                          /\ \A i \in DOMAIN x : Request(x[i]) => x[i].id = h.reqid
        BY DEF Granted
      <3>1. k.ho = g.go /\ \A i \in DOMAIN s : Request(s[i]) => s[i].id = g.reqid
        BY <1>4 DEF Direction, Granted
      <3>2. QED
        BY <1>2, <1>4, <3>1
    <2>3. QED
      BY <2>1, <2>2 DEF Direction, x, o
  <1>5. CASE h.reqid = NextId(g) /\ ~Acked(h)
    <2>1. \A i \in DOMAIN x : Request(x[i]) /\ x[i].id = h.reqid => x[i].ci = h.go /\ i > Len(s)
      BY <1>2, <1>5 DEF Free
    <2>2. Latest(h, x)
      <3> SUFFICES ASSUME NEW i \in DOMAIN x, Request(x[i]), x[i].id = h.reqid
                   PROVE  /\ x[i].ci = h.go
                          /\ \A j \in DOMAIN x : j > i /\ Request(x[j]) => x[j].id = h.reqid
        BY DEF Latest
      <3>1. x[i].ci = h.go /\ i > Len(s)
        BY <2>1
      <3>2. ASSUME NEW j \in DOMAIN x, j > i, Request(x[j]) PROVE x[j].id = h.reqid
        <4>1. j \notin DOMAIN s
          BY <1>3, <3>1, <3>2
        <4>2. QED
          BY <1>2, <3>2, <4>1
      <3>3. QED
        BY <3>1, <3>2
    <2>3. Granted(h, k, x, r)
      BY <1>5 DEF Granted, Free
    <2>4. QED
      BY <2>2, <2>3 DEF Direction, x, o
  <1>6. QED
    BY <1>4, <1>5 DEF Asks

(* The end that is asked: it answers without an Ack ...                    *)
LEMMA KeepDirection ==
  ASSUME NEW g, NEW k, NEW s \in Seq(Packet), NEW r \in Seq(Packet), Direction(k, g, r, s),
         NEW h, Does(g, h)
  PROVE  Direction(k, h, r, s \o h.out)
  <1>1. /\ h.ho = g.ho /\ h.out \in Seq(Packet)
        /\ \A i \in DOMAIN h.out : h.out[i].code # "CONFACK"
    BY DEF Does, Asks, Machine
  <1>2. (\E i \in DOMAIN (s \o h.out) : Ack((s \o h.out)[i], k.reqid))
          => \E i \in DOMAIN s : Ack(s[i], k.reqid)
    BY <1>1, Joined DEF Ack
  <1>3. QED
    BY <1>1, <1>2 DEF Direction, Granted

(* ... or grants what it has read.                                         *)
LEMMA GrantDirection ==
  ASSUME NEW g, NEW k, NEW s \in Seq(Packet), NEW r \in Seq(Packet), Direction(k, g, r, s),
         r # <<>>, NEW h, Grants(g, h, Head(r))
  PROVE  Direction(k, h, Tail(r), s \o h.out)
  <1> DEFINE m == Head(r)
             x == s \o h.out
  <1>1. /\ h.ho = m.ci /\ h.out \in Seq(Packet) /\ Request(m)
        /\ \A i \in DOMAIN h.out : h.out[i].code = "CONFACK" => h.out[i].id = m.id
    BY DEF Grants, Asks, Machine
  <1>2. 1 \in DOMAIN r /\ m = r[1] /\ DOMAIN r \subseteq Nat
    BY TailPiece
  <1>3. Direction(k, g, Tail(r), s)
    BY TailPiece, WholePiece, PieceDirection
  <1>4. \A i \in DOMAIN x : Ack(x[i], k.reqid) =>
          m.id = k.reqid \/ \E j \in DOMAIN s : Ack(s[j], k.reqid)
    BY <1>1, Joined DEF Ack
  <1>5. \A i \in DOMAIN Tail(r) : i + 1 \in DOMAIN r /\ Tail(r)[i] = r[i + 1] /\ i + 1 > 1
    OBVIOUS
  <1> HIDE DEF m, x
  <1>6. Granted(k, h, Tail(r), x)
    <2> SUFFICES ASSUME k.state \in Talking,
                        Acked(k) \/ \E i \in DOMAIN x : Ack(x[i], k.reqid)
                 PROVE  /\ h.ho = k.go
                        /\ \A i \in DOMAIN Tail(r) : Request(Tail(r)[i]) => Tail(r)[i].id = k.reqid
      BY DEF Granted
    <2>1. m.id = k.reqid
      <3>1. CASE Acked(k) \/ \E j \in DOMAIN s : Ack(s[j], k.reqid)
        BY <1>1, <1>2, <3>1 DEF Direction, Granted
      <3>2. QED
        BY <1>4, <3>1
    <2>2. /\ m.ci = k.go
          /\ \A j \in DOMAIN r : j > 1 /\ Request(r[j]) => r[j].id = k.reqid
      BY <1>1, <1>2, <2>1 DEF Direction, Latest
    <2>3. QED
      BY <1>1, <1>5, <2>2
  <1>7. QED
    BY <1>3, <1>6 DEF Direction, x

(* The Ack of the latest request is read.                                  *)
LEMMA AcceptDirection ==
  ASSUME NEW g, NEW k, NEW s \in Seq(Packet), NEW r \in Seq(Packet),
         Direction(g, k, s, r), Direction(k, g, r, s),
         r # <<>>, NEW h, Accepts(g, h, Head(r))
  PROVE  Direction(h, k, s, Tail(r)) /\ Direction(k, h, Tail(r), s)
  <1>1. /\ h.reqid = g.reqid /\ h.go = g.go /\ h.ho = g.ho /\ g.state \in Talking
        /\ \E i \in DOMAIN r : Ack(r[i], g.reqid)
    BY TailPiece DEF Accepts
  <1>2. k.ho = g.go /\ \A i \in DOMAIN s : Request(s[i]) => s[i].id = g.reqid
    BY <1>1 DEF Direction, Granted
  <1>3. Latest(h, s)
    BY <1>1 DEF Direction, Latest
  <1>4. Granted(h, k, s, Tail(r))
    BY <1>1, <1>2 DEF Granted
  <1>5. Direction(k, g, Tail(r), s)
    BY TailPiece, WholePiece, PieceDirection
  <1>6. Direction(k, h, Tail(r), s)
    BY <1>1, <1>5 DEF Direction, Granted
  <1>7. QED
    BY <1>3, <1>4, <1>6 DEF Direction

-----------------------------------------------------------------------------
(* The two ends, and a step of one of them.                                *)

LEMMA TwoPeers ==
  ASSUME NEW p \in Peers
  PROVE  /\ Other(p) \in Peers /\ Other(p) # p /\ Other(Other(p)) = p
         /\ \A x \in Peers : x = p \/ x = Other(p)
  <1>1. \E q \in Peers : q # p
    BY PairAssumption
  <1>2. Other(p) \in Peers /\ Other(p) # p
    BY <1>1 DEF Other
  <1>3. \A x \in Peers : x = p \/ x = Other(p)
    BY <1>2, PairAssumption
  <1>4. Other(Other(p)) \in Peers /\ Other(Other(p)) # Other(p)
    <2>1. \E q \in Peers : q # Other(p)
      BY <1>2
    <2>2. QED
      BY <2>1 DEF Other
  <1>5. QED
    BY <1>2, <1>3, <1>4

(* The packets sent have left the structure.                               *)
LEMMA SentAway ==
  ASSUME NEW h, Machine(h)
  PROVE  LET g == [h EXCEPT !.out = <<>>]
         IN  /\ Machine(g) /\ g.out = <<>>
             /\ g.state = h.state /\ g.upper = h.upper /\ g.reqid = h.reqid
             /\ g.go = h.go /\ g.ho = h.ho
  <1> DEFINE g == [h EXCEPT !.out = <<>>]
  <1>1. /\ Rec(g) /\ g.state = h.state /\ g.upper = h.upper /\ g.flags = h.flags
        /\ g.id = h.id /\ g.reqid = h.reqid /\ g.want = h.want /\ g.go = h.go
        /\ g.ho = h.ho /\ g.out = <<>>
    BY DEF Machine, Rec, Fields
  <1> HIDE DEF g
  <1>2. <<>> \in Seq(Packet)
    OBVIOUS
  <1>3. Machine(g)
    BY <1>1, <1>2 DEF Machine
  <1>4. QED
    BY <1>1, <1>3 DEF g

(* A direction depends on these fields only.                               *)
LEMMA SameDirection ==
  ASSUME NEW h, NEW g, NEW k, NEW s, NEW r,
         g.state = h.state, g.upper = h.upper, g.reqid = h.reqid, g.go = h.go, g.ho = h.ho
  PROVE  /\ Direction(h, k, s, r) => Direction(g, k, s, r)
         /\ Direction(k, h, s, r) => Direction(k, g, s, r)
  <1>1. Latest(h, s) => Latest(g, s)
    BY DEF Latest
  <1>2. Granted(h, k, s, r) => Granted(g, k, s, r)
    BY DEF Granted, Acked
  <1>3. Granted(k, h, s, r) => Granted(k, g, s, r)
    BY DEF Granted
  <1>4. QED
    BY <1>1, <1>2, <1>3 DEF Direction

(* p is left in h, reading from the line u; the other end reads from t.    *)
LEMMA Stepped ==
  ASSUME PairInv, NEW p \in Peers, NEW h, Machine(h), NEW line,
         Becomes(p, h, line), DOMAIN line = Peers,
         line[p] \in Seq(Packet), Carry(line[Other(p)], h.out) \in Seq(Packet),
         Direction(h, f[Other(p)], Carry(line[Other(p)], h.out), line[p]),
         Direction(f[Other(p)], h, line[p], Carry(line[Other(p)], h.out))
  PROVE  PairInv'
  <1> DEFINE q == Other(p)
             g == [h EXCEPT !.out = <<>>]
             t == Carry(line[q], h.out)
             u == line[p]
  <1>1. q \in Peers /\ q # p /\ Other(q) = p /\ \A x \in Peers : x = p \/ x = q
    BY TwoPeers
  <1>2. /\ Machine(g) /\ g.out = <<>>
        /\ g.state = h.state /\ g.upper = h.upper /\ g.reqid = h.reqid
        /\ g.go = h.go /\ g.ho = h.ho
    BY SentAway
  <1>3. /\ f' = [f EXCEPT ![p] = g] /\ chan' = [line EXCEPT ![q] = t]
        /\ DOMAIN f = Peers /\ DOMAIN chan = Peers
        /\ Machine(f[q]) /\ f[q].out = <<>>
    BY <1>1 DEF Becomes, PairInv
  <1>4. Direction(h, f[q], t, u) /\ Direction(f[q], h, u, t) /\ t \in Seq(Packet) /\ u \in Seq(Packet)
    OBVIOUS
  <1> HIDE DEF g, t
  <1>5. /\ DOMAIN f' = Peers /\ DOMAIN chan' = Peers
        /\ f'[p] = g /\ f'[q] = f[q] /\ chan'[q] = t /\ chan'[p] = u
    BY <1>1, <1>3
  <1> HIDE DEF q, u
  <1>6. Direction(g, f[q], t, u) /\ Direction(f[q], g, u, t)
    BY <1>2, <1>4, SameDirection
  <1>7. ASSUME NEW x \in Peers
        PROVE  /\ Machine(f'[x]) /\ f'[x].out = <<>> /\ chan'[x] \in Seq(Packet)
               /\ Direction(f'[x], f'[Other(x)], chan'[Other(x)], chan'[x])
    <2>1. CASE x = p
      BY <1>2, <1>4, <1>5, <1>6, <2>1 DEF q
    <2>2. CASE x = q
      BY <1>1, <1>3, <1>4, <1>5, <1>6, <2>2
    <2>3. QED
      BY <1>1, <2>1, <2>2
  <1>8. QED
    BY <1>5, <1>7 DEF PairInv

(* What holds of p before a step.                                          *)
LEMMA Before ==
  ASSUME PairInv, NEW p \in Peers
  PROVE  /\ Ready(f[p]) /\ DOMAIN chan = Peers
         /\ chan[p] \in Seq(Packet) /\ chan[Other(p)] \in Seq(Packet)
         /\ Direction(f[p], f[Other(p)], chan[Other(p)], chan[p])
         /\ Direction(f[Other(p)], f[p], chan[p], chan[Other(p)])
         /\ IdsFresh => Free(f[p], chan[Other(p)], chan[p])
  <1>1. Other(p) \in Peers /\ Other(Other(p)) = p
    BY TwoPeers
  <1>2. IdsFresh => Free(f[p], chan[Other(p)], chan[p])
    BY DEF IdsFresh, Free, Request, Ack
  <1>3. Direction(f[Other(p)], f[p], chan[p], chan[Other(p)])
    BY <1>1 DEF PairInv
  <1>4. QED
    BY <1>1, <1>2, <1>3 DEF PairInv, Ready

(* A step that grants nothing and accepts nothing, whatever it leaves of   *)
(* the lines.                                                              *)
LEMMA DoesStep ==
  ASSUME PairInv, IdsFresh, NEW p \in Peers, NEW h, Does(f[p], h),
         NEW line, DOMAIN line = Peers, Becomes(p, h, line), Piece(line[p], chan[p]),
         Piece(Carry(line[Other(p)], h.out), chan[Other(p)] \o h.out)
  PROVE  PairInv'
  <1> DEFINE q == Other(p)
             g == f[p]
             k == f[q]
             s == chan[q]
             r == chan[p]
             t == Carry(line[q], h.out)
             u == line[p]
  <1>1. /\ Ready(g) /\ s \in Seq(Packet) /\ r \in Seq(Packet)
        /\ Direction(g, k, s, r) /\ Direction(k, g, r, s) /\ Free(g, s, r)
    BY Before
  <1>2. Machine(h) /\ Asks(g, h) /\ Does(g, h) /\ h.out \in Seq(Packet)
    BY DEF Does, Asks, Machine
  <1>3. Piece(t, s \o h.out) /\ Piece(u, r)
    OBVIOUS
  <1> HIDE DEF g, k, s, r, t, u
  <1>4. t \in Seq(Packet) /\ u \in Seq(Packet) /\ s \o h.out \in Seq(Packet)
    BY <1>1, <1>2, <1>3 DEF Piece
  <1>5. Direction(h, k, s \o h.out, r)
    BY <1>1, <1>2, AskDirection
  <1>6. Direction(k, h, r, s \o h.out)
    BY <1>1, <1>2, KeepDirection
  <1>7. Direction(h, k, t, u)
    BY <1>1, <1>3, <1>4, <1>5, PieceDirection
  <1>8. Direction(k, h, u, t)
    BY <1>1, <1>3, <1>4, <1>6, PieceDirection
  <1>9. QED
    BY <1>2, <1>4, <1>7, <1>8, Stepped DEF k, t, u

LEMMA GrantsStep ==
  ASSUME PairInv, IdsFresh, NEW p \in Peers, chan[p] # <<>>, NEW h,
         Grants(f[p], h, Head(chan[p])), Becomes(p, h, [chan EXCEPT ![p] = Tail(@)])
  PROVE  PairInv'
  <1> DEFINE q == Other(p)
             g == f[p]
             k == f[q]
             s == chan[q]
             r == chan[p]
             line == [chan EXCEPT ![p] = Tail(@)]
             t == Carry(s, h.out)
             u == Tail(r)
  <1>1. /\ Ready(g) /\ s \in Seq(Packet) /\ r \in Seq(Packet) /\ r # <<>>
        /\ Direction(g, k, s, r) /\ Direction(k, g, r, s) /\ Free(g, s, r)
    BY Before
  <1>2. /\ Machine(h) /\ Asks(g, h) /\ Grants(g, h, Head(r)) /\ h.out \in Seq(Packet)
    BY DEF Grants, Asks, Machine
  <1>3. DOMAIN line = Peers /\ line[p] = u /\ line[q] = s
    BY TwoPeers, Before
  <1>4. Becomes(p, h, line)
    OBVIOUS
  <1> HIDE DEF g, k, s, r, line
  <1>5. Piece(t, s \o h.out) /\ Piece(u, r)
    BY <1>1, <1>2, CarryPiece, TailPiece
  <1> HIDE DEF t, u
  <1>6. t \in Seq(Packet) /\ u \in Seq(Packet) /\ s \o h.out \in Seq(Packet)
    BY <1>1, <1>2, <1>5 DEF Piece
  <1>7. Direction(h, k, s \o h.out, r)
    BY <1>1, <1>2, AskDirection
  <1>8. Direction(k, h, u, s \o h.out)
    BY <1>1, <1>2, GrantDirection DEF u
  <1>9. Direction(h, k, t, u)
    BY <1>1, <1>5, <1>6, <1>7, PieceDirection
  <1>10. Direction(k, h, u, t)
    BY <1>1, <1>5, <1>6, <1>8, PieceDirection, WholePiece
  <1>11. QED
    BY <1>2, <1>3, <1>4, <1>6, <1>9, <1>10, Stepped DEF k, t

LEMMA AcceptsStep ==
  ASSUME PairInv, NEW p \in Peers, chan[p] # <<>>, NEW h,
         Accepts(f[p], h, Head(chan[p])), Becomes(p, h, [chan EXCEPT ![p] = Tail(@)])
  PROVE  PairInv'
  <1> DEFINE q == Other(p)
             g == f[p]
             k == f[q]
             s == chan[q]
             r == chan[p]
             line == [chan EXCEPT ![p] = Tail(@)]
             t == Carry(s, h.out)
             u == Tail(r)
  <1>1. /\ s \in Seq(Packet) /\ r \in Seq(Packet) /\ r # <<>>
        /\ Direction(g, k, s, r) /\ Direction(k, g, r, s)
    BY Before
  <1>2. Machine(h) /\ Accepts(g, h, Head(r)) /\ h.out = <<>>
    BY DEF Accepts
  <1>3. DOMAIN line = Peers /\ line[p] = u /\ line[q] = s
    BY TwoPeers, Before
  <1>4. Becomes(p, h, line)
    OBVIOUS
  <1> HIDE DEF g, k, s, r, line
  <1>5. s \o h.out = s /\ h.out \in Seq(Packet)
    BY <1>1, <1>2
  <1>6. Piece(t, s) /\ Piece(u, r)
    <2>1. Piece(t, s \o h.out)
      BY <1>1, <1>5, CarryPiece
    <2>2. QED
      BY <1>1, <1>5, <2>1, TailPiece
  <1> HIDE DEF t, u
  <1>7. t \in Seq(Packet) /\ u \in Seq(Packet)
    BY <1>6 DEF Piece
  <1>8. Direction(h, k, s, u) /\ Direction(k, h, u, s)
    BY <1>1, <1>2, AcceptDirection DEF u
  <1>9. Direction(h, k, t, u) /\ Direction(k, h, u, t)
    BY <1>1, <1>6, <1>7, <1>8, PieceDirection, WholePiece
  <1>10. QED
    BY <1>2, <1>3, <1>4, <1>7, <1>9, Stepped DEF k, t

(* The first packet on a line is lost.                                     *)
LEMMA LoseStep ==
  ASSUME PairInv, NEW p \in Peers, Lose(p) PROVE PairInv'
  <1> DEFINE q == Other(p)
             u == Tail(chan[p])
  <1>1. /\ chan[q] \in Seq(Packet) /\ chan[p] \in Seq(Packet) /\ DOMAIN chan = Peers
        /\ Direction(f[p], f[q], chan[q], chan[p]) /\ Direction(f[q], f[p], chan[p], chan[q])
    BY Before
  <1>2. Piece(u, chan[p]) /\ Piece(chan[q], chan[q]) /\ u \in Seq(Packet)
    BY <1>1, TailPiece, WholePiece DEF Lose, Piece
  <1>3. Direction(f[p], f[q], chan[q], u) /\ Direction(f[q], f[p], u, chan[q])
    BY <1>1, <1>2, PieceDirection
  <1>4. q \in Peers /\ q # p /\ Other(q) = p /\ \A x \in Peers : x = p \/ x = q
    BY TwoPeers
  <1>5. f' = f /\ DOMAIN chan' = Peers /\ chan'[p] = u /\ chan'[q] = chan[q]
    BY <1>1, <1>4 DEF Lose
  <1> HIDE DEF u
  <1>6. ASSUME NEW x \in Peers
        PROVE  /\ Machine(f'[x]) /\ f'[x].out = <<>> /\ chan'[x] \in Seq(Packet)
               /\ Direction(f'[x], f'[Other(x)], chan'[Other(x)], chan'[x])
    <2>1. Machine(f[x]) /\ f[x].out = <<>>
      BY DEF PairInv
    <2>2. chan'[x] \in Seq(Packet)
      BY <1>1, <1>2, <1>4, <1>5
    <2>3. Direction(f[x], f[Other(x)], chan'[Other(x)], chan'[x])
      BY <1>3, <1>4, <1>5
    <2>4. QED
      BY <1>5, <2>1, <2>2, <2>3
  <1>7. QED
    BY <1>5, <1>6 DEF PairInv

-----------------------------------------------------------------------------
LEMMA InitPair == Init => PairInv
  <1> SUFFICES ASSUME Init PROVE PairInv
    OBVIOUS
  <1>1. DOMAIN f = Peers /\ DOMAIN chan = Peers /\ \A x \in Peers : chan[x] = <<>>
    BY DEF Init
  <1>2. ASSUME NEW x \in Peers
        PROVE  /\ Machine(f[x]) /\ f[x].out = <<>>
               /\ Direction(f[x], f[Other(x)], chan[Other(x)], chan[x])
    <2> DEFINE g == fsm_init({}, WantOf[x])
    <2>1. f[x] = g /\ WantOf[x] \in CI
      BY PairAssumption DEF Init
    <2>2. /\ Rec(g) /\ g.state = "INITIAL" /\ g.upper = FALSE /\ g.flags = {}
          /\ g.id = 0 /\ g.reqid = 0 /\ g.want = WantOf[x] /\ g.go = NoCI /\ g.ho = NoCI
          /\ g.out = <<>>
      BY DEF fsm_init, Rec, Fields
    <2>3. 0 \in Ids /\ NoCI \in CI
      BY IdAssumption, CIAssumption DEF Ids
    <2> HIDE DEF g
    <2>4. <<>> \in Seq(Packet)
      OBVIOUS
    <2>5. Machine(g)
      BY <2>1, <2>2, <2>3, <2>4 DEF Machine, States
    <2>6. Direction(g, f[Other(x)], chan[Other(x)], chan[x])
      <3>1. chan[Other(x)] = <<>> /\ g.state \notin Talking
        BY <1>1, <2>2, TwoPeers DEF Talking
      <3>2. QED
        BY <3>1 DEF Direction, Latest, Granted
    <2>7. QED
      BY <2>1, <2>2, <2>5, <2>6
  <1>3. ASSUME NEW x \in Peers PROVE chan[x] \in Seq(Packet)
    <2>1. <<>> \in Seq(Packet)
      OBVIOUS
    <2>2. chan[x] = <<>>
      BY <1>1
    <2>3. QED
      BY <2>1, <2>2
  <1>4. QED
    BY <1>1, <1>2, <1>3 DEF PairInv

(* Nothing is read: what p sends goes behind what is on the line.          *)
LEMMA SendStep ==
  ASSUME PairInv, IdsFresh, NEW p \in Peers, NEW h, Does(f[p], h), Becomes(p, h, chan)
  PROVE  PairInv'
  <1>1. /\ DOMAIN chan = Peers /\ chan[p] \in Seq(Packet) /\ chan[Other(p)] \in Seq(Packet)
        /\ h.out \in Seq(Packet)
    BY Before DEF Does, Asks, Machine
  <1>2. Piece(chan[p], chan[p]) /\ Piece(Carry(chan[Other(p)], h.out), chan[Other(p)] \o h.out)
    BY <1>1, WholePiece, CarryPiece
  <1>3. QED
    BY <1>1, <1>2, DoesStep

LEMMA HangupStep ==
  ASSUME PairInv, IdsFresh, NEW p \in Peers, NEW h, Does(f[p], h),
         Becomes(p, h, [q \in Peers |-> <<>>])
  PROVE  PairInv'
  <1> DEFINE line == [q \in Peers |-> <<>>]
  <1>1. chan[Other(p)] \in Seq(Packet) /\ h.out \in Seq(Packet)
    BY Before DEF Does, Asks, Machine
  <1>2. DOMAIN line = Peers /\ line[p] = <<>> /\ line[Other(p)] = <<>>
    BY TwoPeers
  <1>3. Becomes(p, h, line)
    OBVIOUS
  <1> HIDE DEF line
  <1>4. Piece(line[p], chan[p])
    BY <1>2, NoPiece
  <1>5. Piece(Carry(line[Other(p)], h.out), chan[Other(p)] \o h.out)
    BY <1>1, <1>2, AnewPiece
  <1>6. QED
    BY <1>2, <1>3, <1>4, <1>5, DoesStep

LEMMA ReadStep ==
  ASSUME PairInv, IdsFresh, NEW p \in Peers, chan[p] # <<>>, NEW h, Does(f[p], h),
         Becomes(p, h, [chan EXCEPT ![p] = Tail(@)])
  PROVE  PairInv'
  <1> DEFINE line == [chan EXCEPT ![p] = Tail(@)]
  <1>1. /\ chan[p] \in Seq(Packet) /\ chan[Other(p)] \in Seq(Packet)
        /\ h.out \in Seq(Packet)
    BY Before DEF Does, Asks, Machine
  <1>2. DOMAIN line = Peers /\ line[p] = Tail(chan[p]) /\ line[Other(p)] = chan[Other(p)]
    BY TwoPeers, Before
  <1>3. Becomes(p, h, line)
    OBVIOUS
  <1> HIDE DEF line
  <1>4. Piece(line[p], chan[p])
    BY <1>1, <1>2, TailPiece
  <1>5. Piece(Carry(line[Other(p)], h.out), chan[Other(p)] \o h.out)
    BY <1>1, <1>2, CarryPiece
  <1>6. QED
    BY <1>2, <1>3, <1>4, <1>5, DoesStep

LEMMA NextPair == PairInv /\ IdsFresh /\ [Next]_vars => PairInv'
  <1> SUFFICES ASSUME PairInv, IdsFresh, [Next]_vars PROVE PairInv'
    OBVIOUS
  <1>1. ASSUME NEW p \in Peers, lcp_open(p) PROVE PairInv'
    BY <1>1, Before, OpenDoes, SendStep DEF lcp_open
  <1>2. ASSUME NEW p \in Peers, lcp_close(p) PROVE PairInv'
    BY <1>2, Before, CloseDoes, SendStep DEF lcp_close
  <1>3. ASSUME NEW p \in Peers, lcp_lowerup(p) PROVE PairInv'
    BY <1>3, Before, LowerupDoes, SendStep DEF lcp_lowerup
  <1>4. ASSUME NEW p \in Peers, lcp_lowerdown(p) PROVE PairInv'
    BY <1>4, Before, LowerdownDoes, HangupStep DEF lcp_lowerdown
  <1>5. ASSUME NEW p \in Peers, Timeout(p) PROVE PairInv'
    <2> DEFINE a == [f[p] EXCEPT !.timers = @ - 1]
    <2>1. Becomes(p, fsm_timeout(a), chan)
      BY <1>5 DEF Timeout
    <2>2. Ready(f[p]) /\ Rec(f[p]) /\ f[p].out = <<>>
      BY <1>5, Before DEF Ready, Machine
    <2>3. Rec(a) /\ Same(f[p], a) /\ a.out = <<>>
      BY <2>2 DEF Rec, Fields, Same
    <2> HIDE DEF a
    <2>4. Does(f[p], fsm_timeout(a))
      BY <2>2, <2>3, TimeoutDoes
    <2>5. QED
      BY <1>5, <2>1, <2>4, SendStep
  <1>6. ASSUME NEW p \in Peers, lcp_input(p) PROVE PairInv'
    <2> DEFINE m == Head(chan[p])
               h == fsm_input(f[p], m, Results(p, m))
    <2>1. chan[p] # <<>> /\ Becomes(p, h, [chan EXCEPT ![p] = Tail(@)])
      BY <1>6 DEF lcp_input
    <2>2. Ready(f[p]) /\ m \in Packet
      BY <1>6, <2>1, Before, TailPiece
    <2>3. Does(f[p], h) \/ Accepts(f[p], h, m) \/ Grants(f[p], h, m)
      <3> HIDE DEF m
      <3>1. QED
        BY <1>6, <2>2, InputDoes
    <2> HIDE DEF h
    <2>4. QED
      BY <1>6, <2>1, <2>3, ReadStep, AcceptsStep, GrantsStep
  <1>7. ASSUME NEW p \in Peers, Lose(p) PROVE PairInv'
    BY <1>7, LoseStep
  <1>8. CASE UNCHANGED vars
    <2>1. f' = f /\ chan' = chan
      BY <1>8 DEF vars
    <2>2. QED
      BY <2>1 DEF PairInv
  <1>9. QED
    BY <1>1, <1>2, <1>3, <1>4, <1>5, <1>6, <1>7, <1>8 DEF Next

(* In an end that is up the request has been acknowledged: what it got is  *)
(* what the other end granted.                                             *)
LEMMA PairAgrees == PairInv => Agreement
  <1> SUFFICES ASSUME PairInv, NEW p \in Peers, NEW q \in Peers, p # q, f[p].upper
               PROVE  f[p].go = f[q].ho
    BY DEF Agreement
  <1>1. q = Other(p)
    BY TwoPeers
  <1>2. /\ Machine(f[p]) /\ f[p].state \in Talking
        /\ Granted(f[p], f[q], chan[q], chan[p])
    BY <1>1 DEF PairInv, Machine, Talking, Direction
  <1>3. QED
    BY <1>2 DEF Granted, Acked

(* Two connected ends use the same options (fsm_rconfreq grants, the ids   *)
(* and seen_ack of fsm_rconfack keep stale answers out), for any options,  *)
(* line length and number of faults, as long as an id comes round only     *)
(* when no packet with it is left on the line.                             *)
THEOREM OptionsAgree == Spec /\ []IdsFresh => []Agreement
  <1>1. Init => PairInv
    BY InitPair
  <1>2. PairInv /\ IdsFresh /\ [Next]_vars => PairInv'
    BY NextPair
  <1>3. PairInv => Agreement
    BY PairAgrees
  <1>4. QED
    BY <1>1, <1>2, <1>3, PTL DEF Spec

=============================================================================
