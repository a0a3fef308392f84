------------------------- MODULE FsmMachine_proofs -------------------------
(***************************************************************************)
(* Proofs about the automaton of fsm.c, for every value of the limits, of  *)
(* the id space and of the options.  Good is the inductive invariant as a  *)
(* predicate on a structure; there is one lemma per function of fsm.c that *)
(* says the function preserves it.                                         *)
(***************************************************************************)
EXTENDS FsmMachine, TLAPS

Waiting == Negotiating \cup Terminating

Good(g) == /\ g \in FsmRecord
           /\ g.state \in Waiting => g.timers > 0
           /\ g.upper => g.state = "OPENED"
           /\ g.state = "ACKRCVD" => g.seen_ack

(* The successor of an id is an id.                                        *)
LEMMA NextIdType == ASSUME NEW g \in FsmRecord PROVE NextId(g) \in Ids
  BY IdAssumption DEF NextId, Ids, FsmRecord

(* What the services leave alone and what they change.                     *)
LEMMA SendType ==
  ASSUME NEW g \in FsmRecord, NEW code \in Codes, NEW id \in Ids, NEW ci \in CI
  PROVE  fsm_sdata(g, code, id, ci) \in FsmRecord
  <1> DEFINE p == [code |-> code, id |-> id, ci |-> ci]
  <1>1. p \in Packet
    BY DEF Packet
  <1>2. g.out \in Seq(Packet)
    BY DEF FsmRecord
  <1>3. Append(g.out, p) \in Seq(Packet)
    BY <1>1, <1>2
  <1>4. fsm_sdata(g, code, id, ci) = [g EXCEPT !.out = Append(g.out, p)]
    BY DEF fsm_sdata
  <1> HIDE DEF p
  <1>5. QED
    BY <1>3, <1>4 DEF FsmRecord

(* Sending changes nothing but the list of packets.                        *)
LEMMA SendSame ==
  ASSUME NEW g \in FsmRecord, NEW code \in Codes, NEW id \in Ids, NEW ci \in CI
  PROVE  LET s == fsm_sdata(g, code, id, ci)
         IN  /\ s.state = g.state /\ s.timers = g.timers /\ s.upper = g.upper
             /\ s.seen_ack = g.seen_ack /\ s.go = g.go /\ s.ho = g.ho
             /\ s.retransmits = g.retransmits /\ s.nakloops = g.nakloops
             /\ s.flags = g.flags
  BY DEF fsm_sdata, FsmRecord

(* Updates of several fields at once keep the type of the structure.       *)
LEMMA UpdateTypes ==
  ASSUME NEW g \in FsmRecord, NEW i \in Ids, NEW n \in Int, NEW c \in CI
  PROVE  /\ [g EXCEPT !.go = c, !.nakloops = 0] \in FsmRecord
         /\ [g EXCEPT !.retransmits = n, !.id = i, !.reqid = i] \in FsmRecord
         /\ [g EXCEPT !.id = i, !.reqid = i, !.retransmits = n] \in FsmRecord
         /\ [g EXCEPT !.seen_ack = FALSE, !.retransmits = n] \in FsmRecord
  <1>1. 0 \in Nat
    OBVIOUS
  <1>2. [g EXCEPT !.go = c, !.nakloops = 0] \in FsmRecord
    BY <1>1, Zenon DEF FsmRecord
  <1>3. [g EXCEPT !.retransmits = n, !.id = i, !.reqid = i] \in FsmRecord
    BY Zenon DEF FsmRecord
  <1>4. [g EXCEPT !.id = i, !.reqid = i, !.retransmits = n] \in FsmRecord
    BY Zenon DEF FsmRecord
  <1>5. [g EXCEPT !.seen_ack = FALSE, !.retransmits = n] \in FsmRecord
    BY Zenon DEF FsmRecord
  <1>6. QED
    BY <1>2, <1>3, <1>4, <1>5

(* TIMEOUT adds a callout and changes nothing else.                        *)
LEMMA TimeoutFacts ==
  ASSUME NEW g \in FsmRecord
  PROVE  LET s == TIMEOUT(g)
         IN  /\ s \in FsmRecord /\ s.timers = g.timers + 1
             /\ s.state = g.state /\ s.upper = g.upper /\ s.seen_ack = g.seen_ack
             /\ s.go = g.go /\ s.ho = g.ho
  <1>1. TIMEOUT(g) \in FsmRecord
    BY DEF TIMEOUT, FsmRecord
  <1>2. QED
    BY <1>1 DEF TIMEOUT, FsmRecord

(* A Configure-Request arms one timer and makes the request unanswered.    *)
LEMMA SconfreqFacts ==
  ASSUME NEW g \in FsmRecord, NEW r \in BOOLEAN
  PROVE  LET s == fsm_sconfreq(g, r)
         IN  /\ s \in FsmRecord
             /\ s.state = g.state /\ s.timers = g.timers + 1
             /\ s.upper = g.upper /\ s.seen_ack = FALSE
             /\ s.ho = g.ho
  <1> DEFINE a == IF g.state \in Negotiating THEN g
                  ELSE [g EXCEPT !.go = g.want, !.nakloops = 0]
             b == IF r THEN a
                  ELSE [a EXCEPT !.retransmits = MaxConfReq,
                                 !.id = NextId(a), !.reqid = NextId(a)]
             c == [b EXCEPT !.seen_ack = FALSE, !.retransmits = @ - 1]
             d == fsm_sdata(c, "CONFREQ", b.reqid, b.go)
  <1>0. 0 \in Int /\ 0 \in Ids /\ g.want \in CI
    BY IdAssumption DEF Ids, FsmRecord
  <1>1. /\ a \in FsmRecord
        /\ a.state = g.state /\ a.timers = g.timers
        /\ a.upper = g.upper /\ a.ho = g.ho
    <2>1. a \in FsmRecord
      BY <1>0, UpdateTypes
    <2>2. QED
      BY <2>1 DEF FsmRecord
  <1>2. NextId(a) \in Ids
    BY <1>1, NextIdType
  <1> HIDE DEF a
  <1>3. /\ b \in FsmRecord
        /\ b.state = a.state /\ b.timers = a.timers
        /\ b.upper = a.upper /\ b.ho = a.ho
    <2>1. MaxConfReq \in Int
      BY LimitAssumption
    <2>2. b \in FsmRecord
      BY <1>1, <1>2, <2>1, CIAssumption, UpdateTypes
    <2>3. QED
      BY <1>1, <2>2 DEF FsmRecord
  <1> HIDE DEF b
  <1>4. /\ c \in FsmRecord /\ c.seen_ack = FALSE
        /\ c.state = b.state /\ c.timers = b.timers
        /\ c.upper = b.upper /\ c.ho = b.ho
    <2>1. b.retransmits - 1 \in Int /\ b.reqid \in Ids
      BY <1>3 DEF FsmRecord
    <2>2. c \in FsmRecord
      BY <1>3, <2>1, CIAssumption, UpdateTypes
    <2>3. QED
      BY <1>3, <2>2 DEF FsmRecord
  <1>5. b.reqid \in Ids /\ b.go \in CI
    BY <1>3 DEF FsmRecord
  <1> HIDE DEF c
  <1>6. /\ d \in FsmRecord /\ d.seen_ack = FALSE
        /\ d.state = c.state /\ d.timers = c.timers
        /\ d.upper = c.upper /\ d.ho = c.ho
    BY <1>4, <1>5, SendType, SendSame, ZenonT(60) DEF Codes
  <1> HIDE DEF d
  <1>7. /\ TIMEOUT(d) \in FsmRecord /\ TIMEOUT(d).seen_ack = FALSE
        /\ TIMEOUT(d).state = d.state /\ TIMEOUT(d).timers = d.timers + 1
        /\ TIMEOUT(d).upper = d.upper /\ TIMEOUT(d).ho = d.ho
    BY <1>6, TimeoutFacts
  <1>8. fsm_sconfreq(g, r) = TIMEOUT(d)
    BY DEF fsm_sconfreq, resetci, addci, a, b, c, d
  <1>9. QED
    BY <1>1, <1>3, <1>4, <1>6, <1>7, <1>8

(* So does a Terminate-Request, which leaves the negotiation alone.        *)
LEMMA TermReqFacts ==
  ASSUME NEW g \in FsmRecord
  PROVE  LET s == SendTermReq(g)
         IN  /\ s \in FsmRecord
             /\ s.state = g.state /\ s.timers = g.timers + 1
             /\ s.upper = g.upper /\ s.ho = g.ho /\ s.go = g.go
  <1> DEFINE c == [g EXCEPT !.id = NextId(g), !.reqid = NextId(g),
                            !.retransmits = @ - 1]
             d == fsm_sdata(c, "TERMREQ", NextId(g), NoCI)
  <1>1. NextId(g) \in Ids
    BY NextIdType
  <1>2. /\ c \in FsmRecord
        /\ c.state = g.state /\ c.timers = g.timers
        /\ c.upper = g.upper /\ c.ho = g.ho /\ c.go = g.go
    <2>1. g.retransmits - 1 \in Int
      BY DEF FsmRecord
    <2>2. c \in FsmRecord
      BY <1>1, <2>1, CIAssumption, UpdateTypes
    <2>3. QED
      BY <2>2 DEF FsmRecord
  <1> HIDE DEF c
  <1>3. /\ d \in FsmRecord
        /\ d.state = c.state /\ d.timers = c.timers
        /\ d.upper = c.upper /\ d.ho = c.ho /\ d.go = c.go
    BY <1>1, <1>2, SendType, SendSame, CIAssumption DEF Codes
  <1> HIDE DEF d
  <1>4. /\ TIMEOUT(d) \in FsmRecord
        /\ TIMEOUT(d).state = d.state /\ TIMEOUT(d).timers = d.timers + 1
        /\ TIMEOUT(d).upper = d.upper /\ TIMEOUT(d).ho = d.ho /\ TIMEOUT(d).go = d.go
    BY <1>3, TimeoutFacts
  <1>5. SendTermReq(g) = TIMEOUT(d)
    BY DEF SendTermReq, c, d
  <1>6. QED
    BY <1>2, <1>3, <1>4, <1>5

(* Removing a callout, setting the state, telling the upper layer.         *)
LEMMA UntimeoutFacts ==
  ASSUME NEW g \in FsmRecord
  PROVE  LET s == UNTIMEOUT(g)
         IN  /\ s \in FsmRecord
             /\ s.state = g.state /\ s.upper = g.upper /\ s.seen_ack = g.seen_ack
             /\ s.go = g.go /\ s.ho = g.ho
             /\ g.timers > 0 => s.timers = g.timers - 1
  BY DEF UNTIMEOUT, FsmRecord

(* Setting the state changes nothing else.                                 *)
LEMMA ToFacts ==
  ASSUME NEW g \in FsmRecord, NEW st \in States
  PROVE  LET s == To(g, st)
         IN  /\ s \in FsmRecord /\ s.state = st
             /\ s.timers = g.timers /\ s.upper = g.upper /\ s.seen_ack = g.seen_ack
             /\ s.go = g.go /\ s.ho = g.ho /\ s.flags = g.flags
  BY DEF To, FsmRecord

(* The down callback changes only what the upper layer believes.           *)
LEMMA DownFacts ==
  ASSUME NEW g \in FsmRecord
  PROVE  LET s == Down(g)
         IN  /\ s \in FsmRecord /\ s.upper = FALSE
             /\ s.state = g.state /\ s.timers = g.timers /\ s.seen_ack = g.seen_ack
             /\ s.go = g.go /\ s.ho = g.ho
  BY DEF Down, FsmRecord

(* Every record has a known state and a count of timers.                   *)
LEMMA RecordFacts ==
  ASSUME NEW g \in FsmRecord
  PROVE  /\ g.state \in States /\ g.timers \in Nat
         /\ g.upper \in BOOLEAN /\ g.seen_ack \in BOOLEAN
         /\ g.go \in CI /\ g.ho \in CI /\ g.nakloops \in Nat
  BY DEF FsmRecord

(* Coming to rest in a state that waits for nothing, upper layer down.     *)
LEMMA RestGood ==
  ASSUME NEW g \in FsmRecord, g.upper = FALSE,
         NEW st \in {"INITIAL", "STARTING", "CLOSED", "STOPPED"}
  PROVE  Good(To(g, st)) /\ To(g, st).upper = FALSE /\ To(g, st).state = st
  <1>1. /\ To(g, st) \in FsmRecord
        /\ To(g, st).state = st /\ To(g, st).upper = FALSE
    BY ToFacts DEF States
  <1>2. QED
    BY <1>1 DEF Good, Waiting, Negotiating, Terminating

(* Going on to wait with a timer pending, upper layer down.                *)
LEMMA WaitGood ==
  ASSUME NEW g \in FsmRecord, g.upper = FALSE, g.timers > 0,
         NEW st \in {"REQSENT", "ACKSENT", "CLOSING", "STOPPING"}
  PROVE  Good(To(g, st)) /\ To(g, st).upper = FALSE
  <1>1. /\ To(g, st) \in FsmRecord /\ To(g, st).timers = g.timers
        /\ To(g, st).state = st /\ To(g, st).upper = FALSE
    BY ToFacts DEF States
  <1>2. QED
    BY <1>1 DEF Good, Waiting, Negotiating, Terminating

(* A new negotiation starts well from any state that has upper down.       *)
LEMMA RestartGood ==
  ASSUME NEW g \in FsmRecord, g.upper = FALSE
  PROVE  LET r == To(fsm_sconfreq(g, FALSE), "REQSENT")
         IN  Good(r) /\ r.upper = FALSE
  <1> DEFINE s == fsm_sconfreq(g, FALSE)
  <1>1. s \in FsmRecord /\ s.upper = FALSE /\ s.timers = g.timers + 1
    BY SconfreqFacts
  <1> HIDE DEF s
  <1>2. s.timers > 0
    <2>1. g.timers \in Nat
      BY RecordFacts
    <2>2. QED
      BY <1>1, <2>1
  <1>3. Good(To(s, "REQSENT")) /\ To(s, "REQSENT").upper = FALSE
    BY <1>1, <1>2, WaitGood
  <1>4. QED
    BY <1>3 DEF s

(* The first request of a negotiation, or the silence instead.             *)
LEMMA BeginGood ==
  ASSUME NEW g \in FsmRecord, g.upper = FALSE
  PROVE  Good(Begin(g)) /\ Begin(g).upper = FALSE
  <1>1. CASE "SILENT" \in g.flags
    BY <1>1, RestGood DEF Begin
  <1>2. CASE "SILENT" \notin g.flags
    BY <1>2, RestartGood DEF Begin
  <1>3. QED
    BY <1>1, <1>2

(***************************************************************************)
(* What a call that turns g into h may do: keep the invariant, leave the   *)
(* options of a connection alone, bring the upper layer up only at the end *)
(* of a handshake.                                                         *)
(***************************************************************************)
Frozen(g, h) == g.upper /\ h.upper => h.go = g.go /\ h.ho = g.ho

Handshake(g, h) == ~g.upper /\ h.upper => /\ g.state \in {"ACKRCVD", "ACKSENT"}
                                         /\ h.seen_ack
                                         /\ h.timers = g.timers - 1

Safe(g, h) == Good(h) /\ Frozen(g, h) /\ Handshake(g, h)

(* A call that changes nothing is safe.                                    *)
LEMMA SameSafe == ASSUME NEW g, Good(g) PROVE Safe(g, g)
  BY DEF Safe, Frozen, Handshake

(* A call that ends with the upper layer down only has to keep Good.       *)
LEMMA DownSafe ==
  ASSUME NEW g, NEW h, Good(h), h.upper = FALSE PROVE Safe(g, h)
  BY DEF Safe, Frozen, Handshake

(* The line coming up (fsm_lowerup).                                       *)
LEMMA LowerupSafe ==
  ASSUME NEW g, Good(g)
  PROVE  Safe(g, fsm_lowerup(g))
  <1> USE DEF States, Waiting, Negotiating, Terminating
  <1>0. /\ g \in FsmRecord /\ g.state \in States
        /\ g.state # "OPENED" => g.upper = FALSE
        /\ g.state \in Waiting => g.timers > 0
    BY RecordFacts DEF Good
  <1>1. CASE g.state = "INITIAL"
    <2>1. fsm_lowerup(g) = To(g, "CLOSED")
      BY <1>1 DEF fsm_lowerup
    <2>2. Good(To(g, "CLOSED")) /\ To(g, "CLOSED").upper = FALSE
      BY <1>0, <1>1, RestGood
    <2>3. QED
      BY <2>1, <2>2, DownSafe
  <1>2. CASE g.state = "STARTING"
    <2>1. fsm_lowerup(g) = Begin(g)
      BY <1>2 DEF fsm_lowerup
    <2>2. g.upper = FALSE
      BY <1>0, <1>2
    <2>3. QED
      BY <1>0, <2>1, <2>2, BeginGood, DownSafe
  <1>3. CASE g.state \notin {"INITIAL", "STARTING"}
    BY <1>3, SameSafe DEF fsm_lowerup
  <1>4. QED
    BY <1>1, <1>2, <1>3

(* After the line is gone the upper layer is down, whatever the state was. *)
LEMMA LowerdownSafe ==
  ASSUME NEW g, Good(g)
  PROVE  /\ Good(fsm_lowerdown(g)) /\ fsm_lowerdown(g).upper = FALSE
         /\ fsm_lowerdown(g).state \in {"INITIAL", "STARTING"}
         /\ Safe(g, fsm_lowerdown(g))
  <1> USE DEF States, Waiting, Negotiating, Terminating
  <1>0. /\ g \in FsmRecord /\ g.state \in States
        /\ g.state # "OPENED" => g.upper = FALSE
        /\ g.state \in Waiting => g.timers > 0
    BY RecordFacts DEF Good
  <1>1. CASE g.state \in {"CLOSED", "STOPPED"}
    <2>1. \/ fsm_lowerdown(g) = To(g, "INITIAL")
          \/ fsm_lowerdown(g) = To(g, "STARTING")
      BY <1>1 DEF fsm_lowerdown
    <2>2. g.upper = FALSE
      BY <1>0, <1>1
    <2>3. /\ Good(fsm_lowerdown(g)) /\ fsm_lowerdown(g).upper = FALSE
          /\ fsm_lowerdown(g).state \in {"INITIAL", "STARTING"}
      BY <1>0, <2>1, <2>2, RestGood
    <2>4. QED
      BY <2>3, DownSafe
  <1>2. CASE g.state \in Waiting
    <2> DEFINE t == To(g, IF g.state = "CLOSING" THEN "INITIAL" ELSE "STARTING")
    <2>1. fsm_lowerdown(g) = UNTIMEOUT(t)
      BY <1>2 DEF fsm_lowerdown
    <2>2. t \in FsmRecord /\ t.upper = FALSE /\ t.state \in {"INITIAL", "STARTING"}
      BY <1>0, <1>2, ToFacts, RecordFacts
    <2> HIDE DEF t
    <2>3. /\ Good(UNTIMEOUT(t)) /\ UNTIMEOUT(t).upper = FALSE
          /\ UNTIMEOUT(t).state \in {"INITIAL", "STARTING"}
      BY <2>2, UntimeoutFacts DEF Good
    <2>4. QED
      BY <2>1, <2>3, DownSafe
  <1>3. CASE g.state = "OPENED"
    <2>1. fsm_lowerdown(g) = To(Down(g), "STARTING")
      BY <1>3 DEF fsm_lowerdown
    <2>2. /\ Good(To(Down(g), "STARTING")) /\ To(Down(g), "STARTING").upper = FALSE
          /\ To(Down(g), "STARTING").state = "STARTING"
      BY <1>0, DownFacts, RestGood
    <2>3. QED
      BY <2>1, <2>2, DownSafe
  <1>4. CASE g.state \in {"INITIAL", "STARTING"}
    <2>1. fsm_lowerdown(g) = g
      BY <1>4 DEF fsm_lowerdown
    <2>2. g.upper = FALSE
      BY <1>0, <1>4
    <2>3. QED
      BY <1>4, <2>1, <2>2, SameSafe
  <1>5. QED
    BY <1>0, <1>1, <1>2, <1>3, <1>4, RecordFacts

(* An open, the DOWN and UP of OPT_RESTART included (fsm_open).            *)
LEMMA OpenSafe ==
  ASSUME NEW g, Good(g)
  PROVE  Safe(g, fsm_open(g))
  <1> USE DEF States, Waiting, Negotiating, Terminating
  <1>0. /\ g \in FsmRecord /\ g.state \in States
        /\ g.state # "OPENED" => g.upper = FALSE
        /\ g.state \in Waiting => g.timers > 0
    BY RecordFacts DEF Good
  <1> DEFINE s == IF g.state = "CLOSING" THEN To(g, "STOPPING") ELSE g
  <1>1. /\ Good(s) /\ s.upper = g.upper /\ s.go = g.go /\ s.ho = g.ho
        /\ s.flags = g.flags
        /\ g.state # "CLOSING" => s = g
        /\ g.state = "CLOSING" => s.state = "STOPPING"
    BY <1>0, ToFacts DEF Good
  <1>2. /\ Good(fsm_lowerdown(s)) /\ fsm_lowerdown(s).upper = FALSE
        /\ fsm_lowerdown(s).state \in {"INITIAL", "STARTING"}
    BY <1>1, LowerdownSafe
  <1> DEFINE r == fsm_lowerup(fsm_lowerdown(s))
  <1>3. Good(r) /\ r.upper = FALSE
    <2>1. Safe(fsm_lowerdown(s), r)
      BY <1>2, LowerupSafe
    <2>2. QED
      BY <1>2, <2>1, RecordFacts DEF Safe, Handshake
  <1>4. CASE g.state = "INITIAL"
    <2>1. fsm_open(g) = To(g, "STARTING")
      BY <1>4 DEF fsm_open
    <2>2. g.upper = FALSE
      BY <1>0, <1>4, RecordFacts
    <2>3. Good(fsm_open(g)) /\ fsm_open(g).upper = FALSE
      BY <1>0, <2>1, <2>2, RestGood
    <2>4. QED
      BY <2>3, DownSafe
  <1>5. CASE g.state = "CLOSED"
    <2>1. fsm_open(g) = Begin(g)
      BY <1>5 DEF fsm_open
    <2>2. QED
      BY <1>0, <1>5, <2>1, BeginGood, DownSafe
  <1>6. CASE g.state \in {"STOPPED", "OPENED", "CLOSING"}
    <2>1. fsm_open(g) = IF "RESTART" \in s.flags THEN r ELSE s
      BY <1>1, <1>6 DEF fsm_open
    <2>2. Safe(g, s)
      BY <1>0, <1>1, <1>6, RecordFacts DEF Safe, Frozen, Handshake
    <2>3. QED
      BY <1>3, <2>1, <2>2, DownSafe
  <1>7. CASE g.state \in {"STARTING", "STOPPING"} \cup Negotiating
    <2>1. fsm_open(g) = g
      BY <1>7 DEF fsm_open
    <2>2. QED
      BY <2>1, SameSafe
  <1>8. QED
    BY <1>0, <1>4, <1>5, <1>6, <1>7, RecordFacts

(* A Terminate-Request always leaves a timer behind.                       *)
LEMMA TerminateGood ==
  ASSUME NEW g \in FsmRecord, g.upper = FALSE, NEW st \in Terminating, NEW n \in Int
  PROVE  LET r == To(SendTermReq([g EXCEPT !.retransmits = n]), st)
         IN  Good(r) /\ r.upper = FALSE
  <1> DEFINE a == [g EXCEPT !.retransmits = n]
             b == SendTermReq(a)
  <1>1. a \in FsmRecord /\ a.upper = FALSE
    BY DEF FsmRecord
  <1> HIDE DEF a
  <1>2. b \in FsmRecord /\ b.upper = FALSE /\ b.timers = a.timers + 1
    BY <1>1, TermReqFacts
  <1> HIDE DEF b
  <1>3. b.timers > 0
    <2>1. a.timers \in Nat
      BY <1>1, RecordFacts
    <2>2. QED
      BY <1>2, <2>1
  <1>4. Good(To(b, st)) /\ To(b, st).upper = FALSE
    BY <1>2, <1>3, WaitGood DEF Terminating
  <1>5. QED
    BY <1>4 DEF a, b

(* Closing always ends with the upper layer down.                          *)
LEMMA CloseSafe ==
  ASSUME NEW g, Good(g)
  PROVE  /\ Good(fsm_close(g)) /\ fsm_close(g).upper = FALSE
         /\ Safe(g, fsm_close(g))
  <1> USE DEF States, Waiting, Negotiating, Terminating
  <1>0. /\ g \in FsmRecord /\ g.state \in States
        /\ g.state # "OPENED" => g.upper = FALSE
        /\ g.state \in Waiting => g.timers > 0
    BY RecordFacts DEF Good
  <1>1. CASE g.state \in {"STARTING", "STOPPED"}
    <2>1. \/ fsm_close(g) = To(g, "INITIAL")
          \/ fsm_close(g) = To(g, "CLOSED")
      BY <1>1 DEF fsm_close
    <2>2. Good(fsm_close(g)) /\ fsm_close(g).upper = FALSE
      BY <1>0, <1>1, <2>1, RestGood
    <2>3. QED
      BY <2>2, DownSafe
  <1>2. CASE g.state = "STOPPING"
    <2>1. fsm_close(g) = To(g, "CLOSING")
      BY <1>2 DEF fsm_close
    <2>2. Good(fsm_close(g)) /\ fsm_close(g).upper = FALSE
      BY <1>0, <1>2, <2>1, WaitGood
    <2>3. QED
      BY <2>2, DownSafe
  <1>3. CASE g.state \in Negotiating \cup {"OPENED"}
    <2> DEFINE a == IF g.state = "OPENED" THEN Down(g) ELSE UNTIMEOUT(g)
    <2>1. fsm_close(g) = To(SendTermReq([a EXCEPT !.retransmits = MaxTermReq]), "CLOSING")
      BY <1>3 DEF fsm_close
    <2>2. a \in FsmRecord /\ a.upper = FALSE
      BY <1>0, <1>3, DownFacts, UntimeoutFacts
    <2> HIDE DEF a
    <2>3. Good(fsm_close(g)) /\ fsm_close(g).upper = FALSE
      <3>1. MaxTermReq \in Int /\ "CLOSING" \in Terminating
        BY LimitAssumption
      <3>2. QED
        BY <2>1, <2>2, <3>1, TerminateGood
    <2>4. QED
      BY <2>3, DownSafe
  <1>4. CASE g.state \in {"INITIAL", "CLOSED", "CLOSING"}
    <2>1. fsm_close(g) = g
      BY <1>4 DEF fsm_close
    <2>2. QED
      BY <1>0, <1>4, <2>1, SameSafe
  <1>5. QED
    BY <1>0, <1>1, <1>2, <1>3, <1>4

(* A Protocol-Reject (fsm_protreject).                                     *)
LEMMA ProtrejectSafe ==
  ASSUME NEW g, Good(g)
  PROVE  Safe(g, fsm_protreject(g))
  <1> USE DEF States, Waiting, Negotiating, Terminating
  <1>0. /\ g \in FsmRecord /\ g.state \in States
        /\ g.state # "OPENED" => g.upper = FALSE
    BY RecordFacts DEF Good
  <1>1. CASE g.state \in Waiting
    <2>1. \/ fsm_protreject(g) = To(UNTIMEOUT(g), "CLOSED")
          \/ fsm_protreject(g) = To(UNTIMEOUT(g), "STOPPED")
      BY <1>1 DEF fsm_protreject
    <2>2. UNTIMEOUT(g) \in FsmRecord /\ UNTIMEOUT(g).upper = FALSE
      BY <1>0, <1>1, UntimeoutFacts
    <2>3. Good(fsm_protreject(g)) /\ fsm_protreject(g).upper = FALSE
      BY <2>1, <2>2, RestGood
    <2>4. QED
      BY <2>3, DownSafe
  <1>2. CASE g.state = "OPENED"
    <2>1. fsm_protreject(g)
            = To(SendTermReq([Down(g) EXCEPT !.retransmits = MaxTermReq]), "STOPPING")
      BY <1>2 DEF fsm_protreject
    <2>2. Down(g) \in FsmRecord /\ Down(g).upper = FALSE
      BY <1>0, DownFacts
    <2>3. MaxTermReq \in Int /\ "STOPPING" \in Terminating
      BY LimitAssumption
    <2>4. Good(fsm_protreject(g)) /\ fsm_protreject(g).upper = FALSE
      BY <2>1, <2>2, <2>3, TerminateGood
    <2>5. QED
      BY <2>4, DownSafe
  <1>3. CASE g.state \notin Waiting \cup {"OPENED"}
    BY <1>3, SameSafe DEF fsm_protreject
  <1>4. QED
    BY <1>1, <1>2, <1>3

(***************************************************************************)
(* fsm_timeout runs on the structure a with one callout less than g had.   *)
(***************************************************************************)
LEMMA TimeoutSafe ==
  ASSUME NEW g, Good(g), g.timers > 0
  PROVE  Safe(g, fsm_timeout([g EXCEPT !.timers = @ - 1]))
  <1> USE DEF States, Waiting, Negotiating, Terminating
  <1> DEFINE a == [g EXCEPT !.timers = @ - 1]
             h == fsm_timeout(a)
  <1>0. /\ g \in FsmRecord /\ g.timers \in Nat
        /\ g.state # "OPENED" => g.upper = FALSE
    BY RecordFacts DEF Good
  <1>1. /\ a \in FsmRecord
        /\ a.state = g.state /\ a.upper = g.upper /\ a.seen_ack = g.seen_ack
        /\ a.go = g.go /\ a.ho = g.ho
    BY <1>0 DEF FsmRecord
  <1>2. a.state \in States /\ a.timers \in Nat /\ a.retransmits \in Int
    BY <1>1 DEF FsmRecord
  <1> HIDE DEF a
  <1>3. CASE a.state \in Waiting /\ a.retransmits <= 0
    <2>1. h = To(a, "CLOSED") \/ h = To(a, "STOPPED")
      BY <1>3 DEF fsm_timeout
    <2>2. Good(h) /\ h.upper = FALSE
      BY <1>0, <1>1, <1>3, <2>1, RestGood
    <2>3. QED
      BY <2>2, DownSafe DEF a
  <1>4. CASE a.state \in Terminating /\ ~(a.retransmits <= 0)
    <2>1. h = SendTermReq(a)
      BY <1>4 DEF fsm_timeout
    <2>2. /\ h \in FsmRecord /\ h.upper = FALSE
          /\ h.timers = a.timers + 1 /\ h.state = a.state
      BY <1>0, <1>1, <1>4, <2>1, TermReqFacts
    <2>3. Good(h)
      BY <1>2, <1>4, <2>2 DEF Good
    <2>4. QED
      BY <2>2, <2>3, DownSafe DEF a
  <1>5. CASE a.state \in Negotiating /\ ~(a.retransmits <= 0)
    <2> DEFINE b == fsm_sconfreq(a, TRUE)
    <2>1. h = IF b.state = "ACKRCVD" THEN To(b, "REQSENT") ELSE b
      BY <1>5 DEF fsm_timeout
    <2>2. /\ b \in FsmRecord /\ b.upper = FALSE
          /\ b.timers = a.timers + 1 /\ b.state = a.state
      BY <1>0, <1>1, <1>5, SconfreqFacts
    <2> HIDE DEF b
    <2>3. b.timers > 0
      BY <1>2, <2>2
    <2>4. CASE b.state = "ACKRCVD"
      BY <2>1, <2>2, <2>3, <2>4, WaitGood, DownSafe DEF a
    <2>5. CASE b.state # "ACKRCVD"
      <3>1. Good(b)
        BY <2>2, <2>3, <2>5, <1>5 DEF Good
      <3>2. QED
        BY <2>1, <2>2, <2>5, <3>1, DownSafe DEF a
    <2>6. QED
      BY <2>4, <2>5
  <1>6. CASE a.state \notin Waiting
    <2>1. h = a
      BY <1>6 DEF fsm_timeout
    <2>2. Good(a)
      BY <1>1, <1>6 DEF Good
    <2>3. Safe(g, a)
      BY <1>1, <2>2 DEF Safe, Frozen, Handshake
    <2>4. QED
      BY <2>1, <2>3 DEF a
  <1>7. QED
    BY <1>3, <1>4, <1>5, <1>6

-----------------------------------------------------------------------------
(* Sending a packet keeps all that Good and Safe speak of.                 *)
LEMMA SendGood ==
  ASSUME NEW g, Good(g), NEW code \in Codes, NEW id \in Ids, NEW ci \in CI
  PROVE  LET s == fsm_sdata(g, code, id, ci)
         IN  Good(s) /\ s.upper = g.upper /\ Safe(g, s)
  <1> DEFINE s == fsm_sdata(g, code, id, ci)
  <1>0. g \in FsmRecord
    BY DEF Good
  <1>1. s \in FsmRecord
    BY <1>0, SendType
  <1>2. /\ s.state = g.state /\ s.timers = g.timers /\ s.upper = g.upper
        /\ s.seen_ack = g.seen_ack /\ s.go = g.go /\ s.ho = g.ho
    BY <1>0, SendSame
  <1> HIDE DEF s
  <1>3. Good(s)
    BY <1>1, <1>2 DEF Good
  <1>4. Safe(g, s)
    BY <1>2, <1>3 DEF Safe, Frozen, Handshake
  <1>5. QED
    BY <1>2, <1>3, <1>4 DEF s

(* A Code-Reject from the peer (fsm_rcoderej).                             *)
LEMMA RcoderejSafe ==
  ASSUME NEW g, Good(g)
  PROVE  Safe(g, fsm_rcoderej(g))
  <1>1. CASE g.state = "ACKRCVD"
    <2>1. fsm_rcoderej(g) = To(g, "REQSENT")
      BY <1>1 DEF fsm_rcoderej
    <2>2. g \in FsmRecord /\ g.upper = FALSE /\ g.timers > 0
      BY <1>1, RecordFacts DEF Good, Waiting, Negotiating
    <2>3. QED
      BY <2>1, <2>2, WaitGood, DownSafe
  <1>2. CASE g.state # "ACKRCVD"
    BY <1>2, SameSafe DEF fsm_rcoderej
  <1>3. QED
    BY <1>1, <1>2

(* A Code-Reject to the peer, in any state (fsm_input).                    *)
LEMMA CoderejSafe ==
  ASSUME NEW g, Good(g)
  PROVE  Safe(g, SendCodeRej(g))
  <1> DEFINE a == [g EXCEPT !.id = NextId(g)]
  <1>0. g \in FsmRecord
    BY DEF Good
  <1>1. NextId(g) \in Ids
    BY <1>0, NextIdType
  <1>2. a \in FsmRecord
    BY <1>0, <1>1 DEF FsmRecord
  <1>3. /\ a.state = g.state /\ a.timers = g.timers /\ a.upper = g.upper
        /\ a.seen_ack = g.seen_ack /\ a.go = g.go /\ a.ho = g.ho
    BY <1>0 DEF FsmRecord
  <1>4. SendCodeRej(g) = fsm_sdata(a, "CODEREJ", NextId(g), NoCI)
    BY DEF SendCodeRej
  <1> HIDE DEF a
  <1>5. Good(a)
    BY <1>2, <1>3 DEF Good
  <1>6. Safe(a, SendCodeRej(g))
    BY <1>1, <1>4, <1>5, SendGood, CIAssumption DEF Codes
  <1>7. QED
    BY <1>3, <1>6 DEF Safe, Frozen, Handshake

(* A Terminate-Ack, the OPENED case included (fsm_rtermack).               *)
LEMMA RtermackSafe ==
  ASSUME NEW g, Good(g)
  PROVE  Safe(g, fsm_rtermack(g))
  <1> USE DEF States, Waiting, Negotiating, Terminating
  <1> DEFINE h == fsm_rtermack(g)
  <1>0. /\ g \in FsmRecord /\ g.state \in States
        /\ g.state # "OPENED" => g.upper = FALSE
        /\ g.state \in Waiting => g.timers > 0
    BY RecordFacts DEF Good
  <1>1. CASE g.state \in Terminating
    <2>1. h = To(UNTIMEOUT(g), "CLOSED") \/ h = To(UNTIMEOUT(g), "STOPPED")
      BY <1>1 DEF fsm_rtermack
    <2>2. UNTIMEOUT(g) \in FsmRecord /\ UNTIMEOUT(g).upper = FALSE
      BY <1>0, <1>1, UntimeoutFacts
    <2>3. Good(h) /\ h.upper = FALSE
      BY <2>1, <2>2, RestGood
    <2>4. QED
      BY <2>3, DownSafe
  <1>2. CASE g.state = "ACKRCVD"
    <2>1. h = To(g, "REQSENT")
      BY <1>2 DEF fsm_rtermack
    <2>2. QED
      BY <1>0, <1>2, <2>1, WaitGood, DownSafe
  <1>3. CASE g.state = "OPENED"
    <2>1. h = fsm_sconfreq(Down(g), FALSE)
      BY <1>3 DEF fsm_rtermack
    <2>2. Down(g) \in FsmRecord /\ Down(g).upper = FALSE /\ Down(g).state = "OPENED"
      BY <1>0, <1>3, DownFacts
    <2>3. h \in FsmRecord /\ h.upper = FALSE /\ h.state = "OPENED"
      BY <2>1, <2>2, SconfreqFacts
    <2>4. Good(h)
      BY <2>3 DEF Good
    <2>5. QED
      BY <2>3, <2>4, DownSafe
  <1>4. CASE g.state \notin Terminating \cup {"ACKRCVD", "OPENED"}
    BY <1>4, SameSafe DEF fsm_rtermack
  <1>5. QED
    BY <1>1, <1>2, <1>3, <1>4

(* A Terminate-Request from the peer (fsm_rtermreq).                       *)
LEMMA RtermreqSafe ==
  ASSUME NEW g, Good(g), NEW id \in Ids
  PROVE  Safe(g, fsm_rtermreq(g, id))
  <1> USE DEF States, Waiting, Negotiating, Terminating
  <1>0. /\ g \in FsmRecord /\ g.state \in States
        /\ g.state # "OPENED" => g.upper = FALSE
        /\ g.state \in Waiting => g.timers > 0
    BY RecordFacts DEF Good
  <1> DEFINE a == [Down(g) EXCEPT !.retransmits = 0]
             b == CASE g.state \in {"ACKRCVD", "ACKSENT"} -> To(g, "REQSENT")
                    [] g.state = "OPENED" -> TIMEOUT(To(a, "STOPPING"))
                    [] OTHER -> g
  <1>1. /\ Good(b)
        /\ b = g \/ b.upper = FALSE
    <2>1. CASE g.state \in {"ACKRCVD", "ACKSENT"}
      <3>1. b = To(g, "REQSENT")
        BY <2>1
      <3>2. QED
        BY <1>0, <2>1, <3>1, WaitGood
    <2>2. CASE g.state = "OPENED"
      <3>1. Down(g) \in FsmRecord /\ Down(g).upper = FALSE
        BY <1>0, DownFacts
      <3>2. a \in FsmRecord /\ a.upper = FALSE
        BY <3>1 DEF FsmRecord
      <3> HIDE DEF a
      <3> DEFINE c == To(a, "STOPPING")
      <3>3. b = TIMEOUT(c)
        BY <2>2
      <3>4. c \in FsmRecord /\ c.upper = FALSE /\ c.state = "STOPPING"
        BY <3>2, ToFacts
      <3>5. c.timers \in Nat
        BY <3>4, RecordFacts
      <3> HIDE DEF c
      <3>6. /\ TIMEOUT(c) \in FsmRecord /\ TIMEOUT(c).upper = FALSE
            /\ TIMEOUT(c).state = "STOPPING" /\ TIMEOUT(c).timers = c.timers + 1
        BY <3>4, TimeoutFacts
      <3>7. Good(TIMEOUT(c)) /\ TIMEOUT(c).upper = FALSE
        BY <3>5, <3>6 DEF Good
      <3>8. QED
        BY <3>3, <3>7
    <2>3. CASE g.state \notin {"ACKRCVD", "ACKSENT", "OPENED"}
      <3>1. b = g
        BY <2>3
      <3>2. QED
        BY <3>1
    <2>4. QED
      BY <2>1, <2>2, <2>3
  <1>2. fsm_rtermreq(g, id) = fsm_sdata(b, "TERMACK", id, NoCI)
    BY DEF fsm_rtermreq
  <1> HIDE DEF b
  <1>3. /\ Good(fsm_rtermreq(g, id)) /\ Safe(b, fsm_rtermreq(g, id))
        /\ fsm_rtermreq(g, id).upper = b.upper
    <2>1. Good(b)
      BY <1>1
    <2>2. "TERMACK" \in Codes
      BY DEF Codes
    <2>3. QED
      BY <1>2, <2>1, <2>2, SendGood, CIAssumption
  <1>4. QED
    BY <1>1, <1>3, DownSafe

(* The up callback on an automaton that has just reached OPENED: either it *)
(* accepts, or it has closed the connection again before it returns.       *)
LEMMA UpGood ==
  ASSUME NEW g \in FsmRecord, g.state = "OPENED", NEW refuse \in BOOLEAN
  PROVE  LET u == Up(g, refuse)
         IN  /\ Good(u)
             /\ \/ u.upper = FALSE
                \/ u.seen_ack = g.seen_ack /\ u.timers = g.timers
  <1> DEFINE a == [g EXCEPT !.upper = TRUE]
  <1>1. /\ a \in FsmRecord /\ a.state = "OPENED"
        /\ a.seen_ack = g.seen_ack /\ a.timers = g.timers
    BY DEF FsmRecord
  <1>2. Up(g, refuse) = IF refuse THEN fsm_close(a) ELSE a
    BY DEF Up
  <1> HIDE DEF a
  <1>3. Good(a)
    BY <1>1 DEF Good, Waiting, Negotiating, Terminating
  <1>4. Good(fsm_close(a)) /\ fsm_close(a).upper = FALSE
    BY <1>3, CloseSafe
  <1>5. CASE refuse = TRUE
    <2>1. Up(g, refuse) = fsm_close(a)
      BY <1>2, <1>5
    <2>2. QED
      BY <1>4, <2>1
  <1>6. CASE refuse = FALSE
    BY <1>1, <1>2, <1>3, <1>6
  <1>7. QED
    BY <1>5, <1>6

(* A Configure-Ack: the handshake ends here or starts again.               *)
LEMMA RconfackSafe ==
  ASSUME NEW g, Good(g), NEW id \in Ids, NEW ci \in CI, NEW refuse \in BOOLEAN
  PROVE  Safe(g, fsm_rconfack(g, id, ci, refuse))
  <1> USE DEF States, Waiting, Negotiating, Terminating
  <1> DEFINE a == [g EXCEPT !.seen_ack = TRUE]
             h == fsm_rconfack(g, id, ci, refuse)
  <1>0. /\ g \in FsmRecord /\ g.state \in States
        /\ g.state # "OPENED" => g.upper = FALSE
        /\ g.state \in Waiting => g.timers > 0
    BY RecordFacts DEF Good
  <1>1. /\ a \in FsmRecord /\ a.seen_ack = TRUE
        /\ a.state = g.state /\ a.timers = g.timers /\ a.upper = g.upper
        /\ a.go = g.go /\ a.ho = g.ho
    BY <1>0 DEF FsmRecord
  <1>2. CASE ~Expected(g, id) \/ ~ackci(g, ci)
    <2>1. h = g
      BY <1>2 DEF fsm_rconfack
    <2>2. QED
      BY <2>1, SameSafe
  <1>3. CASE ~(~Expected(g, id) \/ ~ackci(g, ci))
    <2>1. CASE g.state \in {"CLOSED", "STOPPED"}
      <3>1. h = fsm_sdata(a, "TERMACK", id, NoCI)
        BY <1>1, <1>3, <2>1 DEF fsm_rconfack
      <3> HIDE DEF a
      <3>2. Good(a) /\ a.upper = FALSE
        BY <1>0, <1>1, <2>1 DEF Good
      <3>3. "TERMACK" \in Codes
        BY DEF Codes
      <3>4. Good(h) /\ h.upper = FALSE
        BY <3>1, <3>2, <3>3, SendGood, CIAssumption
      <3>5. QED
        BY <3>4, DownSafe
    <2>2. CASE g.state = "REQSENT"
      <3> DEFINE b == To(a, "ACKRCVD")
      <3>1. h = [b EXCEPT !.retransmits = MaxConfReq]
        BY <1>1, <1>3, <2>2 DEF fsm_rconfack
      <3> HIDE DEF a
      <3>2. /\ b \in FsmRecord /\ b.state = "ACKRCVD" /\ b.timers = g.timers
            /\ b.upper = FALSE /\ b.seen_ack = TRUE
        BY <1>0, <1>1, <2>2, ToFacts
      <3> HIDE DEF b
      <3>3. MaxConfReq \in Int
        BY LimitAssumption
      <3>4. /\ h \in FsmRecord /\ h.state = "ACKRCVD" /\ h.timers = g.timers
            /\ h.upper = FALSE /\ h.seen_ack = TRUE
        BY <3>1, <3>2, <3>3 DEF FsmRecord
      <3>5. Good(h)
        BY <1>0, <2>2, <3>4 DEF Good
      <3>6. QED
        BY <3>4, <3>5, DownSafe
    <2>3. CASE g.state = "ACKRCVD"
      <3>1. h = To(fsm_sconfreq(UNTIMEOUT(a), FALSE), "REQSENT")
        BY <1>1, <1>3, <2>3 DEF fsm_rconfack, Restart
      <3> HIDE DEF a
      <3>2. UNTIMEOUT(a) \in FsmRecord /\ UNTIMEOUT(a).upper = FALSE
        BY <1>0, <1>1, <2>3, UntimeoutFacts
      <3>3. QED
        BY <3>1, <3>2, RestartGood, DownSafe
    <2>4. CASE g.state = "ACKSENT"
      <3> DEFINE b == UNTIMEOUT(a)
                 c == To(b, "OPENED")
                 d == [c EXCEPT !.retransmits = MaxConfReq]
      <3>1. h = Up(d, refuse)
        BY <1>1, <1>3, <2>4 DEF fsm_rconfack
      <3> HIDE DEF a
      <3>2. b \in FsmRecord /\ b.seen_ack = TRUE /\ b.timers = g.timers - 1
        BY <1>0, <1>1, <2>4, UntimeoutFacts
      <3> HIDE DEF b
      <3>3. /\ c \in FsmRecord /\ c.seen_ack = TRUE /\ c.timers = g.timers - 1
            /\ c.state = "OPENED"
        BY <3>2, ToFacts
      <3> HIDE DEF c
      <3>4. MaxConfReq \in Int
        BY LimitAssumption
      <3>5. /\ d \in FsmRecord /\ d.seen_ack = TRUE /\ d.timers = g.timers - 1
            /\ d.state = "OPENED"
        BY <3>3, <3>4 DEF FsmRecord
      <3> HIDE DEF d
      <3>6. /\ Good(h)
            /\ \/ h.upper = FALSE
               \/ h.seen_ack = TRUE /\ h.timers = g.timers - 1
        BY <3>1, <3>5, UpGood
      <3>7. QED
        BY <1>0, <2>4, <3>6 DEF Safe, Frozen, Handshake
    <2>5. CASE g.state = "OPENED"
      <3>1. h = To(fsm_sconfreq(Down(a), FALSE), "REQSENT")
        BY <1>1, <1>3, <2>5 DEF fsm_rconfack, Restart
      <3> HIDE DEF a
      <3>2. Down(a) \in FsmRecord /\ Down(a).upper = FALSE
        BY <1>1, DownFacts
      <3>3. QED
        BY <3>1, <3>2, RestartGood, DownSafe
    <2>6. CASE g.state \in {"INITIAL", "STARTING"} \cup Terminating
      <3>1. h = a
        BY <1>1, <1>3, <2>6 DEF fsm_rconfack
      <3> HIDE DEF a
      <3>2. Good(a) /\ a.upper = FALSE
        BY <1>0, <1>1, <2>6 DEF Good
      <3>3. QED
        BY <3>1, <3>2, DownSafe
    <2>7. QED
      BY <1>0, <2>1, <2>2, <2>3, <2>4, <2>5, <2>6
  <1>4. QED
    BY <1>2, <1>3

(* A Nak or Reject always ends with the upper layer down or is ignored,    *)
(* also when lcp_nakci closes the connection from inside.                  *)
LEMMA RconfnakrejSafe ==
  ASSUME NEW g, Good(g), NEW id \in Ids, NEW ret \in {-1, 0, 1},
         NEW try \in CI, NEW looped \in BOOLEAN
  PROVE  Safe(g, fsm_rconfnakrej(g, id, ret, try, looped))
  <1> USE DEF States, Waiting, Negotiating, Terminating
  <1> DEFINE c == IF looped THEN fsm_close(g) ELSE g
             n == IF g.state = "OPENED" THEN g ELSE [c EXCEPT !.go = try]
             a == [n EXCEPT !.seen_ack = TRUE]
             h == fsm_rconfnakrej(g, id, ret, try, looped)
  <1>1. CASE ~Expected(g, id) \/ ret = 0
    <2>1. h = g
      BY <1>1 DEF fsm_rconfnakrej
    <2>2. QED
      BY <2>1, SameSafe
  <1>2. CASE ~(~Expected(g, id) \/ ret = 0)
    <2>0. h = CASE a.state \in {"CLOSED", "STOPPED"} -> fsm_sdata(a, "TERMACK", id, NoCI)
                [] a.state \in {"REQSENT", "ACKSENT"} ->
                     IF ret < 0 THEN To(UNTIMEOUT(a), "STOPPED")
                     ELSE fsm_sconfreq(UNTIMEOUT(a), FALSE)
                [] a.state = "ACKRCVD" -> To(fsm_sconfreq(UNTIMEOUT(a), FALSE), "REQSENT")
                [] a.state = "OPENED" -> To(fsm_sconfreq(Down(a), FALSE), "REQSENT")
                [] OTHER -> a
      BY <1>2 DEF fsm_rconfnakrej, Restart
    <2> HIDE DEF h
    <2>1. Good(c)
      <3>1. Good(fsm_close(g))
        BY CloseSafe
      <3>2. QED
        BY <3>1
    <2> HIDE DEF c
    <2>2. Good(n)
      <3>1. /\ [c EXCEPT !.go = try] \in FsmRecord
            /\ [c EXCEPT !.go = try].state = c.state
            /\ [c EXCEPT !.go = try].timers = c.timers
            /\ [c EXCEPT !.go = try].upper = c.upper
            /\ [c EXCEPT !.go = try].seen_ack = c.seen_ack
        BY <2>1 DEF Good, FsmRecord
      <3>2. Good([c EXCEPT !.go = try])
        BY <2>1, <3>1 DEF Good
      <3>3. QED
        BY <3>2
    <2> HIDE DEF n
    <2>3. /\ a \in FsmRecord /\ a.seen_ack = TRUE
          /\ a.state = n.state /\ a.timers = n.timers /\ a.upper = n.upper
      BY <2>2 DEF Good, FsmRecord
    <2> HIDE DEF a
    <2>4. Good(a)
      BY <2>2, <2>3 DEF Good
    <2>5. /\ a.state \in States /\ a.timers \in Nat
          /\ a.state # "OPENED" => a.upper = FALSE
          /\ a.state \in Waiting => a.timers > 0
      BY <2>3, <2>4, RecordFacts DEF Good
    <2>6. CASE a.state \in {"CLOSED", "STOPPED"}
      <3>1. h = fsm_sdata(a, "TERMACK", id, NoCI)
        BY <2>0, <2>6
      <3>2. "TERMACK" \in Codes
        BY DEF Codes
      <3>3. Good(h) /\ h.upper = FALSE
        BY <2>4, <2>5, <2>6, <3>1, <3>2, SendGood, CIAssumption
      <3>4. QED
        BY <3>3, DownSafe DEF h
    <2>7. CASE a.state \in {"REQSENT", "ACKSENT"}
      <3> DEFINE b == UNTIMEOUT(a)
                 d == fsm_sconfreq(b, FALSE)
      <3>1. h = To(b, "STOPPED") \/ h = d
        BY <2>0, <2>7
      <3>2. b \in FsmRecord /\ b.upper = FALSE /\ b.state = a.state
        BY <2>3, <2>5, <2>7, UntimeoutFacts
      <3>3. b.timers \in Nat
        BY <3>2, RecordFacts
      <3> HIDE DEF b
      <3>4. Good(To(b, "STOPPED")) /\ To(b, "STOPPED").upper = FALSE
        BY <3>2, RestGood
      <3>5. /\ d \in FsmRecord /\ d.upper = FALSE /\ d.state = a.state
            /\ d.timers = b.timers + 1
        BY <3>2, SconfreqFacts
      <3> HIDE DEF d
      <3>6. Good(d)
        BY <2>7, <3>3, <3>5 DEF Good
      <3>7. QED
        BY <3>1, <3>4, <3>5, <3>6, DownSafe DEF h
    <2>8. CASE a.state = "ACKRCVD"
      <3>1. h = To(fsm_sconfreq(UNTIMEOUT(a), FALSE), "REQSENT")
        BY <2>0, <2>8
      <3>2. UNTIMEOUT(a) \in FsmRecord /\ UNTIMEOUT(a).upper = FALSE
        BY <2>3, <2>5, <2>8, UntimeoutFacts
      <3>3. QED
        BY <3>1, <3>2, RestartGood, DownSafe DEF h
    <2>9. CASE a.state = "OPENED"
      <3>1. h = To(fsm_sconfreq(Down(a), FALSE), "REQSENT")
        BY <2>0, <2>9
      <3>2. Down(a) \in FsmRecord /\ Down(a).upper = FALSE
        BY <2>3, DownFacts
      <3>3. QED
        BY <3>1, <3>2, RestartGood, DownSafe DEF h
    <2>10. CASE a.state \in {"INITIAL", "STARTING"} \cup Terminating
      <3>1. h = a
        BY <2>0, <2>10
      <3>2. QED
        BY <2>4, <2>5, <2>10, <3>1, DownSafe DEF h
    <2>11. QED
      BY <2>5, <2>6, <2>7, <2>8, <2>9, <2>10
  <1>3. QED
    BY <1>1, <1>2

(* A Configure-Request: the automaton answers from g, which has restarted  *)
(* the negotiation when the request came in OPENED or STOPPED.             *)
LEMMA RconfreqSafe ==
  ASSUME NEW g, Good(g), g.state \notin {"INITIAL", "STARTING"},
         NEW id \in Ids, NEW ci \in CI, NEW hint \in CI,
         NEW verdict \in {"CONFACK", "CONFNAK", "CONFREJ"},
         NEW tough \in BOOLEAN, NEW refuse \in BOOLEAN
  PROVE  Safe(g, fsm_rconfreq(g, id, ci, verdict, hint, tough, refuse))
  <1> USE DEF States, Waiting, Negotiating, Terminating
  <1> DEFINE a == CASE g.state = "OPENED"  -> fsm_sconfreq(Down(g), FALSE)
                    [] g.state = "STOPPED" -> To(fsm_sconfreq(g, FALSE), "REQSENT")
                    [] OTHER -> g
             rej == a.nakloops >= MaxNakLoops
             code == IF verdict = "CONFNAK" /\ rej /\ tough THEN "CONFREJ" ELSE verdict
             pay == IF code = "CONFNAK" THEN hint ELSE ci
             s == fsm_sdata(a, code, id, pay)
             acked == [s EXCEPT !.ho = ci]
             more == IF code = "CONFNAK" /\ ~rej THEN s.nakloops + 1 ELSE s.nakloops
             fed == [s EXCEPT !.nakloops = more]
             open == Up(To(UNTIMEOUT(acked), "OPENED"), refuse)
             sent == To(acked, "ACKSENT")
             h == fsm_rconfreq(g, id, ci, verdict, hint, tough, refuse)
  <1>0. /\ g \in FsmRecord /\ g.state \in States
        /\ g.state # "OPENED" => g.upper = FALSE
        /\ g.state \in Waiting => g.timers > 0
    BY RecordFacts DEF Good
  <1>1. CASE g.state = "CLOSED"
    <2>1. h = fsm_sdata(g, "TERMACK", id, NoCI)
      BY <1>1 DEF fsm_rconfreq
    <2> HIDE DEF h
    <2>2. "TERMACK" \in Codes
      BY DEF Codes
    <2>3. Safe(g, h)
      BY <2>1, <2>2, SendGood, CIAssumption
    <2>4. QED
      BY <2>3 DEF h
  <1>2. CASE g.state \in Terminating
    <2>1. h = g
      BY <1>2 DEF fsm_rconfreq
    <2>2. QED
      BY <2>1, SameSafe
  <1>3. CASE g.state \in {"STOPPED", "OPENED"} \cup Negotiating
    <2>1. \/ code = "CONFACK" /\ s.state = "ACKRCVD" /\ h = [open EXCEPT !.nakloops = 0]
          \/ code = "CONFACK" /\ s.state # "ACKRCVD" /\ h = [sent EXCEPT !.nakloops = 0]
          \/ code # "CONFACK" /\ fed.state = "ACKRCVD" /\ h = fed
          \/ code # "CONFACK" /\ fed.state # "ACKRCVD" /\ h = To(fed, "REQSENT")
      BY <1>3 DEF fsm_rconfreq
    <2> HIDE DEF h
    <2>2. /\ a \in FsmRecord /\ a.upper = FALSE
          /\ a.state \in Negotiating \cup {"OPENED"} /\ a.timers > 0
          /\ a.state = "ACKRCVD" => a = g /\ a.seen_ack
      <3>1. CASE g.state = "OPENED"
        <4>1. a = fsm_sconfreq(Down(g), FALSE)
          BY <3>1
        <4>2. /\ Down(g) \in FsmRecord /\ Down(g).upper = FALSE
              /\ Down(g).state = "OPENED" /\ Down(g).timers \in Nat
          BY <1>0, <3>1, DownFacts, RecordFacts
        <4> HIDE DEF a
        <4>3. /\ a \in FsmRecord /\ a.upper = FALSE /\ a.state = "OPENED"
              /\ a.timers = Down(g).timers + 1
          BY <4>1, <4>2, SconfreqFacts
        <4>4. QED
          BY <4>2, <4>3
      <3>2. CASE g.state = "STOPPED"
        <4> DEFINE q == fsm_sconfreq(g, FALSE)
        <4>1. a = To(q, "REQSENT")
          BY <3>2
        <4>2. q \in FsmRecord /\ q.upper = FALSE /\ q.timers = g.timers + 1
          BY <1>0, <3>2, SconfreqFacts
        <4>3. g.timers \in Nat
          BY <1>0, RecordFacts
        <4> HIDE DEF q, a
        <4>4. /\ a \in FsmRecord /\ a.state = "REQSENT" /\ a.upper = FALSE
              /\ a.timers = q.timers
          BY <4>1, <4>2, ToFacts
        <4>5. QED
          BY <4>2, <4>3, <4>4
      <3>3. CASE g.state \in Negotiating
        <4>1. a = g
          BY <3>3
        <4>2. QED
          BY <1>0, <3>3, <4>1 DEF Good
      <3>4. QED
        BY <1>3, <3>1, <3>2, <3>3
    <2> HIDE DEF a
    <2>3. code \in Codes /\ pay \in CI
      BY DEF Codes
    <2> HIDE DEF code, pay
    <2>4. s \in FsmRecord
      BY <2>2, <2>3, SendType
    <2>5. /\ s.state = a.state /\ s.timers = a.timers /\ s.upper = FALSE
          /\ s.seen_ack = a.seen_ack
      BY <2>2, <2>3, SendSame
    <2> HIDE DEF s
    <2>6. CASE code = "CONFACK" /\ s.state = "ACKRCVD" /\ h = [open EXCEPT !.nakloops = 0]
      <3> DEFINE u == UNTIMEOUT(acked)
                 t == To(u, "OPENED")
      <3>1. /\ acked \in FsmRecord /\ acked.state = s.state /\ acked.timers = s.timers
            /\ acked.seen_ack = s.seen_ack
        BY <2>4 DEF FsmRecord
      <3> HIDE DEF acked
      <3>2. u \in FsmRecord /\ u.timers = g.timers - 1 /\ u.seen_ack = TRUE
        <4>1. /\ acked.timers = g.timers /\ acked.timers > 0
              /\ acked.seen_ack = g.seen_ack /\ g.state = "ACKRCVD"
          BY <2>2, <2>5, <2>6, <3>1
        <4>2. acked.seen_ack = TRUE
          BY <1>0, <4>1, RecordFacts DEF Good
        <4>3. QED
          BY <3>1, <4>1, <4>2, UntimeoutFacts
      <3> HIDE DEF u
      <3>3. t \in FsmRecord /\ t.state = "OPENED" /\ t.timers = g.timers - 1 /\ t.seen_ack = TRUE
        BY <3>2, ToFacts
      <3> HIDE DEF t
      <3>4. open = Up(t, refuse)
        BY DEF t, u
      <3> HIDE DEF open
      <3>5. /\ Good(open)
            /\ \/ open.upper = FALSE
               \/ open.seen_ack = TRUE /\ open.timers = g.timers - 1
        BY <3>3, <3>4, UpGood
      <3>6. /\ h \in FsmRecord /\ h.state = open.state /\ h.timers = open.timers
            /\ h.upper = open.upper /\ h.seen_ack = open.seen_ack
        BY <2>6, <3>5 DEF Good, FsmRecord
      <3>7. Good(h)
        BY <3>5, <3>6 DEF Good
      <3>8. g.state = "ACKRCVD" /\ g.upper = FALSE
        BY <1>0, <2>2, <2>5, <2>6
      <3>9. Safe(g, h)
        BY <3>5, <3>6, <3>7, <3>8 DEF Safe, Frozen, Handshake
      <3>10. QED
        BY <3>9 DEF h
    <2>7. CASE code = "CONFACK" /\ s.state # "ACKRCVD" /\ h = [sent EXCEPT !.nakloops = 0]
      <3>1. acked \in FsmRecord /\ acked.timers = s.timers /\ acked.upper = FALSE
        BY <2>4, <2>5 DEF FsmRecord
      <3> HIDE DEF acked
      <3>2. Good(sent) /\ sent.upper = FALSE
        BY <2>2, <2>5, <3>1, WaitGood
      <3> HIDE DEF sent
      <3>3. /\ h \in FsmRecord /\ h.state = sent.state /\ h.timers = sent.timers
            /\ h.upper = sent.upper /\ h.seen_ack = sent.seen_ack
        BY <2>7, <3>2 DEF Good, FsmRecord
      <3>4. Good(h) /\ h.upper = FALSE
        BY <3>2, <3>3 DEF Good
      <3>5. QED
        BY <3>4, DownSafe DEF h
    <2>8. /\ fed \in FsmRecord /\ fed.state = s.state /\ fed.timers = s.timers
          /\ fed.upper = FALSE /\ fed.seen_ack = s.seen_ack
      <3>1. more \in Nat
        BY <2>4, RecordFacts
      <3> HIDE DEF more
      <3>2. QED
        BY <2>4, <2>5, <3>1 DEF FsmRecord
    <2>9. CASE code # "CONFACK" /\ fed.state = "ACKRCVD" /\ h = fed
      <3> HIDE DEF fed
      <3>1. Good(fed)
        BY <2>2, <2>5, <2>8, <2>9 DEF Good
      <3>2. QED
        BY <2>8, <2>9, <3>1, DownSafe DEF h
    <2>10. CASE code # "CONFACK" /\ fed.state # "ACKRCVD" /\ h = To(fed, "REQSENT")
      <3> HIDE DEF fed
      <3>1. fed.timers > 0
        BY <2>2, <2>5, <2>8
      <3>2. QED
        BY <2>8, <2>10, <3>1, WaitGood, DownSafe DEF h
    <2>11. QED
      BY <2>1, <2>6, <2>7, <2>9, <2>10
  <1>4. QED
    BY <1>0, <1>1, <1>2, <1>3

(* Handing the packets to the line changes only the list of packets.       *)
LEMMA SentSafe ==
  ASSUME NEW g, NEW h, Safe(g, h)
  PROVE  Safe(g, Sent(h))
  <1>1. Good(h) /\ h \in FsmRecord
    BY DEF Safe, Good
  <1>2. /\ Sent(h) \in FsmRecord
        /\ Sent(h).state = h.state /\ Sent(h).timers = h.timers
        /\ Sent(h).upper = h.upper /\ Sent(h).seen_ack = h.seen_ack
        /\ Sent(h).go = h.go /\ Sent(h).ho = h.ho
    <2>1. <<>> \in Seq(Packet)
      OBVIOUS
    <2>2. Sent(h) \in FsmRecord
      BY <1>1, <2>1 DEF Sent, FsmRecord
    <2>3. QED
      BY <1>1, <2>2 DEF Sent, FsmRecord
  <1>3. Good(Sent(h))
    BY <1>1, <1>2 DEF Good
  <1>4. QED
    BY <1>2, <1>3 DEF Safe, Frozen, Handshake

-----------------------------------------------------------------------------
(* Every step of the machine is safe.                                      *)
THEOREM StepSafe == IInv /\ [Next]_f => Safe(f, f')
  <1> SUFFICES ASSUME IInv, [Next]_f PROVE Safe(f, f')
    OBVIOUS
  <1>0. Good(f)
    BY DEF IInv, TypeOK, TimerArmed, UpperOnlyOpened, AckRcvdSeen, Good, Waiting
  <1>1. CASE LowerUp
    BY <1>0, <1>1, LowerupSafe, SentSafe DEF LowerUp
  <1>2. CASE LowerDown
    BY <1>0, <1>2, LowerdownSafe, SentSafe DEF LowerDown
  <1>3. CASE Open
    BY <1>0, <1>3, OpenSafe, SentSafe DEF Open
  <1>4. CASE Close
    BY <1>0, <1>4, CloseSafe, SentSafe DEF Close
  <1>5. CASE ProtReject
    BY <1>0, <1>5, ProtrejectSafe, SentSafe DEF ProtReject
  <1>6. CASE Timeout
    BY <1>0, <1>6, TimeoutSafe, SentSafe DEF Timeout
  <1>7. CASE RcvConfReq
    BY <1>0, <1>7, RconfreqSafe, SentSafe DEF RcvConfReq, Listening
  <1>8. CASE RcvConfAck
    BY <1>0, <1>8, RconfackSafe, SentSafe DEF RcvConfAck
  <1>9. CASE RcvConfNakRej
    BY <1>0, <1>9, RconfnakrejSafe, SentSafe DEF RcvConfNakRej
  <1>10. CASE RcvTermReq
    BY <1>0, <1>10, RtermreqSafe, SentSafe DEF RcvTermReq
  <1>11. CASE RcvTermAck
    BY <1>0, <1>11, RtermackSafe, SentSafe DEF RcvTermAck
  <1>12. CASE RcvCodeRej
    BY <1>0, <1>12, RcoderejSafe, SentSafe DEF RcvCodeRej
  <1>13. CASE RcvUnknown
    BY <1>0, <1>13, CoderejSafe, SentSafe DEF RcvUnknown
  <1>14. CASE UNCHANGED f
    BY <1>0, <1>14, SameSafe
  <1>15. QED
    BY <1>1, <1>2, <1>3, <1>4, <1>5, <1>6, <1>7, <1>8, <1>9, <1>10, <1>11,
       <1>12, <1>13, <1>14 DEF Next

(* The automaton starts in a good state, whatever its options are.         *)
LEMMA InitGood == Init => IInv
  <1> SUFFICES ASSUME Init PROVE IInv
    OBVIOUS
  <1>1. PICK flags \in SUBSET Flags, want \in CI : f = fsm_init(flags, want)
    BY DEF Init
  <1>2. 0 \in Ids /\ 0 \in Nat /\ 0 \in Int /\ <<>> \in Seq(Packet)
    BY IdAssumption DEF Ids
  <1>3. f \in FsmRecord
    BY <1>1, <1>2, CIAssumption DEF fsm_init, FsmRecord, States
  <1>4. f.state = "INITIAL" /\ f.upper = FALSE
    BY <1>1 DEF fsm_init
  <1>5. QED
    BY <1>3, <1>4 DEF IInv, TypeOK, TimerArmed, UpperOnlyOpened, AckRcvdSeen,
                      Negotiating, Terminating

(* The inductive invariant holds in every reachable state.                 *)
THEOREM Inductive == Spec => []IInv
  <1>1. Init => IInv
    BY InitGood
  <1>2. IInv /\ [Next]_f => IInv'
    <2> SUFFICES ASSUME IInv, [Next]_f PROVE IInv'
      OBVIOUS
    <2>1. Good(f')
      BY StepSafe DEF Safe
    <2>2. QED
      BY <2>1 DEF Good, Waiting, IInv, TypeOK, TimerArmed, UpperOnlyOpened, AckRcvdSeen
  <1>3. QED
    BY <1>1, <1>2, PTL DEF Spec

(* Type correctness of the structure, for every limit and every id space.  *)
THEOREM TypeCorrect == Spec => []TypeOK
  BY Inductive, PTL DEF IInv

(* Whatever the peer sends and whenever the line goes, an automaton that   *)
(* waits for an answer has a timer pending (fsm_timeout will run).         *)
THEOREM NeverWaitsUnguarded == Spec => []TimerArmed
  BY Inductive, PTL DEF IInv

(* The upper layer is told that the connection is gone on every way out of *)
(* OPENED, the re-entrant closes from the up and nakci callbacks included. *)
THEOREM UpperLayerTold == Spec => []UpperOnlyOpened
  BY Inductive, PTL DEF IInv

(* The options in use never change while the upper layer is up.            *)
THEOREM OptionsStay == Spec => OptionsFrozen
  <1>1. IInv /\ [Next]_f => [f.upper /\ f'.upper => f'.go = f.go /\ f'.ho = f.ho]_f
    BY StepSafe DEF Safe, Frozen
  <1>2. QED
    BY <1>1, Inductive, PTL DEF Spec, OptionsFrozen

(* The upper layer comes up only at the end of a complete handshake, whose *)
(* timer is cancelled in the same step.                                    *)
THEOREM UpByHandshake == Spec => UpOnlyByHandshake
  <1>1. IInv /\ [Next]_f =>
          [~f.upper /\ f'.upper => /\ f.state \in {"ACKRCVD", "ACKSENT"}
                                   /\ f'.seen_ack
                                   /\ f'.timers = f.timers - 1]_f
    BY StepSafe DEF Safe, Handshake
  <1>2. QED
    BY <1>1, Inductive, PTL DEF Spec, UpOnlyByHandshake

-----------------------------------------------------------------------------
(***************************************************************************)
(* The automaton of fsm.c implements the table of LayerTable, proved for   *)
(* every limit, every id space and every set of options: each call, and so *)
(* each step of FsmMachine, is a row of the table with its callback or     *)
(* changes nothing that the layer above can see.                           *)
(***************************************************************************)

(* What the mapping Seen makes of a state.                                 *)
View(st) == IF st \in Negotiating THEN "NEGOTIATING" ELSE st

Call(g, h, call) == CASE call = "up" -> ~g.upper /\ h.upper
                      [] call = "down" -> ~h.upper
                      [] OTHER -> h.upper = g.upper

(* A call that turns g into h is a row of the table, or is not seen.       *)
Moves(g, h) ==
    \/ View(h.state) = View(g.state) /\ h.upper = g.upper
    \/ \E r \in Seen!Rows :
         View(g.state) = r[1] /\ View(h.state) = r[2] /\ Call(g, h, r[3])

(* The changes that come without up and down.                              *)
QuietMoves ==
    {<<"INITIAL", "CLOSED">>, <<"INITIAL", "STARTING">>, <<"STARTING", "INITIAL">>,
     <<"STARTING", "NEGOTIATING">>, <<"STARTING", "STOPPED">>,
     <<"CLOSED", "INITIAL">>, <<"CLOSED", "NEGOTIATING">>, <<"CLOSED", "STOPPED">>,
     <<"STOPPED", "STARTING">>, <<"STOPPED", "NEGOTIATING">>, <<"STOPPED", "CLOSED">>,
     <<"CLOSING", "INITIAL">>, <<"CLOSING", "STOPPING">>, <<"CLOSING", "NEGOTIATING">>,
     <<"CLOSING", "STOPPED">>, <<"CLOSING", "CLOSED">>,
     <<"STOPPING", "STARTING">>, <<"STOPPING", "CLOSING">>, <<"STOPPING", "STOPPED">>,
     <<"NEGOTIATING", "STARTING">>, <<"NEGOTIATING", "CLOSING">>,
     <<"NEGOTIATING", "STOPPED">>}

(* A change with the upper layer down before and after it.                 *)
LEMMA MoveQuiet ==
  ASSUME NEW g, NEW h, NEW a, NEW b, g.upper = FALSE, h.upper = FALSE,
         View(g.state) = a, View(h.state) = b, <<a, b>> \in QuietMoves
  PROVE  Moves(g, h)
  <1>1. <<a, b, "none">> \in Seen!Rows \/ <<a, b, "finished">> \in Seen!Rows
    BY DEF QuietMoves, Seen!Rows, Seen!LowerUpRows, Seen!LowerDownRows, Seen!OpenRows,
           Seen!RestartRows, Seen!CloseRows, Seen!TimerRows, Seen!QuietRows,
           Seen!PacketRows
  <1>2. Call(g, h, "none") /\ Call(g, h, "finished")
    BY DEF Call
  <1>3. QED
    BY <1>1, <1>2 DEF Moves

(* A way out of OPENED, or around it, that tells the upper layer.          *)
LEMMA MoveDown ==
  ASSUME NEW g, NEW h, NEW b, g.state = "OPENED", h.upper = FALSE, View(h.state) = b,
         b \in {"STARTING", "NEGOTIATING", "STOPPED", "CLOSING", "STOPPING", "OPENED"}
  PROVE  Moves(g, h)
  <1>1. <<"OPENED", b, "down">> \in Seen!Rows
    BY DEF Seen!Rows, Seen!LowerDownRows, Seen!RestartRows, Seen!CloseRows, Seen!PacketRows
  <1>2. Call(g, h, "down") /\ View(g.state) = "OPENED"
    BY DEF Call, View, Negotiating
  <1>3. QED
    BY <1>1, <1>2 DEF Moves

(* The handshake is complete.                                              *)
LEMMA MoveUp ==
  ASSUME NEW g, NEW h, View(g.state) = "NEGOTIATING", h.state = "OPENED",
         g.upper = FALSE, h.upper = TRUE
  PROVE  Moves(g, h)
  <1>1. <<"NEGOTIATING", "OPENED", "up">> \in Seen!Rows
    BY DEF Seen!Rows, Seen!PacketRows
  <1>2. Call(g, h, "up") /\ View(h.state) = "OPENED"
    BY DEF Call, View, Negotiating
  <1>3. QED
    BY <1>1, <1>2 DEF Moves

(* What nobody above can see.                                              *)
LEMMA MoveUnseen ==
  ASSUME NEW g, NEW h, View(h.state) = View(g.state), h.upper = g.upper
  PROVE  Moves(g, h)
  BY DEF Moves

(* A good structure has one of the ten states, and outside OPENED its      *)
(* upper layer is down.                                                    *)
LEMMA GoodFacts ==
  ASSUME NEW g, Good(g)
  PROVE  /\ g \in FsmRecord /\ g.state \in States /\ g.upper \in BOOLEAN
         /\ g.state # "OPENED" => g.upper = FALSE
  BY RecordFacts DEF Good

-----------------------------------------------------------------------------
(* A new negotiation, or the silence instead, leaves the rest alone.       *)
LEMMA BeginShows ==
  ASSUME NEW g \in FsmRecord, g.upper = FALSE
  PROVE  /\ Begin(g).upper = FALSE
         /\ View(Begin(g).state) \in {"NEGOTIATING", "STOPPED"}
  <1>1. /\ fsm_sconfreq(g, FALSE) \in FsmRecord
        /\ fsm_sconfreq(g, FALSE).upper = FALSE
    BY SconfreqFacts
  <1>2. /\ To(fsm_sconfreq(g, FALSE), "REQSENT").upper = FALSE
        /\ To(fsm_sconfreq(g, FALSE), "REQSENT").state = "REQSENT"
    BY <1>1, ToFacts DEF States
  <1>3. To(g, "STOPPED").upper = FALSE /\ To(g, "STOPPED").state = "STOPPED"
    BY ToFacts DEF States
  <1>4. QED
    BY <1>2, <1>3 DEF Begin, View, Negotiating

(* The line comes up.                                                      *)
LEMMA LowerupMoves ==
  ASSUME NEW g, Good(g) PROVE Moves(g, fsm_lowerup(g))
  <1>0. /\ g \in FsmRecord /\ g.state \in States
        /\ g.state # "OPENED" => g.upper = FALSE
    BY GoodFacts
  <1>1. CASE g.state = "INITIAL"
    <2>1. fsm_lowerup(g) = To(g, "CLOSED")
      BY <1>1 DEF fsm_lowerup
    <2>2. fsm_lowerup(g).state = "CLOSED" /\ fsm_lowerup(g).upper = FALSE
      BY <1>0, <1>1, <2>1, ToFacts DEF States
    <2>3. QED
      BY <1>0, <1>1, <2>2, MoveQuiet DEF View, Negotiating, QuietMoves
  <1>2. CASE g.state = "STARTING"
    <2>1. fsm_lowerup(g) = Begin(g)
      BY <1>2 DEF fsm_lowerup
    <2>2. /\ fsm_lowerup(g).upper = FALSE
          /\ View(fsm_lowerup(g).state) \in {"NEGOTIATING", "STOPPED"}
      BY <1>0, <1>2, <2>1, BeginShows
    <2>3. View(g.state) = "STARTING"
      BY <1>2 DEF View, Negotiating
    <2>4. QED
      BY <1>0, <1>2, <2>2, <2>3, MoveQuiet DEF QuietMoves
  <1>3. CASE g.state \notin {"INITIAL", "STARTING"}
    <2>1. fsm_lowerup(g) = g
      BY <1>3 DEF fsm_lowerup
    <2>2. QED
      BY <2>1, MoveUnseen
  <1>4. QED
    BY <1>1, <1>2, <1>3

(* The line goes; in OPENED the upper layer is told.                       *)
LEMMA LowerdownShows ==
  ASSUME NEW g, Good(g)
  PROVE  LET h == fsm_lowerdown(g)
         IN  /\ h.upper = FALSE
             /\ g.state \in {"CLOSED", "CLOSING", "INITIAL"} => h.state = "INITIAL"
             /\ g.state \notin {"CLOSED", "CLOSING", "INITIAL"} => h.state = "STARTING"
  <1> DEFINE h == fsm_lowerdown(g)
  <1>0. /\ g \in FsmRecord /\ g.state \in States
        /\ g.state # "OPENED" => g.upper = FALSE
    BY GoodFacts
  <1>1. CASE g.state \in {"INITIAL", "STARTING"}
    <2>1. h = g
      BY <1>1 DEF fsm_lowerdown, Negotiating
    <2>2. QED
      BY <1>0, <1>1, <2>1
  <1>2. CASE g.state \in {"CLOSED", "STOPPED"}
    <2>1. ASSUME g.state = "CLOSED" PROVE h = To(g, "INITIAL")
      BY <2>1 DEF fsm_lowerdown, Negotiating
    <2>2. ASSUME g.state = "STOPPED" PROVE h = To(g, "STARTING")
      BY <2>2 DEF fsm_lowerdown, Negotiating
    <2>3. QED
      BY <1>0, <1>2, <2>1, <2>2, ToFacts DEF States
  <1>3. CASE g.state \in Negotiating \cup Terminating
    <2> DEFINE st == IF g.state = "CLOSING" THEN "INITIAL" ELSE "STARTING"
    <2>1. h = UNTIMEOUT(To(g, st))
      BY <1>3 DEF fsm_lowerdown, Negotiating, Terminating
    <2>2. /\ To(g, st) \in FsmRecord /\ To(g, st).state = st
          /\ To(g, st).upper = FALSE
      BY <1>0, <1>3, ToFacts DEF States, Negotiating, Terminating
    <2>3. h.state = st /\ h.upper = FALSE
      BY <2>1, <2>2, UntimeoutFacts
    <2>4. QED
      BY <1>3, <2>3 DEF Negotiating, Terminating
  <1>4. CASE g.state = "OPENED"
    <2>1. h = To(Down(g), "STARTING")
      BY <1>4 DEF fsm_lowerdown, Negotiating
    <2>2. Down(g) \in FsmRecord /\ Down(g).upper = FALSE
      BY <1>0, DownFacts
    <2>3. QED
      BY <1>4, <2>1, <2>2, ToFacts DEF States
  <1>5. QED
    BY <1>0, <1>1, <1>2, <1>3, <1>4 DEF States, Negotiating, Terminating

LEMMA LowerdownMoves ==
  ASSUME NEW g, Good(g) PROVE Moves(g, fsm_lowerdown(g))
  <1> DEFINE h == fsm_lowerdown(g)
  <1>0. g.state \in States /\ (g.state # "OPENED" => g.upper = FALSE)
    BY GoodFacts
  <1>1. /\ h.upper = FALSE
        /\ g.state \in {"CLOSED", "CLOSING", "INITIAL"} => h.state = "INITIAL"
        /\ g.state \notin {"CLOSED", "CLOSING", "INITIAL"} => h.state = "STARTING"
    BY LowerdownShows
  <1> SUFFICES Moves(g, h)
    OBVIOUS
  <1> HIDE DEF h
  <1>2. CASE g.state \in {"INITIAL", "STARTING"}
    BY <1>0, <1>1, <1>2, MoveUnseen
  <1>3. CASE g.state = "OPENED"
    BY <1>1, <1>3, MoveDown DEF View, Negotiating
  <1>4. CASE g.state \in {"CLOSED", "CLOSING"}
    BY <1>0, <1>1, <1>4, MoveQuiet DEF View, Negotiating, QuietMoves
  <1>5. CASE g.state \in {"STOPPED", "STOPPING"} \cup Negotiating
    <2>1. View(g.state) \in {"STOPPED", "STOPPING", "NEGOTIATING"} /\ View(h.state) = "STARTING"
      BY <1>1, <1>5 DEF View, Negotiating
    <2>2. QED
      BY <1>0, <1>1, <1>5, <2>1, MoveQuiet DEF Negotiating, QuietMoves
  <1>6. QED
    BY <1>0, <1>2, <1>3, <1>4, <1>5 DEF States, Negotiating

(* The user opens; with OPT_RESTART the line goes and comes.               *)
LEMMA OpenMoves ==
  ASSUME NEW g, Good(g) PROVE Moves(g, fsm_open(g))
  <1> DEFINE h == fsm_open(g)
             s == IF g.state = "CLOSING" THEN To(g, "STOPPING") ELSE g
             l == fsm_lowerdown(s)
             r == fsm_lowerup(l)
  <1>0. /\ g \in FsmRecord /\ g.state \in States
        /\ g.state # "OPENED" => g.upper = FALSE
    BY GoodFacts
  <1>1. CASE g.state = "INITIAL"
    <2>1. h = To(g, "STARTING")
      BY <1>1 DEF fsm_open
    <2>2. h.state = "STARTING" /\ h.upper = FALSE
      BY <1>0, <1>1, <2>1, ToFacts DEF States
    <2>3. QED
      BY <1>0, <1>1, <2>2, MoveQuiet DEF View, Negotiating, QuietMoves
  <1>2. CASE g.state = "CLOSED"
    <2>1. h = Begin(g)
      BY <1>2 DEF fsm_open
    <2>2. h.upper = FALSE /\ View(h.state) \in {"NEGOTIATING", "STOPPED"}
      BY <1>0, <1>2, <2>1, BeginShows
    <2>3. View(g.state) = "CLOSED"
      BY <1>2 DEF View, Negotiating
    <2>4. QED
      BY <1>0, <1>2, <2>2, <2>3, MoveQuiet DEF QuietMoves
  <1>3. CASE g.state \in {"STOPPED", "OPENED", "CLOSING"}
    <2>1. /\ Good(s) /\ s.state \in {"STOPPED", "OPENED", "STOPPING"}
          /\ s.upper = g.upper
          /\ g.state # "CLOSING" => s = g
          /\ g.state = "CLOSING" => s.state = "STOPPING"
      BY <1>0, <1>3, ToFacts DEF Good, States, Waiting, Negotiating, Terminating
    <2>2. h = IF "RESTART" \in s.flags THEN r ELSE s
      BY <2>1, <1>3 DEF fsm_open
    <2>3. Good(l) /\ l.upper = FALSE /\ l.state = "STARTING"
      BY <2>1, LowerdownShows, LowerdownSafe DEF Safe
    <2>4. r = Begin(l)
      BY <2>3 DEF fsm_lowerup
    <2>5. r.upper = FALSE /\ View(r.state) \in {"NEGOTIATING", "STOPPED"}
      BY <2>3, <2>4, BeginShows, GoodFacts
    <2> HIDE DEF r, l
    <2>6. Moves(g, r)
      <3>1. CASE g.state = "OPENED"
        BY <2>5, <3>1, MoveDown
      <3>2. CASE g.state = "STOPPED"
        <4>1. View(g.state) = "STOPPED"
          BY <3>2 DEF View, Negotiating
        <4>2. QED
          BY <1>0, <2>5, <3>2, <4>1, MoveQuiet, MoveUnseen DEF QuietMoves
      <3>3. CASE g.state = "CLOSING"
        <4>1. View(g.state) = "CLOSING"
          BY <3>3 DEF View, Negotiating
        <4>2. QED
          BY <1>0, <2>5, <3>3, <4>1, MoveQuiet DEF QuietMoves
      <3>4. QED
        BY <1>3, <3>1, <3>2, <3>3
    <2>7. Moves(g, s)
      <3>1. CASE g.state # "CLOSING"
        BY <2>1, <3>1, MoveUnseen
      <3>2. CASE g.state = "CLOSING"
        BY <1>0, <2>1, <3>2, MoveQuiet DEF View, Negotiating, QuietMoves
      <3>3. QED
        BY <3>1, <3>2
    <2>8. QED
      BY <2>2, <2>6, <2>7
  <1>4. CASE g.state \in {"STARTING", "STOPPING"} \cup Negotiating
    <2>1. h = g
      BY <1>4 DEF fsm_open, Negotiating
    <2>2. QED
      BY <2>1, MoveUnseen
  <1>5. QED
    BY <1>0, <1>1, <1>2, <1>3, <1>4 DEF States, Negotiating

(* With the upper layer down afterwards the states alone decide.           *)
LEMMA MoveStates ==
  ASSUME NEW g, NEW h, Good(g), Good(h), h.state # "OPENED",
         \/ View(h.state) = View(g.state)
         \/ <<View(g.state), View(h.state)>> \in QuietMoves
         \/ /\ g.state = "OPENED"
            /\ h.state \in {"STARTING", "STOPPED", "CLOSING", "STOPPING"} \cup Negotiating
  PROVE  Moves(g, h)
  <1>0. /\ h.upper = FALSE /\ g.upper \in BOOLEAN
        /\ g.state # "OPENED" => g.upper = FALSE
    BY GoodFacts
  <1>1. CASE g.state = "OPENED"
    <2>1. View(g.state) = "OPENED" /\ View(h.state) # "OPENED"
      BY <1>1 DEF View, Negotiating
    <2>2. <<View(g.state), View(h.state)>> \notin QuietMoves
      BY <2>1 DEF QuietMoves
    <2>3. View(h.state) \in {"STARTING", "STOPPED", "CLOSING", "STOPPING", "NEGOTIATING"}
      BY <2>1, <2>2 DEF View, Negotiating
    <2>4. QED
      BY <1>0, <1>1, <2>3, MoveDown
  <1>2. CASE g.state # "OPENED"
    BY <1>0, <1>2, MoveQuiet, MoveUnseen
  <1>3. QED
    BY <1>1, <1>2

(* The state a termination leaves behind.                                  *)
LEMMA TermShows ==
  ASSUME NEW g \in FsmRecord, NEW st \in Terminating
  PROVE  To(SendTermReq([g EXCEPT !.retransmits = MaxTermReq]), st).state = st
  <1>1. MaxTermReq \in Int
    BY LimitAssumption
  <1>2. [g EXCEPT !.retransmits = MaxTermReq] \in FsmRecord
    BY <1>1 DEF FsmRecord
  <1>3. SendTermReq([g EXCEPT !.retransmits = MaxTermReq]) \in FsmRecord
    BY <1>2, TermReqFacts
  <1>4. st \in States
    BY DEF States, Terminating
  <1>5. QED
    BY <1>3, <1>4, ToFacts

(* The state a new request leaves behind.                                  *)
LEMMA RestartShows ==
  ASSUME NEW g \in FsmRecord, NEW st \in States
  PROVE  To(fsm_sconfreq(g, FALSE), st).state = st
  <1>1. fsm_sconfreq(g, FALSE) \in FsmRecord
    BY SconfreqFacts
  <1>2. QED
    BY <1>1, ToFacts

(* The user closes.                                                        *)
LEMMA CloseShows ==
  ASSUME NEW g, Good(g)
  PROVE  LET h == fsm_close(g)
         IN  /\ g.state = "STARTING" => h.state = "INITIAL"
             /\ g.state = "STOPPED" => h.state = "CLOSED"
             /\ g.state \in {"INITIAL", "CLOSED"} => h.state = g.state
             /\ g.state \notin {"STARTING", "STOPPED", "INITIAL", "CLOSED"}
                  => h.state = "CLOSING"
  <1> USE DEF States, Negotiating, Terminating
  <1> DEFINE h == fsm_close(g)
  <1>0. g \in FsmRecord /\ g.state \in States
    BY GoodFacts
  <1>1. CASE g.state = "STARTING"
    <2>1. h = To(g, "INITIAL")
      BY <1>1 DEF fsm_close
    <2>2. QED
      BY <1>0, <1>1, <2>1, ToFacts
  <1>2. CASE g.state = "STOPPED"
    <2>1. h = To(g, "CLOSED")
      BY <1>2 DEF fsm_close
    <2>2. QED
      BY <1>0, <1>2, <2>1, ToFacts
  <1>3. CASE g.state = "STOPPING"
    <2>1. h = To(g, "CLOSING")
      BY <1>3 DEF fsm_close
    <2>2. QED
      BY <1>0, <1>3, <2>1, ToFacts
  <1>4. CASE g.state \in Negotiating \cup {"OPENED"}
    <2> DEFINE a == IF g.state = "OPENED" THEN Down(g) ELSE UNTIMEOUT(g)
    <2>1. h = To(SendTermReq([a EXCEPT !.retransmits = MaxTermReq]), "CLOSING")
      BY <1>4 DEF fsm_close
    <2>2. a \in FsmRecord
      BY <1>0, DownFacts, UntimeoutFacts
    <2> HIDE DEF a
    <2>3. h.state = "CLOSING"
      BY <2>1, <2>2, TermShows
    <2>4. QED
      BY <1>4, <2>3
  <1>5. CASE g.state \in {"INITIAL", "CLOSED", "CLOSING"}
    <2>1. h = g
      BY <1>5 DEF fsm_close
    <2>2. QED
      BY <1>5, <2>1
  <1>6. QED
    BY <1>0, <1>1, <1>2, <1>3, <1>4, <1>5

LEMMA CloseMoves ==
  ASSUME NEW g, Good(g) PROVE Moves(g, fsm_close(g))
  <1> DEFINE h == fsm_close(g)
  <1>1. g.state \in States /\ Good(h)
    BY GoodFacts, CloseSafe
  <1>2. /\ g.state = "STARTING" => h.state = "INITIAL"
        /\ g.state = "STOPPED" => h.state = "CLOSED"
        /\ g.state \in {"INITIAL", "CLOSED"} => h.state = g.state
        /\ g.state \notin {"STARTING", "STOPPED", "INITIAL", "CLOSED"}
             => h.state = "CLOSING"
    BY CloseShows
  <1> HIDE DEF h
  <1>3. /\ h.state # "OPENED"
        /\ \/ View(h.state) = View(g.state)
           \/ <<View(g.state), View(h.state)>> \in QuietMoves
           \/ g.state = "OPENED" /\ h.state = "CLOSING"
    BY <1>1, <1>2 DEF States, View, Negotiating, QuietMoves
  <1>4. Moves(g, h)
    BY <1>1, <1>3, MoveStates
  <1>5. QED
    BY <1>4 DEF h

(* The peer does not know the protocol.                                    *)
LEMMA ProtrejectMoves ==
  ASSUME NEW g, Good(g) PROVE Moves(g, fsm_protreject(g))
  <1> USE DEF States, Negotiating, Terminating
  <1> DEFINE h == fsm_protreject(g)
  <1>0. g \in FsmRecord /\ g.state \in States /\ Good(h)
    BY GoodFacts, ProtrejectSafe DEF Safe
  <1>1. CASE g.state \in Negotiating \cup Terminating
    <2>1. UNTIMEOUT(g) \in FsmRecord
      BY <1>0, UntimeoutFacts
    <2>2. CASE g.state = "CLOSING"
      <3>1. h = To(UNTIMEOUT(g), "CLOSED")
        BY <2>2 DEF fsm_protreject
      <3>2. h.state = "CLOSED"
        BY <2>1, <3>1, ToFacts
      <3>3. QED
        BY <1>0, <2>2, <3>2, MoveStates DEF View, QuietMoves
    <2>3. CASE g.state # "CLOSING"
      <3>1. h = To(UNTIMEOUT(g), "STOPPED")
        BY <1>1, <2>3 DEF fsm_protreject
      <3>2. h.state = "STOPPED"
        BY <2>1, <3>1, ToFacts
      <3>3. View(h.state) = "STOPPED" /\ View(g.state) \in {"STOPPING", "NEGOTIATING"}
        BY <1>1, <2>3, <3>2 DEF View
      <3>4. QED
        BY <1>0, <3>2, <3>3, MoveStates DEF QuietMoves
    <2>4. QED
      BY <2>2, <2>3
  <1>2. CASE g.state = "OPENED"
    <2>1. h = To(SendTermReq([Down(g) EXCEPT !.retransmits = MaxTermReq]), "STOPPING")
      BY <1>2 DEF fsm_protreject
    <2>2. Down(g) \in FsmRecord
      BY <1>0, DownFacts
    <2>3. h.state = "STOPPING"
      BY <2>1, <2>2, TermShows
    <2>4. QED
      BY <1>0, <1>2, <2>3, MoveStates
  <1>3. CASE g.state \notin Negotiating \cup Terminating \cup {"OPENED"}
    <2>1. h = g
      BY <1>3 DEF fsm_protreject
    <2>2. QED
      BY <2>1, MoveUnseen
  <1>4. QED
    BY <1>1, <1>2, <1>3

(* A callout of fsm_timeout runs.                                          *)
LEMMA TimeoutMoves ==
  ASSUME NEW g, Good(g), g.timers > 0
  PROVE  Moves(g, fsm_timeout([g EXCEPT !.timers = @ - 1]))
  <1> USE DEF States, Negotiating, Terminating
  <1> DEFINE a == [g EXCEPT !.timers = @ - 1]
             h == fsm_timeout(a)
  <1>0. g \in FsmRecord /\ g.state \in States /\ g.timers \in Nat
    BY GoodFacts, RecordFacts
  <1>1. Good(h)
    BY TimeoutSafe DEF Safe
  <1>2. /\ a \in FsmRecord /\ a.state = g.state /\ a.upper = g.upper
    BY <1>0 DEF FsmRecord
  <1> SUFFICES Moves(g, h)
    OBVIOUS
  <1> HIDE DEF a
  <1>3. CASE a.state \in Terminating
    <2>1. CASE a.retransmits <= 0
      <3>1. CASE a.state = "CLOSING"
        <4>1. h = To(a, "CLOSED")
          BY <2>1, <3>1 DEF fsm_timeout
        <4>2. h.state = "CLOSED"
          BY <1>2, <4>1, ToFacts
        <4>3. QED
          BY <1>1, <1>2, <3>1, <4>2, MoveStates DEF View, QuietMoves
      <3>2. CASE a.state = "STOPPING"
        <4>1. h = To(a, "STOPPED")
          BY <2>1, <3>2 DEF fsm_timeout
        <4>2. h.state = "STOPPED"
          BY <1>2, <4>1, ToFacts
        <4>3. QED
          BY <1>1, <1>2, <3>2, <4>2, MoveStates DEF View, QuietMoves
      <3>3. QED
        BY <1>3, <3>1, <3>2
    <2>2. CASE ~(a.retransmits <= 0)
      <3>1. h = SendTermReq(a)
        BY <1>3, <2>2 DEF fsm_timeout
      <3>2. h.state = a.state
        BY <1>2, <3>1, TermReqFacts
      <3>3. QED
        BY <1>1, <1>2, <1>3, <3>2, MoveStates
    <2>3. QED
      BY <2>1, <2>2
  <1>4. CASE a.state \in Negotiating
    <2>0. View(g.state) = "NEGOTIATING"
      BY <1>2, <1>4 DEF View
    <2>1. CASE a.retransmits <= 0
      <3>1. h = To(a, "STOPPED")
        BY <1>4, <2>1 DEF fsm_timeout
      <3>2. h.state = "STOPPED" /\ View(h.state) = "STOPPED"
        BY <1>2, <3>1, ToFacts DEF View
      <3>3. QED
        BY <1>1, <2>0, <3>2, MoveStates DEF QuietMoves
    <2>2. CASE ~(a.retransmits <= 0)
      <3> DEFINE b == fsm_sconfreq(a, TRUE)
      <3>1. h = IF b.state = "ACKRCVD" THEN To(b, "REQSENT") ELSE b
        BY <1>4, <2>2 DEF fsm_timeout
      <3>2. b \in FsmRecord /\ b.state = a.state
        BY <1>2, SconfreqFacts
      <3> HIDE DEF b
      <3>3. h.state \in Negotiating
        BY <1>4, <3>1, <3>2, ToFacts
      <3>4. View(h.state) = View(g.state) /\ h.state # "OPENED"
        BY <2>0, <3>3 DEF View
      <3>5. QED
        BY <1>1, <3>4, MoveStates
    <2>3. QED
      BY <2>1, <2>2
  <1>5. CASE a.state \notin Negotiating \cup Terminating
    <2>1. h = a
      BY <1>5 DEF fsm_timeout
    <2>2. QED
      BY <1>2, <2>1, MoveUnseen
  <1>6. QED
    BY <1>3, <1>4, <1>5

-----------------------------------------------------------------------------
(* Packets.                                                                *)

(* To send a packet is not seen by the layer above.                        *)
LEMMA SendMoves ==
  ASSUME NEW g, NEW h \in FsmRecord, Moves(g, h),
         NEW code \in Codes, NEW id \in Ids, NEW ci \in CI
  PROVE  Moves(g, fsm_sdata(h, code, id, ci))
  <1> DEFINE s == fsm_sdata(h, code, id, ci)
  <1>1. s.state = h.state /\ s.upper = h.upper
    BY SendSame
  <1> HIDE DEF s
  <1>2. Moves(g, s)
    BY <1>1 DEF Moves, Call
  <1>3. QED
    BY <1>2 DEF s

LEMMA RcoderejMoves ==
  ASSUME NEW g, Good(g) PROVE Moves(g, fsm_rcoderej(g))
  <1>0. g \in FsmRecord
    BY GoodFacts
  <1>1. CASE g.state = "ACKRCVD"
    <2>1. fsm_rcoderej(g) = To(g, "REQSENT")
      BY <1>1 DEF fsm_rcoderej
    <2>2. fsm_rcoderej(g).state = "REQSENT" /\ fsm_rcoderej(g).upper = g.upper
      BY <1>0, <2>1, ToFacts DEF States
    <2>3. QED
      BY <1>1, <2>2, MoveUnseen DEF View, Negotiating
  <1>2. CASE g.state # "ACKRCVD"
    <2>1. fsm_rcoderej(g) = g
      BY <1>2 DEF fsm_rcoderej
    <2>2. QED
      BY <2>1, MoveUnseen
  <1>3. QED
    BY <1>1, <1>2

LEMMA CoderejMoves ==
  ASSUME NEW g, Good(g) PROVE Moves(g, SendCodeRej(g))
  <1> DEFINE a == [g EXCEPT !.id = NextId(g)]
  <1>0. g \in FsmRecord
    BY GoodFacts
  <1>1. NextId(g) \in Ids
    BY <1>0, NextIdType
  <1>2. a \in FsmRecord /\ a.state = g.state /\ a.upper = g.upper
    BY <1>0, <1>1 DEF FsmRecord
  <1>3. SendCodeRej(g) = fsm_sdata(a, "CODEREJ", NextId(g), NoCI)
    BY DEF SendCodeRej
  <1> HIDE DEF a
  <1>4. Moves(g, a) /\ "CODEREJ" \in Codes
    BY <1>2, MoveUnseen DEF Codes
  <1>5. QED
    BY <1>1, <1>2, <1>3, <1>4, SendMoves, CIAssumption

(* A Terminate-Ack; in OPENED the upper layer goes down and the state      *)
(* stays.                                                                  *)
LEMMA RtermackMoves ==
  ASSUME NEW g, Good(g) PROVE Moves(g, fsm_rtermack(g))
  <1> USE DEF States, Negotiating, Terminating
  <1> DEFINE h == fsm_rtermack(g)
  <1>0. g \in FsmRecord /\ g.state \in States /\ Good(h)
    BY GoodFacts, RtermackSafe DEF Safe
  <1>1. UNTIMEOUT(g) \in FsmRecord
    BY <1>0, UntimeoutFacts
  <1>2. CASE g.state = "CLOSING"
    <2>1. h = To(UNTIMEOUT(g), "CLOSED")
      BY <1>2 DEF fsm_rtermack
    <2>2. h.state = "CLOSED"
      BY <1>1, <2>1, ToFacts
    <2>3. QED
      BY <1>0, <1>2, <2>2, MoveStates DEF View, QuietMoves
  <1>3. CASE g.state = "STOPPING"
    <2>1. h = To(UNTIMEOUT(g), "STOPPED")
      BY <1>3 DEF fsm_rtermack
    <2>2. h.state = "STOPPED"
      BY <1>1, <2>1, ToFacts
    <2>3. QED
      BY <1>0, <1>3, <2>2, MoveStates DEF View, QuietMoves
  <1>4. CASE g.state = "ACKRCVD"
    <2>1. h = To(g, "REQSENT")
      BY <1>4 DEF fsm_rtermack
    <2>2. h.state = "REQSENT"
      BY <1>0, <2>1, ToFacts
    <2>3. QED
      BY <1>0, <1>4, <2>2, MoveStates DEF View
  <1>5. CASE g.state = "OPENED"
    <2>1. h = fsm_sconfreq(Down(g), FALSE)
      BY <1>5 DEF fsm_rtermack
    <2>2. /\ Down(g) \in FsmRecord /\ Down(g).upper = FALSE
          /\ Down(g).state = "OPENED"
      BY <1>0, <1>5, DownFacts
    <2>3. h.upper = FALSE /\ h.state = "OPENED"
      BY <2>1, <2>2, SconfreqFacts
    <2>4. QED
      BY <1>5, <2>3, MoveDown DEF View
  <1>6. CASE g.state \notin {"CLOSING", "STOPPING", "ACKRCVD", "OPENED"}
    <2>1. h = g
      BY <1>6 DEF fsm_rtermack
    <2>2. QED
      BY <2>1, MoveUnseen
  <1>7. QED
    BY <1>2, <1>3, <1>4, <1>5, <1>6

(* A Terminate-Request.                                                    *)
LEMMA RtermreqMoves ==
  ASSUME NEW g, Good(g), NEW id \in Ids PROVE Moves(g, fsm_rtermreq(g, id))
  <1> USE DEF States, Negotiating, Terminating
  <1> DEFINE a == [Down(g) EXCEPT !.retransmits = 0]
             c == To(a, "STOPPING")
             b == CASE g.state \in {"ACKRCVD", "ACKSENT"} -> To(g, "REQSENT")
                    [] g.state = "OPENED" -> TIMEOUT(c)
                    [] OTHER -> g
  <1>0. /\ g \in FsmRecord /\ g.state \in States
        /\ g.state # "OPENED" => g.upper = FALSE
    BY GoodFacts
  <1>1. b \in FsmRecord /\ Moves(g, b)
    <2>1. CASE g.state \in {"ACKRCVD", "ACKSENT"}
      <3>1. b = To(g, "REQSENT")
        BY <2>1
      <3>2. b \in FsmRecord /\ b.state = "REQSENT" /\ b.upper = g.upper
        BY <1>0, <3>1, ToFacts
      <3>3. QED
        BY <2>1, <3>2, MoveUnseen DEF View
    <2>2. CASE g.state = "OPENED"
      <3>1. Down(g) \in FsmRecord /\ Down(g).upper = FALSE
        BY <1>0, DownFacts
      <3>2. a \in FsmRecord /\ a.upper = FALSE
        BY <3>1 DEF FsmRecord
      <3> HIDE DEF a
      <3>3. c \in FsmRecord /\ c.upper = FALSE /\ c.state = "STOPPING"
        BY <3>2, ToFacts
      <3> HIDE DEF c
      <3>4. b = TIMEOUT(c)
        BY <2>2
      <3>5. b \in FsmRecord /\ b.upper = FALSE /\ b.state = "STOPPING"
        BY <3>3, <3>4, TimeoutFacts
      <3>6. QED
        BY <2>2, <3>5, MoveDown DEF View
    <2>3. CASE g.state \notin {"ACKRCVD", "ACKSENT", "OPENED"}
      <3>1. b = g
        BY <2>3
      <3>2. QED
        BY <1>0, <3>1, MoveUnseen
    <2>4. QED
      BY <2>1, <2>2, <2>3
  <1>2. fsm_rtermreq(g, id) = fsm_sdata(b, "TERMACK", id, NoCI)
    BY DEF fsm_rtermreq
  <1>3. "TERMACK" \in Codes
    BY DEF Codes
  <1> HIDE DEF b
  <1>4. QED
    BY <1>1, <1>2, <1>3, SendMoves, CIAssumption

(* The up callback: OPENED and up, or closed again from inside.            *)
LEMMA UpShows ==
  ASSUME NEW t \in FsmRecord, t.state = "OPENED", NEW refuse \in BOOLEAN
  PROVE  LET u == Up(t, refuse)
         IN  u.state \in {"OPENED", "CLOSING"} /\ u.upper = (u.state = "OPENED")
  <1> DEFINE a == [t EXCEPT !.upper = TRUE]
  <1>1. a \in FsmRecord /\ a.state = "OPENED" /\ a.upper = TRUE
    BY DEF FsmRecord
  <1>2. Up(t, refuse) = IF refuse THEN fsm_close(a) ELSE a
    BY DEF Up
  <1> HIDE DEF a
  <1>3. Good(a)
    BY <1>1 DEF Good, Waiting, Negotiating, Terminating
  <1>4. fsm_close(a).state = "CLOSING" /\ fsm_close(a).upper = FALSE
    BY <1>1, <1>3, CloseShows, CloseSafe
  <1>5. QED
    BY <1>1, <1>2, <1>4

(* From a negotiation into the up callback.                                *)
LEMMA UpMoves ==
  ASSUME NEW g, NEW h, View(g.state) = "NEGOTIATING", g.upper = FALSE,
         h.state = "OPENED" \/ h.state = "CLOSING", h.upper = (h.state = "OPENED")
  PROVE  Moves(g, h)
  <1>1. View(g.state) = "NEGOTIATING"
    OBVIOUS
  <1>2. CASE h.state = "OPENED" /\ h.upper = TRUE
    BY <1>1, <1>2, MoveUp
  <1>3. CASE h.state = "CLOSING" /\ h.upper = FALSE
    <2>1. View(h.state) = "CLOSING"
      BY <1>3 DEF View, Negotiating
    <2>2. QED
      BY <1>1, <1>3, <2>1, MoveQuiet DEF QuietMoves
  <1>4. QED
    BY <1>2, <1>3

(* A Configure-Ack.                                                        *)
LEMMA RconfackMoves ==
  ASSUME NEW g, Good(g), NEW id \in Ids, NEW ci \in CI, NEW refuse \in BOOLEAN
  PROVE  Moves(g, fsm_rconfack(g, id, ci, refuse))
  <1> USE DEF States, Negotiating, Terminating
  <1> DEFINE a == [g EXCEPT !.seen_ack = TRUE]
             h == fsm_rconfack(g, id, ci, refuse)
  <1>0. /\ g \in FsmRecord /\ g.state \in States /\ Good(h)
        /\ g.state # "OPENED" => g.upper = FALSE
    BY GoodFacts, RconfackSafe DEF Safe
  <1>1. a \in FsmRecord /\ a.state = g.state /\ a.upper = g.upper
    BY <1>0 DEF FsmRecord
  <1>2. CASE ~Expected(g, id) \/ ~ackci(g, ci)
    <2>1. h = g
      BY <1>2 DEF fsm_rconfack
    <2>2. QED
      BY <2>1, MoveUnseen
  <1>3. CASE ~(~Expected(g, id) \/ ~ackci(g, ci))
    <2>1. CASE g.state \in {"CLOSED", "STOPPED"}
      <3>1. h = fsm_sdata(a, "TERMACK", id, NoCI)
        BY <1>1, <1>3, <2>1 DEF fsm_rconfack
      <3> HIDE DEF a
      <3>2. "TERMACK" \in Codes /\ Moves(g, a)
        BY <1>1, MoveUnseen DEF Codes
      <3>3. QED
        BY <1>1, <3>1, <3>2, SendMoves, CIAssumption
    <2>2. CASE g.state = "REQSENT"
      <3> DEFINE b == To(a, "ACKRCVD")
      <3>1. h = [b EXCEPT !.retransmits = MaxConfReq]
        BY <1>1, <1>3, <2>2 DEF fsm_rconfack
      <3> HIDE DEF a
      <3>2. b \in FsmRecord /\ b.state = "ACKRCVD"
        BY <1>1, ToFacts
      <3> HIDE DEF b
      <3>3. h.state = "ACKRCVD"
        BY <3>1, <3>2 DEF FsmRecord
      <3>4. QED
        BY <1>0, <2>2, <3>3, MoveStates DEF View
    <2>3. CASE g.state = "ACKRCVD"
      <3>1. h = To(fsm_sconfreq(UNTIMEOUT(a), FALSE), "REQSENT")
        BY <1>1, <1>3, <2>3 DEF fsm_rconfack, Restart
      <3> HIDE DEF a
      <3>2. UNTIMEOUT(a) \in FsmRecord
        BY <1>1, UntimeoutFacts
      <3>3. h.state = "REQSENT"
        BY <3>1, <3>2, RestartShows
      <3>4. QED
        BY <1>0, <2>3, <3>3, MoveStates DEF View
    <2>4. CASE g.state = "ACKSENT"
      <3> DEFINE c == To(UNTIMEOUT(a), "OPENED")
                 d == [c EXCEPT !.retransmits = MaxConfReq]
      <3>1. h = Up(d, refuse)
        BY <1>1, <1>3, <2>4 DEF fsm_rconfack
      <3> HIDE DEF a
      <3>2. c \in FsmRecord /\ c.state = "OPENED"
        BY <1>1, UntimeoutFacts, ToFacts
      <3> HIDE DEF c
      <3>3. MaxConfReq \in Int
        BY LimitAssumption
      <3>4. d \in FsmRecord /\ d.state = "OPENED"
        BY <3>2, <3>3 DEF FsmRecord
      <3> HIDE DEF d
      <3>5. h.state \in {"OPENED", "CLOSING"} /\ h.upper = (h.state = "OPENED")
        BY <3>1, <3>4, UpShows
      <3> HIDE DEF h
      <3>6. View(g.state) = "NEGOTIATING" /\ g.upper = FALSE
        BY <1>0, <2>4 DEF View
      <3>7. Moves(g, h)
        BY <3>5, <3>6, UpMoves
      <3>8. QED
        BY <3>7 DEF h
    <2>5. CASE g.state = "OPENED"
      <3>1. h = To(fsm_sconfreq(Down(a), FALSE), "REQSENT")
        BY <1>1, <1>3, <2>5 DEF fsm_rconfack, Restart
      <3> HIDE DEF a
      <3>2. Down(a) \in FsmRecord
        BY <1>1, DownFacts
      <3>3. h.state = "REQSENT"
        BY <3>1, <3>2, RestartShows
      <3>4. QED
        BY <1>0, <2>5, <3>3, MoveStates
    <2>6. CASE g.state \in {"INITIAL", "STARTING"} \cup Terminating
      <3>1. h = a
        BY <1>1, <1>3, <2>6 DEF fsm_rconfack
      <3> HIDE DEF a
      <3>2. QED
        BY <1>1, <3>1, MoveUnseen
    <2>7. QED
      BY <1>0, <2>1, <2>2, <2>3, <2>4, <2>5, <2>6
  <1>4. QED
    BY <1>2, <1>3

(* Configure-Nak and Configure-Reject, also when lcp_nakci closes the      *)
(* automaton before the rest of the handler runs.                          *)
LEMMA RconfnakrejMoves ==
  ASSUME NEW g, Good(g), NEW id \in Ids, NEW ret \in {-1, 0, 1},
         NEW try \in CI, NEW looped \in BOOLEAN
  PROVE  Moves(g, fsm_rconfnakrej(g, id, ret, try, looped))
  <1> USE DEF States, Negotiating, Terminating
  <1> DEFINE c == IF looped THEN fsm_close(g) ELSE g
             n == IF g.state = "OPENED" THEN g ELSE [c EXCEPT !.go = try]
             a == [n EXCEPT !.seen_ack = TRUE]
             h == fsm_rconfnakrej(g, id, ret, try, looped)
  <1>0. g \in FsmRecord /\ g.state \in States /\ Good(h)
    BY GoodFacts, RconfnakrejSafe DEF Safe
  <1>1. CASE ~Expected(g, id) \/ ret = 0
    <2>1. h = g
      BY <1>1 DEF fsm_rconfnakrej
    <2>2. QED
      BY <2>1, MoveUnseen
  <1>2. CASE ~(~Expected(g, id) \/ ret = 0)
    <2>0. h = CASE a.state \in {"CLOSED", "STOPPED"} -> fsm_sdata(a, "TERMACK", id, NoCI)
                [] a.state \in {"REQSENT", "ACKSENT"} ->
                     IF ret < 0 THEN To(UNTIMEOUT(a), "STOPPED")
                     ELSE fsm_sconfreq(UNTIMEOUT(a), FALSE)
                [] a.state = "ACKRCVD" -> To(fsm_sconfreq(UNTIMEOUT(a), FALSE), "REQSENT")
                [] a.state = "OPENED" -> To(fsm_sconfreq(Down(a), FALSE), "REQSENT")
                [] OTHER -> a
      BY <1>2 DEF fsm_rconfnakrej, Restart
    <2> SUFFICES Moves(g, h)
      OBVIOUS
    <2> HIDE DEF h
    <2>1. Good(c) /\ Moves(g, c)
      <3>1. Good(fsm_close(g)) /\ Moves(g, fsm_close(g)) /\ Moves(g, g)
        BY CloseSafe, CloseMoves, MoveUnseen
      <3>2. QED
        BY <3>1
    <2>2. g.state # "OPENED" => c.state # "OPENED"
      BY <1>0, CloseShows
    <2> HIDE DEF c
    <2>3. c \in FsmRecord
      BY <2>1, GoodFacts
    <2>4. /\ n \in FsmRecord
          /\ g.state = "OPENED" => n.state = "OPENED" /\ n.upper = g.upper
          /\ g.state # "OPENED" => n.state = c.state /\ n.upper = c.upper
      <3>1. /\ [c EXCEPT !.go = try] \in FsmRecord
            /\ [c EXCEPT !.go = try].state = c.state
            /\ [c EXCEPT !.go = try].upper = c.upper
        BY <2>3 DEF FsmRecord
      <3>2. QED
        BY <1>0, <3>1
    <2> HIDE DEF n
    <2>5. a \in FsmRecord /\ a.state = n.state /\ a.upper = n.upper
      BY <2>4 DEF FsmRecord
    <2> HIDE DEF a
    <2>6. a.state \in States
      BY <2>5, RecordFacts
    <2>7. CASE a.state = "OPENED"
      <3>1. g.state = "OPENED"
        BY <2>2, <2>4, <2>5, <2>7
      <3>2. h = To(fsm_sconfreq(Down(a), FALSE), "REQSENT")
        BY <2>0, <2>7
      <3>3. Down(a) \in FsmRecord
        BY <2>5, DownFacts
      <3>4. h.state = "REQSENT"
        BY <3>2, <3>3, RestartShows
      <3>5. QED
        BY <1>0, <3>1, <3>4, MoveStates
    <2>8. CASE a.state # "OPENED"
      <3>1. g.state # "OPENED" /\ a.state = c.state /\ a.upper = c.upper
        BY <2>4, <2>5, <2>8
      <3>2. Moves(g, a)
        BY <2>1, <3>1 DEF Moves, Call
      <3>3. CASE a.state \in {"CLOSED", "STOPPED"}
        <4>1. h = fsm_sdata(a, "TERMACK", id, NoCI)
          BY <2>0, <3>3
        <4>2. "TERMACK" \in Codes
          BY DEF Codes
        <4>3. QED
          BY <2>5, <3>2, <4>1, <4>2, SendMoves, CIAssumption
      <3>4. CASE a.state \in Negotiating
        <4>1. g.state = a.state
          <5>1. g.state = c.state \/ c = fsm_close(g)
            BY DEF c
          <5>2. fsm_close(g).state \notin Negotiating
            BY <1>0, CloseShows
          <5>3. QED
            BY <3>1, <3>4, <5>1, <5>2
        <4>2. View(g.state) = "NEGOTIATING"
          BY <3>4, <4>1 DEF View
        <4>3. UNTIMEOUT(a) \in FsmRecord /\ UNTIMEOUT(a).state = a.state
          BY <2>5, UntimeoutFacts
        <4>4. /\ fsm_sconfreq(UNTIMEOUT(a), FALSE) \in FsmRecord
              /\ fsm_sconfreq(UNTIMEOUT(a), FALSE).state = a.state
          BY <4>3, SconfreqFacts
        <4>5. \/ h = To(UNTIMEOUT(a), "STOPPED")
              \/ h = fsm_sconfreq(UNTIMEOUT(a), FALSE)
              \/ h = To(fsm_sconfreq(UNTIMEOUT(a), FALSE), "REQSENT")
          BY <2>0, <3>4
        <4>6. h.state \in {"STOPPED", "REQSENT", a.state}
          <5>1. To(UNTIMEOUT(a), "STOPPED").state = "STOPPED"
            BY <4>3, ToFacts
          <5>2. To(fsm_sconfreq(UNTIMEOUT(a), FALSE), "REQSENT").state = "REQSENT"
            BY <4>3, RestartShows
          <5>3. QED
            BY <4>4, <4>5, <5>1, <5>2
        <4>7. /\ h.state # "OPENED"
              /\ View(h.state) = "NEGOTIATING" \/ View(h.state) = "STOPPED"
          BY <3>4, <4>6 DEF View
        <4>8. QED
          BY <1>0, <4>2, <4>7, MoveStates DEF QuietMoves
      <3>5. CASE a.state \in {"INITIAL", "STARTING"} \cup Terminating
        <4>1. h = a
          BY <2>0, <3>5
        <4>2. QED
          BY <3>2, <4>1
      <3>6. QED
        BY <2>6, <2>8, <3>3, <3>4, <3>5
    <2>9. QED
      BY <2>7, <2>8
  <1>3. QED
    BY <1>1, <1>2

(* A Configure-Request.                                                    *)
LEMMA RconfreqMoves ==
  ASSUME NEW g, Good(g), g.state \notin {"INITIAL", "STARTING"},
         NEW id \in Ids, NEW ci \in CI, NEW hint \in CI,
         NEW verdict \in {"CONFACK", "CONFNAK", "CONFREJ"},
         NEW tough \in BOOLEAN, NEW refuse \in BOOLEAN
  PROVE  Moves(g, fsm_rconfreq(g, id, ci, verdict, hint, tough, refuse))
  <1> USE DEF States, Negotiating, Terminating
  <1> DEFINE a == CASE g.state = "OPENED"  -> fsm_sconfreq(Down(g), FALSE)
                    [] g.state = "STOPPED" -> To(fsm_sconfreq(g, FALSE), "REQSENT")
                    [] OTHER -> g
             rej == a.nakloops >= MaxNakLoops
             code == IF verdict = "CONFNAK" /\ rej /\ tough THEN "CONFREJ" ELSE verdict
             pay == IF code = "CONFNAK" THEN hint ELSE ci
             s == fsm_sdata(a, code, id, pay)
             acked == [s EXCEPT !.ho = ci]
             more == IF code = "CONFNAK" /\ ~rej THEN s.nakloops + 1 ELSE s.nakloops
             fed == [s EXCEPT !.nakloops = more]
             open == Up(To(UNTIMEOUT(acked), "OPENED"), refuse)
             sent == To(acked, "ACKSENT")
             h == fsm_rconfreq(g, id, ci, verdict, hint, tough, refuse)
  <1>0. /\ g \in FsmRecord /\ g.state \in States /\ Good(h)
        /\ g.state # "OPENED" => g.upper = FALSE
    BY GoodFacts, RconfreqSafe DEF Safe
  <1>1. CASE g.state = "CLOSED"
    <2>1. h = fsm_sdata(g, "TERMACK", id, NoCI)
      BY <1>1 DEF fsm_rconfreq
    <2>2. "TERMACK" \in Codes /\ Moves(g, g)
      BY MoveUnseen DEF Codes
    <2>3. QED
      BY <1>0, <2>1, <2>2, SendMoves, CIAssumption
  <1>2. CASE g.state \in Terminating
    <2>1. h = g
      BY <1>2 DEF fsm_rconfreq
    <2>2. QED
      BY <2>1, MoveUnseen
  <1>3. CASE g.state \in {"STOPPED", "OPENED"} \cup Negotiating
    <2>1. \/ code = "CONFACK" /\ s.state = "ACKRCVD" /\ h = [open EXCEPT !.nakloops = 0]
          \/ code = "CONFACK" /\ s.state # "ACKRCVD" /\ h = [sent EXCEPT !.nakloops = 0]
          \/ code # "CONFACK" /\ fed.state = "ACKRCVD" /\ h = fed
          \/ code # "CONFACK" /\ fed.state # "ACKRCVD" /\ h = To(fed, "REQSENT")
      BY <1>3 DEF fsm_rconfreq
    <2> SUFFICES Moves(g, h)
      OBVIOUS
    <2> HIDE DEF h
    <2>2. a \in FsmRecord /\ (a.state = "ACKRCVD" => g.state = "ACKRCVD")
      <3>1. CASE g.state = "OPENED"
        <4>1. a = fsm_sconfreq(Down(g), FALSE)
          BY <3>1
        <4>2. Down(g) \in FsmRecord /\ Down(g).state = "OPENED"
          BY <1>0, <3>1, DownFacts
        <4>3. QED
          BY <4>1, <4>2, SconfreqFacts
      <3>2. CASE g.state = "STOPPED"
        <4> DEFINE q == fsm_sconfreq(g, FALSE)
        <4>1. a = To(q, "REQSENT")
          BY <3>2
        <4>2. q \in FsmRecord
          BY <1>0, SconfreqFacts
        <4> HIDE DEF q, a
        <4>3. a \in FsmRecord /\ a.state = "REQSENT"
          BY <4>1, <4>2, ToFacts
        <4>4. QED
          BY <4>3
      <3>3. CASE g.state \in Negotiating
        <4>1. a = g
          BY <3>3
        <4>2. QED
          BY <1>0, <4>1
      <3>4. QED
        BY <1>3, <3>1, <3>2, <3>3
    <2> HIDE DEF a
    <2>3. code \in Codes /\ pay \in CI
      BY DEF Codes
    <2> HIDE DEF code, pay
    <2>4. s \in FsmRecord /\ s.state = a.state
      BY <2>2, <2>3, SendType, SendSame
    <2> HIDE DEF s
    <2>5. acked \in FsmRecord
      BY <2>4 DEF FsmRecord
    <2> HIDE DEF acked
    <2>6. fed \in FsmRecord /\ fed.state = s.state
      <3>1. more \in Nat
        BY <2>4, RecordFacts
      <3> HIDE DEF more
      <3>2. QED
        BY <2>4, <3>1 DEF FsmRecord
    <2> HIDE DEF fed
    <2>7. CASE s.state = "ACKRCVD" /\ h = [open EXCEPT !.nakloops = 0]
      <3> DEFINE t == To(UNTIMEOUT(acked), "OPENED")
      <3>1. UNTIMEOUT(acked) \in FsmRecord
        BY <2>5, UntimeoutFacts
      <3>2. t \in FsmRecord /\ t.state = "OPENED"
        BY <3>1, ToFacts
      <3> HIDE DEF t
      <3>3. open = Up(t, refuse)
        BY DEF t
      <3> HIDE DEF open
      <3>4. /\ open \in FsmRecord
            /\ open.state \in {"OPENED", "CLOSING"} /\ open.upper = (open.state = "OPENED")
        BY <3>2, <3>3, UpGood, UpShows, GoodFacts
      <3>5. /\ h.state \in {"OPENED", "CLOSING"} /\ h.upper = (h.state = "OPENED")
        BY <2>7, <3>4 DEF FsmRecord
      <3>6. View(g.state) = "NEGOTIATING" /\ g.upper = FALSE
        BY <1>0, <2>2, <2>4, <2>7 DEF View
      <3>7. QED
        BY <3>5, <3>6, UpMoves
    <2>8. CASE h = [sent EXCEPT !.nakloops = 0]
      <3>1. sent \in FsmRecord /\ sent.state = "ACKSENT"
        BY <2>5, ToFacts
      <3> HIDE DEF sent
      <3>2. h.state = "ACKSENT"
        BY <2>8, <3>1 DEF FsmRecord
      <3>3. QED
        BY <1>0, <1>3, <3>2, MoveStates DEF View, QuietMoves
    <2>9. CASE fed.state = "ACKRCVD" /\ h = fed
      BY <1>0, <2>2, <2>4, <2>6, <2>9, MoveStates
    <2>10. CASE h = To(fed, "REQSENT")
      <3>1. h.state = "REQSENT"
        BY <2>6, <2>10, ToFacts
      <3>2. QED
        BY <1>0, <1>3, <3>1, MoveStates DEF View, QuietMoves
    <2>11. QED
      BY <2>1, <2>7, <2>8, <2>9, <2>10
  <1>4. QED
    BY <1>0, <1>1, <1>2, <1>3

-----------------------------------------------------------------------------
(* Handing the packets to the line is not seen by the layer above.         *)
LEMMA SentMoves ==
  ASSUME NEW g, NEW h \in FsmRecord, Moves(g, h) PROVE Moves(g, Sent(h))
  <1>1. Sent(h).state = h.state /\ Sent(h).upper = h.upper
    BY DEF Sent, FsmRecord
  <1>2. QED
    BY <1>1 DEF Moves, Call

(* Every step is a row of the table or is not seen.                        *)
LEMMA StepMoves == IInv /\ [Next]_f => Moves(f, f')
  <1> SUFFICES ASSUME IInv, [Next]_f PROVE Moves(f, f')
    OBVIOUS
  <1>0. Good(f)
    BY DEF IInv, TypeOK, TimerArmed, UpperOnlyOpened, AckRcvdSeen, Good, Waiting
  <1>a. \A h : Safe(f, h) => h \in FsmRecord
    BY DEF Safe, Good
  <1>1. CASE LowerUp
    BY <1>0, <1>1, <1>a, LowerupSafe, LowerupMoves, SentMoves DEF LowerUp
  <1>2. CASE LowerDown
    BY <1>0, <1>2, <1>a, LowerdownSafe, LowerdownMoves, SentMoves DEF LowerDown
  <1>3. CASE Open
    BY <1>0, <1>3, <1>a, OpenSafe, OpenMoves, SentMoves DEF Open
  <1>4. CASE Close
    BY <1>0, <1>4, <1>a, CloseSafe, CloseMoves, SentMoves DEF Close
  <1>5. CASE ProtReject
    BY <1>0, <1>5, <1>a, ProtrejectSafe, ProtrejectMoves, SentMoves DEF ProtReject
  <1>6. CASE Timeout
    BY <1>0, <1>6, <1>a, TimeoutSafe, TimeoutMoves, SentMoves DEF Timeout
  <1>7. CASE RcvConfReq
    BY <1>0, <1>7, <1>a, RconfreqSafe, RconfreqMoves, SentMoves DEF RcvConfReq, Listening
  <1>8. CASE RcvConfAck
    BY <1>0, <1>8, <1>a, RconfackSafe, RconfackMoves, SentMoves DEF RcvConfAck
  <1>9. CASE RcvConfNakRej
    BY <1>0, <1>9, <1>a, RconfnakrejSafe, RconfnakrejMoves, SentMoves DEF RcvConfNakRej
  <1>10. CASE RcvTermReq
    BY <1>0, <1>10, <1>a, RtermreqSafe, RtermreqMoves, SentMoves DEF RcvTermReq
  <1>11. CASE RcvTermAck
    BY <1>0, <1>11, <1>a, RtermackSafe, RtermackMoves, SentMoves DEF RcvTermAck
  <1>12. CASE RcvCodeRej
    BY <1>0, <1>12, <1>a, RcoderejSafe, RcoderejMoves, SentMoves DEF RcvCodeRej
  <1>13. CASE RcvUnknown
    BY <1>0, <1>13, <1>a, CoderejSafe, CoderejMoves, SentMoves DEF RcvUnknown
  <1>14. CASE UNCHANGED f
    BY <1>14, MoveUnseen
  <1>15. QED
    BY <1>1, <1>2, <1>3, <1>4, <1>5, <1>6, <1>7, <1>8, <1>9, <1>10, <1>11,
       <1>12, <1>13, <1>14 DEF Next

(* fsm.c keeps the promise that LayerTable makes to the protocols above:   *)
(* every behaviour of the automaton, as its users see it, goes from        *)
(* INITIAL through rows of the table, each with its up, down or finished   *)
(* callback (fsm_input, fsm_timeout, fsm_open, fsm_close, fsm_lowerup,     *)
(* fsm_lowerdown, fsm_protreject).                                         *)
THEOREM LayerImplemented == Spec => ImplementsLayer
  <1>1. Init => Seen!LayerInit
    BY DEF Init, fsm_init, Seen!LayerInit, Negotiating
  <1>2. IInv /\ [Next]_f =>
          [Seen!LayerNext]_<<IF f.state \in Negotiating THEN "NEGOTIATING" ELSE f.state,
                             f.upper>>
    <2> SUFFICES ASSUME IInv, [Next]_f
                 PROVE  [Seen!LayerNext]_<<IF f.state \in Negotiating THEN "NEGOTIATING"
                                           ELSE f.state, f.upper>>
      OBVIOUS
    <2>1. Moves(f, f')
      BY StepMoves
    <2>2. CASE View(f'.state) = View(f.state) /\ f'.upper = f.upper
      BY <2>2 DEF View
    <2>3. CASE \E r \in Seen!Rows : View(f.state) = r[1] /\ View(f'.state) = r[2]
                                    /\ Call(f, f', r[3])
      BY <2>3 DEF View, Call, Seen!LayerNext, Seen!Told
    <2>4. QED
      BY <2>1, <2>2, <2>3 DEF Moves
  <1>3. QED
    BY <1>1, <1>2, Inductive, PTL DEF Spec, ImplementsLayer, Seen!LayerSpec
=============================================================================
