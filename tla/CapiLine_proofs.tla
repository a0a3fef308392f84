-------------------------- MODULE CapiLine_proofs --------------------------
(***************************************************************************)
(* The invariants of CapiLine about calls, proved for every number of      *)
(* PLCIs, of connections and of calls, and for queues of any length.       *)
(***************************************************************************)
EXTENDS CapiLine, WellFoundedInduction, FiniteSetTheorems, SequenceTheorems, TLAPS

Cards == [conns : Seq(Connection), msgid : 0 .. MsgMod - 1, out : Seq(Message)]

-----------------------------------------------------------------------------
(* Every non-empty set of natural numbers has a least element (used for    *)
(* the first match in a list).                                             *)
LEMMA LeastElement ==
  ASSUME NEW T, T \subseteq Nat, T # {}
  PROVE  \E x \in T : \A y \in T : x <= y
  <1> DEFINE R == OpToRel(<, Nat)
  <1>1. IsWellFoundedOn(R, Nat)
    BY NatLessThanWellFounded, Zenon
  <1> HIDE DEF R
  <1>2. PICK x \in T : \A y \in T : ~(<<y, x>> \in R)
    BY <1>1, WFMin, ZenonT(30)
  <1>3. \A y \in T : y \in Nat /\ x \in Nat => ~(y < x)
    BY <1>2, ZenonT(30) DEF R, OpToRel
  <1>4. QED
    BY <1>3

(* What the searches of the list find.                                     *)
LEMMA FindPlci ==
  ASSUME NEW k, NEW S, k.conns \in Seq(S), NEW p, NEW i, i = find_plci_by_plci(k, p)
  PROVE  \/ i = 0 /\ \A j \in DOMAIN k.conns : k.conns[j].plci # p
         \/ i # 0 /\ i \in DOMAIN k.conns /\ k.conns[i].plci = p
  <1> DEFINE I == {j \in 1 .. Len(k.conns) : k.conns[j].plci = p}
  <1>1. i = IF I # {} THEN Min(I) ELSE 0
    BY DEF find_plci_by_plci, SelectInSeq
  <1>2. DOMAIN k.conns = 1 .. Len(k.conns) /\ Len(k.conns) \in Nat
    OBVIOUS
  <1>3. ASSUME I # {} PROVE Min(I) \in I
    <2>1. I \subseteq Nat
      BY <1>2
    <2>2. \E x \in I : \A y \in I : x <= y
      BY <1>3, <2>1, LeastElement
    <2> HIDE DEF I
    <2>3. QED
      BY <2>2 DEF Min
  <1>4. CASE I = {}
    BY <1>1, <1>2, <1>4
  <1>5. CASE I # {}
    BY <1>1, <1>2, <1>3, <1>5
  <1>6. QED
    BY <1>4, <1>5

LEMMA FindMsgid ==
  ASSUME NEW k, NEW S, k.conns \in Seq(S), NEW n, NEW i, i = find_plci_by_msgid(k, n)
  PROVE  \/ i = 0 /\ \A j \in DOMAIN k.conns : k.conns[j].msgid # n
         \/ i # 0 /\ i \in DOMAIN k.conns /\ k.conns[i].msgid = n
  <1> DEFINE I == {j \in 1 .. Len(k.conns) : k.conns[j].msgid = n}
  <1>1. i = IF I # {} THEN Min(I) ELSE 0
    BY DEF find_plci_by_msgid, SelectInSeq
  <1>2. DOMAIN k.conns = 1 .. Len(k.conns) /\ Len(k.conns) \in Nat
    OBVIOUS
  <1>3. ASSUME I # {} PROVE Min(I) \in I
    <2>1. I \subseteq Nat
      BY <1>2
    <2>2. \E x \in I : \A y \in I : x <= y
      BY <1>3, <2>1, LeastElement
    <2> HIDE DEF I
    <2>3. QED
      BY <2>2 DEF Min
  <1>4. CASE I = {}
    BY <1>1, <1>2, <1>4
  <1>5. CASE I # {}
    BY <1>1, <1>2, <1>3, <1>5
  <1>6. QED
    BY <1>4, <1>5

LEMMA FindNcci ==
  ASSUME NEW k, NEW S, k.conns \in Seq(S), NEW p, NEW i, i = find_ncci(k, p)
  PROVE  \/ i = 0 /\ \A j \in DOMAIN k.conns : k.conns[j].plci = p =>
                       k.conns[find_plci_by_plci(k, p)].nccip = NoNcci
         \/ /\ i # 0 /\ i \in DOMAIN k.conns /\ k.conns[i].plci = p
            /\ k.conns[i].nccip # NoNcci
  <1> DEFINE j == find_plci_by_plci(k, p)
  <1>1. \/ j = 0 /\ \A l \in DOMAIN k.conns : k.conns[l].plci # p
        \/ j # 0 /\ j \in DOMAIN k.conns /\ k.conns[j].plci = p
    BY FindPlci
  <1>2. i = IF j # 0 /\ k.conns[j].nccip # NoNcci THEN j ELSE 0
    BY DEF find_ncci
  <1>3. QED
    BY <1>1, <1>2, Zenon

-----------------------------------------------------------------------------
(* The rows of the tables: an event leads to one state.                    *)
PlciTo == [CONNECT_REQ |-> "OUTGOING", CONNECT_IND |-> "INCOMING",
           CONNECT_CONF_ERROR |-> "NONE", CONNECT_CONF_OK |-> "ALLOCATED",
           CONNECT_ACTIVE_IND |-> "ACTIVE", CONNECT_RESP |-> "ACCEPTING",
           DISCONNECT_REQ |-> "DISCONNECTING", DISCONNECT_IND |-> "DISCONNECTED",
           DISCONNECT_RESP |-> "NONE"]
NcciTo == [CONNECT_B3_REQ |-> "OUTGOING", CONNECT_B3_IND |-> "INCOMING",
           CONNECT_B3_CONF_OK |-> "ALLOCATED", CONNECT_B3_CONF_ERROR |-> "NONE",
           CONNECT_B3_RESP |-> "ALLOCATED", CONNECT_B3_ACTIVE_IND |-> "ACTIVE",
           RESET_B3_IND |-> "ACTIVE", DISCONNECT_B3_REQ |-> "DISCONNECTING",
           DISCONNECT_B3_IND |-> "DISCONNECTED",
           DISCONNECT_B3_CONF_ERROR |-> "PREVIOUS", DISCONNECT_B3_RESP |-> "NONE"]

(* A connection and its link after an event that ends neither.             *)
InState(k, i, x) == [k EXCEPT !.conns[i].state = x]
InLink(k, i, x) == [k EXCEPT !.conns[i].nccip.state = x,
                             !.conns[i].nccip.oldstate = k.conns[i].nccip.state]

PlciEvents == DOMAIN PlciTo
NcciEvents == DOMAIN NcciTo

(* The states in which an event has a row.                                 *)
PlciFrom(e) == {s \in PlciStates : <<s, e, PlciTo[e]>> \in plcitable}
NcciFrom(e) == {s \in NcciStates : <<s, e, NcciTo[e]>> \in nccitable}

LEMMA PlciRows ==
  ASSUME NEW r \in plcitable
  PROVE  r[1] \in PlciStates /\ r[2] \in PlciEvents /\ r[3] = PlciTo[r[2]]
         /\ r = <<r[1], r[2], r[3]>>
  BY DEF plcitable, PlciStates, PlciEvents, PlciTo

LEMMA NcciRows ==
  ASSUME NEW r \in nccitable
  PROVE  r[1] \in NcciStates /\ r[2] \in NcciEvents /\ r[3] = NcciTo[r[2]]
         /\ r = <<r[1], r[2], r[3]>>
  BY DEF nccitable, NcciStates, NcciEvents, NcciTo

LEMMA PlciChange ==
  ASSUME NEW k, NEW i, NEW e \in PlciEvents, NEW x, x = PlciTo[e]
  PROVE  plci_change_state(k, i, e) =
           IF k.conns[i].state \notin PlciFrom(e) THEN k
           ELSE IF x = "NONE" THEN p0(InState(k, i, x), i) ELSE InState(k, i, x)
  <1> DEFINE rows == {r \in plcitable : r[1] = k.conns[i].state /\ r[2] = e}
  <1>1. plci_change_state(k, i, e) =
          IF rows = {} THEN k
          ELSE IF (CHOOSE r \in rows : TRUE)[3] = "NONE"
               THEN p0(InState(k, i, (CHOOSE r \in rows : TRUE)[3]), i)
               ELSE InState(k, i, (CHOOSE r \in rows : TRUE)[3])
    BY DEF plci_change_state, InState
  <1>2. rows = {} <=> k.conns[i].state \notin PlciFrom(e)
    BY PlciRows DEF PlciFrom
  <1>3. ASSUME rows # {} PROVE (CHOOSE r \in rows : TRUE)[3] = x
    BY <1>3, PlciRows
  <1> HIDE DEF rows
  <1>4. QED
    BY <1>1, <1>2, <1>3, Zenon

LEMMA NcciChange ==
  ASSUME NEW k, NEW i, NEW e \in NcciEvents, NEW x,
         x = IF NcciTo[e] = "PREVIOUS" THEN k.conns[i].nccip.oldstate ELSE NcciTo[e]
  PROVE  ncci_change_state(k, i, e) =
           IF k.conns[i].nccip.state \notin NcciFrom(e) THEN k
           ELSE IF NcciTo[e] = "NONE" THEN n0(InLink(k, i, x), i) ELSE InLink(k, i, x)
  <1> DEFINE rows == {r \in nccitable : r[1] = k.conns[i].nccip.state /\ r[2] = e}
             next == (CHOOSE r \in rows : TRUE)[3]
             to == IF next = "PREVIOUS" THEN k.conns[i].nccip.oldstate ELSE next
  <1>1. ncci_change_state(k, i, e) =
          IF rows = {} THEN k
          ELSE IF next = "NONE" THEN n0(InLink(k, i, to), i) ELSE InLink(k, i, to)
    BY DEF ncci_change_state, InLink
  <1>2. rows = {} <=> k.conns[i].nccip.state \notin NcciFrom(e)
    BY NcciRows DEF NcciFrom
  <1>3. ASSUME rows # {} PROVE next = NcciTo[e]
    BY <1>3, NcciRows
  <1>4. rows # {} => to = x
    BY <1>3
  <1> HIDE DEF rows, next, to
  <1>5. QED
    BY <1>1, <1>2, <1>3, <1>4, Zenon

-----------------------------------------------------------------------------
(* Lists of connections: one entry replaced, added in front or taken out.  *)
LEMMA SetConn ==
  ASSUME NEW S, NEW C \in Seq(S), NEW i \in DOMAIN C, NEW c \in S,
         NEW D, D = [C EXCEPT ![i] = c]
  PROVE  /\ D \in Seq(S) /\ Len(D) = Len(C) /\ DOMAIN D = DOMAIN C
         /\ D[i] = c /\ \A j \in DOMAIN C : j # i => D[j] = C[j]
  OBVIOUS

LEMMA ConsConn ==
  ASSUME NEW S, NEW C \in Seq(S), NEW c \in S, NEW D, D = Cons(c, C)
  PROVE  /\ D \in Seq(S) /\ Len(D) = Len(C) + 1 /\ D[1] = c
         /\ \A j \in 2 .. Len(C) + 1 : D[j] = C[j - 1]
  BY DEF Cons

LEMMA RemoveConn ==
  ASSUME NEW S, NEW C \in Seq(S), NEW i \in DOMAIN C, NEW D, D = RemoveAt(C, i)
  PROVE  /\ D \in Seq(S) /\ Len(D) = Len(C) - 1
         /\ \A j \in 1 .. Len(C) - 1 : D[j] = C[IF j < i THEN j ELSE j + 1]
  <1>1. Len(C) \in Nat /\ i \in 1 .. Len(C)
    OBVIOUS
  <1>2. SubSeq(C, 1, i - 1) \in Seq(S) /\ Len(SubSeq(C, 1, i - 1)) = i - 1
        /\ \A j \in 1 .. i - 1 : SubSeq(C, 1, i - 1)[j] = C[j]
    BY <1>1
  <1>3. SubSeq(C, i + 1, Len(C)) \in Seq(S) /\ Len(SubSeq(C, i + 1, Len(C))) = Len(C) - i
        /\ \A j \in 1 .. Len(C) - i : SubSeq(C, i + 1, Len(C))[j] = C[i + j]
    BY <1>1
  <1>4. D = SubSeq(C, 1, i - 1) \o SubSeq(C, i + 1, Len(C))
    BY DEF RemoveAt
  <1> DEFINE P == SubSeq(C, 1, i - 1)
             Q == SubSeq(C, i + 1, Len(C))
  <1> HIDE DEF P, Q
  <1>5. P \in Seq(S) /\ Q \in Seq(S) /\ Len(P) = i - 1 /\ Len(Q) = Len(C) - i /\ D = P \o Q
        /\ (\A j \in 1 .. i - 1 : P[j] = C[j]) /\ \A j \in 1 .. Len(C) - i : Q[j] = C[i + j]
    BY <1>2, <1>3, <1>4 DEF P, Q
  <1>6. D \in Seq(S) /\ Len(D) = Len(C) - 1
    BY <1>1, <1>5
  <1>7. ASSUME NEW j \in 1 .. Len(C) - 1 PROVE D[j] = C[IF j < i THEN j ELSE j + 1]
    <2>1. CASE j < i
      BY <1>1, <1>5, <2>1
    <2>2. CASE ~(j < i)
      <3>1. j - (i - 1) \in 1 .. Len(C) - i /\ D[j] = Q[j - (i - 1)]
        <4>1. j - (i - 1) \in 1 .. Len(C) - i /\ Len(P) = i - 1 /\ Len(Q) = Len(C) - i
          BY <1>1, <1>5, <2>2
        <4>2. j > Len(P) /\ j \in 1 .. Len(P) + Len(Q)
          BY <1>1, <2>2, <4>1
        <4>3. P \in Seq(S) /\ Q \in Seq(S) /\ D = P \o Q
          BY <1>5
        <4>4. D[j] = Q[j - Len(P)]
          BY <4>2, <4>3
        <4>5. QED
          BY <4>1, <4>4
      <3>2. i + (j - (i - 1)) = j + 1
        BY <1>1
      <3>3. QED
        BY <1>5, <2>2, <3>1, <3>2
    <2>3. QED
      BY <2>1, <2>2
  <1>8. QED
    BY <1>6, <1>7

(* g is k with the connection at i replaced by c.                          *)
With(k, g, i, c) ==
    /\ g \in Cards /\ g.msgid = k.msgid /\ g.out = k.out
    /\ Len(g.conns) = Len(k.conns) /\ DOMAIN g.conns = DOMAIN k.conns
    /\ g.conns[i] = c /\ \A j \in DOMAIN k.conns : j # i => g.conns[j] = k.conns[j]

LEMMA WithIs ==
  ASSUME NEW k \in Cards, NEW i \in DOMAIN k.conns, NEW c \in Connection, NEW g,
         g = [k EXCEPT !.conns = [k.conns EXCEPT ![i] = c]]
  PROVE  With(k, g, i, c)
  <1> DEFINE D == [k.conns EXCEPT ![i] = c]
  <1>1. k.conns \in Seq(Connection)
    BY DEF Cards
  <1>2. /\ D \in Seq(Connection) /\ Len(D) = Len(k.conns) /\ DOMAIN D = DOMAIN k.conns
        /\ D[i] = c /\ \A j \in DOMAIN k.conns : j # i => D[j] = k.conns[j]
    BY <1>1, SetConn
  <1> HIDE DEF D
  <1>3. g = [k EXCEPT !.conns = D]
    BY DEF D
  <1>4. g \in Cards /\ g.msgid = k.msgid /\ g.out = k.out /\ g.conns = D
    BY <1>2, <1>3 DEF Cards
  <1>5. QED
    BY <1>2, <1>4 DEF With

LEMMA ConnAt ==
  ASSUME NEW k \in Cards, NEW i \in DOMAIN k.conns
  PROVE  k.conns[i] \in Connection
  BY DEF Cards

(* A change of the call state ...                                          *)
LEMMA InStateIs ==
  ASSUME NEW k \in Cards, NEW i \in DOMAIN k.conns, NEW x \in PlciStates
  PROVE  With(k, InState(k, i, x), i, [k.conns[i] EXCEPT !.state = x])
  <1>1. [k.conns[i] EXCEPT !.state = x] \in Connection
    BY ConnAt DEF Connection
  <1>2. InState(k, i, x) = [k EXCEPT !.conns = [k.conns EXCEPT ![i] = [k.conns[i] EXCEPT !.state = x]]]
    BY DEF InState
  <1>3. QED
    BY <1>1, <1>2, WithIs

(* ... and of the link state.                                              *)
Moved(c, x) == [c EXCEPT !.nccip = [c.nccip EXCEPT !.state = x, !.oldstate = c.nccip.state]]

LEMMA MovedIs ==
  ASSUME NEW c \in Connection, c.nccip # NoNcci, NEW x \in NcciStates
  PROVE  /\ Moved(c, x) \in Connection /\ Moved(c, x).nccip \in Ncci
         /\ Moved(c, x).nccip.state = x /\ Moved(c, x).nccip.oldstate = c.nccip.state
         /\ Moved(c, x).nccip.n = c.nccip.n
         /\ Moved(c, x).nccip.ackqueue = c.nccip.ackqueue
         /\ Moved(c, x).nccip.datahandle = c.nccip.datahandle
         /\ Moved(c, x).plci = c.plci /\ Moved(c, x).msgid = c.msgid
         /\ Moved(c, x).state = c.state /\ Moved(c, x).nccip # NoNcci
  <1> DEFINE z == [c.nccip EXCEPT !.state = x, !.oldstate = c.nccip.state]
  <1>1. c.nccip \in Ncci
    BY DEF Connection
  <1>2. /\ z \in Ncci /\ z.state = x /\ z.oldstate = c.nccip.state /\ z.n = c.nccip.n
        /\ z.ackqueue = c.nccip.ackqueue /\ z.datahandle = c.nccip.datahandle
    BY <1>1 DEF Ncci
  <1>3. z # NoNcci
    BY <1>2 DEF Ncci, NoNcci
  <1>4. Moved(c, x) = [c EXCEPT !.nccip = z]
    BY DEF Moved
  <1> HIDE DEF z
  <1>5. QED
    BY <1>2, <1>3, <1>4 DEF Connection

LEMMA InLinkIs ==
  ASSUME NEW k \in Cards, NEW i \in DOMAIN k.conns, k.conns[i].nccip # NoNcci,
         NEW x \in NcciStates
  PROVE  With(k, InLink(k, i, x), i, Moved(k.conns[i], x))
  <1> DEFINE c == k.conns[i]
             y == [c.nccip EXCEPT !.state = x]
             e == [c EXCEPT !.nccip = y]
             h == [k EXCEPT !.conns = [k.conns EXCEPT ![i] = e]]
             z == [y EXCEPT !.oldstate = c.nccip.state]
             f == [e EXCEPT !.nccip = z]
             g == [h EXCEPT !.conns = [h.conns EXCEPT ![i] = f]]
  <1>1. c \in Connection /\ c.nccip \in Ncci
    BY ConnAt DEF Connection
  <1>2. y \in Ncci /\ z \in Ncci
    BY <1>1 DEF Ncci
  <1>3. e \in Connection /\ f \in Connection /\ e.nccip = y
    BY <1>1, <1>2 DEF Connection
  <1>4. With(k, h, i, e)
    BY <1>3, WithIs
  <1>5. h \in Cards /\ i \in DOMAIN h.conns /\ h.conns[i] = e
    BY <1>4 DEF With
  <1>6. With(h, g, i, f)
    BY <1>3, <1>5, WithIs
  <1>7. f = Moved(c, x)
    BY <1>1, <1>3 DEF Moved, Connection
  <1>8. InLink(k, i, x) = g
    <2>1. [k EXCEPT !.conns[i].nccip.state = x] = h
      OBVIOUS
    <2>2. InLink(k, i, x) = [h EXCEPT !.conns[i].nccip.oldstate = c.nccip.state]
      BY <2>1 DEF InLink
    <2>3. [h EXCEPT !.conns[i].nccip.oldstate = c.nccip.state] =
             [h EXCEPT !.conns = [h.conns EXCEPT ![i] = [h.conns[i] EXCEPT !.nccip =
                [h.conns[i].nccip EXCEPT !.oldstate = c.nccip.state]]]]
      OBVIOUS
    <2> HIDE DEF h, e, y
    <2>4. QED
      BY <1>3, <1>5, <2>2, <2>3
  <1> HIDE DEF h, g, e, f
  <1>9. QED
    BY <1>4, <1>6, <1>7, <1>8 DEF With

LEMMA PlciFroms ==
  /\ PlciFrom("CONNECT_REQ") = {"NONE"} /\ PlciFrom("CONNECT_IND") = {"NONE"}
  /\ PlciFrom("CONNECT_CONF_ERROR") = {"OUTGOING"} /\ PlciFrom("CONNECT_CONF_OK") = {"OUTGOING"}
  /\ PlciFrom("CONNECT_ACTIVE_IND") = {"ALLOCATED", "ACCEPTING"}
  /\ PlciFrom("CONNECT_RESP") = {"INCOMING"}
  /\ PlciFrom("DISCONNECT_REQ") = {"ALLOCATED", "ACTIVE", "INCOMING", "ACCEPTING"}
  /\ PlciFrom("DISCONNECT_IND") =
       {"ALLOCATED", "ACTIVE", "INCOMING", "ACCEPTING", "DISCONNECTING"}
  /\ PlciFrom("DISCONNECT_RESP") = {"DISCONNECTED"}
  BY DEF PlciFrom, PlciStates, PlciTo, plcitable

LEMMA NcciFroms ==
  /\ NcciFrom("CONNECT_B3_REQ") = {"NONE"} /\ NcciFrom("CONNECT_B3_IND") = {"NONE"}
  /\ NcciFrom("CONNECT_B3_CONF_OK") = {"OUTGOING"}
  /\ NcciFrom("CONNECT_B3_CONF_ERROR") = {"OUTGOING"}
  /\ NcciFrom("CONNECT_B3_RESP") = {"INCOMING"}
  /\ NcciFrom("CONNECT_B3_ACTIVE_IND") = {"ALLOCATED"}
  /\ NcciFrom("RESET_B3_IND") = {"ACTIVE"}
  /\ NcciFrom("DISCONNECT_B3_REQ") = {"INCOMING", "ALLOCATED", "ACTIVE"}
  /\ NcciFrom("DISCONNECT_B3_IND") = {"INCOMING", "ALLOCATED", "ACTIVE", "DISCONNECTING"}
  /\ NcciFrom("DISCONNECT_B3_CONF_ERROR") = {"DISCONNECTING"}
  /\ NcciFrom("DISCONNECT_B3_RESP") = {"DISCONNECTED"}
  BY DEF NcciFrom, NcciStates, NcciTo, nccitable

LEMMA WithSelf ==
  ASSUME NEW k \in Cards, NEW i \in DOMAIN k.conns PROVE With(k, k, i, k.conns[i])
  BY DEF With

(* plci_change_state with an event that does not end the connection.       *)
LEMMA PlciMoves ==
  ASSUME NEW k \in Cards, NEW i \in DOMAIN k.conns, NEW e \in PlciEvents,
         NEW x, x = PlciTo[e], x # "NONE"
  PROVE  With(k, plci_change_state(k, i, e), i,
              IF k.conns[i].state \in PlciFrom(e) THEN [k.conns[i] EXCEPT !.state = x]
              ELSE k.conns[i])
  <1>1. x \in PlciStates
    BY DEF PlciEvents, PlciTo, PlciStates
  <1>2. CASE k.conns[i].state \in PlciFrom(e)
    <2>1. plci_change_state(k, i, e) = InState(k, i, x)
      BY <1>2, PlciChange
    <2>2. QED
      BY <1>1, <1>2, <2>1, InStateIs
  <1>3. CASE k.conns[i].state \notin PlciFrom(e)
    <2>1. plci_change_state(k, i, e) = k
      BY <1>3, PlciChange
    <2>2. QED
      BY <1>3, <2>1, WithSelf
  <1>4. QED
    BY <1>2, <1>3

(* ... and with one that does.                                             *)
LEMMA PlciEnds ==
  ASSUME NEW k \in Cards, NEW i \in DOMAIN k.conns, NEW e \in PlciEvents,
         PlciTo[e] = "NONE", NEW g, g = plci_change_state(k, i, e)
  PROVE  /\ g \in Cards /\ g.msgid = k.msgid /\ g.out = k.out
         /\ k.conns[i].state \notin PlciFrom(e) => g = k
         /\ k.conns[i].state \in PlciFrom(e) => g.conns = RemoveAt(InState(k, i, "NONE").conns, i)
  <1> DEFINE h == InState(k, i, "NONE")
  <1>1. With(k, h, i, [k.conns[i] EXCEPT !.state = "NONE"])
    BY InStateIs DEF PlciStates
  <1>2. h \in Cards /\ h.msgid = k.msgid /\ h.out = k.out /\ DOMAIN h.conns = DOMAIN k.conns
    BY <1>1 DEF With
  <1>3. CASE k.conns[i].state \in PlciFrom(e)
    <2>1. g = [h EXCEPT !.conns = RemoveAt(h.conns, i)]
      BY <1>3, PlciChange DEF p0
    <2>2. RemoveAt(h.conns, i) \in Seq(Connection)
      BY <1>2, RemoveConn DEF Cards
    <2> HIDE DEF h
    <2>3. g \in Cards /\ g.msgid = k.msgid /\ g.out = k.out /\ g.conns = RemoveAt(h.conns, i)
      BY <1>2, <2>1, <2>2 DEF Cards
    <2>4. QED
      BY <1>3, <2>3 DEF h
  <1>4. CASE k.conns[i].state \notin PlciFrom(e)
    <2>1. g = k
      BY <1>4, PlciChange
    <2>2. QED
      BY <1>4, <2>1 DEF Cards
  <1>5. QED
    BY <1>3, <1>4

-----------------------------------------------------------------------------
(* Messages.                                                               *)
Msg(cmd, plci, n, num, arg) ==
    [cmd |-> cmd, plci |-> plci, n |-> n, num |-> num, arg |-> arg]

LEMMA PutIs ==
  ASSUME NEW k \in Cards, NEW m \in Message, NEW g, g = Put(k, m)
  PROVE  /\ g \in Cards /\ g.conns = k.conns /\ g.msgid = k.msgid
         /\ g.out = IF m.cmd \in Idle THEN k.out ELSE Tell(k.out, m)
  <1> DEFINE o == IF m.cmd \in Idle THEN k.out ELSE Tell(k.out, m)
  <1>1. o \in Seq(Message)
    BY DEF Cards, Tell
  <1>2. g = [k EXCEPT !.out = o]
    BY DEF Put, Tell
  <1> HIDE DEF o
  <1>3. g \in Cards /\ g.conns = k.conns /\ g.msgid = k.msgid /\ g.out = o
    BY <1>1, <1>2 DEF Cards
  <1>4. QED
    BY <1>3 DEF o

(* A request whose number nobody remembers.                                *)
Plain == {"CONNECT_RESP", "CONNECT_B3_REQ", "CONNECT_B3_RESP", "DISCONNECT_B3_REQ",
          "DISCONNECT_REQ", "DATA_B3_REQ"}

Sends(k, g, m) == /\ g \in Cards /\ g.conns = k.conns /\ g.msgid = k.msgid
                  /\ m \in Message /\ g.out = Tell(k.out, m)

LEMMA RequestIs ==
  ASSUME NEW k \in Cards, NEW cmd \in Plain,
         NEW p \in Plcis \cup {0}, NEW n \in {0, 1}, NEW a \in Nat
  PROVE  Sends(k, Request(k, cmd, p, n, a), Msg(cmd, p, n, 0, a))
  <1> DEFINE m == Msg(cmd, p, n, 0, a)
             g == Request(k, cmd, p, n, a)
  <1>1. m \in Message /\ m.cmd = cmd
    <2>1. 0 \in 0 .. MsgMod - 1
      BY CapiAssumption
    <2>2. cmd \in Commands
      BY DEF Plain, Commands
    <2>3. QED
      BY <2>1, <2>2 DEF Message, Msg
  <1> USE DEF Plain, Remembered, Idle
  <1>2. g = [Put(k, m) EXCEPT !.msgid = Put(k, m).msgid]
    BY DEF Request, Msg
  <1> HIDE DEF m, g
  <1>3. Put(k, m) \in Cards /\ Put(k, m).conns = k.conns /\ Put(k, m).msgid = k.msgid
        /\ Put(k, m).out = Tell(k.out, m)
    BY <1>1, PutIs
  <1>4. g \in Cards /\ g.conns = k.conns /\ g.msgid = k.msgid /\ g.out = Tell(k.out, m)
    BY <1>2, <1>3 DEF Cards
  <1>5. QED
    BY <1>1, <1>4 DEF m, g, Sends

(* A request that takes the next number.                                   *)
LEMMA NumberedIs ==
  ASSUME NEW k \in Cards, NEW cmd \in Remembered,
         NEW p \in Plcis \cup {0}, NEW g, g = Request(k, cmd, p, 0, 0)
  PROVE  /\ g \in Cards /\ g.conns = k.conns /\ g.msgid = (k.msgid + 1) % MsgMod
         /\ Msg(cmd, p, 0, k.msgid, 0) \in Message
         /\ cmd = "ALERT_REQ" => g.out = k.out
         /\ cmd = "CONNECT_REQ" => g.out = Tell(k.out, Msg(cmd, p, 0, k.msgid, 0))
  <1> DEFINE m == Msg(cmd, p, 0, k.msgid, 0)
  <1>1. m \in Message /\ m.cmd = cmd
    <2>1. k.msgid \in 0 .. MsgMod - 1
      BY DEF Cards
    <2>2. cmd \in Commands
      BY DEF Remembered, Commands, Idle
    <2>3. QED
      BY <2>1, <2>2 DEF Message, Msg
  <1>2. g = [Put(k, m) EXCEPT !.msgid = (Put(k, m).msgid + 1) % MsgMod]
    BY DEF Request, Msg
  <1> HIDE DEF m
  <1>3. Put(k, m) \in Cards /\ Put(k, m).conns = k.conns /\ Put(k, m).msgid = k.msgid
        /\ Put(k, m).out = IF cmd \in Idle THEN k.out ELSE Tell(k.out, m)
    BY <1>1, PutIs
  <1>4. (k.msgid + 1) % MsgMod \in 0 .. MsgMod - 1
    <2>1. k.msgid \in 0 .. MsgMod - 1
      BY DEF Cards
    <2>2. MsgMod \in Nat \ {0}
      BY CapiAssumption
    <2>3. QED
      BY <2>1, <2>2
  <1>5. g \in Cards /\ g.conns = k.conns /\ g.msgid = (k.msgid + 1) % MsgMod
        /\ g.out = Put(k, m).out
    BY <1>2, <1>3, <1>4 DEF Cards
  <1>6. QED
    BY <1>1, <1>3, <1>5 DEF m, Idle, Remembered

Reply(m, resp) == [m EXCEPT !.cmd = resp, !.arg = 0]

LEMMA AnswerIs ==
  ASSUME NEW k \in Cards, NEW m \in Message, NEW resp \in Commands, NEW g, g = Answer(k, m, resp)
  PROVE  /\ g \in Cards /\ g.conns = k.conns /\ g.msgid = k.msgid
         /\ Reply(m, resp) \in Message /\ Reply(m, resp).cmd = resp
         /\ Reply(m, resp).plci = m.plci
         /\ g.out = IF resp \in Idle THEN k.out ELSE Tell(k.out, Reply(m, resp))
  <1>1. Reply(m, resp) \in Message /\ Reply(m, resp).cmd = resp /\ Reply(m, resp).plci = m.plci
    BY DEF Message, Reply
  <1>2. g = Put(k, Reply(m, resp))
    BY DEF Answer, Reply
  <1>3. QED
    BY <1>1, <1>2, PutIs

-----------------------------------------------------------------------------
(* The states of a connection that has a PLCI.                             *)
Held == {"ALLOCATED", "ACTIVE", "INCOMING", "ACCEPTING", "DISCONNECTING"}

(* The link of connection c is in use, or will be if the request to clear  *)
(* it is turned down.                                                      *)
Live(c) == /\ c.nccip # NoNcci
           /\ \/ c.nccip.state = "ACTIVE"
              \/ c.nccip.state = "DISCONNECTING" /\ c.nccip.oldstate = "ACTIVE"

(* No data was sent on the link of c.                                      *)
Fresh(c) == ~Live(c) /\ c.nccip.ackqueue = <<>> /\ c.nccip.datahandle = 0

(* The list differs at i at most, ...                                      *)
Near(C, D, i) == /\ C \in Seq(Connection) /\ D \in Seq(Connection)
                 /\ Len(D) = Len(C) /\ DOMAIN D = DOMAIN C /\ i \in DOMAIN C
                 /\ \A j \in DOMAIN C : j # i => D[j] = C[j]

(* ... where connection c has become e: the same call, and one that waits  *)
(* for an answer did so before; ...                                        *)
Soft(c, e) == /\ e.plci = c.plci /\ e.msgid = c.msgid
              /\ c.state \in Held => e.state \in Held
              /\ e.state = "INCOMING" => c.state = "INCOMING"

(* ... and its link has gone, is a new one or is the one it was.           *)
Weak(c, e) == e.nccip # NoNcci =>
                \/ Fresh(e)
                \/ /\ c.nccip # NoNcci /\ (Live(e) <=> Live(c))
                   /\ e.nccip.ackqueue = c.nccip.ackqueue
                   /\ e.nccip.datahandle = c.nccip.datahandle

(* Both at once: what most calls do to a connection.                       *)
Turns(C, D, i) == Near(C, D, i) /\ Soft(C[i], D[i]) /\ Weak(C[i], D[i])

LEMMA SoftSelf == ASSUME NEW c PROVE Soft(c, c) /\ Weak(c, c)
  BY DEF Soft, Weak

LEMMA SoftTwice ==
  ASSUME NEW c, NEW e, NEW f, Soft(c, e), Soft(e, f) PROVE Soft(c, f)
  BY DEF Soft

LEMMA WeakTwice ==
  ASSUME NEW c, NEW e, NEW f, Weak(c, e), Weak(e, f) PROVE Weak(c, f)
  BY DEF Weak, Fresh

LEMMA TurnsSelf ==
  ASSUME NEW C \in Seq(Connection), NEW i \in DOMAIN C PROVE Turns(C, C, i)
  BY SoftSelf DEF Turns, Near

LEMMA TurnsTwice ==
  ASSUME NEW C, NEW D, NEW E, NEW i, Turns(C, D, i), Turns(D, E, i)
  PROVE  Turns(C, E, i)
  <1>1. Soft(C[i], E[i]) /\ Weak(C[i], E[i])
    BY SoftTwice, WeakTwice DEF Turns
  <1>2. Near(C, E, i)
    BY DEF Turns, Near
  <1>3. QED
    BY <1>1, <1>2 DEF Turns

LEMMA WithNear ==
  ASSUME NEW k \in Cards, NEW g, NEW i \in DOMAIN k.conns, NEW c, With(k, g, i, c)
  PROVE  /\ g \in Cards /\ i \in DOMAIN g.conns /\ g.msgid = k.msgid /\ g.out = k.out
         /\ Near(k.conns, g.conns, i) /\ g.conns[i] = c
  BY DEF With, Near, Cards

(* An answer that means nothing to the controller changes nothing.         *)
LEMMA IdleAnswer ==
  ASSUME NEW k \in Cards, NEW m \in Message, NEW resp \in Idle PROVE Answer(k, m, resp) = k
  <1>1. Reply(m, resp).cmd = resp
    BY DEF Reply, Message
  <1>2. Answer(k, m, resp) = Put(k, Reply(m, resp))
    BY DEF Answer, Reply
  <1>3. Put(k, Reply(m, resp)) = [k EXCEPT !.out = k.out]
    BY <1>1 DEF Put
  <1>4. [k EXCEPT !.out = k.out] = k
    BY DEF Cards
  <1>5. QED
    BY <1>2, <1>3, <1>4

(* An event that keeps call and link.                                      *)
LEMMA PlciTurns ==
  ASSUME NEW k \in Cards, NEW i \in DOMAIN k.conns, NEW e \in PlciEvents,
         PlciTo[e] # "NONE", PlciTo[e] # "INCOMING", PlciTo[e] \in Held \/ PlciFrom(e) = {"NONE"},
         NEW g, g = plci_change_state(k, i, e)
  PROVE  /\ g \in Cards /\ i \in DOMAIN g.conns /\ g.msgid = k.msgid /\ g.out = k.out
         /\ Turns(k.conns, g.conns, i)
         /\ g.conns[i].nccip = k.conns[i].nccip
         /\ g.conns[i].state = IF k.conns[i].state \in PlciFrom(e) THEN PlciTo[e]
                               ELSE k.conns[i].state
  <1> DEFINE c == k.conns[i]
             f == IF c.state \in PlciFrom(e) THEN [c EXCEPT !.state = PlciTo[e]] ELSE c
  <1>1. With(k, g, i, f)
    BY PlciMoves
  <1>2. c \in Connection
    BY ConnAt
  <1>3. f.nccip = c.nccip /\ f.plci = c.plci /\ f.msgid = c.msgid
        /\ f.state = IF c.state \in PlciFrom(e) THEN PlciTo[e] ELSE c.state
    BY <1>2 DEF Connection
  <1> HIDE DEF c, f
  <1>4. Soft(c, f)
    <2>1. CASE c.state \in PlciFrom(e)
      BY <1>3, <2>1, Zenon DEF Soft, Held
    <2>2. CASE c.state \notin PlciFrom(e)
      BY <1>3, <2>2, Zenon DEF Soft
    <2>3. QED
      BY <2>1, <2>2
  <1>5. Weak(c, f)
    BY <1>3 DEF Weak, Live
  <1>6. g \in Cards /\ i \in DOMAIN g.conns /\ g.msgid = k.msgid /\ g.out = k.out
        /\ Near(k.conns, g.conns, i) /\ g.conns[i] = f
    BY <1>1 DEF With, Near, Cards
  <1>7. QED
    BY <1>3, <1>4, <1>5, <1>6 DEF Turns, c

(* ... and one of the link that ends neither.                              *)
LEMMA NcciMoves ==
  ASSUME NEW k \in Cards, NEW i \in DOMAIN k.conns, k.conns[i].nccip # NoNcci,
         NEW e \in NcciEvents, NcciTo[e] # "NONE",
         NEW g, g = ncci_change_state(k, i, e),
         NEW x, x = IF NcciTo[e] = "PREVIOUS" THEN k.conns[i].nccip.oldstate ELSE NcciTo[e]
  PROVE  /\ g \in Cards /\ i \in DOMAIN g.conns /\ g.msgid = k.msgid /\ g.out = k.out
         /\ Near(k.conns, g.conns, i)
         /\ Soft(k.conns[i], g.conns[i])
         /\ g.conns[i].nccip # NoNcci /\ g.conns[i].state = k.conns[i].state
         /\ g.conns[i].nccip.ackqueue = k.conns[i].nccip.ackqueue
         /\ g.conns[i].nccip.datahandle = k.conns[i].nccip.datahandle
         /\ k.conns[i].nccip.state \notin NcciFrom(e) => g = k
         /\ k.conns[i].nccip.state \in NcciFrom(e) =>
              /\ g.conns[i].nccip.state = x
              /\ g.conns[i].nccip.oldstate = k.conns[i].nccip.state
  <1>1. k.conns[i] \in Connection
    BY ConnAt
  <1>2. x \in NcciStates
    BY <1>1 DEF Connection, Ncci, NcciEvents, NcciTo, NcciStates
  <1>3. CASE k.conns[i].nccip.state \in NcciFrom(e)
    <2>1. g = InLink(k, i, x)
      BY <1>3, NcciChange
    <2>2. With(k, g, i, Moved(k.conns[i], x))
      BY <1>2, <2>1, InLinkIs
    <2>3. g \in Cards /\ i \in DOMAIN g.conns /\ g.msgid = k.msgid /\ g.out = k.out
          /\ Near(k.conns, g.conns, i) /\ g.conns[i] = Moved(k.conns[i], x)
      BY <2>2, WithNear
    <2>4. QED
      BY <1>1, <1>2, <1>3, <2>3, MovedIs DEF Soft
  <1>4. CASE k.conns[i].nccip.state \notin NcciFrom(e)
    <2>1. g = k
      BY <1>4, NcciChange
    <2>2. With(k, g, i, k.conns[i])
      BY <2>1, WithSelf
    <2>3. QED
      BY <1>4, <2>1, <2>2, WithNear, SoftSelf
  <1>5. QED
    BY <1>3, <1>4

LEMMA FreeTurns ==
  ASSUME NEW k \in Cards, NEW i \in DOMAIN k.conns, NEW g, g = free_ncci(k, i)
  PROVE  /\ g \in Cards /\ i \in DOMAIN g.conns /\ g.msgid = k.msgid /\ g.out = k.out
         /\ Turns(k.conns, g.conns, i) /\ g.conns[i].nccip = NoNcci
  <1> DEFINE c == k.conns[i]
             f == [c EXCEPT !.nccip = NoNcci]
  <1>1. c \in Connection
    BY ConnAt
  <1>2. f \in Connection /\ f.nccip = NoNcci /\ f.plci = c.plci /\ f.msgid = c.msgid
        /\ f.state = c.state
    BY <1>1 DEF Connection
  <1>3. g = [k EXCEPT !.conns = [k.conns EXCEPT ![i] = f]]
    BY DEF free_ncci
  <1> HIDE DEF f
  <1>4. With(k, g, i, f)
    BY <1>2, <1>3, WithIs
  <1>5. g \in Cards /\ i \in DOMAIN g.conns /\ g.msgid = k.msgid /\ g.out = k.out
        /\ Near(k.conns, g.conns, i) /\ g.conns[i] = f
    BY <1>4 DEF With, Near, Cards
  <1>6. Soft(c, f) /\ Weak(c, f)
    BY <1>2 DEF Soft, Weak
  <1>7. QED
    BY <1>2, <1>5, <1>6 DEF Turns

(* A link that is gone takes the call with it.                             *)
LEMMA NcciEnds ==
  ASSUME NEW k \in Cards, NEW i \in DOMAIN k.conns, k.conns[i].nccip # NoNcci,
         NEW e \in NcciEvents, NcciTo[e] = "NONE", k.conns[i].nccip.state \in NcciFrom(e),
         NEW g, g = ncci_change_state(k, i, e)
  PROVE  /\ g \in Cards /\ i \in DOMAIN g.conns /\ g.msgid = k.msgid
         /\ g.out = Tell(k.out, Msg("DISCONNECT_REQ", k.conns[i].plci, 0, 0, 0))
         /\ Turns(k.conns, g.conns, i) /\ g.conns[i].nccip = NoNcci
  <1> DEFINE h == InLink(k, i, "NONE")
             s == Request(h, "DISCONNECT_REQ", h.conns[i].plci, 0, 0)
             t == plci_change_state(s, i, "DISCONNECT_REQ")
  <1>1. g = free_ncci(t, i)
    BY NcciChange DEF n0
  <1>2. With(k, h, i, Moved(k.conns[i], "NONE"))
    BY InLinkIs DEF NcciStates
  <1>3. k.conns[i] \in Connection
    BY ConnAt
  <1>4. /\ h \in Cards /\ i \in DOMAIN h.conns /\ h.msgid = k.msgid /\ h.out = k.out
        /\ Near(k.conns, h.conns, i) /\ h.conns[i] = Moved(k.conns[i], "NONE")
    BY <1>2 DEF With, Near, Cards
  <1>5. Soft(k.conns[i], h.conns[i]) /\ h.conns[i].plci = k.conns[i].plci
    <2>1. "NONE" \in NcciStates
      BY DEF NcciStates
    <2>2. QED
      BY <1>3, <1>4, <2>1, MovedIs DEF Soft
  <1> HIDE DEF h
  <1>6. /\ s \in Cards /\ s.conns = h.conns /\ s.msgid = k.msgid
        /\ s.out = Tell(k.out, Msg("DISCONNECT_REQ", k.conns[i].plci, 0, 0, 0))
    <2>1. h.conns[i].plci \in Plcis \cup {0}
      BY <1>3, <1>5 DEF Connection
    <2>2. "DISCONNECT_REQ" \in Plain
      BY DEF Plain
    <2>3. Sends(h, s, Msg("DISCONNECT_REQ", h.conns[i].plci, 0, 0, 0))
      BY <1>4, <2>1, <2>2, RequestIs
    <2> HIDE DEF s
    <2>4. h.msgid = k.msgid /\ h.out = k.out /\ h.conns[i].plci = k.conns[i].plci
      BY <1>4, <1>5
    <2>5. QED
      BY <2>3, <2>4, Zenon DEF Sends
  <1> HIDE DEF s
  <1>7. /\ t \in Cards /\ i \in DOMAIN t.conns /\ t.msgid = s.msgid /\ t.out = s.out
        /\ Turns(s.conns, t.conns, i)
    <2>1. "DISCONNECT_REQ" \in PlciEvents /\ PlciTo["DISCONNECT_REQ"] = "DISCONNECTING"
      BY DEF PlciEvents, PlciTo
    <2>2. QED
      BY <1>4, <1>6, <2>1, PlciTurns DEF Held
  <1> HIDE DEF t
  <1>8. /\ g \in Cards /\ i \in DOMAIN g.conns /\ g.msgid = t.msgid /\ g.out = t.out
        /\ Turns(t.conns, g.conns, i) /\ g.conns[i].nccip = NoNcci
    BY <1>1, <1>7, FreeTurns
  <1>9. Near(k.conns, g.conns, i)
    BY <1>4, <1>6, <1>7, <1>8 DEF Turns, Near
  <1>10. Soft(k.conns[i], g.conns[i])
    BY <1>5, <1>6, <1>7, <1>8, SoftTwice DEF Turns
  <1>11. Weak(k.conns[i], g.conns[i])
    BY <1>8 DEF Weak
  <1>12. QED
    BY <1>6, <1>7, <1>8, <1>9, <1>10, <1>11 DEF Turns

(* A new link of a connection.                                             *)
LEMMA NewNcciIs ==
  ASSUME NEW k \in Cards, NEW i \in DOMAIN k.conns, NEW n \in {0, 1}, NEW g, g = new_ncci(k, i, n)
  PROVE  /\ g \in Cards /\ i \in DOMAIN g.conns /\ g.msgid = k.msgid /\ g.out = k.out
         /\ Turns(k.conns, g.conns, i) /\ g.conns[i].state = k.conns[i].state
         /\ g.conns[i].nccip # NoNcci /\ g.conns[i].nccip.state = "NONE"
         /\ g.conns[i].nccip.ackqueue = <<>> /\ g.conns[i].nccip.datahandle = 0
  <1> DEFINE c == k.conns[i]
             z == [n |-> n, state |-> "NONE", oldstate |-> "NONE", datahandle |-> 0,
                   ackqueue |-> <<>>]
             f == [c EXCEPT !.nccip = z]
  <1>1. c \in Connection
    BY ConnAt
  <1>2. z \in Ncci
    <2>1. 0 \in 0 .. HandleMod - 1 /\ <<>> \in Seq(0 .. HandleMod - 1)
      BY CapiAssumption
    <2>2. QED
      BY <2>1 DEF Ncci, NcciStates
  <1>3. z # NoNcci /\ z.state = "NONE" /\ z.ackqueue = <<>> /\ z.datahandle = 0
    BY <1>2 DEF NoNcci
  <1>4. f \in Connection /\ f.nccip = z /\ f.plci = c.plci /\ f.msgid = c.msgid
        /\ f.state = c.state
    BY <1>1, <1>2 DEF Connection
  <1>5. g = [k EXCEPT !.conns = [k.conns EXCEPT ![i] = f]]
    BY DEF new_ncci
  <1> HIDE DEF f, z
  <1>6. With(k, g, i, f)
    BY <1>4, <1>5, WithIs
  <1>7. g \in Cards /\ i \in DOMAIN g.conns /\ g.msgid = k.msgid /\ g.out = k.out
        /\ Near(k.conns, g.conns, i) /\ g.conns[i] = f
    BY <1>6 DEF With, Near, Cards
  <1>8. Soft(c, f) /\ Weak(c, f)
    BY <1>3, <1>4 DEF Soft, Weak, Fresh, Live
  <1>9. QED
    BY <1>3, <1>4, <1>7, <1>8 DEF Turns

-----------------------------------------------------------------------------
(* A connection c is linked in at the front, the one at i is taken out.    *)
Joined(C, D, c) == /\ C \in Seq(Connection) /\ D \in Seq(Connection) /\ c \in Connection
                   /\ Len(D) = Len(C) + 1 /\ D[1] = c
                   /\ \A j \in 2 .. Len(C) + 1 : D[j] = C[j - 1]
Parted(C, D, i) == /\ C \in Seq(Connection) /\ D \in Seq(Connection) /\ i \in DOMAIN C
                   /\ Len(D) = Len(C) - 1
                   /\ \A j \in 1 .. Len(C) - 1 : D[j] = C[IF j < i THEN j ELSE j + 1]

LEMMA ConsJoins ==
  ASSUME NEW C \in Seq(Connection), NEW c \in Connection PROVE Joined(C, Cons(c, C), c)
  <1> DEFINE D == Cons(c, C)
  <1>1. /\ D \in Seq(Connection) /\ Len(D) = Len(C) + 1 /\ D[1] = c
        /\ \A j \in 2 .. Len(C) + 1 : D[j] = C[j - 1]
    BY ConsConn
  <1> HIDE DEF D
  <1>2. Joined(C, D, c)
    BY <1>1 DEF Joined
  <1>3. QED
    BY <1>2 DEF D

LEMMA RemoveParts ==
  ASSUME NEW C \in Seq(Connection), NEW i \in DOMAIN C PROVE Parted(C, RemoveAt(C, i), i)
  <1> DEFINE D == RemoveAt(C, i)
  <1>1. /\ D \in Seq(Connection) /\ Len(D) = Len(C) - 1
        /\ \A j \in 1 .. Len(C) - 1 : D[j] = C[IF j < i THEN j ELSE j + 1]
    BY RemoveConn
  <1> HIDE DEF D
  <1>2. Parted(C, D, i)
    BY <1>1 DEF Parted
  <1>3. QED
    BY <1>2 DEF D

(* g is k with a new connection.                                           *)
Begun(k, g, p) ==
    /\ g \in Cards /\ g.msgid = k.msgid /\ g.out = k.out
    /\ \E c \in Connection : /\ Joined(k.conns, g.conns, c) /\ c.plci = p /\ c.msgid = 0
                             /\ c.state = "NONE" /\ c.nccip = NoNcci

LEMMA NewPlciIs ==
  ASSUME NEW k \in Cards, Unused(k) # {}, NEW incoming \in BOOLEAN, NEW p \in Plcis \cup {0},
         NEW g, g = new_plci(k, incoming, p)
  PROVE  Begun(k, g, p)
  <1> DEFINE c == [ptr |-> CHOOSE x \in Unused(k) : TRUE,
                   incoming |-> incoming, disconnecting |-> FALSE,
                   localdisconnect |-> FALSE, plci |-> p,
                   msgid |-> 0, state |-> "NONE", nccip |-> NoNcci]
  <1>1. c \in Connection
    <2>1. (CHOOSE x \in Unused(k) : TRUE) \in Ptrs
      BY DEF Unused
    <2>2. 0 \in 0 .. MsgMod - 1
      BY CapiAssumption
    <2>3. QED
      BY <2>1, <2>2, Zenon DEF Connection, PlciStates
  <1>2. c.plci = p /\ c.msgid = 0 /\ c.state = "NONE" /\ c.nccip = NoNcci
    OBVIOUS
  <1>3. g = [k EXCEPT !.conns = Cons(c, k.conns)]
    BY DEF new_plci
  <1> HIDE DEF c
  <1>4. k.conns \in Seq(Connection)
    BY DEF Cards
  <1>5. Joined(k.conns, Cons(c, k.conns), c)
    BY <1>1, <1>4, ConsJoins
  <1>6. g \in Cards /\ g.msgid = k.msgid /\ g.out = k.out /\ g.conns = Cons(c, k.conns)
    BY <1>3, <1>5 DEF Cards, Joined
  <1>7. QED
    BY <1>1, <1>2, <1>5, <1>6 DEF Begun

LEMMA JoinedWith ==
  ASSUME NEW k, NEW h, NEW g, NEW c, NEW e \in Connection,
         Joined(k.conns, h.conns, c), With(h, g, 1, e)
  PROVE  Joined(k.conns, g.conns, e)
  <1>1. g.conns \in Seq(Connection) /\ Len(g.conns) = Len(h.conns) /\ g.conns[1] = e
        /\ \A j \in DOMAIN h.conns : j # 1 => g.conns[j] = h.conns[j]
    BY DEF With, Cards
  <1>2. /\ k.conns \in Seq(Connection) /\ h.conns \in Seq(Connection)
        /\ Len(h.conns) = Len(k.conns) + 1 /\ Len(k.conns) \in Nat
        /\ \A j \in 2 .. Len(k.conns) + 1 : h.conns[j] = k.conns[j - 1]
    BY DEF Joined
  <1>3. DOMAIN h.conns = 1 .. Len(k.conns) + 1
    BY <1>2
  <1>4. \A j \in 2 .. Len(k.conns) + 1 : g.conns[j] = k.conns[j - 1]
    BY <1>1, <1>2, <1>3
  <1>5. QED
    BY <1>1, <1>2, <1>4 DEF Joined

LEMMA JoinedFirst ==
  ASSUME NEW C, NEW D, NEW c, Joined(C, D, c)
  PROVE  1 \in DOMAIN D /\ D[1] = c
  BY DEF Joined

LEMMA PartedIs ==
  ASSUME NEW k \in Cards, NEW i \in DOMAIN k.conns, NEW h, NEW e, With(k, h, i, e)
  PROVE  Parted(k.conns, RemoveAt(h.conns, i), i)
  <1>1. k.conns \in Seq(Connection) /\ Len(k.conns) \in Nat /\ DOMAIN k.conns = 1 .. Len(k.conns)
    BY DEF Cards
  <1>2. h.conns \in Seq(Connection) /\ Len(h.conns) = Len(k.conns) /\ i \in DOMAIN h.conns
        /\ \A j \in DOMAIN k.conns : j # i => h.conns[j] = k.conns[j]
    BY DEF With, Cards
  <1> DEFINE D == RemoveAt(h.conns, i)
  <1>3. Parted(h.conns, D, i)
    BY <1>2, RemoveParts
  <1> HIDE DEF D
  <1>4. /\ D \in Seq(Connection) /\ Len(D) = Len(k.conns) - 1
        /\ \A j \in 1 .. Len(k.conns) - 1 : D[j] = h.conns[IF j < i THEN j ELSE j + 1]
    BY <1>2, <1>3 DEF Parted
  <1>5. ASSUME NEW j \in 1 .. Len(k.conns) - 1
        PROVE  D[j] = k.conns[IF j < i THEN j ELSE j + 1]
    <2> DEFINE l == IF j < i THEN j ELSE j + 1
    <2>1. l \in DOMAIN k.conns /\ l # i
      BY <1>1
    <2> HIDE DEF l
    <2>2. h.conns[l] = k.conns[l]
      BY <1>2, <2>1
    <2>3. QED
      BY <1>4, <2>2 DEF l
  <1>6. Parted(k.conns, D, i)
    BY <1>1, <1>4, <1>5 DEF Parted
  <1>7. QED
    BY <1>6 DEF D

(* capiconn_connect.                                                       *)
LEMMA ConnectIs ==
  ASSUME NEW k \in Cards, Unused(k) # {}, NEW g, g = capiconn_connect(k)
  PROVE  /\ g \in Cards /\ g.msgid = (k.msgid + 1) % MsgMod
         /\ Msg("CONNECT_REQ", 0, 0, k.msgid, 0) \in Message
         /\ g.out = Tell(k.out, Msg("CONNECT_REQ", 0, 0, k.msgid, 0))
         /\ \E c \in Connection : /\ Joined(k.conns, g.conns, c)
                                  /\ c.plci = 0 /\ c.msgid = k.msgid
                                  /\ c.state = "OUTGOING" /\ c.nccip = NoNcci
  <1> DEFINE a == new_plci(k, FALSE, 0)
             h == [a EXCEPT !.conns[1].msgid = a.msgid]
             t == plci_change_state(h, 1, "CONNECT_REQ")
  <1>1. g = Request(t, "CONNECT_REQ", 0, 0, 0)
    BY DEF capiconn_connect
  <1>2. /\ a \in Cards /\ a.msgid = k.msgid /\ a.out = k.out
        /\ \E c \in Connection : /\ Joined(k.conns, a.conns, c) /\ c.plci = 0 /\ c.msgid = 0
                                 /\ c.state = "NONE" /\ c.nccip = NoNcci
    <2>1. FALSE \in BOOLEAN /\ 0 \in Plcis \cup {0}
      OBVIOUS
    <2>2. Begun(k, a, 0)
      BY <2>1, NewPlciIs, Zenon
    <2> HIDE DEF a
    <2>3. QED
      BY <2>2 DEF Begun
  <1> HIDE DEF a
  <1>3. PICK c \in Connection : /\ Joined(k.conns, a.conns, c) /\ c.plci = 0 /\ c.msgid = 0
                                /\ c.state = "NONE" /\ c.nccip = NoNcci
    BY <1>2
  <1> DEFINE e == [c EXCEPT !.msgid = a.msgid]
             f == [e EXCEPT !.state = "OUTGOING"]
  <1>4. a.msgid \in 0 .. MsgMod - 1
    BY <1>2 DEF Cards
  <1>5. e \in Connection /\ e.msgid = k.msgid /\ e.plci = 0 /\ e.state = "NONE" /\ e.nccip = NoNcci
    BY <1>2, <1>3, <1>4 DEF Connection
  <1>6. 1 \in DOMAIN a.conns /\ a.conns[1] = c
    BY <1>3, JoinedFirst
  <1>7. h = [a EXCEPT !.conns = [a.conns EXCEPT ![1] = e]]
    BY <1>6
  <1> HIDE DEF e, h
  <1>8. With(a, h, 1, e)
    BY <1>2, <1>5, <1>6, <1>7, WithIs
  <1>9. h \in Cards /\ h.msgid = k.msgid /\ h.out = k.out /\ 1 \in DOMAIN h.conns /\ h.conns[1] = e
    BY <1>2, <1>6, <1>8 DEF With
  <1>10. Joined(k.conns, h.conns, e)
    BY <1>3, <1>5, <1>8, JoinedWith
  <1>11. f \in Connection /\ f.msgid = k.msgid /\ f.plci = 0 /\ f.state = "OUTGOING"
         /\ f.nccip = NoNcci
    BY <1>5 DEF Connection, PlciStates
  <1>12. With(h, t, 1, f)
    <2>1. "CONNECT_REQ" \in PlciEvents /\ PlciTo["CONNECT_REQ"] = "OUTGOING"
      BY DEF PlciEvents, PlciTo
    <2>2. e.state \in PlciFrom("CONNECT_REQ")
      BY <1>5, PlciFroms
    <2>3. QED
      BY <1>9, <2>1, <2>2, PlciMoves
  <1> HIDE DEF f, t
  <1>13. t \in Cards /\ t.msgid = k.msgid /\ t.out = k.out
    BY <1>9, <1>12 DEF With
  <1>14. Joined(k.conns, t.conns, f)
    BY <1>10, <1>11, <1>12, JoinedWith
  <1>15. /\ g \in Cards /\ g.conns = t.conns /\ g.msgid = (t.msgid + 1) % MsgMod
         /\ Msg("CONNECT_REQ", 0, 0, t.msgid, 0) \in Message
         /\ g.out = Tell(t.out, Msg("CONNECT_REQ", 0, 0, t.msgid, 0))
    <2>1. "CONNECT_REQ" \in Remembered
      BY DEF Remembered
    <2>2. QED
      BY <1>1, <1>13, <2>1, NumberedIs
  <1>16. QED
    BY <1>11, <1>13, <1>14, <1>15, Zenon

-----------------------------------------------------------------------------
(* What the answer to a call and the ringing it hears do to connection i.  *)
Answers(k, g, i, a) ==
    /\ k.conns[i].state = "INCOMING" /\ g \in Cards /\ g.msgid = k.msgid
    /\ Turns(k.conns, g.conns, i) /\ g.conns[i].state = "ACCEPTING"
    /\ Msg("CONNECT_RESP", k.conns[i].plci, 0, 0, a) \in Message
    /\ g.out = Tell(k.out, Msg("CONNECT_RESP", k.conns[i].plci, 0, 0, a))
Alerts(k, g, i) ==
    /\ k.conns[i].state = "INCOMING" /\ g \in Cards /\ g.msgid = (k.msgid + 1) % MsgMod
    /\ g.out = k.out /\ Near(k.conns, g.conns, i)
    /\ g.conns[i] = [k.conns[i] EXCEPT !.msgid = k.msgid]

(* The application was asked about connection i, or was not.               *)
Asked(k, g, i) == g = k \/ (\E a \in {0, 1, 2} : Answers(k, g, i, a)) \/ Alerts(k, g, i)

LEMMA ConnectRespIs ==
  ASSUME NEW k \in Cards, NEW i \in DOMAIN k.conns, k.conns[i].state = "INCOMING",
         NEW a \in {0, 1, 2}
  PROVE  Answers(k, ConnectResp(k, i, a), i, a)
  <1> DEFINE h == plci_change_state(k, i, "CONNECT_RESP")
             g == Request(h, "CONNECT_RESP", k.conns[i].plci, 0, a)
  <1>1. ConnectResp(k, i, a) = g
    BY DEF ConnectResp
  <1>2. /\ h \in Cards /\ i \in DOMAIN h.conns /\ h.msgid = k.msgid /\ h.out = k.out
        /\ Turns(k.conns, h.conns, i) /\ h.conns[i].state = "ACCEPTING"
    <2>1. "CONNECT_RESP" \in PlciEvents /\ PlciTo["CONNECT_RESP"] = "ACCEPTING"
      BY DEF PlciEvents, PlciTo
    <2>2. k.conns[i].state \in PlciFrom("CONNECT_RESP")
      BY PlciFroms
    <2>3. QED
      BY <2>1, <2>2, PlciTurns DEF Held
  <1> HIDE DEF h
  <1>3. k.conns[i].plci \in Plcis \cup {0}
    BY ConnAt DEF Connection
  <1>4. a \in Nat /\ "CONNECT_RESP" \in Plain
    BY DEF Plain
  <1>5. Sends(h, g, Msg("CONNECT_RESP", k.conns[i].plci, 0, 0, a))
    BY <1>2, <1>3, <1>4, RequestIs
  <1> HIDE DEF g
  <1>6. Answers(k, g, i, a)
    BY <1>2, <1>5, Zenon DEF Answers, Sends
  <1>7. QED
    BY <1>1, <1>6

LEMMA AlertIs ==
  ASSUME NEW k \in Cards, NEW i \in DOMAIN k.conns, k.conns[i].state = "INCOMING"
  PROVE  Alerts(k, Request([k EXCEPT !.conns[i].msgid = k.msgid], "ALERT_REQ",
                           k.conns[i].plci, 0, 0), i)
  <1> DEFINE c == k.conns[i]
             e == [c EXCEPT !.msgid = k.msgid]
             h == [k EXCEPT !.conns[i].msgid = k.msgid]
             g == Request(h, "ALERT_REQ", c.plci, 0, 0)
  <1>1. c \in Connection
    BY ConnAt
  <1>2. c.plci \in Plcis \cup {0} /\ e \in Connection
    BY <1>1 DEF Connection, Cards
  <1>3. h = [k EXCEPT !.conns = [k.conns EXCEPT ![i] = e]]
    OBVIOUS
  <1> HIDE DEF h, e
  <1>4. With(k, h, i, e)
    BY <1>2, <1>3, WithIs
  <1>5. h \in Cards /\ h.msgid = k.msgid /\ h.out = k.out
        /\ Near(k.conns, h.conns, i) /\ h.conns[i] = e
    BY <1>4 DEF With, Near, Cards
  <1>6. "ALERT_REQ" \in Remembered
    BY DEF Remembered
  <1>7. g \in Cards /\ g.conns = h.conns /\ g.msgid = (h.msgid + 1) % MsgMod /\ g.out = h.out
    BY <1>2, <1>5, <1>6, NumberedIs
  <1> HIDE DEF g
  <1>8. Alerts(k, g, i)
    BY <1>5, <1>7, Zenon DEF Alerts, e, c
  <1>9. QED
    BY <1>8 DEF g, h

LEMMA CheckIs ==
  ASSUME NEW k \in Cards, NEW i \in DOMAIN k.conns, NEW complete, NEW answer
  PROVE  Asked(k, check_incoming_complete(k, i, complete, answer), i)
  <1> DEFINE g == CASE answer = "accept" -> capiconn_accept(k, i)
                    [] answer = "ignore" -> capiconn_ignore(k, i)
                    [] answer = "reject" -> capiconn_reject(k, i)
                    [] OTHER -> k
             r == check_incoming_complete(k, i, complete, answer)
  <1>1. r = IF ~complete THEN k
            ELSE IF g.conns[i].state # "INCOMING" THEN g
            ELSE Request([g EXCEPT !.conns[i].msgid = g.msgid], "ALERT_REQ", g.conns[i].plci, 0, 0)
    BY DEF check_incoming_complete
  <1>2. g = k \/ \E a \in {0, 1, 2} : g = ConnectResp(k, i, a)
    BY DEF capiconn_accept, capiconn_ignore, capiconn_reject
  <1> HIDE DEF g, r
  <1>3. CASE k.conns[i].state # "INCOMING"
    <2>1. g = k
      BY <1>2, <1>3 DEF ConnectResp
    <2>2. r = k
      BY <1>1, <1>3, <2>1
    <2>3. QED
      BY <2>2 DEF Asked, r
  <1>4. CASE k.conns[i].state = "INCOMING" /\ g # k
    <2>1. PICK a \in {0, 1, 2} : g = ConnectResp(k, i, a)
      BY <1>2, <1>4
    <2>2. Answers(k, g, i, a)
      BY <1>4, <2>1, ConnectRespIs
    <2>3. g.conns[i].state # "INCOMING"
      BY <2>2 DEF Answers
    <2>4. r = k \/ r = g
      BY <1>1, <2>3
    <2>5. QED
      BY <2>2, <2>4 DEF Asked, r
  <1>5. CASE k.conns[i].state = "INCOMING" /\ g = k
    <2>1. r = k \/ r = Request([k EXCEPT !.conns[i].msgid = k.msgid], "ALERT_REQ",
                               k.conns[i].plci, 0, 0)
      BY <1>1, <1>5
    <2>2. r = k \/ Alerts(k, r, i)
      BY <1>5, <2>1, AlertIs
    <2>3. QED
      BY <2>2 DEF Asked, r
  <1>6. QED
    BY <1>3, <1>4, <1>5

LEMMA AskedType ==
  ASSUME NEW k \in Cards, NEW g, NEW i, Asked(k, g, i) PROVE g \in Cards
  BY DEF Asked, Answers, Alerts

(* A call comes in.                                                        *)
Rings(k, h, p) ==
    /\ h \in Cards /\ h.msgid = k.msgid /\ h.out = k.out
    /\ \E c \in Connection : /\ Joined(k.conns, h.conns, c) /\ c.plci = p /\ c.msgid = 0
                             /\ c.state = "INCOMING" /\ c.nccip = NoNcci
Ignores(k, g, p) ==
    /\ g \in Cards /\ g.conns = k.conns /\ g.msgid = k.msgid
    /\ Msg("CONNECT_RESP", p, 0, 0, 1) \in Message
    /\ g.out = Tell(k.out, Msg("CONNECT_RESP", p, 0, 0, 1))

LEMMA RingsIs ==
  ASSUME NEW k \in Cards, Unused(k) # {}, NEW p \in Plcis \cup {0}
  PROVE  Rings(k, plci_change_state(new_plci(k, TRUE, p), 1, "CONNECT_IND"), p)
  <1> DEFINE a == new_plci(k, TRUE, p)
             h == plci_change_state(a, 1, "CONNECT_IND")
  <1>1. Begun(k, a, p)
    <2>1. TRUE \in BOOLEAN
      OBVIOUS
    <2>2. QED
      BY <2>1, NewPlciIs, Zenon
  <1> HIDE DEF a
  <1>2. a \in Cards /\ a.msgid = k.msgid /\ a.out = k.out
    BY <1>1 DEF Begun
  <1>3. PICK c \in Connection : /\ Joined(k.conns, a.conns, c) /\ c.plci = p /\ c.msgid = 0
                                /\ c.state = "NONE" /\ c.nccip = NoNcci
    BY <1>1 DEF Begun
  <1> DEFINE f == [c EXCEPT !.state = "INCOMING"]
  <1>4. 1 \in DOMAIN a.conns /\ a.conns[1] = c
    BY <1>3, JoinedFirst
  <1>5. f \in Connection /\ f.plci = p /\ f.msgid = 0 /\ f.state = "INCOMING" /\ f.nccip = NoNcci
    BY <1>3 DEF Connection, PlciStates
  <1>6. With(a, h, 1, f)
    <2>1. "CONNECT_IND" \in PlciEvents /\ PlciTo["CONNECT_IND"] = "INCOMING"
      BY DEF PlciEvents, PlciTo
    <2>2. c.state \in PlciFrom("CONNECT_IND")
      BY <1>3, PlciFroms
    <2>3. QED
      BY <1>2, <1>4, <2>1, <2>2, PlciMoves
  <1> HIDE DEF f, h
  <1>7. h \in Cards /\ h.msgid = k.msgid /\ h.out = k.out
    BY <1>2, <1>6 DEF With
  <1>8. Joined(k.conns, h.conns, f)
    BY <1>3, <1>5, <1>6, JoinedWith
  <1>9. Rings(k, h, p)
    BY <1>5, <1>7, <1>8, Zenon DEF Rings
  <1>10. QED
    BY <1>9 DEF h, a

LEMMA IncomingIs ==
  ASSUME NEW k \in Cards, NEW m \in Message, NEW complete, NEW answer,
         NEW g, g = handle_incoming_call(k, m, complete, answer)
  PROVE  \/ Ignores(k, g, m.plci)
         \/ \E h : Rings(k, h, m.plci) /\ Asked(h, g, 1)
  <1>1. m.plci \in Plcis \cup {0}
    BY DEF Message
  <1>2. CASE Unused(k) = {}
    <2> DEFINE r == Request(k, "CONNECT_RESP", m.plci, 0, 1)
    <2>1. "CONNECT_RESP" \in Plain
      BY DEF Plain
    <2>2. Ignores(k, r, m.plci)
      BY <1>1, <2>1, RequestIs DEF Ignores, Sends
    <2>3. g = r
      BY <1>2 DEF handle_incoming_call
    <2>4. QED
      BY <2>2, <2>3
  <1>3. CASE Unused(k) # {}
    <2> DEFINE h == plci_change_state(new_plci(k, TRUE, m.plci), 1, "CONNECT_IND")
    <2>1. g = check_incoming_complete(h, 1, complete, answer)
      BY <1>3 DEF handle_incoming_call
    <2>2. Rings(k, h, m.plci)
      BY <1>1, <1>3, RingsIs
    <2> HIDE DEF h
    <2>3. h \in Cards /\ 1 \in DOMAIN h.conns
      BY <2>2, JoinedFirst DEF Rings
    <2>4. Asked(h, g, 1)
      BY <2>1, <2>3, CheckIs
    <2>5. QED
      BY <2>2, <2>4
  <1>4. QED
    BY <1>2, <1>3

LEMMA InfoIs ==
  ASSUME NEW k \in Cards, NEW m \in Message, NEW complete, NEW answer,
         NEW g, g = InfoInd(k, m, complete, answer)
  PROVE  \/ g = k
         \/ \E i \in DOMAIN k.conns : k.conns[i].plci = m.plci /\ Asked(k, g, i)
  <1> DEFINE i == find_plci_by_plci(k, m.plci)
             r == check_incoming_complete(k, i, complete, answer)
  <1>1. k.conns \in Seq(Connection)
    BY DEF Cards
  <1>2. i = 0 \/ (i # 0 /\ i \in DOMAIN k.conns /\ k.conns[i].plci = m.plci)
    BY <1>1, FindPlci
  <1>3. g = IF i = 0 THEN k ELSE Answer(r, m, "INFO_RESP")
    BY DEF InfoInd
  <1> HIDE DEF i
  <1>4. CASE i # 0
    <2>1. Asked(k, r, i)
      BY <1>2, <1>4, CheckIs
    <2> HIDE DEF r
    <2>2. r \in Cards /\ "INFO_RESP" \in Idle
      BY <2>1, AskedType DEF Idle
    <2>3. g = r
      BY <1>3, <1>4, <2>2, IdleAnswer
    <2>4. QED
      BY <1>2, <1>4, <2>1, <2>3
  <1>5. QED
    BY <1>3, <1>4

-----------------------------------------------------------------------------
(* Connection i goes on, and at most one message about it is sent.         *)
Quiet == {"CONNECT_B3_REQ", "CONNECT_B3_RESP", "DISCONNECT_B3_REQ", "DISCONNECT_REQ"}

Mild(k, g, i) ==
    /\ g \in Cards /\ g.msgid = k.msgid /\ Turns(k.conns, g.conns, i)
    /\ \/ g.out = k.out
       \/ \E m \in Message : /\ m.plci = k.conns[i].plci /\ m.cmd \in Quiet
                             /\ g.out = Tell(k.out, m)

LEMMA QuietRequest ==
  ASSUME NEW k \in Cards, NEW cmd \in Quiet, NEW p \in Plcis \cup {0}, NEW n \in {0, 1}
  PROVE  /\ Sends(k, Request(k, cmd, p, n, 0), Msg(cmd, p, n, 0, 0))
         /\ Msg(cmd, p, n, 0, 0).cmd = cmd /\ Msg(cmd, p, n, 0, 0).plci = p
  <1>1. cmd \in Plain
    BY DEF Quiet, Plain
  <1>2. Msg(cmd, p, n, 0, 0).cmd = cmd /\ Msg(cmd, p, n, 0, 0).plci = p
    BY DEF Msg
  <1>3. QED
    BY <1>1, <1>2, RequestIs

(* First a message, then a change; first a change, then a message.         *)
LEMMA SendsTurns ==
  ASSUME NEW k \in Cards, NEW i, NEW m, NEW h, NEW g, Sends(k, h, m), m.cmd \in Quiet,
         m.plci = k.conns[i].plci, g \in Cards, g.msgid = h.msgid, g.out = h.out,
         Turns(h.conns, g.conns, i)
  PROVE  Mild(k, g, i)
  BY Zenon DEF Sends, Mild

LEMMA TurnsMild ==
  ASSUME NEW k \in Cards, NEW i, NEW h, NEW g, Turns(k.conns, h.conns, i), Mild(h, g, i),
         h.msgid = k.msgid, h.out = k.out
  PROVE  Mild(k, g, i)
  <1>1. Turns(k.conns, g.conns, i)
    BY TurnsTwice DEF Mild
  <1>2. h.conns[i].plci = k.conns[i].plci
    BY DEF Turns, Soft
  <1>3. QED
    BY <1>1, <1>2, Zenon DEF Mild

LEMMA MildTurns ==
  ASSUME NEW k \in Cards, NEW i, NEW h, NEW g, Mild(k, h, i), Turns(h.conns, g.conns, i),
         g \in Cards, g.msgid = h.msgid, g.out = h.out
  PROVE  Mild(k, g, i)
  <1>1. Turns(k.conns, g.conns, i)
    BY TurnsTwice DEF Mild
  <1>2. QED
    BY <1>1, Zenon DEF Mild

(* The flag that the connection is being cleared.                          *)
Flag(k, i) == [k EXCEPT !.conns[i].disconnecting = TRUE]

LEMMA FlagTurns ==
  ASSUME NEW k \in Cards, NEW i \in DOMAIN k.conns, NEW g, g = Flag(k, i)
  PROVE  /\ g \in Cards /\ i \in DOMAIN g.conns /\ g.msgid = k.msgid /\ g.out = k.out
         /\ Turns(k.conns, g.conns, i) /\ g.conns[i].nccip = k.conns[i].nccip
         /\ g.conns[i].state = k.conns[i].state
         /\ With(k, g, i, [k.conns[i] EXCEPT !.disconnecting = TRUE])
  <1> DEFINE c == k.conns[i]
             f == [c EXCEPT !.disconnecting = TRUE]
  <1>1. c \in Connection
    BY ConnAt
  <1>2. f \in Connection /\ f.nccip = c.nccip /\ f.plci = c.plci /\ f.msgid = c.msgid
        /\ f.state = c.state
    BY <1>1 DEF Connection
  <1>3. g = [k EXCEPT !.conns = [k.conns EXCEPT ![i] = f]]
    BY DEF Flag
  <1> HIDE DEF f
  <1>4. With(k, g, i, f)
    BY <1>2, <1>3, WithIs
  <1>5. g \in Cards /\ i \in DOMAIN g.conns /\ g.msgid = k.msgid /\ g.out = k.out
        /\ Near(k.conns, g.conns, i) /\ g.conns[i] = f
    BY <1>4 DEF With, Near, Cards
  <1>6. Soft(c, f) /\ Weak(c, f)
    BY <1>2 DEF Soft, Weak, Live
  <1>7. QED
    BY <1>2, <1>4, <1>5, <1>6 DEF Turns, f

LEMMA DisconnectConfIs ==
  ASSUME NEW k \in Cards, NEW m \in Message, NEW g, g = DisconnectConf(k, m)
  PROVE  g = k \/ \E i \in DOMAIN k.conns : k.conns[i].plci = m.plci /\ Mild(k, g, i)
  <1> DEFINE i == find_plci_by_plci(k, m.plci)
  <1>1. i = 0 \/ (i # 0 /\ i \in DOMAIN k.conns /\ k.conns[i].plci = m.plci)
    BY FindPlci DEF Cards
  <1>2. g = IF i = 0 THEN k ELSE Flag(k, i)
    BY DEF DisconnectConf, Flag
  <1> HIDE DEF i
  <1>3. CASE i # 0
    <2> DEFINE f == Flag(k, i)
    <2>5. i \in DOMAIN k.conns
      BY <1>1, <1>3
    <2>1. f \in Cards /\ f.msgid = k.msgid /\ f.out = k.out /\ Turns(k.conns, f.conns, i)
      BY <2>5, FlagTurns
    <2>2. g = f
      BY <1>2, <1>3
    <2> HIDE DEF f
    <2>3. Mild(k, g, i)
      BY <2>1, <2>2 DEF Mild
    <2>4. QED
      BY <1>1, <1>3, <2>3
  <1>4. QED
    BY <1>2, <1>3

(* The call has ended: the connection is gone.                             *)
LEMMA DisconnectIndIs ==
  ASSUME NEW k \in Cards, NEW m \in Message, NEW g, g = DisconnectInd(k, m)
  PROVE  /\ g \in Cards
         /\ Reply(m, "DISCONNECT_RESP") \in Message
         /\ Reply(m, "DISCONNECT_RESP").cmd = "DISCONNECT_RESP"
         /\ Reply(m, "DISCONNECT_RESP").plci = m.plci
         /\ g.msgid = k.msgid /\ g.out = Tell(k.out, Reply(m, "DISCONNECT_RESP"))
         /\ \/ g.conns = k.conns /\ \A j \in DOMAIN k.conns : k.conns[j].plci # m.plci
            \/ \E i \in DOMAIN k.conns :
                 /\ k.conns[i].plci = m.plci
                 /\ k.conns[i].state \in Held => Parted(k.conns, g.conns, i)
  <1> DEFINE i == find_plci_by_plci(k, m.plci)
             f == Flag(k, i)
             h == plci_change_state(f, i, "DISCONNECT_IND")
             a == Answer(h, m, "DISCONNECT_RESP")
             r == Reply(m, "DISCONNECT_RESP")
  <1>1. \/ i = 0 /\ \A j \in DOMAIN k.conns : k.conns[j].plci # m.plci
        \/ i # 0 /\ i \in DOMAIN k.conns /\ k.conns[i].plci = m.plci
    BY FindPlci DEF Cards
  <1>2. g = IF i = 0 THEN Answer(k, m, "DISCONNECT_RESP")
            ELSE plci_change_state(a, i, "DISCONNECT_RESP")
    BY DEF DisconnectInd, Flag
  <1> HIDE DEF i
  <1>3. "DISCONNECT_RESP" \in Commands /\ "DISCONNECT_RESP" \notin Idle
    BY DEF Commands, Idle
  <1>4. r \in Message /\ r.cmd = "DISCONNECT_RESP" /\ r.plci = m.plci
    BY <1>3, AnswerIs
  <1>5. CASE i = 0
    <2>1. g = Answer(k, m, "DISCONNECT_RESP")
      BY <1>2, <1>5
    <2>2. g \in Cards /\ g.conns = k.conns /\ g.msgid = k.msgid /\ g.out = Tell(k.out, r)
      BY <1>3, <2>1, AnswerIs
    <2> HIDE DEF r
    <2>3. QED
      BY <1>1, <1>4, <1>5, <2>2 DEF r
  <1>6. CASE i # 0
    <2>1. i \in DOMAIN k.conns /\ k.conns[i].plci = m.plci
      BY <1>1, <1>6
    <2>2. f \in Cards /\ i \in DOMAIN f.conns /\ f.msgid = k.msgid /\ f.out = k.out
          /\ f.conns[i].state = k.conns[i].state
          /\ With(k, f, i, [k.conns[i] EXCEPT !.disconnecting = TRUE])
      BY <2>1, FlagTurns
    <2> HIDE DEF f
    <2>3. "DISCONNECT_IND" \in PlciEvents /\ PlciTo["DISCONNECT_IND"] = "DISCONNECTED"
          /\ "DISCONNECT_RESP" \in PlciEvents /\ PlciTo["DISCONNECT_RESP"] = "NONE"
      BY DEF PlciEvents, PlciTo
    <2> DEFINE e == IF f.conns[i].state \in PlciFrom("DISCONNECT_IND")
                    THEN [f.conns[i] EXCEPT !.state = "DISCONNECTED"] ELSE f.conns[i]
    <2>4. With(f, h, i, e)
      BY <2>2, <2>3, PlciMoves
    <2>5. k.conns[i].state \in Held => e.state = "DISCONNECTED"
      <3>1. f.conns[i] \in Connection
        BY <2>2, ConnAt
      <3>2. k.conns[i].state \in Held => e = [f.conns[i] EXCEPT !.state = "DISCONNECTED"]
        BY <2>2, PlciFroms DEF Held
      <3> HIDE DEF e
      <3>3. QED
        BY <3>1, <3>2 DEF Connection
    <2> HIDE DEF h, e
    <2>6. h \in Cards /\ h.msgid = k.msgid /\ h.out = k.out /\ DOMAIN h.conns = DOMAIN k.conns
          /\ h.conns[i] = e /\ \A j \in DOMAIN k.conns : j # i => h.conns[j] = k.conns[j]
      BY <2>2, <2>4 DEF With
    <2>7. a \in Cards /\ a.conns = h.conns /\ a.msgid = k.msgid /\ a.out = Tell(k.out, r)
      <3>1. a \in Cards /\ a.conns = h.conns /\ a.msgid = h.msgid /\ a.out = Tell(h.out, r)
        BY <1>3, <2>6, AnswerIs
      <3>2. QED
        BY <2>6, <3>1, Zenon
    <2> HIDE DEF a, r
    <2>8. i \in DOMAIN a.conns /\ a.conns[i] = e
      BY <2>1, <2>6, <2>7
    <2>9. /\ g \in Cards /\ g.msgid = a.msgid /\ g.out = a.out
          /\ a.conns[i].state \in PlciFrom("DISCONNECT_RESP") =>
               g.conns = RemoveAt(InState(a, i, "NONE").conns, i)
      BY <1>2, <1>6, <2>3, <2>7, <2>8, PlciEnds
    <2>10. ASSUME k.conns[i].state \in Held PROVE Parted(k.conns, g.conns, i)
      <3>1. g.conns = RemoveAt(InState(a, i, "NONE").conns, i)
        BY <2>5, <2>8, <2>9, <2>10, PlciFroms
      <3>2. With(a, InState(a, i, "NONE"), i, [a.conns[i] EXCEPT !.state = "NONE"])
        BY <2>7, <2>8, InStateIs DEF PlciStates
      <3>3. With(a, InState(a, i, "NONE"), i, InState(a, i, "NONE").conns[i])
        BY <3>2 DEF With
      <3>4. Parted(a.conns, g.conns, i)
        BY <2>7, <2>8, <3>1, <3>3, PartedIs
      <3>5. k.conns \in Seq(Connection) /\ Len(k.conns) = Len(a.conns)
            /\ Len(a.conns) \in Nat /\ i \in 1 .. Len(a.conns)
            /\ \A j \in 1 .. Len(a.conns) : j # i => a.conns[j] = k.conns[j]
        BY <2>1, <2>6, <2>7 DEF Cards
      <3> HIDE <2>2, <2>4, <2>5, <2>6, <2>7, <2>8, <2>9, <3>1, <3>2, <3>3
      <3>6. ASSUME NEW j \in 1 .. Len(k.conns) - 1
            PROVE  g.conns[j] = k.conns[IF j < i THEN j ELSE j + 1]
        <4> DEFINE l == IF j < i THEN j ELSE j + 1
        <4>1. l \in 1 .. Len(a.conns) /\ l # i
          BY <3>5
        <4>2. g.conns[j] = a.conns[l]
          BY <3>4, <3>5 DEF Parted
        <4> HIDE DEF l
        <4>3. a.conns[l] = k.conns[l]
          BY <3>5, <4>1
        <4>4. QED
          BY <4>2, <4>3 DEF l
      <3>7. QED
        BY <2>1, <3>4, <3>5, <3>6 DEF Parted
    <2>11. g \in Cards /\ g.msgid = k.msgid /\ g.out = Tell(k.out, r)
      BY <2>7, <2>9, Zenon
    <2>12. QED
      BY <1>4, <2>1, <2>10, <2>11, Zenon DEF r
  <1>7. QED
    BY <1>5, <1>6

-----------------------------------------------------------------------------
(* A call set-up is confirmed: the connection gets its PLCI or goes.       *)
SetPlci(k, i, p) == [k EXCEPT !.conns[i].plci = p]
Placed(c, p) == [c EXCEPT !.plci = p]

LEMMA SetPlciIs ==
  ASSUME NEW k \in Cards, NEW i \in DOMAIN k.conns, NEW p \in Plcis \cup {0}
  PROVE  /\ With(k, SetPlci(k, i, p), i, Placed(k.conns[i], p))
         /\ Placed(k.conns[i], p) \in Connection
         /\ Placed(k.conns[i], p).plci = p
         /\ Placed(k.conns[i], p).msgid = k.conns[i].msgid
         /\ Placed(k.conns[i], p).state = k.conns[i].state
         /\ Placed(k.conns[i], p).nccip = k.conns[i].nccip
  <1> DEFINE c == k.conns[i]
             f == Placed(c, p)
  <1>1. c \in Connection
    BY ConnAt
  <1>2. f \in Connection /\ f.nccip = c.nccip /\ f.plci = p /\ f.msgid = c.msgid
        /\ f.state = c.state
    BY <1>1 DEF Connection, Placed
  <1>3. SetPlci(k, i, p) = [k EXCEPT !.conns = [k.conns EXCEPT ![i] = f]]
    BY DEF SetPlci, Placed
  <1> HIDE DEF f
  <1>4. With(k, SetPlci(k, i, p), i, f)
    BY <1>2, <1>3, WithIs
  <1>5. QED
    BY <1>2, <1>4 DEF f

LEMMA ConnectConfIs ==
  ASSUME NEW k \in Cards, NEW m \in Message, NEW g, g = ConnectConf(k, m)
  PROVE  /\ g \in Cards /\ g.msgid = k.msgid /\ g.out = k.out
         /\ \/ g = k /\ \A j \in DOMAIN k.conns : k.conns[j].msgid # m.num
            \/ \E i \in DOMAIN k.conns :
                 /\ k.conns[i].msgid = m.num
                 /\ k.conns[i].state = "OUTGOING" =>
                      IF m.arg # 0 THEN Parted(k.conns, g.conns, i)
                      ELSE /\ Near(k.conns, g.conns, i)
                           /\ g.conns[i].plci = m.plci /\ g.conns[i].state = "ALLOCATED"
                           /\ g.conns[i].msgid = k.conns[i].msgid
                           /\ g.conns[i].nccip = k.conns[i].nccip
  <1> DEFINE i == find_plci_by_msgid(k, m.num)
             h == SetPlci(k, i, m.plci)
             e == IF m.arg # 0 THEN "CONNECT_CONF_ERROR" ELSE "CONNECT_CONF_OK"
  <1>1. \/ i = 0 /\ \A j \in DOMAIN k.conns : k.conns[j].msgid # m.num
        \/ i # 0 /\ i \in DOMAIN k.conns /\ k.conns[i].msgid = m.num
    BY FindMsgid DEF Cards
  <1>2. g = IF i = 0 THEN k ELSE plci_change_state(h, i, e)
    BY DEF ConnectConf, SetPlci
  <1> HIDE DEF i
  <1>3. CASE i = 0
    BY <1>1, <1>2, <1>3 DEF Cards
  <1>4. CASE i # 0
    <2>1. i \in DOMAIN k.conns /\ k.conns[i].msgid = m.num /\ m.plci \in Plcis \cup {0}
      BY <1>1, <1>4 DEF Message
    <2> DEFINE f == Placed(k.conns[i], m.plci)
    <2>2. With(k, h, i, f) /\ f \in Connection /\ f.plci = m.plci
          /\ f.msgid = k.conns[i].msgid /\ f.state = k.conns[i].state
          /\ f.nccip = k.conns[i].nccip
      BY <2>1, SetPlciIs
    <2> HIDE DEF f, h
    <2>3. h \in Cards /\ i \in DOMAIN h.conns /\ h.conns[i] = f /\ h.msgid = k.msgid
          /\ h.out = k.out
      BY <2>1, <2>2 DEF With
    <2>4. CASE m.arg # 0
      <3>1. "CONNECT_CONF_ERROR" \in PlciEvents /\ PlciTo["CONNECT_CONF_ERROR"] = "NONE"
        BY DEF PlciEvents, PlciTo
      <3>2. g = plci_change_state(h, i, "CONNECT_CONF_ERROR")
        BY <1>2, <1>4, <2>4
      <3>3. /\ g \in Cards /\ g.msgid = h.msgid /\ g.out = h.out
            /\ h.conns[i].state \in PlciFrom("CONNECT_CONF_ERROR") =>
                 g.conns = RemoveAt(InState(h, i, "NONE").conns, i)
        BY <2>3, <3>1, <3>2, PlciEnds
      <3>4. ASSUME k.conns[i].state = "OUTGOING" PROVE Parted(k.conns, g.conns, i)
        <4> DEFINE t == InState(h, i, "NONE")
        <4>1. g.conns = RemoveAt(t.conns, i)
          BY <2>2, <2>3, <3>3, <3>4, PlciFroms
        <4>2. With(h, t, i, [h.conns[i] EXCEPT !.state = "NONE"])
          BY <2>3, InStateIs DEF PlciStates
        <4> HIDE DEF t
        <4>3. With(k, t, i, t.conns[i])
          BY <2>2, <4>2 DEF With
        <4>4. QED
          BY <2>1, <4>1, <4>3, PartedIs
      <3>5. QED
        BY <2>1, <2>3, <2>4, <3>3, <3>4
    <2>5. CASE m.arg = 0
      <3>1. "CONNECT_CONF_OK" \in PlciEvents /\ PlciTo["CONNECT_CONF_OK"] = "ALLOCATED"
        BY DEF PlciEvents, PlciTo
      <3>2. g = plci_change_state(h, i, "CONNECT_CONF_OK")
        BY <1>2, <1>4, <2>5
      <3>3. /\ g \in Cards /\ g.msgid = h.msgid /\ g.out = h.out
            /\ Turns(h.conns, g.conns, i) /\ g.conns[i].nccip = h.conns[i].nccip
            /\ g.conns[i].state = IF h.conns[i].state \in PlciFrom("CONNECT_CONF_OK")
                                  THEN "ALLOCATED" ELSE h.conns[i].state
        BY <2>3, <3>1, <3>2, PlciTurns DEF Held
      <3>4. Near(k.conns, g.conns, i)
        BY <2>1, <2>2, <3>3 DEF With, Turns, Near, Cards
      <3>5. g.conns[i].plci = m.plci /\ g.conns[i].msgid = k.conns[i].msgid
            /\ g.conns[i].nccip = k.conns[i].nccip
        BY <2>2, <2>3, <3>3 DEF Turns, Soft
      <3>6. k.conns[i].state = "OUTGOING" => g.conns[i].state = "ALLOCATED"
        BY <2>2, <2>3, <3>3, PlciFroms
      <3>7. QED
        BY <2>1, <2>3, <2>5, <3>3, <3>4, <3>5, <3>6
    <2>6. QED
      BY <2>4, <2>5
  <1>5. QED
    BY <1>3, <1>4

(* The call is through: the caller asks for the link.                      *)
LEMMA ConnectActiveIs ==
  ASSUME NEW k \in Cards, NEW m \in Message, NEW g, g = ConnectActiveInd(k, m)
  PROVE  g = k \/ \E i \in DOMAIN k.conns : k.conns[i].plci = m.plci /\ Mild(k, g, i)
  <1> DEFINE i == find_plci_by_plci(k, m.plci)
             a == Answer(k, m, "CONNECT_ACTIVE_RESP")
             h == new_ncci(a, i, 0)
             s == Request(h, "CONNECT_B3_REQ", m.plci, 0, 0)
             t == plci_change_state(s, i, "CONNECT_ACTIVE_IND")
  <1>1. i = 0 \/ (i # 0 /\ i \in DOMAIN k.conns /\ k.conns[i].plci = m.plci)
    BY FindPlci DEF Cards
  <1>2. a = k
    BY IdleAnswer DEF Idle
  <1>3. g = IF i = 0 THEN k
            ELSE IF k.conns[i].incoming THEN plci_change_state(a, i, "CONNECT_ACTIVE_IND")
                 ELSE ncci_change_state(t, i, "CONNECT_B3_REQ")
    BY DEF ConnectActiveInd
  <1> HIDE DEF i, a
  <1>4. "CONNECT_ACTIVE_IND" \in PlciEvents /\ PlciTo["CONNECT_ACTIVE_IND"] = "ACTIVE"
    BY DEF PlciEvents, PlciTo
  <1>5. CASE i # 0 /\ k.conns[i].incoming
    <2>1. g = plci_change_state(k, i, "CONNECT_ACTIVE_IND") /\ i \in DOMAIN k.conns
      BY <1>1, <1>2, <1>3, <1>5
    <2>2. g \in Cards /\ g.msgid = k.msgid /\ g.out = k.out /\ Turns(k.conns, g.conns, i)
      BY <1>4, <2>1, PlciTurns DEF Held
    <2>3. QED
      BY <1>1, <1>5, <2>2 DEF Mild
  <1>6. CASE i # 0 /\ ~k.conns[i].incoming
    <2>1. g = ncci_change_state(t, i, "CONNECT_B3_REQ") /\ i \in DOMAIN k.conns
          /\ k.conns[i].plci = m.plci
      BY <1>1, <1>3, <1>6
    <2>2. /\ h \in Cards /\ i \in DOMAIN h.conns /\ h.msgid = k.msgid /\ h.out = k.out
          /\ Turns(k.conns, h.conns, i) /\ h.conns[i].nccip # NoNcci
          /\ h.conns[i].nccip.state = "NONE"
          /\ h.conns[i].nccip.ackqueue = <<>> /\ h.conns[i].nccip.datahandle = 0
      BY <1>2, <2>1, NewNcciIs
    <2> HIDE DEF h
    <2> DEFINE b3 == Msg("CONNECT_B3_REQ", m.plci, 0, 0, 0)
    <2>3. Sends(h, s, b3) /\ b3.cmd = "CONNECT_B3_REQ" /\ b3.plci = m.plci
      <3>1. "CONNECT_B3_REQ" \in Quiet /\ m.plci \in Plcis \cup {0}
        BY DEF Quiet, Message
      <3>2. QED
        BY <2>2, <3>1, QuietRequest
    <2> HIDE DEF s, b3
    <2>4. s \in Cards /\ s.conns = h.conns /\ s.msgid = h.msgid
      BY <2>3 DEF Sends
    <2>5. /\ t \in Cards /\ i \in DOMAIN t.conns /\ t.msgid = s.msgid /\ t.out = s.out
          /\ Turns(s.conns, t.conns, i) /\ t.conns[i].nccip = s.conns[i].nccip
      BY <1>4, <2>2, <2>4, PlciTurns DEF Held
    <2> HIDE DEF t
    <2>6. "CONNECT_B3_REQ" \in NcciEvents /\ NcciTo["CONNECT_B3_REQ"] = "OUTGOING"
      BY DEF NcciEvents, NcciTo
    <2>7. t.conns[i].nccip # NoNcci /\ t.conns[i].nccip.state \in NcciFrom("CONNECT_B3_REQ")
      BY <2>2, <2>4, <2>5, NcciFroms
    <2>8. /\ g \in Cards /\ g.msgid = t.msgid /\ g.out = t.out
          /\ Near(t.conns, g.conns, i) /\ Soft(t.conns[i], g.conns[i])
          /\ g.conns[i].nccip.ackqueue = t.conns[i].nccip.ackqueue
          /\ g.conns[i].nccip.datahandle = t.conns[i].nccip.datahandle
          /\ g.conns[i].nccip.state = "OUTGOING"
      BY <2>1, <2>5, <2>6, <2>7, NcciMoves
    <2>9. Fresh(g.conns[i])
      <3>1. ~Live(g.conns[i])
        BY <2>8 DEF Live
      <3>2. g.conns[i].nccip.ackqueue = <<>> /\ g.conns[i].nccip.datahandle = 0
        BY <2>2, <2>4, <2>5, <2>8
      <3>3. QED
        BY <3>1, <3>2 DEF Fresh
    <2>10. Turns(t.conns, g.conns, i)
      BY <2>8, <2>9 DEF Turns, Weak
    <2>11. Turns(s.conns, g.conns, i)
      BY <2>5, <2>10, TurnsTwice
    <2>12. Mild(h, g, i)
      <3>1. b3.plci = h.conns[i].plci /\ b3.cmd \in Quiet
        BY <2>1, <2>2, <2>3 DEF Turns, Soft, Quiet
      <3>2. g.msgid = s.msgid /\ g.out = s.out
        BY <2>5, <2>8
      <3>3. QED
        BY <2>2, <2>3, <2>8, <2>11, <3>1, <3>2, SendsTurns
    <2>13. Mild(k, g, i)
      BY <2>2, <2>12, TurnsMild
    <2>14. QED
      BY <2>1, <2>13
  <1>7. QED
    BY <1>3, <1>5, <1>6

-----------------------------------------------------------------------------
(* Events of the link.                                                     *)

(* A state of the link that is followed by one with the same use.          *)
LEMMA NcciTurns ==
  ASSUME NEW k \in Cards, NEW i \in DOMAIN k.conns, k.conns[i].nccip # NoNcci,
         NEW e \in {"CONNECT_B3_CONF_OK", "RESET_B3_IND", "DISCONNECT_B3_REQ",
                    "DISCONNECT_B3_CONF_ERROR"},
         NEW g, g = ncci_change_state(k, i, e)
  PROVE  /\ g \in Cards /\ i \in DOMAIN g.conns /\ g.msgid = k.msgid /\ g.out = k.out
         /\ Turns(k.conns, g.conns, i)
  <1> DEFINE x == IF NcciTo[e] = "PREVIOUS" THEN k.conns[i].nccip.oldstate ELSE NcciTo[e]
             z == k.conns[i].nccip
  <1>1. e \in NcciEvents /\ NcciTo[e] # "NONE"
    BY DEF NcciEvents, NcciTo
  <1>2. /\ e = "RESET_B3_IND" => x = "ACTIVE"
        /\ e = "DISCONNECT_B3_REQ" => x = "DISCONNECTING"
        /\ e = "DISCONNECT_B3_CONF_ERROR" => x = z.oldstate
        /\ e = "CONNECT_B3_CONF_OK" => x = "ALLOCATED"
    BY DEF NcciTo
  <1>3. e \in NcciEvents /\ NcciTo[e] # "NONE"
    BY DEF NcciEvents, NcciTo
  <1> DEFINE y == g.conns[i].nccip
  <1>4. /\ g \in Cards /\ i \in DOMAIN g.conns /\ g.msgid = k.msgid /\ g.out = k.out
        /\ Near(k.conns, g.conns, i) /\ Soft(k.conns[i], g.conns[i])
        /\ y # NoNcci /\ y.ackqueue = z.ackqueue /\ y.datahandle = z.datahandle
        /\ z.state \notin NcciFrom(e) => g = k
        /\ z.state \in NcciFrom(e) => y.state = x /\ y.oldstate = z.state
    BY <1>3, NcciMoves
  <1> HIDE DEF x
  <1>5. Live(g.conns[i]) <=> Live(k.conns[i])
    <2>1. CASE z.state \notin NcciFrom(e)
      BY <1>4, <2>1
    <2>2. CASE z.state \in NcciFrom(e) /\ e = "CONNECT_B3_CONF_OK"
      BY <1>2, <1>4, <2>2, NcciFroms DEF Live
    <2>3. CASE z.state \in NcciFrom(e) /\ e = "RESET_B3_IND"
      BY <1>2, <1>4, <2>3, NcciFroms DEF Live
    <2>4. CASE z.state \in NcciFrom(e) /\ e = "DISCONNECT_B3_REQ"
      BY <1>2, <1>4, <2>4, NcciFroms DEF Live
    <2>5. CASE z.state \in NcciFrom(e) /\ e = "DISCONNECT_B3_CONF_ERROR"
      BY <1>2, <1>4, <2>5, NcciFroms DEF Live
    <2>6. QED
      BY <2>1, <2>2, <2>3, <2>4, <2>5
  <1>6. Weak(k.conns[i], g.conns[i])
    BY <1>4, <1>5 DEF Weak
  <1>7. QED
    BY <1>4, <1>6 DEF Turns

LEMMA ResetIs ==
  ASSUME NEW k \in Cards, NEW m \in Message, NEW g, g = ResetB3Ind(k, m)
  PROVE  g = k \/ \E i \in DOMAIN k.conns : k.conns[i].plci = m.plci /\ Mild(k, g, i)
  <1> DEFINE i == find_ncci(k, m.plci)
             h == ncci_change_state(k, i, "RESET_B3_IND")
  <1>1. i = 0 \/ (i # 0 /\ i \in DOMAIN k.conns /\ k.conns[i].plci = m.plci
                  /\ k.conns[i].nccip # NoNcci)
    BY FindNcci DEF Cards
  <1>2. g = IF i = 0 THEN k ELSE Answer(h, m, "RESET_B3_RESP")
    BY DEF ResetB3Ind
  <1> HIDE DEF i
  <1>3. CASE i # 0
    <2>1. h \in Cards /\ h.msgid = k.msgid /\ h.out = k.out /\ Turns(k.conns, h.conns, i)
      BY <1>1, <1>3, NcciTurns
    <2> HIDE DEF h
    <2>2. "RESET_B3_RESP" \in Idle
      BY DEF Idle
    <2>3. g = h
      BY <1>2, <1>3, <2>1, <2>2, IdleAnswer
    <2>4. Mild(k, g, i)
      BY <2>1, <2>3 DEF Mild
    <2>5. QED
      BY <1>1, <1>3, <2>4
  <1>4. QED
    BY <1>2, <1>3

LEMMA ClearConfIs ==
  ASSUME NEW k \in Cards, NEW m \in Message, NEW g, g = DisconnectB3Conf(k, m)
  PROVE  g = k \/ \E i \in DOMAIN k.conns : k.conns[i].plci = m.plci /\ Mild(k, g, i)
  <1> DEFINE i == find_ncci(k, m.plci)
             h == ncci_change_state(k, i, "DISCONNECT_B3_CONF_ERROR")
  <1>1. i = 0 \/ (i # 0 /\ i \in DOMAIN k.conns /\ k.conns[i].plci = m.plci
                  /\ k.conns[i].nccip # NoNcci)
    BY FindNcci DEF Cards
  <1>2. g = IF i = 0 \/ m.arg = 0 THEN k ELSE h
    BY DEF DisconnectB3Conf
  <1> HIDE DEF i
  <1>3. CASE i # 0
    <2>1. h \in Cards /\ h.msgid = k.msgid /\ h.out = k.out /\ Turns(k.conns, h.conns, i)
      BY <1>1, <1>3, NcciTurns
    <2> HIDE DEF h
    <2>2. Mild(k, h, i)
      BY <2>1 DEF Mild
    <2>3. g = k \/ g = h
      BY <1>2
    <2>4. QED
      BY <1>1, <1>3, <2>2, <2>3
  <1>4. QED
    BY <1>2, <1>3

(* The other side asks for a link: it is made and accepted.                *)
LEMMA LinkOfferedIs ==
  ASSUME NEW k \in Cards, NEW m \in Message, NEW g, g = ConnectB3Ind(k, m)
  PROVE  g = k \/ \E i \in DOMAIN k.conns : k.conns[i].plci = m.plci /\ Mild(k, g, i)
  <1> DEFINE i == find_plci_by_plci(k, m.plci)
             h == new_ncci(k, i, m.n)
             t == ncci_change_state(h, i, "CONNECT_B3_IND")
             s == Request(t, "CONNECT_B3_RESP", m.plci, m.n, 0)
             r == Msg("CONNECT_B3_RESP", m.plci, m.n, 0, 0)
  <1>1. i = 0 \/ (i # 0 /\ i \in DOMAIN k.conns /\ k.conns[i].plci = m.plci)
    BY FindPlci DEF Cards
  <1>2. g = IF i = 0 THEN k ELSE ncci_change_state(s, i, "CONNECT_B3_RESP")
    BY DEF ConnectB3Ind
  <1> HIDE DEF i
  <1>3. CASE i # 0
    <2>1. g = ncci_change_state(s, i, "CONNECT_B3_RESP") /\ i \in DOMAIN k.conns
          /\ k.conns[i].plci = m.plci /\ m.n \in {0, 1} /\ m.plci \in Plcis \cup {0}
      BY <1>1, <1>2, <1>3 DEF Message
    <2>2. /\ h \in Cards /\ i \in DOMAIN h.conns /\ h.msgid = k.msgid /\ h.out = k.out
          /\ Turns(k.conns, h.conns, i) /\ h.conns[i].nccip # NoNcci
          /\ h.conns[i].nccip.state = "NONE"
          /\ h.conns[i].nccip.ackqueue = <<>> /\ h.conns[i].nccip.datahandle = 0
      BY <2>1, NewNcciIs
    <2> HIDE DEF h
    <2>3. "CONNECT_B3_IND" \in NcciEvents /\ NcciTo["CONNECT_B3_IND"] = "INCOMING"
          /\ "CONNECT_B3_RESP" \in NcciEvents /\ NcciTo["CONNECT_B3_RESP"] = "ALLOCATED"
      BY DEF NcciEvents, NcciTo
    <2>4. h.conns[i].nccip.state \in NcciFrom("CONNECT_B3_IND")
      BY <2>2, NcciFroms
    <2>5. /\ t \in Cards /\ i \in DOMAIN t.conns /\ t.msgid = h.msgid /\ t.out = h.out
          /\ Near(h.conns, t.conns, i) /\ Soft(h.conns[i], t.conns[i])
          /\ t.conns[i].nccip # NoNcci
          /\ t.conns[i].nccip.ackqueue = h.conns[i].nccip.ackqueue
          /\ t.conns[i].nccip.datahandle = h.conns[i].nccip.datahandle
          /\ t.conns[i].nccip.state = "INCOMING"
      BY <2>2, <2>3, <2>4, NcciMoves
    <2> HIDE DEF t
    <2>6. Sends(t, s, r) /\ r.cmd = "CONNECT_B3_RESP" /\ r.plci = m.plci
      <3>1. "CONNECT_B3_RESP" \in Quiet
        BY DEF Quiet
      <3>2. QED
        BY <2>1, <2>5, <3>1, QuietRequest
    <2> HIDE DEF s, r
    <2>7. s \in Cards /\ s.conns = t.conns /\ s.msgid = t.msgid
      BY <2>6 DEF Sends
    <2>8. s.conns[i].nccip # NoNcci /\ s.conns[i].nccip.state \in NcciFrom("CONNECT_B3_RESP")
      BY <2>5, <2>7, NcciFroms
    <2>9. /\ g \in Cards /\ g.msgid = s.msgid /\ g.out = s.out
          /\ Near(s.conns, g.conns, i) /\ Soft(s.conns[i], g.conns[i])
          /\ g.conns[i].nccip.ackqueue = s.conns[i].nccip.ackqueue
          /\ g.conns[i].nccip.datahandle = s.conns[i].nccip.datahandle
          /\ g.conns[i].nccip.state = "ALLOCATED"
      BY <2>1, <2>3, <2>5, <2>7, <2>8, NcciMoves
    <2>10. Fresh(g.conns[i]) /\ Fresh(t.conns[i])
      <3>1. ~Live(g.conns[i]) /\ ~Live(t.conns[i])
        BY <2>5, <2>9 DEF Live
      <3>2. g.conns[i].nccip.ackqueue = <<>> /\ g.conns[i].nccip.datahandle = 0
            /\ t.conns[i].nccip.ackqueue = <<>> /\ t.conns[i].nccip.datahandle = 0
        BY <2>2, <2>5, <2>7, <2>9
      <3>3. QED
        BY <3>1, <3>2 DEF Fresh
    <2>11. Turns(s.conns, g.conns, i) /\ Turns(h.conns, t.conns, i)
      BY <2>5, <2>9, <2>10 DEF Turns, Weak
    <2>12. Turns(k.conns, t.conns, i)
      BY <2>2, <2>11, TurnsTwice
    <2>13. r.plci = t.conns[i].plci /\ r.cmd \in Quiet
      BY <2>1, <2>6, <2>12 DEF Turns, Soft, Quiet
    <2>14. Mild(t, g, i)
      BY <2>5, <2>6, <2>9, <2>11, <2>13, SendsTurns
    <2>15. t.msgid = k.msgid /\ t.out = k.out
      BY <2>2, <2>5
    <2>16. Mild(k, g, i)
      BY <2>12, <2>14, <2>15, TurnsMild
    <2>17. QED
      BY <2>1, <2>16
  <1>4. QED
    BY <1>2, <1>3

(* The link we asked for is confirmed or refused.                          *)
LinkNo(k, i, n) == [k EXCEPT !.conns[i].nccip.n = n]

LEMMA LinkNoTurns ==
  ASSUME NEW k \in Cards, NEW i \in DOMAIN k.conns, k.conns[i].nccip # NoNcci,
         NEW n \in {0, 1}, NEW g, g = LinkNo(k, i, n)
  PROVE  /\ g \in Cards /\ i \in DOMAIN g.conns /\ g.msgid = k.msgid /\ g.out = k.out
         /\ Turns(k.conns, g.conns, i) /\ g.conns[i].nccip # NoNcci
  <1> DEFINE c == k.conns[i]
             z == [c.nccip EXCEPT !.n = n]
             f == [c EXCEPT !.nccip = z]
  <1>1. c \in Connection /\ c.nccip \in Ncci
    BY ConnAt DEF Connection
  <1>2. z \in Ncci /\ z.state = c.nccip.state /\ z.oldstate = c.nccip.oldstate
        /\ z.ackqueue = c.nccip.ackqueue /\ z.datahandle = c.nccip.datahandle
    BY <1>1 DEF Ncci
  <1>3. z # NoNcci
    BY <1>2 DEF Ncci, NoNcci
  <1>4. f \in Connection /\ f.nccip = z /\ f.plci = c.plci /\ f.msgid = c.msgid
        /\ f.state = c.state
    BY <1>1, <1>2 DEF Connection
  <1>5. g = [k EXCEPT !.conns = [k.conns EXCEPT ![i] = f]]
    BY DEF LinkNo
  <1> HIDE DEF f, z
  <1>6. With(k, g, i, f)
    BY <1>4, <1>5, WithIs
  <1>7. g \in Cards /\ i \in DOMAIN g.conns /\ g.msgid = k.msgid /\ g.out = k.out
        /\ Near(k.conns, g.conns, i) /\ g.conns[i] = f
    BY <1>6 DEF With, Near, Cards
  <1>8. Soft(c, f) /\ Weak(c, f)
    BY <1>2, <1>3, <1>4 DEF Soft, Weak, Live
  <1>9. QED
    BY <1>3, <1>4, <1>7, <1>8 DEF Turns

LEMMA LinkConfIs ==
  ASSUME NEW k \in Cards, NEW m \in Message, NEW g, g = ConnectB3Conf(k, m)
  PROVE  g = k \/ \E i \in DOMAIN k.conns : k.conns[i].plci = m.plci /\ Mild(k, g, i)
  <1> DEFINE i == find_ncci(k, m.plci)
             h == LinkNo(k, i, m.n)
  <1>1. i = 0 \/ (i # 0 /\ i \in DOMAIN k.conns /\ k.conns[i].plci = m.plci
                  /\ k.conns[i].nccip # NoNcci)
    BY FindNcci DEF Cards
  <1>2. g = IF i = 0 THEN k
            ELSE ncci_change_state(h, i, IF m.arg # 0 THEN "CONNECT_B3_CONF_ERROR"
                                         ELSE "CONNECT_B3_CONF_OK")
    BY DEF ConnectB3Conf, LinkNo
  <1> HIDE DEF i
  <1>3. CASE i # 0
    <2>1. i \in DOMAIN k.conns /\ k.conns[i].plci = m.plci /\ k.conns[i].nccip # NoNcci
          /\ m.n \in {0, 1}
      BY <1>1, <1>3 DEF Message
    <2>2. /\ h \in Cards /\ i \in DOMAIN h.conns /\ h.msgid = k.msgid /\ h.out = k.out
          /\ Turns(k.conns, h.conns, i) /\ h.conns[i].nccip # NoNcci
      BY <2>1, LinkNoTurns
    <2> HIDE DEF h
    <2>3. Mild(h, h, i)
      BY <2>2, TurnsSelf DEF Mild, Cards
    <2>7. Mild(h, g, i)
      <3>4. CASE m.arg = 0
        <4>1. g = ncci_change_state(h, i, "CONNECT_B3_CONF_OK")
          BY <1>2, <1>3, <3>4
        <4>2. g \in Cards /\ g.msgid = h.msgid /\ g.out = h.out /\ Turns(h.conns, g.conns, i)
          BY <2>2, <4>1, NcciTurns
        <4>3. QED
          BY <4>2 DEF Mild
      <3>5. CASE m.arg # 0 /\ h.conns[i].nccip.state \in NcciFrom("CONNECT_B3_CONF_ERROR")
        <4>1. g = ncci_change_state(h, i, "CONNECT_B3_CONF_ERROR")
          BY <1>2, <1>3, <3>5
        <4> DEFINE r == Msg("DISCONNECT_REQ", h.conns[i].plci, 0, 0, 0)
        <4>2. "CONNECT_B3_CONF_ERROR" \in NcciEvents /\ NcciTo["CONNECT_B3_CONF_ERROR"] = "NONE"
          BY DEF NcciEvents, NcciTo
        <4>3. g \in Cards /\ g.msgid = h.msgid /\ g.out = Tell(h.out, r)
              /\ Turns(h.conns, g.conns, i)
          BY <2>2, <3>5, <4>1, <4>2, NcciEnds
        <4>4. r \in Message /\ r.cmd \in Quiet /\ r.plci = h.conns[i].plci
          <5>1. "DISCONNECT_REQ" \in Quiet
            BY DEF Quiet
          <5>2. h.conns[i].plci \in Plcis \cup {0}
            BY <2>2, ConnAt DEF Connection
          <5>3. QED
            BY <2>2, <5>1, <5>2, QuietRequest DEF Sends
        <4> HIDE DEF r
        <4>5. QED
          BY <4>3, <4>4, Zenon DEF Mild
      <3>6. CASE m.arg # 0 /\ h.conns[i].nccip.state \notin NcciFrom("CONNECT_B3_CONF_ERROR")
        <4>1. "CONNECT_B3_CONF_ERROR" \in NcciEvents
          BY DEF NcciEvents, NcciTo
        <4>2. g = h
          BY <1>2, <1>3, <3>6, <4>1, NcciChange
        <4>3. QED
          BY <2>3, <4>2
      <3>7. QED
        BY <3>4, <3>5, <3>6
    <2>8. Mild(k, g, i)
      BY <2>2, <2>7, TurnsMild
    <2>9. QED
      BY <2>1, <2>8
  <1>4. QED
    BY <1>2, <1>3

(* The link is up.                                                         *)
Wakes(k, g, i) ==
    /\ g \in Cards /\ g.msgid = k.msgid /\ g.out = k.out
    /\ Near(k.conns, g.conns, i) /\ Soft(k.conns[i], g.conns[i])
    /\ k.conns[i].nccip # NoNcci /\ g.conns[i].nccip # NoNcci
    /\ g.conns[i].nccip.ackqueue = k.conns[i].nccip.ackqueue
    /\ g.conns[i].nccip.datahandle = k.conns[i].nccip.datahandle
    /\ (Live(g.conns[i]) <=> Live(k.conns[i])) \/ ~Live(k.conns[i])

LEMMA LinkUpIs ==
  ASSUME NEW k \in Cards, NEW m \in Message, NEW g, g = ConnectB3ActiveInd(k, m)
  PROVE  g = k \/ \E i \in DOMAIN k.conns : k.conns[i].plci = m.plci /\ Wakes(k, g, i)
  <1> DEFINE i == find_ncci(k, m.plci)
             a == Answer(k, m, "CONNECT_B3_ACTIVE_RESP")
  <1>1. i = 0 \/ (i # 0 /\ i \in DOMAIN k.conns /\ k.conns[i].plci = m.plci
                  /\ k.conns[i].nccip # NoNcci)
    BY FindNcci DEF Cards
  <1>2. a = k
    BY IdleAnswer DEF Idle
  <1>3. g = IF i = 0 THEN k ELSE ncci_change_state(a, i, "CONNECT_B3_ACTIVE_IND")
    BY DEF ConnectB3ActiveInd
  <1> HIDE DEF i, a
  <1>4. CASE i # 0
    <2>1. g = ncci_change_state(k, i, "CONNECT_B3_ACTIVE_IND")
      BY <1>2, <1>3, <1>4
    <2>2. "CONNECT_B3_ACTIVE_IND" \in NcciEvents
          /\ NcciTo["CONNECT_B3_ACTIVE_IND"] = "ACTIVE"
      BY DEF NcciEvents, NcciTo
    <2>3. /\ g \in Cards /\ g.msgid = k.msgid /\ g.out = k.out
          /\ Near(k.conns, g.conns, i) /\ Soft(k.conns[i], g.conns[i])
          /\ g.conns[i].nccip # NoNcci
          /\ g.conns[i].nccip.ackqueue = k.conns[i].nccip.ackqueue
          /\ g.conns[i].nccip.datahandle = k.conns[i].nccip.datahandle
          /\ k.conns[i].nccip.state \notin NcciFrom("CONNECT_B3_ACTIVE_IND") => g = k
      BY <1>1, <1>4, <2>1, <2>2, NcciMoves
    <2>4. k.conns[i].nccip.state \in NcciFrom("CONNECT_B3_ACTIVE_IND") => ~Live(k.conns[i])
      BY NcciFroms DEF Live
    <2>5. Wakes(k, g, i)
      BY <1>1, <1>4, <2>3, <2>4 DEF Wakes
    <2>6. QED
      BY <1>1, <1>4, <2>5
  <1>5. QED
    BY <1>3, <1>4

(* The link has gone.                                                      *)
Clears(k, g, i, r) ==
    /\ g \in Cards /\ g.msgid = k.msgid /\ Turns(k.conns, g.conns, i) /\ ~Live(g.conns[i])
    /\ \/ g.out = Tell(k.out, r)
       \/ \E q \in Message : /\ q.plci = k.conns[i].plci /\ q.cmd = "DISCONNECT_REQ"
                             /\ g.out = Tell(Tell(k.out, r), q)

LEMMA LinkDownIs ==
  ASSUME NEW k \in Cards, NEW m \in Message, NEW g, g = DisconnectB3Ind(k, m),
         NEW r, r = Reply(m, "DISCONNECT_B3_RESP")
  PROVE  /\ r \in Message /\ r.cmd = "DISCONNECT_B3_RESP" /\ r.plci = m.plci
         /\ \/ g = k /\ \A j \in DOMAIN k.conns : k.conns[j].plci = m.plci =>
                          k.conns[find_plci_by_plci(k, m.plci)].nccip = NoNcci
            \/ \E i \in DOMAIN k.conns : k.conns[i].plci = m.plci /\ Clears(k, g, i, r)
  <1> DEFINE i == find_ncci(k, m.plci)
             f == Flag(k, i)
             h == ncci_change_state(f, i, "DISCONNECT_B3_IND")
             a == Answer(h, m, "DISCONNECT_B3_RESP")
  <1>1. \/ i = 0 /\ \A j \in DOMAIN k.conns : k.conns[j].plci = m.plci =>
                          k.conns[find_plci_by_plci(k, m.plci)].nccip = NoNcci
        \/ /\ i # 0 /\ i \in DOMAIN k.conns /\ k.conns[i].plci = m.plci
           /\ k.conns[i].nccip # NoNcci
    BY FindNcci DEF Cards
  <1>2. g = IF i = 0 THEN k ELSE ncci_change_state(a, i, "DISCONNECT_B3_RESP")
    BY DEF DisconnectB3Ind, Flag
  <1> HIDE DEF i
  <1>3. "DISCONNECT_B3_RESP" \in Commands /\ "DISCONNECT_B3_RESP" \notin Idle
    BY DEF Commands, Idle
  <1>4. r \in Message /\ r.cmd = "DISCONNECT_B3_RESP" /\ r.plci = m.plci
    BY <1>3, AnswerIs
  <1>5. CASE i = 0
    BY <1>1, <1>2, <1>4, <1>5
  <1>6. CASE i # 0
    <2>1. i \in DOMAIN k.conns /\ k.conns[i].plci = m.plci /\ k.conns[i].nccip # NoNcci
      BY <1>1, <1>6
    <2>2. /\ f \in Cards /\ i \in DOMAIN f.conns /\ f.msgid = k.msgid /\ f.out = k.out
          /\ Turns(k.conns, f.conns, i) /\ f.conns[i].nccip = k.conns[i].nccip
      BY <2>1, FlagTurns
    <2> HIDE DEF f
    <2>3. "DISCONNECT_B3_IND" \in NcciEvents /\ NcciTo["DISCONNECT_B3_IND"] = "DISCONNECTED"
          /\ "DISCONNECT_B3_RESP" \in NcciEvents /\ NcciTo["DISCONNECT_B3_RESP"] = "NONE"
      BY DEF NcciEvents, NcciTo
    <2>4. /\ h \in Cards /\ i \in DOMAIN h.conns /\ h.msgid = f.msgid /\ h.out = f.out
          /\ Near(f.conns, h.conns, i) /\ Soft(f.conns[i], h.conns[i])
          /\ h.conns[i].nccip # NoNcci
          /\ f.conns[i].nccip.state \notin NcciFrom("DISCONNECT_B3_IND") => h = f
          /\ f.conns[i].nccip.state \in NcciFrom("DISCONNECT_B3_IND") =>
               h.conns[i].nccip.state = "DISCONNECTED"
      BY <2>1, <2>2, <2>3, NcciMoves
    <2> HIDE DEF h
    <2>5. Near(k.conns, h.conns, i) /\ Soft(k.conns[i], h.conns[i])
      BY <2>2, <2>4, SoftTwice DEF Turns, Near
    <2>6. a \in Cards /\ a.conns = h.conns /\ a.msgid = k.msgid /\ a.out = Tell(k.out, r)
      <3>1. a \in Cards /\ a.conns = h.conns /\ a.msgid = h.msgid /\ a.out = Tell(h.out, r)
        BY <1>3, <2>4, AnswerIs
      <3>2. h.msgid = k.msgid /\ h.out = k.out
        BY <2>2, <2>4
      <3>3. QED
        BY <3>1, <3>2, Zenon
    <2> HIDE DEF a
    <2>7. g = ncci_change_state(a, i, "DISCONNECT_B3_RESP") /\ i \in DOMAIN a.conns
          /\ a.conns[i].nccip # NoNcci
      BY <1>2, <1>6, <2>4, <2>6
    <2>8. CASE a.conns[i].nccip.state \in NcciFrom("DISCONNECT_B3_RESP")
      <3> DEFINE q == Msg("DISCONNECT_REQ", a.conns[i].plci, 0, 0, 0)
      <3>1. /\ g \in Cards /\ g.msgid = a.msgid /\ g.out = Tell(a.out, q)
            /\ Turns(a.conns, g.conns, i) /\ g.conns[i].nccip = NoNcci
        BY <2>3, <2>6, <2>7, <2>8, NcciEnds
      <3>2. q \in Message /\ q.cmd = "DISCONNECT_REQ" /\ q.plci = a.conns[i].plci
        <4>1. "DISCONNECT_REQ" \in Quiet
          BY DEF Quiet
        <4>2. a.conns[i].plci \in Plcis \cup {0}
          BY <2>6, <2>7, ConnAt DEF Connection
        <4>3. QED
          BY <2>6, <4>1, <4>2, QuietRequest DEF Sends
      <3> HIDE DEF q
      <3>3. ~Live(g.conns[i]) /\ Weak(k.conns[i], g.conns[i])
        BY <3>1 DEF Live, Weak
      <3>4. Near(k.conns, g.conns, i) /\ Soft(k.conns[i], g.conns[i])
        BY <2>5, <2>6, <3>1, SoftTwice DEF Turns, Near
      <3>5. a.conns[i].plci = k.conns[i].plci
        BY <2>5, <2>6 DEF Soft
      <3>6. g.msgid = k.msgid /\ g.out = Tell(Tell(k.out, r), q)
        BY <2>6, <3>1, Zenon
      <3>7. Clears(k, g, i, r)
        BY <3>1, <3>2, <3>3, <3>4, <3>5, <3>6, Zenon DEF Clears, Turns
      <3>8. QED
        BY <1>4, <2>1, <3>7
    <2>9. CASE a.conns[i].nccip.state \notin NcciFrom("DISCONNECT_B3_RESP")
      <3>1. g = a
        BY <2>3, <2>7, <2>9, NcciChange
      <3>2. h = f
        BY <2>4, <2>6, <2>9, NcciFroms
      <3>3. Turns(k.conns, g.conns, i)
        BY <2>2, <2>6, <3>1, <3>2
      <3>4. ~Live(g.conns[i])
        <4>1. f.conns[i].nccip.state \notin NcciFrom("DISCONNECT_B3_IND")
          BY <2>4, <2>6, <2>9, NcciFroms
        <4>2. g.conns[i].nccip.state = f.conns[i].nccip.state
          BY <2>6, <3>1, <3>2
        <4>3. QED
          BY <4>1, <4>2, NcciFroms DEF Live
      <3>5. Clears(k, g, i, r)
        BY <2>6, <3>1, <3>3, <3>4, Zenon DEF Clears
      <3>6. QED
        BY <1>4, <2>1, <3>5
    <2>10. QED
      BY <2>8, <2>9
  <1>7. QED
    BY <1>5, <1>6

(* A block of data is confirmed.                                           *)
Confirms(k, g, i, x) ==
    /\ g \in Cards /\ g.msgid = k.msgid /\ g.out = k.out
    /\ Near(k.conns, g.conns, i) /\ Soft(k.conns[i], g.conns[i])
    /\ k.conns[i].nccip # NoNcci /\ g.conns[i].nccip # NoNcci
    /\ (Live(g.conns[i]) <=> Live(k.conns[i]))
    /\ g.conns[i].nccip.ackqueue = capi_del_ack(k.conns[i].nccip.ackqueue, x)
    /\ g.conns[i].nccip.datahandle = k.conns[i].nccip.datahandle

LEMMA DelAckType ==
  ASSUME NEW S, NEW q \in Seq(S), NEW x PROVE capi_del_ack(q, x) \in Seq(S)
  <1> DEFINE I == {j \in 1 .. Len(q) : q[j] = x}
  <1>1. CASE \E j \in 1 .. Len(q) : q[j] = x
    <2>1. capi_del_ack(q, x) = RemoveAt(q, IF I # {} THEN Min(I) ELSE 0)
      BY <1>1 DEF capi_del_ack, RemoveFirst, SelectInSeq
    <2>2. I # {} /\ I \subseteq Nat
      BY <1>1
    <2>3. \E y \in I : \A z \in I : y <= z
      BY <2>2, LeastElement
    <2>4. Min(I) \in I
      <3> HIDE DEF I
      <3>1. QED
        BY <2>3 DEF Min
    <2>5. Min(I) \in DOMAIN q
      BY <2>4
    <2>6. capi_del_ack(q, x) = RemoveAt(q, Min(I))
      BY <2>1, <2>2
    <2> HIDE DEF I
    <2>7. QED
      BY <2>5, <2>6, RemoveConn
  <1>2. CASE ~\E j \in 1 .. Len(q) : q[j] = x
    BY <1>2 DEF capi_del_ack, RemoveFirst
  <1>3. QED
    BY <1>1, <1>2

LEMMA DataConfIs ==
  ASSUME NEW k \in Cards, NEW m \in Message, NEW g, g = DataB3Conf(k, m)
  PROVE  \/ g = k /\ \A j \in DOMAIN k.conns : k.conns[j].plci = m.plci =>
                          k.conns[find_plci_by_plci(k, m.plci)].nccip = NoNcci
         \/ \E i \in DOMAIN k.conns : k.conns[i].plci = m.plci /\ Confirms(k, g, i, m.arg)
  <1> DEFINE i == find_ncci(k, m.plci)
             c == k.conns[i]
             q == capi_del_ack(c.nccip.ackqueue, m.arg)
             z == [c.nccip EXCEPT !.ackqueue = q]
             f == [c EXCEPT !.nccip = z]
  <1>1. \/ i = 0 /\ \A j \in DOMAIN k.conns : k.conns[j].plci = m.plci =>
                          k.conns[find_plci_by_plci(k, m.plci)].nccip = NoNcci
        \/ /\ i # 0 /\ i \in DOMAIN k.conns /\ k.conns[i].plci = m.plci
           /\ k.conns[i].nccip # NoNcci
    BY FindNcci DEF Cards
  <1>2. g = IF i = 0 THEN k ELSE [k EXCEPT !.conns = [k.conns EXCEPT ![i] = f]]
    BY DEF DataB3Conf
  <1> HIDE DEF i, q
  <1>3. CASE i # 0
    <2>1. i \in DOMAIN k.conns /\ c.plci = m.plci /\ c.nccip # NoNcci
      BY <1>1, <1>3
    <2>2. c \in Connection
      BY <2>1, ConnAt
    <2>3. c.nccip \in Ncci
      BY <2>1, <2>2 DEF Connection
    <2>4. q \in Seq(0 .. HandleMod - 1)
      BY <2>3, DelAckType DEF Ncci, q
    <2>5. z \in Ncci /\ z.state = c.nccip.state /\ z.oldstate = c.nccip.oldstate
          /\ z.ackqueue = q /\ z.datahandle = c.nccip.datahandle
      BY <2>3, <2>4 DEF Ncci
    <2>6. z # NoNcci
      BY <2>5 DEF Ncci, NoNcci
    <2>7. f \in Connection /\ f.nccip = z /\ f.plci = c.plci /\ f.msgid = c.msgid
          /\ f.state = c.state
      BY <2>2, <2>5 DEF Connection
    <2> HIDE DEF z, f
    <2>8. With(k, g, i, f)
      BY <1>2, <1>3, <2>1, <2>7, WithIs
    <2>9. g \in Cards /\ i \in DOMAIN g.conns /\ g.msgid = k.msgid /\ g.out = k.out
          /\ Near(k.conns, g.conns, i) /\ g.conns[i] = f
      BY <2>1, <2>8 DEF With, Near, Cards
    <2>10. Soft(c, f) /\ (Live(f) <=> Live(c))
      BY <2>1, <2>5, <2>6, <2>7 DEF Soft, Live
    <2>11. Confirms(k, g, i, m.arg)
      BY <2>1, <2>5, <2>6, <2>7, <2>9, <2>10 DEF Confirms, q
    <2>12. QED
      BY <2>1, <2>11
  <1>4. QED
    BY <1>1, <1>2, <1>3

-----------------------------------------------------------------------------
(* The application hangs up.                                               *)
Closing(k, i) == [k EXCEPT !.conns[i].disconnecting = TRUE,
                           !.conns[i].localdisconnect = TRUE]

LEMMA ClosingTurns ==
  ASSUME NEW k \in Cards, NEW i \in DOMAIN k.conns, NEW g, g = Closing(k, i)
  PROVE  /\ g \in Cards /\ i \in DOMAIN g.conns /\ g.msgid = k.msgid /\ g.out = k.out
         /\ Turns(k.conns, g.conns, i) /\ g.conns[i].nccip = k.conns[i].nccip
         /\ g.conns[i].state = k.conns[i].state
  <1> DEFINE h == Flag(k, i)
             c == h.conns[i]
             f == [c EXCEPT !.localdisconnect = TRUE]
  <1>1. /\ h \in Cards /\ i \in DOMAIN h.conns /\ h.msgid = k.msgid /\ h.out = k.out
        /\ Turns(k.conns, h.conns, i) /\ c.nccip = k.conns[i].nccip
        /\ c.state = k.conns[i].state
    BY FlagTurns
  <1>2. g = [h EXCEPT !.conns = [h.conns EXCEPT ![i] = f]]
    BY DEF Closing, Flag
  <1> HIDE DEF h
  <1>3. c \in Connection
    BY <1>1, ConnAt
  <1>4. f \in Connection /\ f.nccip = c.nccip /\ f.plci = c.plci /\ f.msgid = c.msgid
        /\ f.state = c.state
    BY <1>3 DEF Connection
  <1> HIDE DEF f
  <1>5. With(h, g, i, f)
    BY <1>1, <1>2, <1>4, WithIs
  <1>6. g \in Cards /\ i \in DOMAIN g.conns /\ g.msgid = h.msgid /\ g.out = h.out
        /\ Near(h.conns, g.conns, i) /\ g.conns[i] = f
    BY <1>1, <1>5 DEF With, Near, Cards
  <1>7. Soft(c, f) /\ Weak(c, f)
    BY <1>4 DEF Soft, Weak, Live
  <1>8. Turns(h.conns, g.conns, i)
    BY <1>6, <1>7 DEF Turns
  <1>9. Turns(k.conns, g.conns, i)
    BY <1>1, <1>8, TurnsTwice
  <1>10. QED
    BY <1>1, <1>4, <1>6, <1>9

LEMMA DisconnectIs ==
  ASSUME NEW k \in Cards, NEW i \in DOMAIN k.conns, NEW r, r = capiconn_disconnect(k, i)
  PROVE  \/ r = k
         \/ /\ Mild(k, r, i) \/ Answers(k, r, i, 2)
            /\ k.conns[i].nccip # NoNcci \/ k.conns[i].state = "INCOMING" \/ k.conns[i].plci # 0
  <1> DEFINE c == k.conns[i]
             g == Closing(k, i)
  <1>1. c \in Connection
    BY ConnAt
  <1>2. c.plci \in Plcis \cup {0} /\ (c.nccip # NoNcci => c.nccip.n \in {0, 1})
    BY <1>1 DEF Connection, Ncci
  <1>3. /\ g \in Cards /\ i \in DOMAIN g.conns /\ g.msgid = k.msgid /\ g.out = k.out
        /\ Turns(k.conns, g.conns, i) /\ g.conns[i].nccip = c.nccip
        /\ g.conns[i].state = c.state
    BY ClosingTurns
  <1>4. r = IF DisconnectResult(c) # "CAPICONN_OK" THEN k
            ELSE IF c.nccip # NoNcci
             THEN ncci_change_state(Request(g, "DISCONNECT_B3_REQ", c.plci, c.nccip.n, 0),
                                    i, "DISCONNECT_B3_REQ")
             ELSE IF c.state = "INCOMING" THEN capiconn_reject(g, i)
                  ELSE plci_change_state(Request(g, "DISCONNECT_REQ", c.plci, 0, 0),
                                         i, "DISCONNECT_REQ")
    BY DEF capiconn_disconnect, Closing
  <1>5. DisconnectResult(c) = "CAPICONN_OK" =>
          c.nccip # NoNcci \/ c.state = "INCOMING" \/ c.plci # 0
    BY DEF DisconnectResult
  <1>6. g.conns[i].plci = c.plci
    BY <1>3 DEF Turns, Soft
  <1> HIDE DEF c, g
  <1>7. CASE DisconnectResult(c) # "CAPICONN_OK"
    BY <1>4, <1>7
  <1>8. CASE DisconnectResult(c) = "CAPICONN_OK" /\ c.nccip # NoNcci
    <2> DEFINE s == Request(g, "DISCONNECT_B3_REQ", c.plci, c.nccip.n, 0)
               m == Msg("DISCONNECT_B3_REQ", c.plci, c.nccip.n, 0, 0)
    <2>1. "DISCONNECT_B3_REQ" \in Quiet
      BY DEF Quiet
    <2>2. Sends(g, s, m) /\ m.cmd = "DISCONNECT_B3_REQ" /\ m.plci = c.plci
      BY <1>2, <1>3, <1>8, <2>1, QuietRequest
    <2> HIDE DEF s, m
    <2>3. s \in Cards /\ s.conns = g.conns /\ i \in DOMAIN s.conns /\ s.conns[i].nccip # NoNcci
      BY <1>3, <1>8, <2>2 DEF Sends
    <2>4. r = ncci_change_state(s, i, "DISCONNECT_B3_REQ")
      BY <1>4, <1>8 DEF s
    <2>5. r \in Cards /\ r.msgid = s.msgid /\ r.out = s.out /\ Turns(s.conns, r.conns, i)
      BY <2>3, <2>4, NcciTurns
    <2>6. m.cmd \in Quiet /\ m.plci = g.conns[i].plci
      BY <1>6, <2>1, <2>2
    <2>7. Mild(g, r, i)
      BY <1>3, <2>2, <2>5, <2>6, SendsTurns
    <2>8. Mild(k, r, i)
      BY <1>3, <2>7, TurnsMild
    <2>9. QED
      BY <1>8, <2>8 DEF c
  <1>9. CASE DisconnectResult(c) = "CAPICONN_OK" /\ c.nccip = NoNcci /\ c.state = "INCOMING"
    <2>1. r = ConnectResp(g, i, 2)
      BY <1>4, <1>9 DEF capiconn_reject
    <2>2. Answers(g, r, i, 2)
      BY <1>3, <1>9, <2>1, ConnectRespIs
    <2>3. Turns(g.conns, r.conns, i)
      BY <2>2 DEF Answers
    <2>4. Turns(k.conns, r.conns, i)
      BY <1>3, <2>3, TurnsTwice
    <2>5. k.conns[i].state = "INCOMING" /\ k.conns[i].plci = g.conns[i].plci
      BY <1>6, <1>9 DEF c
    <2>6. Answers(k, r, i, 2)
      BY <1>3, <2>2, <2>4, <2>5, Zenon DEF Answers
    <2>7. QED
      BY <2>5, <2>6
  <1>10. CASE DisconnectResult(c) = "CAPICONN_OK" /\ c.nccip = NoNcci /\ c.state # "INCOMING"
    <2> DEFINE s == Request(g, "DISCONNECT_REQ", c.plci, 0, 0)
               m == Msg("DISCONNECT_REQ", c.plci, 0, 0, 0)
    <2>1. "DISCONNECT_REQ" \in Quiet
      BY DEF Quiet
    <2>2. Sends(g, s, m) /\ m.cmd = "DISCONNECT_REQ" /\ m.plci = c.plci
      BY <1>2, <1>3, <2>1, QuietRequest
    <2> HIDE DEF s, m
    <2>3. s \in Cards /\ s.conns = g.conns /\ i \in DOMAIN s.conns
      BY <1>3, <2>2 DEF Sends
    <2>4. r = plci_change_state(s, i, "DISCONNECT_REQ")
      BY <1>4, <1>10 DEF s
    <2>5. "DISCONNECT_REQ" \in PlciEvents /\ PlciTo["DISCONNECT_REQ"] = "DISCONNECTING"
      BY DEF PlciEvents, PlciTo
    <2>6. r \in Cards /\ r.msgid = s.msgid /\ r.out = s.out /\ Turns(s.conns, r.conns, i)
      BY <2>3, <2>4, <2>5, PlciTurns DEF Held
    <2>7. m.cmd \in Quiet /\ m.plci = g.conns[i].plci
      BY <1>6, <2>1, <2>2
    <2>8. Mild(g, r, i)
      BY <1>3, <2>2, <2>6, <2>7, SendsTurns
    <2>9. Mild(k, r, i)
      BY <1>3, <2>8, TurnsMild
    <2>10. QED
      BY <1>5, <1>10, <2>9 DEF c
  <1>11. QED
    BY <1>7, <1>8, <1>9, <1>10

(* The application sends a block of data.                                  *)
Queues(k, g, i) ==
    /\ g \in Cards /\ g.msgid = k.msgid /\ CanSend(k.conns[i])
    /\ Near(k.conns, g.conns, i) /\ Soft(k.conns[i], g.conns[i])
    /\ g.conns[i].nccip # NoNcci /\ Live(g.conns[i])
    /\ g.conns[i].nccip.ackqueue =
         Append(k.conns[i].nccip.ackqueue, k.conns[i].nccip.datahandle)
    /\ g.conns[i].nccip.datahandle = (k.conns[i].nccip.datahandle + 1) % HandleMod
    /\ \E m \in Message : /\ m.cmd = "DATA_B3_REQ" /\ m.plci = k.conns[i].plci
                          /\ m.arg = k.conns[i].nccip.datahandle /\ g.out = Tell(k.out, m)

Queued(g, i, h) == [g EXCEPT !.conns[i].nccip.ackqueue = Append(@, h),
                             !.conns[i].nccip.datahandle = (@ + 1) % HandleMod]

LEMMA QueuedIs ==
  ASSUME NEW g, NEW i, NEW x
  PROVE  Queued(g, i, x) = [[g EXCEPT !.conns[i].nccip.ackqueue = Append(@, x)]
                              EXCEPT !.conns[i].nccip.datahandle = (@ + 1) % HandleMod]
  BY ZenonT(60) DEF Queued

LEMMA SendIs ==
  ASSUME NEW k \in Cards, NEW i \in DOMAIN k.conns, NEW put, NEW r, r = capiconn_send(k, i, put)
  PROVE  r = k \/ Queues(k, r, i)
  <1> DEFINE c == k.conns[i]
             x == c.nccip.datahandle
             g == Request(k, "DATA_B3_REQ", c.plci, c.nccip.n, x)
             m == Msg("DATA_B3_REQ", c.plci, c.nccip.n, 0, x)
             y == [c.nccip EXCEPT !.ackqueue = Append(c.nccip.ackqueue, x)]
             e == [c EXCEPT !.nccip = y]
             h == [g EXCEPT !.conns = [g.conns EXCEPT ![i] = e]]
             z == [y EXCEPT !.datahandle = (x + 1) % HandleMod]
             f == [e EXCEPT !.nccip = z]
  <1>1. CASE CanSend(c) /\ put
    <2>1. c \in Connection
      BY ConnAt
    <2>2. c.nccip \in Ncci /\ c.nccip # NoNcci /\ c.nccip.state = "ACTIVE"
      BY <1>1, <2>1 DEF CanSend, Connection
    <2>3. x \in 0 .. HandleMod - 1 /\ c.nccip.n \in {0, 1} /\ c.plci \in Plcis \cup {0}
          /\ c.nccip.ackqueue \in Seq(0 .. HandleMod - 1)
      BY <2>1, <2>2 DEF Connection, Ncci
    <2>4. x \in Nat /\ (x + 1) % HandleMod \in 0 .. HandleMod - 1
      <3>1. HandleMod \in Nat \ {0}
        BY CapiAssumption
      <3>2. QED
        BY <2>3, <3>1
    <2>5. Sends(k, g, m) /\ m.cmd = "DATA_B3_REQ" /\ m.plci = c.plci /\ m.arg = x
      <3>1. "DATA_B3_REQ" \in Plain
        BY DEF Plain
      <3>2. Sends(k, g, m)
        BY <2>3, <2>4, <3>1, RequestIs
      <3>3. QED
        BY <3>2 DEF Msg
    <2>6. y \in Ncci /\ y.ackqueue = Append(c.nccip.ackqueue, x) /\ y.state = "ACTIVE"
      <3>1. Append(c.nccip.ackqueue, x) \in Seq(0 .. HandleMod - 1)
        BY <2>3
      <3>2. QED
        BY <2>2, <3>1 DEF Ncci
    <2>7. z \in Ncci /\ z.ackqueue = y.ackqueue /\ z.state = "ACTIVE"
          /\ z.datahandle = (x + 1) % HandleMod
      <3> HIDE DEF y, x
      <3>1. QED
        BY <2>4, <2>6 DEF Ncci
    <2>8. z # NoNcci
      BY <2>7 DEF Ncci, NoNcci
    <2>8a. r = Queued(g, i, x)
      BY <1>1, Zenon DEF capiconn_send, Queued
    <2> HIDE DEF g, m
    <2>9. r = [[g EXCEPT !.conns[i].nccip.ackqueue = Append(@, x)]
                 EXCEPT !.conns[i].nccip.datahandle = (@ + 1) % HandleMod]
      BY <2>8a, QueuedIs
    <2>10. g \in Cards /\ g.conns = k.conns /\ g.msgid = k.msgid
      BY <2>5 DEF Sends
    <2>11. [g EXCEPT !.conns[i].nccip.ackqueue = Append(@, x)] = h
      BY <2>10
    <2>12. e \in Connection /\ e.nccip = y /\ e.plci = c.plci /\ e.msgid = c.msgid
           /\ e.state = c.state
      <3> HIDE DEF y
      <3>1. QED
        BY <2>1, <2>6 DEF Connection
    <2>13. y.datahandle = x
      BY <2>2 DEF Ncci
    <2> HIDE DEF e, y, h, x
    <2>14. With(g, h, i, e)
      BY <2>10, <2>12, WithIs DEF h
    <2>15. h \in Cards /\ i \in DOMAIN h.conns /\ h.conns[i] = e /\ h.msgid = g.msgid
           /\ h.out = g.out /\ Near(k.conns, h.conns, i)
      BY <2>10, <2>14 DEF With, Near, Cards
    <2>16. r = [h EXCEPT !.conns = [h.conns EXCEPT ![i] = f]]
      <3>1. r = [h EXCEPT !.conns[i].nccip.datahandle = (h.conns[i].nccip.datahandle + 1) % HandleMod]
        BY <2>9, <2>11
      <3>2. h.conns[i].nccip = y
        BY <2>12, <2>15
      <3>3. r = [h EXCEPT !.conns = [h.conns EXCEPT ![i] = [h.conns[i] EXCEPT !.nccip =
                   [h.conns[i].nccip EXCEPT !.datahandle = (h.conns[i].nccip.datahandle + 1) % HandleMod]]]]
        BY <3>1
      <3>4. QED
        BY <2>13, <2>15, <3>2, <3>3
    <2> HIDE DEF z
    <2>17. f \in Connection /\ f.nccip = z /\ f.plci = c.plci /\ f.msgid = c.msgid
           /\ f.state = c.state
      BY <2>7, <2>12 DEF Connection
    <2> HIDE DEF f
    <2>18. With(h, r, i, f)
      BY <2>15, <2>16, <2>17, WithIs
    <2>19. r \in Cards /\ r.msgid = h.msgid /\ r.out = h.out /\ r.conns[i] = f
           /\ Near(k.conns, r.conns, i)
      BY <2>15, <2>18 DEF With, Near, Cards
    <2>20. Soft(c, f) /\ Live(f)
      BY <2>7, <2>8, <2>17 DEF Soft, Live
    <2>21. r.out = Tell(k.out, m) /\ r.msgid = k.msgid /\ m \in Message
      BY <2>5, <2>10, <2>15, <2>19, Zenon DEF Sends
    <2>22. f.nccip.ackqueue = Append(c.nccip.ackqueue, x)
           /\ f.nccip.datahandle = (x + 1) % HandleMod /\ f.nccip # NoNcci
      BY <2>6, <2>7, <2>8, <2>17
    <2>23. Queues(k, r, i)
      BY <1>1, <2>5, <2>19, <2>20, <2>21, <2>22, Zenon DEF Queues, x
    <2>24. QED
      BY <2>23
  <1>2. CASE ~(CanSend(c) /\ put)
    BY <1>2 DEF capiconn_send
  <1>3. QED
    BY <1>1, <1>2

-----------------------------------------------------------------------------
(* What a message from the controller does, by its kind.                   *)
Handled(k, g, m) ==
    \/ m.cmd = "CONNECT_IND" /\ \/ Ignores(k, g, m.plci)
                                \/ \E h : Rings(k, h, m.plci) /\ Asked(h, g, 1)
    \/ m.cmd = "CONNECT_CONF" /\ g = ConnectConf(k, m)
    \/ m.cmd = "DISCONNECT_IND" /\ g = DisconnectInd(k, m)
    \/ m.cmd = "INFO_IND"
       /\ \E i \in DOMAIN k.conns : k.conns[i].plci = m.plci /\ Asked(k, g, i)
    \/ m.cmd = "DISCONNECT_B3_IND" /\ g = DisconnectB3Ind(k, m)
    \/ m.cmd = "CONNECT_B3_ACTIVE_IND"
       /\ \E i \in DOMAIN k.conns : k.conns[i].plci = m.plci /\ Wakes(k, g, i)
    \/ m.cmd = "DATA_B3_CONF" /\ g = DataB3Conf(k, m)
    \/ m.cmd \in {"CONNECT_ACTIVE_IND", "DISCONNECT_CONF", "CONNECT_B3_IND",
                  "CONNECT_B3_CONF", "RESET_B3_IND", "DISCONNECT_B3_CONF"}
       /\ \E i \in DOMAIN k.conns : k.conns[i].plci = m.plci /\ Mild(k, g, i)
    \/ /\ g = k
       /\ m.cmd \in {"CONNECT_IND", "CONNECT_CONF", "DISCONNECT_IND"} => m.n # 0
       /\ m.cmd \in {"DISCONNECT_B3_IND", "DATA_B3_CONF"} => m.n = 0

LEMMA HandlePlciIs ==
  ASSUME NEW k \in Cards, NEW m \in Message, m.n = 0, NEW complete, NEW answer, NEW g,
         g = handle_plci(k, m, complete, answer)
  PROVE  Handled(k, g, m)
  <1>1. CASE m.cmd = "CONNECT_IND"
    <2>1. g = handle_incoming_call(k, m, complete, answer)
      BY <1>1 DEF handle_plci
    <2>2. QED
      BY <1>1, <2>1, IncomingIs DEF Handled
  <1>2. CASE m.cmd = "CONNECT_CONF"
    BY <1>2 DEF handle_plci, Handled
  <1>3. CASE m.cmd = "CONNECT_ACTIVE_IND"
    <2>1. g = ConnectActiveInd(k, m)
      BY <1>3 DEF handle_plci
    <2>2. g = k \/ \E i \in DOMAIN k.conns : k.conns[i].plci = m.plci /\ Mild(k, g, i)
      BY <2>1, ConnectActiveIs
    <2>3. QED
      BY <1>3, <2>2 DEF Handled
  <1>4. CASE m.cmd = "INFO_IND"
    <2>1. g = InfoInd(k, m, complete, answer)
      BY <1>4 DEF handle_plci
    <2>2. g = k \/ \E i \in DOMAIN k.conns : k.conns[i].plci = m.plci /\ Asked(k, g, i)
      BY <2>1, InfoIs
    <2>3. QED
      BY <1>4, <2>2 DEF Handled
  <1>5. CASE m.cmd = "DISCONNECT_IND"
    BY <1>5 DEF handle_plci, Handled
  <1>6. CASE m.cmd = "DISCONNECT_CONF"
    <2>1. g = DisconnectConf(k, m)
      BY <1>6 DEF handle_plci
    <2>2. g = k \/ \E i \in DOMAIN k.conns : k.conns[i].plci = m.plci /\ Mild(k, g, i)
      BY <2>1, DisconnectConfIs
    <2>3. QED
      BY <1>6, <2>2 DEF Handled
  <1>7. CASE m.cmd \notin {"CONNECT_IND", "CONNECT_CONF", "CONNECT_ACTIVE_IND", "INFO_IND",
                           "DISCONNECT_IND", "DISCONNECT_CONF"}
    <2>1. g = k
      BY <1>7 DEF handle_plci
    <2>2. QED
      BY <1>7, <2>1 DEF Handled
  <1>8. QED
    BY <1>1, <1>2, <1>3, <1>4, <1>5, <1>6, <1>7

LEMMA HandleNcciIs ==
  ASSUME NEW k \in Cards, NEW m \in Message, m.n # 0, NEW g, g = handle_ncci(k, m)
  PROVE  Handled(k, g, m)
  <1>1. CASE m.cmd = "CONNECT_B3_ACTIVE_IND"
    <2>1. g = ConnectB3ActiveInd(k, m)
      BY <1>1 DEF handle_ncci
    <2>2. g = k \/ \E i \in DOMAIN k.conns : k.conns[i].plci = m.plci /\ Wakes(k, g, i)
      BY <2>1, LinkUpIs
    <2>3. QED
      BY <1>1, <2>2 DEF Handled
  <1>2. CASE m.cmd = "CONNECT_B3_IND"
    <2>1. g = ConnectB3Ind(k, m)
      BY <1>2 DEF handle_ncci
    <2>2. g = k \/ \E i \in DOMAIN k.conns : k.conns[i].plci = m.plci /\ Mild(k, g, i)
      BY <2>1, LinkOfferedIs
    <2>3. QED
      BY <1>2, <2>2 DEF Handled
  <1>3. CASE m.cmd = "CONNECT_B3_CONF"
    <2>1. g = ConnectB3Conf(k, m)
      BY <1>3 DEF handle_ncci
    <2>2. g = k \/ \E i \in DOMAIN k.conns : k.conns[i].plci = m.plci /\ Mild(k, g, i)
      BY <2>1, LinkConfIs
    <2>3. QED
      BY <1>3, <2>2 DEF Handled
  <1>4. CASE m.cmd = "DATA_B3_CONF"
    BY <1>4 DEF handle_ncci, Handled
  <1>5. CASE m.cmd = "RESET_B3_IND"
    <2>1. g = ResetB3Ind(k, m)
      BY <1>5 DEF handle_ncci
    <2>2. g = k \/ \E i \in DOMAIN k.conns : k.conns[i].plci = m.plci /\ Mild(k, g, i)
      BY <2>1, ResetIs
    <2>3. QED
      BY <1>5, <2>2 DEF Handled
  <1>6. CASE m.cmd = "DISCONNECT_B3_IND"
    BY <1>6 DEF handle_ncci, Handled
  <1>7. CASE m.cmd = "DISCONNECT_B3_CONF"
    <2>1. g = DisconnectB3Conf(k, m)
      BY <1>7 DEF handle_ncci
    <2>2. g = k \/ \E i \in DOMAIN k.conns : k.conns[i].plci = m.plci /\ Mild(k, g, i)
      BY <2>1, ClearConfIs
    <2>3. QED
      BY <1>7, <2>2 DEF Handled
  <1>8. CASE m.cmd \notin {"CONNECT_B3_ACTIVE_IND", "CONNECT_B3_IND", "CONNECT_B3_CONF",
                           "DATA_B3_CONF", "RESET_B3_IND", "DISCONNECT_B3_IND",
                           "DISCONNECT_B3_CONF"}
    <2>1. g = k
      BY <1>8 DEF handle_ncci
    <2>2. QED
      BY <1>8, <2>1 DEF Handled
  <1>9. QED
    BY <1>1, <1>2, <1>3, <1>4, <1>5, <1>6, <1>7, <1>8

LEMMA InjectIs ==
  ASSUME NEW k \in Cards, NEW m \in Message, NEW complete, NEW answer, NEW g,
         g = capiconn_inject(k, m, complete, answer)
  PROVE  Handled(k, g, m)
  <1>1. CASE m.cmd = "DATA_B3_IND"
    <2>1. g = k \/ g = Answer(k, m, "DATA_B3_RESP")
      BY <1>1 DEF capiconn_inject, handle_data
    <2>2. "DATA_B3_RESP" \in Idle
      BY DEF Idle
    <2>3. g = k
      BY <2>1, <2>2, IdleAnswer
    <2>4. QED
      BY <1>1, <2>3 DEF Handled
  <1>2. CASE m.cmd # "DATA_B3_IND" /\ m.n = 0
    <2>1. g = handle_plci(k, m, complete, answer)
      BY <1>2 DEF capiconn_inject
    <2>2. QED
      BY <1>2, <2>1, HandlePlciIs
  <1>3. CASE m.cmd # "DATA_B3_IND" /\ m.n # 0
    <2>1. g = handle_ncci(k, m)
      BY <1>3 DEF capiconn_inject
    <2>2. QED
      BY <1>3, <2>1, HandleNcciIs
  <1>4. QED
    BY <1>1, <1>2, <1>3

LEMMA HandledType ==
  ASSUME NEW k \in Cards, NEW m \in Message, NEW g, Handled(k, g, m)
  PROVE  g \in Cards
  <1>1. CASE \/ Ignores(k, g, m.plci)
             \/ \E h : Rings(k, h, m.plci) /\ Asked(h, g, 1)
    <2>1. ASSUME NEW h, Rings(k, h, m.plci), Asked(h, g, 1) PROVE g \in Cards
      <3>1. h \in Cards
        BY <2>1 DEF Rings
      <3>2. QED
        BY <2>1, <3>1, AskedType
    <2>2. QED
      BY <1>1, <2>1 DEF Ignores
  <1>2. CASE g = ConnectConf(k, m)
    BY <1>2, ConnectConfIs
  <1>3. CASE g = DisconnectInd(k, m)
    BY <1>3, DisconnectIndIs
  <1>4. CASE \E i \in DOMAIN k.conns : k.conns[i].plci = m.plci /\ Asked(k, g, i)
    BY <1>4, AskedType
  <1>5. CASE g = DisconnectB3Ind(k, m)
    <2>1. g = k \/ \E i \in DOMAIN k.conns :
                      Clears(k, g, i, Reply(m, "DISCONNECT_B3_RESP"))
      BY <1>5, LinkDownIs
    <2>2. QED
      BY <2>1 DEF Clears
  <1>6. CASE \E i \in DOMAIN k.conns : k.conns[i].plci = m.plci /\ Wakes(k, g, i)
    BY <1>6 DEF Wakes
  <1>7. CASE g = DataB3Conf(k, m)
    <2>1. g = k \/ \E i \in DOMAIN k.conns : Confirms(k, g, i, m.arg)
      BY <1>7, DataConfIs
    <2>2. QED
      BY <2>1 DEF Confirms
  <1>8. CASE \E i \in DOMAIN k.conns : k.conns[i].plci = m.plci /\ Mild(k, g, i)
    BY <1>8 DEF Mild
  <1>9. QED
    BY <1>1, <1>2, <1>3, <1>4, <1>5, <1>6, <1>7, <1>8 DEF Handled

-----------------------------------------------------------------------------
(* Types.                                                                  *)
TypeInv == /\ card \in Cards /\ card.out = <<>>
           /\ toCapi \in Seq(Message) /\ toApp \in Seq(Message)
           /\ d \in [Plcis -> DStates] /\ b \in [Plcis -> BStates]
           /\ unconf \in [Plcis -> Seq(Nat)]

TypeCtl == /\ toApp \in Seq(Message)
           /\ d \in [Plcis -> DStates] /\ b \in [Plcis -> BStates]
           /\ unconf \in [Plcis -> Seq(Nat)]

LEMMA TellType ==
  ASSUME NEW S, NEW q \in Seq(S), NEW m \in S
  PROVE  Tell(q, m) \in Seq(S)
  BY DEF Tell

LEMMA SayType ==
  ASSUME NEW cmd \in Commands, NEW p \in Plcis \cup {0}, NEW n \in {0, 1},
         NEW x \in 0 .. MsgMod - 1, NEW a \in Nat
  PROVE  Say(cmd, p, n, x, a) \in Message
  BY DEF Say, Message

LEMMA IndType ==
  ASSUME NEW cmd \in Commands, NEW p \in Plcis \cup {0}, NEW n \in {0, 1}
  PROVE  Ind(cmd, p, n) \in Message
  <1>1. 0 \in 0 .. MsgMod - 1
    BY CapiAssumption
  <1>2. QED
    BY <1>1, SayType DEF Ind

(* What an entry point leaves becomes the state of the library, and what   *)
(* it sent is on its way.                                                  *)
LEMMA BecomesIs ==
  ASSUME NEW k \in Cards, Becomes(k)
  PROVE  /\ card' \in Cards /\ card'.out = <<>>
         /\ card'.conns = k.conns /\ card'.msgid = k.msgid /\ toCapi' = toCapi \o k.out
  <1>1. <<>> \in Seq(Message) /\ k.conns \in Seq(Connection) /\ k.msgid \in 0 .. MsgMod - 1
    BY DEF Cards
  <1>2. card' = [k EXCEPT !.out = <<>>]
    BY DEF Becomes
  <1>3. card' \in Cards /\ card'.out = <<>> /\ card'.conns = k.conns /\ card'.msgid = k.msgid
    BY <1>1, <1>2 DEF Cards
  <1>4. toCapi' = toCapi \o k.out
    BY Zenon DEF Becomes
  <1>5. QED
    BY <1>3, <1>4, Zenon

LEMMA ConcatType ==
  ASSUME NEW S, NEW q \in Seq(S), NEW r \in Seq(S) PROVE q \o r \in Seq(S)
  OBVIOUS

LEMMA BecomesType ==
  ASSUME TypeInv, NEW k \in Cards, Becomes(k)
  PROVE  card' \in Cards /\ card'.out = <<>> /\ toCapi' \in Seq(Message)
  <1>1. k.out \in Seq(Message)
    BY DEF Cards
  <1>2. toCapi \in Seq(Message)
    BY DEF TypeInv
  <1>3. toCapi \o k.out \in Seq(Message)
    BY <1>1, <1>2, ConcatType
  <1>4. card' \in Cards /\ card'.out = <<>> /\ toCapi' = toCapi \o k.out
    BY BecomesIs
  <1>5. QED
    BY <1>3, <1>4, Zenon

LEMMA InjectType ==
  ASSUME TypeInv, Inject PROVE TypeInv'
  <1>1. PICK complete \in BOOLEAN, answer \in {"accept", "ignore", "reject", "wait"} :
          Becomes(capiconn_inject(card, Head(toApp), complete, answer))
    BY DEF Inject
  <1>2. Head(toApp) \in Message /\ toApp' \in Seq(Message)
    BY DEF Inject, Receive, TypeInv
  <1>3. capiconn_inject(card, Head(toApp), complete, answer) \in Cards
    <2>1. card \in Cards
      BY DEF TypeInv
    <2>2. Handled(card, capiconn_inject(card, Head(toApp), complete, answer), Head(toApp))
      BY <1>2, <2>1, InjectIs
    <2>3. QED
      BY <1>2, <2>1, <2>2, HandledType
  <1>4. card' \in Cards /\ card'.out = <<>> /\ toCapi' \in Seq(Message)
    BY <1>1, <1>3, BecomesType
  <1>5. QED
    BY <1>2, <1>4 DEF Inject, Controller, TypeInv

LEMMA DisconnectType ==
  ASSUME NEW k \in Cards, NEW i \in DOMAIN k.conns, NEW g, g = capiconn_disconnect(k, i)
  PROVE  g \in Cards
  <1>1. g = k \/ Mild(k, g, i) \/ Answers(k, g, i, 2)
    BY DisconnectIs
  <1>2. QED
    BY <1>1 DEF Mild, Answers

LEMMA ApplicationType ==
  ASSUME TypeInv, Connect \/ Decide \/ Disconnect \/ Send PROVE TypeInv'
  <1>1. card \in Cards
    BY DEF TypeInv
  <1>2. \E k \in Cards : Becomes(k)
    <2>1. CASE Connect
      <3>1. Unused(card) # {} /\ Becomes(capiconn_connect(card))
        BY <2>1 DEF Connect
      <3>2. capiconn_connect(card) \in Cards
        BY <1>1, <3>1, ConnectIs
      <3>3. QED
        BY <3>1, <3>2
    <2>2. CASE Decide
      <3>1. PICK i \in DOMAIN card.conns : card.conns[i].state = "INCOMING"
                /\ \/ Becomes(capiconn_accept(card, i))
                   \/ Becomes(capiconn_ignore(card, i))
                   \/ Becomes(capiconn_reject(card, i))
        BY <2>2 DEF Decide, Conns
      <3>2. \A a \in {0, 1, 2} : ConnectResp(card, i, a) \in Cards
        BY <1>1, <3>1, ConnectRespIs DEF Answers
      <3>3. QED
        BY <3>1, <3>2 DEF capiconn_accept, capiconn_ignore, capiconn_reject
    <2>3. CASE Disconnect
      <3>1. PICK i \in DOMAIN card.conns : Becomes(capiconn_disconnect(card, i))
        BY <2>3 DEF Disconnect, Conns
      <3>2. capiconn_disconnect(card, i) \in Cards
        BY <1>1, DisconnectType
      <3>3. QED
        BY <3>1, <3>2
    <2>4. CASE Send
      <3>1. PICK i \in DOMAIN card.conns, put \in BOOLEAN : Becomes(capiconn_send(card, i, put))
        BY <2>4 DEF Send, Conns
      <3>2. capiconn_send(card, i, put) = card \/ Queues(card, capiconn_send(card, i, put), i)
        BY <1>1, SendIs
      <3>3. capiconn_send(card, i, put) \in Cards
        BY <1>1, <3>2 DEF Queues
      <3>4. QED
        BY <3>1, <3>3
    <2>5. QED
      BY <2>1, <2>2, <2>3, <2>4
  <1>3. card' \in Cards /\ card'.out = <<>> /\ toCapi' \in Seq(Message)
    BY <1>2, BecomesType
  <1>4. UNCHANGED <<toApp, d, b, unconf>>
    BY DEF Connect, Decide, Disconnect, Send, Controller
  <1>5. QED
    BY <1>3, <1>4 DEF TypeInv

LEMMA ReleaseType ==
  ASSUME TypeInv, NEW p \in Plcis \cup {0}, NEW q \in Seq(Message), Release(p, q)
  PROVE  d' \in [Plcis -> DStates] /\ b' \in [Plcis -> BStates] /\ toApp' \in Seq(Message)
  <1>1. {"DISCONNECT_IND", "DISCONNECT_B3_IND"} \subseteq Commands
    BY DEF Commands
  <1>2. Ind("DISCONNECT_IND", p, 0) \in Message /\ Ind("DISCONNECT_B3_IND", p, 1) \in Message
    BY <1>1, IndType
  <1>3. Tell(q, Ind("DISCONNECT_IND", p, 0)) \in Seq(Message)
        /\ Tell(q, Ind("DISCONNECT_B3_IND", p, 1)) \in Seq(Message)
    BY <1>2, TellType
  <1>4. {"clearing", "releasing"} \subseteq DStates /\ "clearing" \in BStates
    BY DEF DStates, BStates
  <1>5. d \in [Plcis -> DStates] /\ b \in [Plcis -> BStates]
    BY DEF TypeInv
  <1>6. CASE b[p] \in {"none", "clearing"}
    BY <1>3, <1>4, <1>5, <1>6 DEF Release
  <1>7. CASE b[p] \notin {"none", "clearing"}
    BY <1>3, <1>4, <1>5, <1>7 DEF Release
  <1>8. QED
    BY <1>6, <1>7

LEMMA NetworkType ==
  ASSUME TypeInv,
         Ring \/ Digits \/ Answered \/ LinkAsked \/ LinkUp \/ ConfirmData \/ DataOrReset
         \/ (\E p \in Plcis : Hangup(p) \/ LinkDown(p))
  PROVE  TypeInv'
  <1> DEFINE Cmds == {"CONNECT_IND", "INFO_IND", "CONNECT_ACTIVE_IND", "CONNECT_B3_IND",
                      "CONNECT_B3_ACTIVE_IND", "DATA_B3_CONF", "DATA_B3_IND", "RESET_B3_IND",
                      "DISCONNECT_B3_IND"}
  <1>1. Cmds \subseteq Commands /\ Plcis \subseteq Plcis \cup {0}
    BY DEF Commands
  <1> HIDE DEF Cmds
  <1>2. \A cmd \in Cmds, p \in Plcis, n \in {0, 1} : Ind(cmd, p, n) \in Message
    BY <1>1, IndType
  <1>3. \A m \in Message : Tell(toApp, m) \in Seq(Message)
    BY TellType DEF TypeInv
  <1>4. TypeCtl'
    <2>1. \A x \in DStates, p \in Plcis : [d EXCEPT ![p] = x] \in [Plcis -> DStates]
      BY DEF TypeInv, TypeCtl
    <2>2. \A x \in BStates, p \in Plcis : [b EXCEPT ![p] = x] \in [Plcis -> BStates]
      BY DEF TypeInv, TypeCtl
    <2>3. CASE Ring
      <3>1. PICK p \in Plcis : /\ d' = [d EXCEPT ![p] = "ringing"]
                               /\ toApp' = Tell(toApp, Ind("CONNECT_IND", p, 0))
        BY <2>3 DEF Ring
      <3>2. "ringing" \in DStates /\ "CONNECT_IND" \in Cmds
        BY DEF DStates, Cmds
      <3>3. d' \in [Plcis -> DStates] /\ toApp' \in Seq(Message)
        BY <1>2, <1>3, <2>1, <3>1, <3>2
      <3>4. QED
        BY <2>3, <3>3 DEF Ring, TypeInv, TypeCtl
    <2>4. CASE Digits
      BY <1>2, <1>3, <2>4 DEF Digits, TypeInv, TypeCtl, Controller, Cmds
    <2>5. CASE Answered
      <3>1. PICK p \in Plcis :
               /\ d' = [d EXCEPT ![p] = IF @ = "dialing" THEN "active" ELSE "called"]
               /\ toApp' = Tell(toApp, Ind("CONNECT_ACTIVE_IND", p, 0))
        BY <2>5 DEF Answered
      <3>2. {"active", "called"} \subseteq DStates /\ "CONNECT_ACTIVE_IND" \in Cmds
        BY DEF DStates, Cmds
      <3>3. toApp' \in Seq(Message)
        BY <1>2, <1>3, <3>1, <3>2
      <3>4. d' \in [Plcis -> DStates]
        BY <2>1, <3>1, <3>2
      <3>5. QED
        BY <2>5, <3>3, <3>4 DEF Answered, TypeInv, TypeCtl
    <2>6. CASE LinkAsked
      <3>1. PICK p \in Plcis : /\ b' = [b EXCEPT ![p] = "in"]
                               /\ toApp' = Tell(toApp, Ind("CONNECT_B3_IND", p, 1))
        BY <2>6 DEF LinkAsked
      <3>2. "in" \in BStates /\ "CONNECT_B3_IND" \in Cmds
        BY DEF BStates, Cmds
      <3>3. b' \in [Plcis -> BStates] /\ toApp' \in Seq(Message)
        BY <1>2, <1>3, <2>2, <3>1, <3>2
      <3>4. QED
        BY <2>6, <3>3 DEF LinkAsked, TypeInv, TypeCtl
    <2>7. CASE LinkUp
      <3>1. PICK p \in Plcis : /\ b' = [b EXCEPT ![p] = "up"]
                               /\ toApp' = Tell(toApp, Ind("CONNECT_B3_ACTIVE_IND", p, 1))
        BY <2>7 DEF LinkUp
      <3>2. "up" \in BStates /\ "CONNECT_B3_ACTIVE_IND" \in Cmds
        BY DEF BStates, Cmds
      <3>3. b' \in [Plcis -> BStates] /\ toApp' \in Seq(Message)
        BY <1>2, <1>3, <2>2, <3>1, <3>2
      <3>4. QED
        BY <2>7, <3>3 DEF LinkUp, TypeInv, TypeCtl
    <2>8. CASE ConfirmData
      <3>1. PICK p \in Plcis :
               /\ unconf[p] # <<>> /\ unconf' = [unconf EXCEPT ![p] = Tail(@)]
               /\ toApp' = Tell(toApp, Say("DATA_B3_CONF", p, 1, 0, Head(unconf[p])))
        BY <2>8 DEF ConfirmData
      <3>2. unconf[p] \in Seq(Nat) /\ Head(unconf[p]) \in Nat /\ Tail(unconf[p]) \in Seq(Nat)
        BY <3>1 DEF TypeInv, TypeCtl
      <3>3. "DATA_B3_CONF" \in Commands /\ 0 \in 0 .. MsgMod - 1
        BY CapiAssumption DEF Commands
      <3>4. Say("DATA_B3_CONF", p, 1, 0, Head(unconf[p])) \in Message
        BY <3>2, <3>3, SayType
      <3>5. unconf' \in [Plcis -> Seq(Nat)]
        BY <3>1, <3>2 DEF TypeInv, TypeCtl
      <3>6. QED
        BY <1>3, <2>8, <3>1, <3>4, <3>5 DEF ConfirmData, TypeInv, TypeCtl
    <2>9. CASE DataOrReset
      <3>1. PICK p \in Plcis, cmd \in {"DATA_B3_IND", "RESET_B3_IND"} :
               toApp' = Tell(toApp, Ind(cmd, p, 1))
        BY <2>9 DEF DataOrReset
      <3>2. Ind(cmd, p, 1) \in Message
        BY <1>2 DEF Cmds
      <3>3. QED
        BY <1>3, <2>9, <3>1, <3>2 DEF DataOrReset, TypeInv, TypeCtl, Controller
    <2>10. ASSUME NEW p \in Plcis, Hangup(p) PROVE TypeCtl'
      <3>1. Release(p, toApp) /\ unconf' = unconf /\ toApp \in Seq(Message)
        BY <2>10 DEF Hangup, TypeInv, TypeCtl
      <3>2. d' \in [Plcis -> DStates] /\ b' \in [Plcis -> BStates] /\ toApp' \in Seq(Message)
        BY <3>1, ReleaseType
      <3>3. QED
        BY <3>1, <3>2 DEF TypeInv, TypeCtl
    <2>11. ASSUME NEW p \in Plcis, LinkDown(p) PROVE TypeCtl'
      BY <1>2, <1>3, <2>2, <2>11 DEF LinkDown, TypeInv, TypeCtl, Cmds, BStates
    <2>12. QED
      BY <2>3, <2>4, <2>5, <2>6, <2>7, <2>8, <2>9, <2>10, <2>11
  <1>5. UNCHANGED <<card, toCapi>>
    BY DEF Ring, Digits, Answered, LinkAsked, LinkUp, ConfirmData, DataOrReset, Hangup, LinkDown
  <1>6. QED
    BY <1>4, <1>5 DEF TypeInv, TypeCtl

LEMMA TakeType ==
  ASSUME TypeInv, Take PROVE TypeInv'
  <1> DEFINE m == Head(toCapi)
  <1>1. m \in Message /\ toCapi' \in Seq(Message) /\ card' = card
    BY DEF Take, Serve, TypeInv
  <1>2. /\ m.plci \in Plcis \cup {0} /\ m.n \in {0, 1} /\ m.num \in 0 .. MsgMod - 1
        /\ m.arg \in Nat
    BY <1>1 DEF Message
  <1>3. \/ TakeConnectReq(m) \/ RefuseConnectReq(m) \/ TakeConnectResp(m)
        \/ TakeB3Req(m) \/ TakeB3Resp(m) \/ TakeDisconnectB3Req(m)
        \/ TakeDisconnectB3Resp(m) \/ TakeDisconnectReq(m)
        \/ TakeDisconnectResp(m) \/ TakeData(m)
    BY DEF Take
  <1> HIDE DEF m
  <1>4. TypeCtl
    BY DEF TypeInv, TypeCtl
  <1> DEFINE Cmds == {"CONNECT_CONF", "CONNECT_B3_CONF", "DISCONNECT_B3_CONF",
                      "DISCONNECT_CONF", "DISCONNECT_B3_IND", "DISCONNECT_IND"}
  <1>5. Cmds \subseteq Commands /\ Plcis \subseteq Plcis \cup {0} /\ {0, 1} \subseteq Nat
    BY DEF Commands
  <1> HIDE DEF Cmds
  <1>6. \A cmd \in Cmds, p \in Plcis \cup {0}, n \in {0, 1}, a \in {0, 1} :
          Say(cmd, p, n, m.num, a) \in Message
    BY <1>2, <1>5, SayType
  <1>7. \A cmd \in Cmds, p \in Plcis \cup {0}, n \in {0, 1} : Ind(cmd, p, n) \in Message
    BY <1>5, IndType
  <1>8. \A q \in Seq(Message), x \in Message : Tell(q, x) \in Seq(Message)
    BY TellType
  <1>9. \A x \in DStates : \A p : [d EXCEPT ![p] = x] \in [Plcis -> DStates]
    BY <1>4 DEF TypeCtl
  <1>10. \A x \in BStates : \A p : [b EXCEPT ![p] = x] \in [Plcis -> BStates]
    BY <1>4 DEF TypeCtl
  <1>11. toApp \in Seq(Message)
    BY <1>4 DEF TypeCtl
  <1>12. /\ {"dialing", "answered", "clearing", "idle"} \subseteq DStates
         /\ {"out", "agreed", "clearing", "none"} \subseteq BStates
    BY DEF DStates, BStates
  <1>13. \A p : [d EXCEPT ![p] = @] \in [Plcis -> DStates]
         /\ [b EXCEPT ![p] = @] \in [Plcis -> BStates]
    BY <1>4 DEF TypeCtl
  <1>14. CASE TakeConnectReq(m)
    <2>1. PICK p \in Plcis, ok \in BOOLEAN :
            /\ d' = [d EXCEPT ![p] = IF ok THEN "dialing" ELSE @]
            /\ toApp' = Tell(toApp, Say("CONNECT_CONF", p, 0, m.num, IF ok THEN 0 ELSE 1))
      BY <1>14 DEF TakeConnectReq
    <2>2. d' \in [Plcis -> DStates]
      BY <1>9, <1>12, <1>13, <2>1
    <2>3. Say("CONNECT_CONF", p, 0, m.num, IF ok THEN 0 ELSE 1) \in Message
      BY <1>5, <1>6 DEF Cmds
    <2>4. toApp' \in Seq(Message)
      BY <1>8, <1>11, <2>1, <2>3
    <2>5. TypeCtl'
      BY <1>4, <1>14, <2>2, <2>4 DEF TypeCtl, TakeConnectReq
    <2>6. QED
      BY <1>1, <2>5 DEF TypeInv, TypeCtl
  <1>15. CASE RefuseConnectReq(m)
    <2>1. PICK p \in Plcis : toApp' = Tell(toApp, Say("CONNECT_CONF", p, 0, m.num, 1))
      BY <1>15 DEF RefuseConnectReq
    <2>2. Say("CONNECT_CONF", p, 0, m.num, 1) \in Message
      BY <1>5, <1>6 DEF Cmds
    <2>3. toApp' \in Seq(Message)
      BY <1>8, <1>11, <2>1, <2>2
    <2>4. TypeCtl'
      BY <1>4, <1>15, <2>3 DEF TypeCtl, RefuseConnectReq, Controller
    <2>5. QED
      BY <1>1, <2>4 DEF TypeInv, TypeCtl
  <1>16. CASE TakeConnectResp(m)
    <2>1. CASE d[m.plci] # "ringing"
      <3>1. TypeCtl'
        BY <1>4, <1>16, <2>1 DEF TypeCtl, TakeConnectResp
      <3>2. QED
        BY <1>1, <3>1 DEF TypeInv, TypeCtl
    <2>2. CASE d[m.plci] = "ringing" /\ m.arg # 0
      <3>1. Release(m.plci, toApp) /\ unconf' = unconf
        BY <1>16, <2>2 DEF TakeConnectResp
      <3>2. d' \in [Plcis -> DStates] /\ b' \in [Plcis -> BStates] /\ toApp' \in Seq(Message)
        BY <1>2, <1>11, <3>1, ReleaseType
      <3>3. QED
        BY <1>1, <1>4, <3>1, <3>2 DEF TypeInv, TypeCtl
    <2>3. CASE d[m.plci] = "ringing" /\ m.arg = 0
      <3>1. d' = [d EXCEPT ![m.plci] = "answered"] /\ UNCHANGED <<toApp, b, unconf>>
        BY <1>16, <2>3 DEF TakeConnectResp
      <3>2. d' \in [Plcis -> DStates]
        BY <1>9, <1>12, <3>1
      <3>3. QED
        BY <1>1, <1>4, <3>1, <3>2 DEF TypeInv, TypeCtl
    <2>4. QED
      BY <2>1, <2>2, <2>3
  <1>17. CASE TakeB3Req(m)
    <2>1. toApp' \in Seq(Message)
      <3>1. PICK n \in {0, 1}, a \in {0, 1} :
              toApp' = Tell(toApp, Say("CONNECT_B3_CONF", m.plci, n, m.num, a))
        BY <1>17 DEF TakeB3Req
      <3>2. Say("CONNECT_B3_CONF", m.plci, n, m.num, a) \in Message
        BY <1>2, <1>6 DEF Cmds
      <3>3. QED
        BY <1>8, <1>11, <3>1, <3>2
    <2>2. b' \in [Plcis -> BStates]
      <3>1. b' = b \/ b' = [b EXCEPT ![m.plci] = "out"]
        BY <1>17 DEF TakeB3Req
      <3>2. QED
        BY <1>4, <1>10, <1>12, <3>1 DEF TypeCtl
    <2>3. TypeCtl'
      BY <1>4, <1>17, <2>1, <2>2 DEF TypeCtl, TakeB3Req
    <2>4. QED
      BY <1>1, <2>3 DEF TypeInv, TypeCtl
  <1>18. CASE TakeB3Resp(m)
    <2>1. b' \in [Plcis -> BStates]
      <3>1. b' = [b EXCEPT ![m.plci] = "agreed"] \/ b' = [b EXCEPT ![m.plci] = @]
        BY <1>18 DEF TakeB3Resp
      <3>2. QED
        BY <1>10, <1>12, <1>13, <3>1
    <2>2. TypeCtl'
      BY <1>4, <1>18, <2>1 DEF TypeCtl, TakeB3Resp
    <2>3. QED
      BY <1>1, <2>2 DEF TypeInv, TypeCtl
  <1>19. CASE TakeDisconnectB3Req(m)
    <2> DEFINE x == Say("DISCONNECT_B3_CONF", m.plci, 1, m.num, 0)
               y == Ind("DISCONNECT_B3_IND", m.plci, 1)
               z == Say("DISCONNECT_B3_CONF", m.plci, m.n, m.num, 1)
    <2>1. x \in Message /\ y \in Message /\ z \in Message
      BY <1>2, <1>6, <1>7 DEF Cmds
    <2>2. \/ b' = [b EXCEPT ![m.plci] = "clearing"] /\ toApp' = Tell(Tell(toApp, x), y)
          \/ b' = b /\ toApp' = Tell(toApp, z)
      BY <1>19 DEF TakeDisconnectB3Req
    <2> HIDE DEF x, y, z
    <2>3. toApp' \in Seq(Message)
      <3>1. Tell(toApp, x) \in Seq(Message) /\ Tell(toApp, z) \in Seq(Message)
        BY <1>8, <1>11, <2>1
      <3>2. Tell(Tell(toApp, x), y) \in Seq(Message)
        BY <1>8, <2>1, <3>1
      <3>3. QED
        BY <2>2, <3>1, <3>2
    <2>4. b' \in [Plcis -> BStates]
      BY <1>4, <1>10, <1>12, <2>2 DEF TypeCtl
    <2>5. TypeCtl'
      BY <1>4, <1>19, <2>3, <2>4 DEF TypeCtl, TakeDisconnectB3Req
    <2>6. QED
      BY <1>1, <2>5 DEF TypeInv, TypeCtl
  <1>20. CASE TakeDisconnectB3Resp(m)
    <2>1. /\ b' = [b EXCEPT ![m.plci] = "none"] /\ unconf' = [unconf EXCEPT ![m.plci] = <<>>]
          /\ d' = [d EXCEPT ![m.plci] = "clearing"] \/ d' = [d EXCEPT ![m.plci] = @]
          /\ toApp' = Tell(toApp, Ind("DISCONNECT_IND", m.plci, 0)) \/ toApp' = toApp
      BY <1>20 DEF TakeDisconnectB3Resp
    <2>2. Ind("DISCONNECT_IND", m.plci, 0) \in Message
      BY <1>2, <1>7 DEF Cmds
    <2>3. toApp' \in Seq(Message)
      BY <1>8, <1>11, <2>1, <2>2
    <2>4. d' \in [Plcis -> DStates]
      BY <1>9, <1>12, <1>13, <2>1
    <2>5. b' \in [Plcis -> BStates]
      BY <1>10, <1>12, <2>1
    <2>6. unconf' \in [Plcis -> Seq(Nat)]
      <3>1. unconf \in [Plcis -> Seq(Nat)] /\ <<>> \in Seq(Nat)
        BY <1>4 DEF TypeCtl
      <3>2. unconf' = [unconf EXCEPT ![m.plci] = <<>>]
        BY <2>1
      <3>3. QED
        BY <3>1, <3>2
    <2>7. QED
      BY <1>1, <2>3, <2>4, <2>5, <2>6 DEF TypeInv
  <1>21. CASE TakeDisconnectReq(m)
    <2>1. PICK a \in {0, 1} :
            \/ Release(m.plci, Tell(toApp, Say("DISCONNECT_CONF", m.plci, 0, m.num, a)))
            \/ /\ toApp' = Tell(toApp, Say("DISCONNECT_CONF", m.plci, 0, m.num, a))
               /\ UNCHANGED <<d, b>>
      BY <1>21 DEF TakeDisconnectReq
    <2>2. Say("DISCONNECT_CONF", m.plci, 0, m.num, a) \in Message
      BY <1>2, <1>6 DEF Cmds
    <2>3. Tell(toApp, Say("DISCONNECT_CONF", m.plci, 0, m.num, a)) \in Seq(Message)
      BY <1>8, <1>11, <2>2
    <2>4. unconf' = unconf
      BY <1>21 DEF TakeDisconnectReq
    <2>5. d' \in [Plcis -> DStates] /\ b' \in [Plcis -> BStates] /\ toApp' \in Seq(Message)
      <3>1. CASE Release(m.plci, Tell(toApp, Say("DISCONNECT_CONF", m.plci, 0, m.num, a)))
        BY <1>2, <2>3, <3>1, ReleaseType
      <3>2. CASE /\ toApp' = Tell(toApp, Say("DISCONNECT_CONF", m.plci, 0, m.num, a))
                 /\ UNCHANGED <<d, b>>
        BY <1>4, <2>3, <3>2 DEF TypeCtl
      <3>3. QED
        BY <2>1, <3>1, <3>2
    <2>6. QED
      BY <1>1, <1>4, <2>4, <2>5 DEF TypeInv, TypeCtl
  <1>22. CASE TakeDisconnectResp(m)
    <2>1. d' = [d EXCEPT ![m.plci] = "idle"] /\ UNCHANGED <<toApp, b, unconf>>
      BY <1>22 DEF TakeDisconnectResp
    <2>2. d' \in [Plcis -> DStates]
      BY <1>9, <1>12, <2>1
    <2>3. QED
      BY <1>1, <1>4, <2>1, <2>2 DEF TypeInv, TypeCtl
  <1>23. CASE TakeData(m)
    <2>1. unconf' = [unconf EXCEPT ![m.plci] = Append(@, m.arg)]
          \/ unconf' = [unconf EXCEPT ![m.plci] = @]
      BY <1>23 DEF TakeData
    <2>2. unconf' \in [Plcis -> Seq(Nat)]
      <3>1. unconf \in [Plcis -> Seq(Nat)]
        BY <1>4 DEF TypeCtl
      <3>2. \A q \in Seq(Nat) : Append(q, m.arg) \in Seq(Nat)
        BY <1>2
      <3>3. QED
        BY <2>1, <3>1, <3>2
    <2>3. QED
      BY <1>1, <1>4, <1>23, <2>2 DEF TypeInv, TypeCtl, TakeData
  <1>24. QED
    BY <1>3, <1>14, <1>15, <1>16, <1>17, <1>18, <1>19, <1>20, <1>21, <1>22, <1>23

LEMMA InitType ==
  Init => TypeInv
  <1> SUFFICES ASSUME Init PROVE TypeInv
    OBVIOUS
  <1>1. <<>> \in Seq(Connection) /\ <<>> \in Seq(Message) /\ <<>> \in Seq(Nat)
        /\ "idle" \in DStates /\ "none" \in BStates
    BY DEF DStates, BStates
  <1>2. MsgStart \in 0 .. MsgMod - 1
    BY LineAssumption
  <1>3. card \in Cards /\ card.out = <<>>
    BY <1>1, <1>2 DEF Init, Cards
  <1>4. QED
    BY <1>1, <1>3 DEF Init, TypeInv

LEMMA NextType ==
  TypeInv /\ [Next]_vars => TypeInv'
  <1> SUFFICES ASSUME TypeInv, [Next]_vars PROVE TypeInv'
    OBVIOUS
  <1>1. CASE Next
    BY <1>1, ApplicationType, InjectType, TakeType, NetworkType DEF Next
  <1>2. CASE UNCHANGED vars
    BY <1>2 DEF vars, TypeInv
  <1>3. QED
    BY <1>1, <1>2

(* The type invariant.  Whatever message the controller sends, and however *)
(* the calls of the application interleave with it, the list holds well    *)
(* formed connections, the message number stays a _cword and every message *)
(* that is sent is one of CAPI.                                            *)
THEOREM TypeCorrect == Spec => []TypeOK
  <1>1. TypeInv => TypeOK
    BY DEF TypeInv, TypeOK, Cards
  <1>2. QED
    BY <1>1, InitType, NextType, PTL DEF Spec

-----------------------------------------------------------------------------
(***************************************************************************)
(* The messages under way.  S is a set of messages, those of a queue.  A   *)
(* confirmation that a call the controller has ended may still be followed *)
(* by is stale; two messages open a call on a PLCI.                        *)
(***************************************************************************)
Stale(m) == \/ m.cmd \in {"DISCONNECT_CONF", "CONNECT_B3_CONF", "DISCONNECT_B3_CONF"}
            \/ m.cmd = "CONNECT_CONF" /\ m.arg # 0
Opens(m) == m.cmd = "CONNECT_IND" \/ (m.cmd = "CONNECT_CONF" /\ m.arg = 0)

Sent(S, p, cmd) == \E m \in S : m.plci = p /\ m.cmd = cmd
Offers(S, p) == \E m \in S : m.plci = p /\ Opens(m)
Refuses(S, p) == \E m \in S : m.plci = p /\ m.cmd = "CONNECT_RESP" /\ m.arg # 0
OnlyStale(S, p) == \A m \in S : m.plci = p => Stale(m)
Silent(S, p) == \A m \in S : m.plci # p
Asks(S, cmd, x) == \E m \in S : m.cmd = cmd /\ m.num = x

(* T is S and message m.                                                   *)
More(S, T, m) ==
    /\ \A p, cmd : Sent(T, p, cmd) <=> (Sent(S, p, cmd) \/ (m.plci = p /\ m.cmd = cmd))
    /\ \A p : /\ Offers(T, p) <=> (Offers(S, p) \/ (m.plci = p /\ Opens(m)))
              /\ Refuses(T, p) <=> (Refuses(S, p) \/
                                     (m.plci = p /\ m.cmd = "CONNECT_RESP" /\ m.arg # 0))
              /\ OnlyStale(T, p) <=> (OnlyStale(S, p) /\ (m.plci = p => Stale(m)))
              /\ Silent(T, p) <=> (Silent(S, p) /\ m.plci # p)
    /\ \A cmd, x : Asks(T, cmd, x) <=> (Asks(S, cmd, x) \/ (m.cmd = cmd /\ m.num = x))

LEMMA Added ==
  ASSUME NEW S, NEW m, NEW T, T = S \cup {m} PROVE More(S, T, m)
  <1>1. \A p, cmd : Sent(T, p, cmd) <=> (Sent(S, p, cmd) \/ (m.plci = p /\ m.cmd = cmd))
    BY DEF Sent
  <1>2. \A p : Offers(T, p) <=> (Offers(S, p) \/ (m.plci = p /\ Opens(m)))
    BY DEF Offers
  <1>3. \A p : Refuses(T, p) <=> (Refuses(S, p) \/
                                   (m.plci = p /\ m.cmd = "CONNECT_RESP" /\ m.arg # 0))
    BY DEF Refuses
  <1>4. \A p : OnlyStale(T, p) <=> (OnlyStale(S, p) /\ (m.plci = p => Stale(m)))
    BY DEF OnlyStale
  <1>5. \A p : Silent(T, p) <=> (Silent(S, p) /\ m.plci # p)
    BY DEF Silent
  <1>6. \A cmd, x : Asks(T, cmd, x) <=> (Asks(S, cmd, x) \/ (m.cmd = cmd /\ m.num = x))
    BY DEF Asks
  <1>7. QED
    BY <1>1, <1>2, <1>3, <1>4, <1>5, <1>6 DEF More

(* What the kinds of messages imply about each other.                      *)
LEMMA Kinds ==
  ASSUME NEW S, NEW p
  PROVE  /\ Sent(S, p, "CONNECT_IND") => Offers(S, p)
         /\ Refuses(S, p) => Sent(S, p, "CONNECT_RESP")
         /\ OnlyStale(S, p) => /\ ~Offers(S, p) /\ ~Sent(S, p, "DISCONNECT_IND")
                               /\ ~Sent(S, p, "CONNECT_B3_IND")
         /\ Silent(S, p) => \A cmd : ~Sent(S, p, cmd)
         /\ Silent(S, p) => ~Refuses(S, p)
  BY DEF Sent, Offers, Refuses, OnlyStale, Silent, Stale, Opens

(* The order of the messages about a PLCI: one that opens a call comes     *)
(* after what is left of the last one, nothing but stale confirmations     *)
(* follows the end of a call, and the library says nothing more after it   *)
(* has answered the end.                                                   *)
AppOrder(q) ==
    \A i, j \in DOMAIN q : i < j /\ q[i].plci = q[j].plci =>
       /\ Opens(q[j]) => Stale(q[i])
       /\ q[i].cmd = "DISCONNECT_IND" => Stale(q[j])
CapiOrder(q) ==
    \A i, j \in DOMAIN q : i < j /\ q[i].plci = q[j].plci =>
       /\ q[i].cmd # "DISCONNECT_RESP"
       /\ q[i].cmd = "CONNECT_RESP" => q[j].cmd # "CONNECT_RESP"
Distinct(q, cmd) ==
    \A i, j \in DOMAIN q : i < j /\ q[i].cmd = cmd /\ q[j].cmd = cmd => q[i].num # q[j].num

(* A message is added at the end of a queue ...                            *)
LEMMA TellAt ==
  ASSUME NEW S, NEW q \in Seq(S), NEW m, NEW r, r = Tell(q, m)
  PROVE  /\ DOMAIN r = 1 .. Len(q) + 1 /\ DOMAIN q = 1 .. Len(q) /\ Len(q) \in Nat
         /\ r[Len(q) + 1] = m /\ \A j \in 1 .. Len(q) : r[j] = q[j]
  BY DEF Tell

LEMMA TellRange ==
  ASSUME NEW S, NEW q \in Seq(S), NEW m, NEW r, r = Tell(q, m)
  PROVE  Range(r) = Range(q) \cup {m}
  <1>1. /\ DOMAIN r = 1 .. Len(q) + 1 /\ DOMAIN q = 1 .. Len(q) /\ Len(q) \in Nat
        /\ r[Len(q) + 1] = m /\ \A j \in 1 .. Len(q) : r[j] = q[j]
    BY TellAt
  <1>2. QED
    BY <1>1 DEF Range

LEMMA TellOrder ==
  ASSUME NEW S, NEW q \in Seq(S), NEW m, NEW r, r = Tell(q, m)
  PROVE  /\ AppOrder(q) /\ (Opens(m) => OnlyStale(Range(q), m.plci))
              /\ (Sent(Range(q), m.plci, "DISCONNECT_IND") => Stale(m)) => AppOrder(r)
         /\ CapiOrder(q) /\ ~Sent(Range(q), m.plci, "DISCONNECT_RESP")
              /\ (m.cmd = "CONNECT_RESP" => ~Sent(Range(q), m.plci, "CONNECT_RESP"))
            => CapiOrder(r)
         /\ \A cmd : Distinct(q, cmd) /\ (m.cmd = cmd => ~Asks(Range(q), cmd, m.num))
                     => Distinct(r, cmd)
  <1>1. /\ DOMAIN r = 1 .. Len(q) + 1 /\ DOMAIN q = 1 .. Len(q) /\ Len(q) \in Nat
        /\ r[Len(q) + 1] = m /\ \A j \in 1 .. Len(q) : r[j] = q[j]
    BY TellAt
  <1>2. \A j \in 1 .. Len(q) : q[j] \in Range(q)
    BY <1>1 DEF Range
  <1>3. \A i, j \in DOMAIN r : i < j => /\ i \in DOMAIN q /\ r[i] = q[i]
                                        /\ \/ j \in DOMAIN q /\ r[j] = q[j]
                                           \/ r[j] = m
    BY <1>1
  <1>4. ASSUME AppOrder(q), Opens(m) => OnlyStale(Range(q), m.plci),
               Sent(Range(q), m.plci, "DISCONNECT_IND") => Stale(m)
        PROVE  AppOrder(r)
    BY <1>1, <1>2, <1>3, <1>4 DEF AppOrder, OnlyStale, Sent
  <1>5. ASSUME CapiOrder(q), ~Sent(Range(q), m.plci, "DISCONNECT_RESP"),
               m.cmd = "CONNECT_RESP" => ~Sent(Range(q), m.plci, "CONNECT_RESP")
        PROVE  CapiOrder(r)
    BY <1>1, <1>2, <1>3, <1>5 DEF CapiOrder, Sent
  <1>6. ASSUME NEW cmd, Distinct(q, cmd), m.cmd = cmd => ~Asks(Range(q), cmd, m.num)
        PROVE  Distinct(r, cmd)
    BY <1>1, <1>2, <1>3, <1>6 DEF Distinct, Asks
  <1>7. QED
    BY <1>4, <1>5, <1>6

(* ... and taken from its front.                                           *)
LEMMA TailAt ==
  ASSUME NEW S, NEW q \in Seq(S), q # <<>>, NEW r, r = Tail(q)
  PROVE  /\ DOMAIN q = 1 .. Len(q) /\ Len(q) \in Nat \ {0} /\ DOMAIN r = 1 .. Len(q) - 1
         /\ q[1] = Head(q) /\ Head(q) \in S /\ r \in Seq(S)
         /\ \A j \in 1 .. Len(q) - 1 : r[j] = q[j + 1]
  OBVIOUS

LEMMA TailRange ==
  ASSUME NEW S, NEW q \in Seq(S), q # <<>>, NEW r, r = Tail(q)
  PROVE  Range(q) = Range(r) \cup {Head(q)}
  <1>1. /\ DOMAIN q = 1 .. Len(q) /\ Len(q) \in Nat \ {0} /\ DOMAIN r = 1 .. Len(q) - 1
        /\ q[1] = Head(q) /\ \A j \in 1 .. Len(q) - 1 : r[j] = q[j + 1]
    BY TailAt
  <1>2. \A j \in 2 .. Len(q) : q[j] = r[j - 1] /\ j - 1 \in 1 .. Len(q) - 1
    BY <1>1
  <1>3. \A x \in Range(q) : x \in Range(r) \cup {Head(q)}
    <2>1. ASSUME NEW j \in 1 .. Len(q) PROVE q[j] = Head(q) \/ q[j] \in Range(r)
      <3>1. CASE j = 1
        BY <1>1, <3>1
      <3>2. CASE j # 1
        <4>1. j \in 2 .. Len(q)
          BY <1>1, <3>2
        <4>2. q[j] = r[j - 1] /\ j - 1 \in DOMAIN r
          BY <1>1, <1>2, <4>1
        <4>3. QED
          BY <4>2 DEF Range
      <3>3. QED
        BY <3>1, <3>2
    <2>2. QED
      BY <1>1, <2>1 DEF Range
  <1>4. \A x \in Range(r) : x \in Range(q)
    BY <1>1 DEF Range
  <1>5. Head(q) \in Range(q)
    BY <1>1 DEF Range
  <1>6. QED
    BY <1>3, <1>4, <1>5

LEMMA TailOrder ==
  ASSUME NEW S, NEW q \in Seq(S), q # <<>>, NEW r, r = Tail(q), NEW m, m = Head(q)
  PROVE  /\ AppOrder(q) => /\ AppOrder(r)
                           /\ Offers(Range(r), m.plci) => Stale(m)
                           /\ m.cmd = "DISCONNECT_IND" => OnlyStale(Range(r), m.plci)
         /\ CapiOrder(q) =>
              /\ CapiOrder(r)
              /\ m.cmd = "DISCONNECT_RESP" => Silent(Range(r), m.plci)
              /\ m.cmd = "CONNECT_RESP" => ~Sent(Range(r), m.plci, "CONNECT_RESP")
         /\ \A cmd : Distinct(q, cmd) =>
              Distinct(r, cmd) /\ (m.cmd = cmd => ~Asks(Range(r), cmd, m.num))
  <1>1. /\ DOMAIN q = 1 .. Len(q) /\ Len(q) \in Nat \ {0} /\ DOMAIN r = 1 .. Len(q) - 1
        /\ q[1] = m /\ \A j \in 1 .. Len(q) - 1 : r[j] = q[j + 1]
    BY TailAt
  <1>2. \A x \in Range(r) : \E j \in DOMAIN q : 1 < j /\ q[j] = x
    BY <1>1 DEF Range
  <1>3. 1 \in DOMAIN q
    BY <1>1
  <1>4. \A i, j \in DOMAIN r : i < j => i + 1 \in DOMAIN q /\ j + 1 \in DOMAIN q /\ i + 1 < j + 1
    BY <1>1
  <1>5. \A j \in DOMAIN r : r[j] = q[j + 1]
    BY <1>1
  <1>6. ASSUME AppOrder(q)
        PROVE  /\ AppOrder(r)
               /\ Offers(Range(r), m.plci) => Stale(m)
               /\ m.cmd = "DISCONNECT_IND" => OnlyStale(Range(r), m.plci)
    <2>1. AppOrder(r)
      BY <1>4, <1>5, <1>6 DEF AppOrder
    <2>2. \A x \in Range(r) : x.plci = m.plci => (Opens(x) => Stale(m)) /\
                                                 (m.cmd = "DISCONNECT_IND" => Stale(x))
      BY <1>1, <1>2, <1>3, <1>6 DEF AppOrder
    <2>3. QED
      BY <2>1, <2>2 DEF Offers, OnlyStale
  <1>7. ASSUME CapiOrder(q)
        PROVE  /\ CapiOrder(r)
               /\ m.cmd = "DISCONNECT_RESP" => Silent(Range(r), m.plci)
               /\ m.cmd = "CONNECT_RESP" => ~Sent(Range(r), m.plci, "CONNECT_RESP")
    <2>1. CapiOrder(r)
      BY <1>4, <1>5, <1>7 DEF CapiOrder
    <2>2. \A x \in Range(r) : x.plci = m.plci =>
             m.cmd # "DISCONNECT_RESP" /\ (m.cmd = "CONNECT_RESP" => x.cmd # "CONNECT_RESP")
      BY <1>1, <1>2, <1>3, <1>7 DEF CapiOrder
    <2>3. QED
      BY <2>1, <2>2 DEF Silent, Sent
  <1>8. ASSUME NEW cmd, Distinct(q, cmd)
        PROVE  Distinct(r, cmd) /\ (m.cmd = cmd => ~Asks(Range(r), cmd, m.num))
    <2>1. Distinct(r, cmd)
      BY <1>4, <1>5, <1>8 DEF Distinct
    <2>2. \A x \in Range(r) : m.cmd = cmd /\ x.cmd = cmd => x.num # m.num
      BY <1>1, <1>2, <1>3, <1>8 DEF Distinct
    <2>3. QED
      BY <2>1, <2>2 DEF Asks
  <1>9. QED
    BY <1>6, <1>7, <1>8

-----------------------------------------------------------------------------
(* The list of connections, n the next message number: a connection has    *)
(* its PLCI or waits for it, and PLCIs and message numbers tell the        *)
(* connections apart.                                                      *)
ConnFits(c, n) ==
    /\ c.plci = 0 => c.state = "OUTGOING" /\ c.nccip = NoNcci /\ c.msgid # 0
    /\ c.plci # 0 => c.state \in Held
    /\ c.msgid < n
Apart(c, e) == /\ c.plci # e.plci \/ c.plci = 0
               /\ c.msgid # e.msgid \/ c.msgid = 0
Fit(C, n) == /\ \A i \in DOMAIN C : ConnFits(C[i], n)
             /\ \A i, j \in DOMAIN C : i # j => Apart(C[i], C[j])

Known(C, p) == \E i \in DOMAIN C : C[i].plci = p
Ringing(C, p) == \E i \in DOMAIN C : C[i].plci = p /\ C[i].state = "INCOMING"
Waiting(C, x) == \E i \in DOMAIN C : C[i].msgid = x /\ C[i].state = "OUTGOING"

(* The calls are the same, but one may not ring any more.                  *)
Alike(C, D) == /\ \A p : /\ Known(D, p) <=> Known(C, p)
                         /\ Ringing(D, p) => Ringing(C, p)
               /\ \A x : Waiting(D, x) <=> Waiting(C, x)

LEMMA KeepFit ==
  ASSUME NEW C, NEW D, NEW i, NEW n, Near(C, D, i), Soft(C[i], D[i]), C[i].plci # 0, Fit(C, n)
  PROVE  /\ Fit(D, n) /\ Alike(C, D)
         /\ D[i].state # "INCOMING" => ~Ringing(D, C[i].plci)
  <1>1. DOMAIN D = DOMAIN C /\ i \in DOMAIN C /\ \A j \in DOMAIN C : j # i => D[j] = C[j]
    BY DEF Near
  <1>2. D[i].plci = C[i].plci /\ D[i].msgid = C[i].msgid /\ C[i].state \in Held
        /\ D[i].state \in Held /\ (D[i].state = "INCOMING" => C[i].state = "INCOMING")
    BY <1>1 DEF Soft, Fit, ConnFits
  <1>3. \A j \in DOMAIN C : D[j].plci = C[j].plci /\ D[j].msgid = C[j].msgid
    BY <1>1, <1>2
  <1>4. \A j \in DOMAIN C : ConnFits(D[j], n)
    <2>1. \A j \in DOMAIN C : ConnFits(C[j], n)
      BY DEF Fit
    <2>2. ConnFits(D[i], n)
      BY <1>1, <1>2, <2>1 DEF ConnFits
    <2>3. QED
      BY <1>1, <2>1, <2>2
  <1>5. \A j, l \in DOMAIN C : j # l => Apart(D[j], D[l])
    BY <1>3 DEF Fit, Apart
  <1>6. Fit(D, n)
    BY <1>1, <1>4, <1>5 DEF Fit
  <1>7. \A p : (Known(D, p) <=> Known(C, p)) /\ (Ringing(D, p) => Ringing(C, p))
    BY <1>1, <1>2, <1>3 DEF Known, Ringing
  <1>8. \A x : Waiting(D, x) <=> Waiting(C, x)
    BY <1>1, <1>2, <1>3 DEF Waiting, Held
  <1>9. ASSUME D[i].state # "INCOMING" PROVE ~Ringing(D, C[i].plci)
    BY <1>1, <1>2, <1>6, <1>9 DEF Ringing, Fit, Apart
  <1>10. QED
    BY <1>6, <1>7, <1>8, <1>9 DEF Alike

LEMMA AlertFit ==
  ASSUME NEW C, NEW D, NEW i, NEW n \in Nat, Near(C, D, i), C[i].state = "INCOMING",
         D[i] = [C[i] EXCEPT !.msgid = n], Fit(C, n)
  PROVE  Fit(D, n + 1) /\ Alike(C, D)
  <1>1. /\ DOMAIN D = DOMAIN C /\ i \in DOMAIN C /\ \A j \in DOMAIN C : j # i => D[j] = C[j]
        /\ \A j \in DOMAIN C : C[j] \in Connection
    BY DEF Near
  <1>2. \A j \in DOMAIN C : C[j].msgid \in Int /\ C[j].msgid < n /\ ConnFits(C[j], n)
    BY <1>1 DEF Fit, ConnFits, Connection
  <1>3. D[i].plci = C[i].plci /\ D[i].msgid = n /\ D[i].state = "INCOMING"
    BY <1>1 DEF Connection
  <1>4. C[i].plci # 0 /\ "INCOMING" \in Held /\ "INCOMING" # "OUTGOING"
    BY <1>1 DEF Fit, ConnFits, Held
  <1>5. ConnFits(D[i], n + 1)
    BY <1>3, <1>4 DEF ConnFits
  <1>6. \A j \in DOMAIN C : j # i => ConnFits(D[j], n + 1)
    BY <1>1, <1>2 DEF ConnFits
  <1>7. \A j, l \in DOMAIN C : j # l => Apart(D[j], D[l])
    <2>1. ASSUME NEW j \in DOMAIN C, j # i PROVE Apart(D[i], D[j]) /\ Apart(D[j], D[i])
      <3>1. Apart(C[i], C[j]) /\ Apart(C[j], C[i])
        BY <1>1, <2>1 DEF Fit
      <3>2. C[j].msgid # n
        BY <1>2
      <3>3. QED
        BY <1>1, <1>3, <2>1, <3>1, <3>2 DEF Apart
    <2>2. QED
      BY <1>1, <2>1 DEF Fit
  <1>8. Fit(D, n + 1)
    BY <1>1, <1>5, <1>6, <1>7 DEF Fit
  <1>9. \A p : (Known(D, p) <=> Known(C, p)) /\ (Ringing(D, p) => Ringing(C, p))
    BY <1>1, <1>3 DEF Known, Ringing
  <1>10. \A x : Waiting(D, x) <=> Waiting(C, x)
    BY <1>1, <1>3, <1>4 DEF Waiting
  <1>11. QED
    BY <1>8, <1>9, <1>10 DEF Alike

(* With a new connection in front: the entries are that one and the old.   *)
LEMMA JoinedAt ==
  ASSUME NEW C, NEW D, NEW c, Joined(C, D, c)
  PROVE  /\ \A j \in DOMAIN D : \/ j = 1 /\ D[j] = c
                                \/ j # 1 /\ j - 1 \in DOMAIN C /\ D[j] = C[j - 1]
         /\ \A j \in DOMAIN C : j + 1 \in DOMAIN D /\ j + 1 # 1 /\ D[j + 1] = C[j]
         /\ 1 \in DOMAIN D /\ \A j \in DOMAIN D : j \in Nat
  <1>1. /\ DOMAIN C = 1 .. Len(C) /\ Len(C) \in Nat /\ DOMAIN D = 1 .. Len(C) + 1
        /\ D[1] = c /\ \A j \in 2 .. Len(C) + 1 : D[j] = C[j - 1]
    BY DEF Joined
  <1>2. ASSUME NEW j \in DOMAIN D
        PROVE  \/ j = 1 /\ D[j] = c
               \/ j # 1 /\ j - 1 \in DOMAIN C /\ D[j] = C[j - 1]
    <2>1. CASE j = 1
      BY <1>1, <2>1
    <2>2. CASE j # 1
      <3>1. j \in 2 .. Len(C) + 1
        BY <1>1, <2>2
      <3>2. j - 1 \in DOMAIN C
        BY <1>1, <3>1
      <3>3. QED
        BY <1>1, <2>2, <3>1, <3>2
    <2>3. QED
      BY <2>1, <2>2
  <1>3. ASSUME NEW j \in DOMAIN C
        PROVE  j + 1 \in DOMAIN D /\ j + 1 # 1 /\ D[j + 1] = C[j]
    <2>1. j + 1 \in 2 .. Len(C) + 1 /\ j + 1 - 1 = j
      BY <1>1
    <2>2. QED
      BY <1>1, <2>1
  <1>4. QED
    BY <1>1, <1>2, <1>3

LEMMA JoinedFit ==
  ASSUME NEW C, NEW D, NEW c, NEW n, Joined(C, D, c), ConnFits(c, n),
         \A j \in DOMAIN C : ConnFits(C[j], n) /\ Apart(C[j], c) /\ Apart(c, C[j]),
         \A i, j \in DOMAIN C : i # j => Apart(C[i], C[j])
  PROVE  /\ Fit(D, n)
         /\ \A p : /\ Known(D, p) <=> (Known(C, p) \/ c.plci = p)
                   /\ Ringing(D, p) <=> (Ringing(C, p) \/ (c.plci = p /\ c.state = "INCOMING"))
         /\ \A x : Waiting(D, x) <=> (Waiting(C, x) \/ (c.msgid = x /\ c.state = "OUTGOING"))
  <1>1. /\ \A j \in DOMAIN D : \/ j = 1 /\ D[j] = c
                               \/ j # 1 /\ j - 1 \in DOMAIN C /\ D[j] = C[j - 1]
        /\ \A j \in DOMAIN C : j + 1 \in DOMAIN D /\ j + 1 # 1 /\ D[j + 1] = C[j]
        /\ 1 \in DOMAIN D /\ \A j \in DOMAIN D : j \in Nat
    BY JoinedAt
  <1>2. D[1] = c
    BY <1>1
  <1>3. \A j \in DOMAIN D : ConnFits(D[j], n)
    BY <1>1
  <1>4. ASSUME NEW i \in DOMAIN D, NEW j \in DOMAIN D, i # j PROVE Apart(D[i], D[j])
    <2>1. CASE i = 1
      BY <1>1, <1>2, <1>4, <2>1
    <2>2. CASE j = 1
      BY <1>1, <1>2, <1>4, <2>2
    <2>3. CASE i # 1 /\ j # 1
      <3>1. i - 1 \in DOMAIN C /\ j - 1 \in DOMAIN C /\ D[i] = C[i - 1] /\ D[j] = C[j - 1]
        BY <1>1, <2>3
      <3>2. i - 1 # j - 1
        BY <1>1, <1>4
      <3>3. QED
        BY <3>1, <3>2
    <2>4. QED
      BY <2>1, <2>2, <2>3
  <1>5. Fit(D, n)
    BY <1>3, <1>4 DEF Fit
  <1>6. \A p : Known(D, p) <=> (Known(C, p) \/ c.plci = p)
    <2>1. ASSUME NEW p, Known(D, p) PROVE Known(C, p) \/ c.plci = p
      BY <1>1, <2>1 DEF Known
    <2>2. ASSUME NEW p, Known(C, p) \/ c.plci = p PROVE Known(D, p)
      BY <1>1, <1>2, <2>2 DEF Known
    <2>3. QED
      BY <2>1, <2>2
  <1>7. \A p : Ringing(D, p) <=> (Ringing(C, p) \/ (c.plci = p /\ c.state = "INCOMING"))
    <2>1. ASSUME NEW p, Ringing(D, p)
          PROVE  Ringing(C, p) \/ (c.plci = p /\ c.state = "INCOMING")
      BY <1>1, <2>1 DEF Ringing
    <2>2. ASSUME NEW p, Ringing(C, p) \/ (c.plci = p /\ c.state = "INCOMING")
          PROVE  Ringing(D, p)
      BY <1>1, <1>2, <2>2 DEF Ringing
    <2>3. QED
      BY <2>1, <2>2
  <1>8. \A x : Waiting(D, x) <=> (Waiting(C, x) \/ (c.msgid = x /\ c.state = "OUTGOING"))
    <2>1. ASSUME NEW x, Waiting(D, x)
          PROVE  Waiting(C, x) \/ (c.msgid = x /\ c.state = "OUTGOING")
      BY <1>1, <2>1 DEF Waiting
    <2>2. ASSUME NEW x, Waiting(C, x) \/ (c.msgid = x /\ c.state = "OUTGOING")
          PROVE  Waiting(D, x)
      BY <1>1, <1>2, <2>2 DEF Waiting
    <2>3. QED
      BY <2>1, <2>2
  <1>9. QED
    BY <1>5, <1>6, <1>7, <1>8

(* A call is made ...                                                      *)
LEMMA CallFit ==
  ASSUME NEW C, NEW D, NEW c, NEW n \in Nat \ {0}, Joined(C, D, c), Fit(C, n),
         c.plci = 0, c.msgid = n, c.state = "OUTGOING", c.nccip = NoNcci
  PROVE  /\ Fit(D, n + 1) /\ ~Waiting(C, n)
         /\ \A p : p # 0 => /\ Known(D, p) <=> Known(C, p)
                            /\ Ringing(D, p) <=> Ringing(C, p)
         /\ \A x : Waiting(D, x) <=> (Waiting(C, x) \/ x = n)
  <1>1. \A j \in DOMAIN C : /\ C[j] \in Connection /\ ConnFits(C[j], n)
                            /\ C[j].msgid \in Int /\ C[j].msgid < n
    <2>1. \A j \in DOMAIN C : C[j] \in Connection
      BY DEF Joined
    <2>2. \A j \in DOMAIN C : C[j].msgid \in 0 .. MsgMod - 1
      BY <2>1 DEF Connection
    <2>3. \A j \in DOMAIN C : ConnFits(C[j], n)
      BY DEF Fit
    <2>4. \A j \in DOMAIN C : C[j].msgid < n
      BY <2>3 DEF ConnFits
    <2>5. QED
      BY <2>1, <2>2, <2>3, <2>4
  <1>2. ConnFits(c, n + 1)
    BY DEF ConnFits
  <1>3. \A j \in DOMAIN C : ConnFits(C[j], n + 1) /\ Apart(C[j], c) /\ Apart(c, C[j])
    <2>1. ASSUME NEW j \in DOMAIN C PROVE ConnFits(C[j], n + 1)
      BY <1>1 DEF ConnFits
    <2>2. ASSUME NEW j \in DOMAIN C PROVE Apart(C[j], c) /\ Apart(c, C[j])
      BY <1>1 DEF Apart
    <2>3. QED
      BY <2>1, <2>2
  <1>4. \A i, j \in DOMAIN C : i # j => Apart(C[i], C[j])
    BY DEF Fit
  <1>5. /\ Fit(D, n + 1)
        /\ \A p : /\ Known(D, p) <=> (Known(C, p) \/ c.plci = p)
                  /\ Ringing(D, p) <=> (Ringing(C, p) \/ (c.plci = p /\ c.state = "INCOMING"))
        /\ \A x : Waiting(D, x) <=> (Waiting(C, x) \/ (c.msgid = x /\ c.state = "OUTGOING"))
    BY <1>2, <1>3, <1>4, JoinedFit
  <1>6. ~Waiting(C, n)
    BY <1>1 DEF Waiting
  <1>7. QED
    BY <1>5, <1>6

(* ... or comes in.                                                        *)
LEMMA RingFit ==
  ASSUME NEW C, NEW D, NEW c, NEW n \in Nat \ {0}, Joined(C, D, c), Fit(C, n),
         NEW p \in Plcis, c.plci = p, c.msgid = 0, c.state = "INCOMING", ~Known(C, p)
  PROVE  /\ Fit(D, n)
         /\ \A q : /\ Known(D, q) <=> (Known(C, q) \/ q = p)
                   /\ Ringing(D, q) <=> (Ringing(C, q) \/ q = p)
         /\ \A x : Waiting(D, x) <=> Waiting(C, x)
  <1>1. p # 0
    BY CapiAssumption
  <1>2. ConnFits(c, n)
    BY <1>1 DEF ConnFits, Held
  <1>3. \A j \in DOMAIN C : ConnFits(C[j], n) /\ Apart(C[j], c) /\ Apart(c, C[j])
    BY <1>1 DEF Fit, Apart, Known
  <1>4. \A i, j \in DOMAIN C : i # j => Apart(C[i], C[j])
    BY DEF Fit
  <1>5. /\ Fit(D, n)
        /\ \A q : /\ Known(D, q) <=> (Known(C, q) \/ c.plci = q)
                  /\ Ringing(D, q) <=> (Ringing(C, q) \/ (c.plci = q /\ c.state = "INCOMING"))
        /\ \A x : Waiting(D, x) <=> (Waiting(C, x) \/ (c.msgid = x /\ c.state = "OUTGOING"))
    BY <1>2, <1>3, <1>4, JoinedFit
  <1>6. QED
    BY <1>5

(* The call that was made gets its PLCI.                                   *)
LEMMA PlaceFit ==
  ASSUME NEW C, NEW D, NEW i, NEW n \in Nat, NEW p \in Plcis, Near(C, D, i), Fit(C, n),
         C[i].state = "OUTGOING", ~Known(C, p), D[i].plci = p, D[i].state = "ALLOCATED",
         D[i].msgid = C[i].msgid
  PROVE  /\ Fit(D, n) /\ C[i].plci = 0
         /\ \A q : q # 0 => /\ Known(D, q) <=> (Known(C, q) \/ q = p)
                            /\ Ringing(D, q) <=> Ringing(C, q)
         /\ \A x : Waiting(D, x) <=> (Waiting(C, x) /\ x # C[i].msgid)
  <1>1. DOMAIN D = DOMAIN C /\ i \in DOMAIN C /\ \A j \in DOMAIN C : j # i => D[j] = C[j]
    BY DEF Near
  <1>2. C[i].plci = 0 /\ C[i].msgid # 0 /\ p # 0
    BY <1>1, CapiAssumption DEF Fit, ConnFits, Held
  <1>3. \A j \in DOMAIN C : ConnFits(C[j], n)
    BY DEF Fit
  <1>4. ConnFits(D[i], n)
    BY <1>1, <1>2, <1>3 DEF ConnFits, Held
  <1>5. ASSUME NEW j \in DOMAIN C, j # i PROVE Apart(D[i], D[j]) /\ Apart(D[j], D[i])
    <2>1. Apart(C[i], C[j]) /\ Apart(C[j], C[i]) /\ D[j] = C[j] /\ C[j].plci # p
      BY <1>1, <1>5 DEF Fit, Known
    <2>2. QED
      BY <1>2, <2>1 DEF Apart
  <1>6. Fit(D, n)
    BY <1>1, <1>3, <1>4, <1>5 DEF Fit
  <1>7. \A q : q # 0 => /\ Known(D, q) <=> (Known(C, q) \/ q = p)
                        /\ Ringing(D, q) <=> Ringing(C, q)
    BY <1>1, <1>2 DEF Known, Ringing
  <1>8. \A j \in DOMAIN C : j # i => C[j].msgid # C[i].msgid
    BY <1>1, <1>2 DEF Fit, Apart
  <1>9. \A x : Waiting(D, x) <=> (Waiting(C, x) /\ x # C[i].msgid)
    BY <1>1, <1>8 DEF Waiting
  <1>10. QED
    BY <1>2, <1>6, <1>7, <1>9

(* A connection is taken out.                                              *)
After(i, j) == IF j < i THEN j ELSE j + 1

LEMMA PartedAt ==
  ASSUME NEW C, NEW D, NEW i, Parted(C, D, i)
  PROVE  /\ \A j \in DOMAIN D : /\ After(i, j) \in DOMAIN C /\ After(i, j) # i
                                /\ D[j] = C[After(i, j)]
         /\ \A j, l \in DOMAIN D : j # l => After(i, j) # After(i, l)
         /\ \A l \in DOMAIN C : l # i => \E j \in DOMAIN D : D[j] = C[l]
         /\ i \in DOMAIN C
  <1>1. /\ DOMAIN C = 1 .. Len(C) /\ Len(C) \in Nat /\ DOMAIN D = 1 .. Len(C) - 1
        /\ i \in 1 .. Len(C)
    BY DEF Parted
  <1>2. \A j \in 1 .. Len(C) - 1 : D[j] = C[After(i, j)]
    BY DEF Parted, After
  <1>3. \A j \in DOMAIN D : After(i, j) \in DOMAIN C /\ After(i, j) # i
    BY <1>1 DEF After
  <1>4. \A j, l \in DOMAIN D : j # l => After(i, j) # After(i, l)
    BY <1>1 DEF After
  <1>5. ASSUME NEW l \in DOMAIN C, l # i PROVE \E j \in DOMAIN D : D[j] = C[l]
    <2>1. CASE l < i
      <3>1. l \in DOMAIN D /\ After(i, l) = l
        BY <1>1, <2>1 DEF After
      <3>2. QED
        BY <1>1, <1>2, <3>1
    <2>2. CASE ~(l < i)
      <3>1. l - 1 \in DOMAIN D /\ After(i, l - 1) = l
        BY <1>1, <1>5, <2>2 DEF After
      <3>2. QED
        BY <1>1, <1>2, <3>1
    <2>3. QED
      BY <2>1, <2>2
  <1>6. QED
    BY <1>1, <1>2, <1>3, <1>4, <1>5

LEMMA PartFit ==
  ASSUME NEW C, NEW D, NEW i, NEW n, Parted(C, D, i), Fit(C, n)
  PROVE  /\ Fit(D, n)
         /\ \A p : p # 0 => /\ Known(D, p) <=> (Known(C, p) /\ p # C[i].plci)
                            /\ Ringing(D, p) <=> (Ringing(C, p) /\ p # C[i].plci)
         /\ \A x : Waiting(D, x) =>
                     Waiting(C, x) /\ (C[i].state = "OUTGOING" => x # C[i].msgid)
         /\ \A x : Waiting(C, x) /\ (C[i].state = "OUTGOING" => x # C[i].msgid)
                     => Waiting(D, x)
  <1>1. /\ \A j \in DOMAIN D : /\ After(i, j) \in DOMAIN C /\ After(i, j) # i
                               /\ D[j] = C[After(i, j)]
        /\ \A j, l \in DOMAIN D : j # l => After(i, j) # After(i, l)
        /\ \A l \in DOMAIN C : l # i => \E j \in DOMAIN D : D[j] = C[l]
        /\ i \in DOMAIN C
    BY PartedAt
  <1>2. Fit(D, n)
    BY <1>1 DEF Fit
  <1>3. \A l \in DOMAIN C : l # i => Apart(C[l], C[i]) /\ ConnFits(C[l], n)
    BY <1>1 DEF Fit
  <1>4. ASSUME NEW p, p # 0
        PROVE  /\ Known(D, p) <=> (Known(C, p) /\ p # C[i].plci)
               /\ Ringing(D, p) <=> (Ringing(C, p) /\ p # C[i].plci)
    <2>1. \A l \in DOMAIN C : l # i /\ C[l].plci = p => p # C[i].plci
      BY <1>3, <1>4 DEF Apart
    <2>2. Known(D, p) => Known(C, p) /\ p # C[i].plci
      BY <1>1, <2>1 DEF Known
    <2>3. Known(C, p) /\ p # C[i].plci => Known(D, p)
      <3>1. ASSUME NEW l \in DOMAIN C, C[l].plci = p, p # C[i].plci PROVE Known(D, p)
        <4>1. l # i
          BY <3>1
        <4>2. QED
          BY <1>1, <3>1, <4>1 DEF Known
      <3>2. QED
        BY <3>1 DEF Known
    <2>4. Ringing(D, p) => Ringing(C, p) /\ p # C[i].plci
      BY <1>1, <2>1 DEF Ringing
    <2>5. Ringing(C, p) /\ p # C[i].plci => Ringing(D, p)
      <3>1. ASSUME NEW l \in DOMAIN C, C[l].plci = p, C[l].state = "INCOMING", p # C[i].plci
            PROVE  Ringing(D, p)
        <4>1. l # i
          BY <3>1
        <4>2. QED
          BY <1>1, <3>1, <4>1 DEF Ringing
      <3>2. QED
        BY <3>1 DEF Ringing
    <2>6. QED
      BY <2>2, <2>3, <2>4, <2>5
  <1>5. ASSUME NEW x, Waiting(D, x)
        PROVE  Waiting(C, x) /\ (C[i].state = "OUTGOING" => x # C[i].msgid)
    <2>1. PICK j \in DOMAIN D : D[j].msgid = x /\ D[j].state = "OUTGOING"
      BY <1>5 DEF Waiting
    <2>2. PICK l \in DOMAIN C : l # i /\ C[l] = D[j]
      BY <1>1
    <2>3. Apart(C[l], C[i]) /\ ConnFits(C[l], n)
      BY <1>3, <2>2
    <2>4. C[l].msgid # 0
      BY <2>1, <2>2, <2>3 DEF ConnFits, Held
    <2>5. QED
      BY <2>1, <2>2, <2>3, <2>4 DEF Waiting, Apart
  <1>6. ASSUME NEW x, Waiting(C, x), C[i].state = "OUTGOING" => x # C[i].msgid
        PROVE  Waiting(D, x)
    <2>1. PICK l \in DOMAIN C : C[l].msgid = x /\ C[l].state = "OUTGOING"
      BY <1>6 DEF Waiting
    <2>2. l # i
      BY <1>6, <2>1
    <2>3. QED
      BY <1>1, <2>1, <2>2 DEF Waiting
  <1>7. QED
    BY <1>2, <1>4, <1>5, <1>6

-----------------------------------------------------------------------------
(***************************************************************************)
(* The invariant.  C is the list of connections, n the next message        *)
(* number, s and r the two queues, S and R the messages in them, x and y   *)
(* what the controller thinks of PLCI p and of its link.                   *)
(***************************************************************************)
CallFits(C, S, R, x, y, p) ==
    /\ x = "idle" => ~Known(C, p) /\ OnlyStale(R, p) /\ Silent(S, p)
    /\ Sent(S, p, "DISCONNECT_RESP") => x = "clearing" /\ ~Known(C, p) /\ OnlyStale(R, p)
    /\ Sent(R, p, "DISCONNECT_IND") => x = "clearing"
    /\ x = "clearing" => Sent(R, p, "DISCONNECT_IND") \/ Sent(S, p, "DISCONNECT_RESP")
    /\ Offers(R, p) => /\ ~Known(C, p) /\ Silent(S, p)
                       /\ x \in {"ringing", "dialing", "active", "clearing"}
    /\ Sent(R, p, "CONNECT_IND") \/ Ringing(C, p) =>
         x \in {"ringing", "clearing"} /\ ~Sent(S, p, "CONNECT_RESP")
    /\ Sent(S, p, "CONNECT_RESP") => x \in {"ringing", "clearing"}
    /\ x = "ringing" => Known(C, p) \/ Offers(R, p) \/ Refuses(S, p)
    /\ x = "ringing" /\ Sent(S, p, "CONNECT_RESP") /\ ~Refuses(S, p) => Known(C, p)
    /\ x \in {"dialing", "active"} => Known(C, p) \/ Offers(R, p)
    /\ x \in {"answered", "called", "releasing"} => Known(C, p)
    /\ Sent(R, p, "CONNECT_B3_IND") => Known(C, p)
    /\ x \in {"idle", "dialing", "ringing", "answered", "clearing"} \/ Offers(R, p) => y = "none"
    /\ x = "releasing" => y = "clearing"

(* Only a request for a call has no PLCI yet; the address of a message     *)
(* from the controller is a PLCI or a link as its kind says.               *)
Down == {m \in Message : (m.cmd = "CONNECT_REQ") <=> (m.plci = 0)}
Up == {m \in Message : /\ m.plci \in Plcis
                       /\ m.cmd \in {"CONNECT_IND", "CONNECT_CONF", "DISCONNECT_IND"} => m.n = 0
                       /\ m.cmd \in {"DISCONNECT_B3_IND", "DATA_B3_CONF"} => m.n = 1}

QueuesFit(s, r) == /\ s \in Seq(Down) /\ r \in Seq(Up) /\ CapiOrder(s) /\ AppOrder(r)
                 /\ Distinct(s, "CONNECT_REQ") /\ Distinct(r, "CONNECT_CONF")

(* Each call set-up under way is the one of a connection that waits.       *)
Numbers(C, S, R) ==
    \A x : /\ Asks(S, "CONNECT_REQ", x) => Waiting(C, x) /\ ~Asks(R, "CONNECT_CONF", x)
           /\ Asks(R, "CONNECT_CONF", x) => Waiting(C, x)

Line(C, n, s, r, dd, bb) ==
    /\ C \in Seq(Connection) /\ n \in Nat \ {0} /\ Fit(C, n)
    /\ QueuesFit(s, r) /\ Numbers(C, Range(s), Range(r))
    /\ \A p \in Plcis : CallFits(C, Range(s), Range(r), dd[p], bb[p], p)

LEMMA Sets == Up \subseteq Message /\ Down \subseteq Message /\ 0 \notin Plcis
              /\ \A m \in Down : m.cmd # "CONNECT_REQ" => m.plci \in Plcis
  <1>1. 0 \notin Plcis
    BY CapiAssumption
  <1>2. \A m \in Message : m.plci \in Plcis \cup {0}
    BY DEF Message
  <1>3. QED
    BY <1>1, <1>2 DEF Up, Down

(* The library takes a message ...                                         *)
LEMMA DropQ ==
  ASSUME NEW s, NEW r, QueuesFit(s, r), r # <<>>, NEW m, m = Head(r), NEW q, q = Tail(r)
  PROVE  /\ QueuesFit(s, q) /\ m \in Up /\ m.plci \in Plcis /\ More(Range(q), Range(r), m)
         /\ Offers(Range(q), m.plci) => Stale(m)
         /\ m.cmd = "DISCONNECT_IND" => OnlyStale(Range(q), m.plci)
         /\ m.cmd = "CONNECT_CONF" => ~Asks(Range(q), "CONNECT_CONF", m.num)
  <1>1. r \in Seq(Up) /\ AppOrder(r) /\ Distinct(r, "CONNECT_CONF")
    BY DEF QueuesFit
  <1>2. m \in Up /\ q \in Seq(Up)
    BY <1>1
  <1>3. Range(r) = Range(q) \cup {m}
    BY <1>1, TailRange
  <1>4. More(Range(q), Range(r), m)
    BY <1>3, Added
  <1>5. /\ AppOrder(q) /\ Distinct(q, "CONNECT_CONF")
        /\ Offers(Range(q), m.plci) => Stale(m)
        /\ m.cmd = "DISCONNECT_IND" => OnlyStale(Range(q), m.plci)
        /\ m.cmd = "CONNECT_CONF" => ~Asks(Range(q), "CONNECT_CONF", m.num)
    BY <1>1, TailOrder
  <1>6. m.plci \in Plcis
    BY <1>2 DEF Up
  <1>7. QED
    BY <1>2, <1>4, <1>5, <1>6 DEF QueuesFit

(* ... or sends one; ...                                                   *)
LEMMA SayQ ==
  ASSUME NEW s, NEW r, QueuesFit(s, r), NEW m \in Down, NEW q, q = Tell(s, m),
         ~Sent(Range(s), m.plci, "DISCONNECT_RESP"),
         m.cmd = "CONNECT_RESP" => ~Sent(Range(s), m.plci, "CONNECT_RESP"),
         m.cmd = "CONNECT_REQ" => ~Asks(Range(s), "CONNECT_REQ", m.num)
  PROVE  QueuesFit(q, r) /\ More(Range(s), Range(q), m)
  <1>1. s \in Seq(Down) /\ CapiOrder(s) /\ Distinct(s, "CONNECT_REQ")
    BY DEF QueuesFit
  <1>2. q \in Seq(Down)
    BY <1>1, TellType
  <1>3. Range(q) = Range(s) \cup {m}
    BY <1>1, TellRange
  <1>4. More(Range(s), Range(q), m)
    BY <1>3, Added
  <1>5. CapiOrder(q) /\ Distinct(q, "CONNECT_REQ")
    BY <1>1, TellOrder
  <1>6. QED
    BY <1>2, <1>4, <1>5 DEF QueuesFit

(* ... the controller takes one ...                                        *)
LEMMA TakeQ ==
  ASSUME NEW s, NEW r, QueuesFit(s, r), s # <<>>, NEW m, m = Head(s), NEW q, q = Tail(s)
  PROVE  /\ QueuesFit(q, r) /\ m \in Down /\ More(Range(q), Range(s), m)
         /\ m.cmd = "DISCONNECT_RESP" => Silent(Range(q), m.plci)
         /\ m.cmd = "CONNECT_RESP" => ~Sent(Range(q), m.plci, "CONNECT_RESP")
         /\ m.cmd = "CONNECT_REQ" => ~Asks(Range(q), "CONNECT_REQ", m.num)
  <1>1. s \in Seq(Down) /\ CapiOrder(s) /\ Distinct(s, "CONNECT_REQ")
    BY DEF QueuesFit
  <1>2. m \in Down /\ q \in Seq(Down)
    BY <1>1
  <1>3. Range(s) = Range(q) \cup {m}
    BY <1>1, TailRange
  <1>4. More(Range(q), Range(s), m)
    BY <1>3, Added
  <1>5. /\ CapiOrder(q) /\ Distinct(q, "CONNECT_REQ")
        /\ m.cmd = "DISCONNECT_RESP" => Silent(Range(q), m.plci)
        /\ m.cmd = "CONNECT_RESP" => ~Sent(Range(q), m.plci, "CONNECT_RESP")
        /\ m.cmd = "CONNECT_REQ" => ~Asks(Range(q), "CONNECT_REQ", m.num)
    BY <1>1, TailOrder
  <1>6. QED
    BY <1>2, <1>4, <1>5 DEF QueuesFit

(* ... or sends one.                                                       *)
LEMMA TellQ ==
  ASSUME NEW s, NEW r, QueuesFit(s, r), NEW m \in Up, NEW q, q = Tell(r, m),
         Opens(m) => OnlyStale(Range(r), m.plci),
         Sent(Range(r), m.plci, "DISCONNECT_IND") => Stale(m),
         m.cmd = "CONNECT_CONF" => ~Asks(Range(r), "CONNECT_CONF", m.num)
  PROVE  QueuesFit(s, q) /\ More(Range(r), Range(q), m)
  <1>1. r \in Seq(Up) /\ AppOrder(r) /\ Distinct(r, "CONNECT_CONF")
    BY DEF QueuesFit
  <1>2. q \in Seq(Up)
    BY <1>1, TellType
  <1>3. Range(q) = Range(r) \cup {m}
    BY <1>1, TellRange
  <1>4. More(Range(r), Range(q), m)
    BY <1>3, Added
  <1>5. AppOrder(q) /\ Distinct(q, "CONNECT_CONF")
    BY <1>1, TellOrder
  <1>6. QED
    BY <1>2, <1>4, <1>5 DEF QueuesFit

-----------------------------------------------------------------------------
(* The steps of the library.  A message that neither opens nor ends a call *)
(* is taken.                                                               *)
LEMMA DropLine ==
  ASSUME NEW C, NEW n, NEW s, NEW r, NEW dd, NEW bb, Line(C, n, s, r, dd, bb),
         r # <<>>, NEW m, m = Head(r), ~Opens(m), m.cmd # "DISCONNECT_IND",
         NEW q, q = Tail(r)
  PROVE  Line(C, n, s, q, dd, bb)
  <1>1. QueuesFit(s, r) /\ Numbers(C, Range(s), Range(r))
    BY DEF Line
  <1>2. QueuesFit(s, q) /\ More(Range(q), Range(r), m)
    BY <1>1, DropQ
  <1>3. Numbers(C, Range(s), Range(q))
    BY <1>1, <1>2 DEF Numbers, More
  <1>4. ASSUME NEW p \in Plcis PROVE CallFits(C, Range(s), Range(q), dd[p], bb[p], p)
    <2>1. CallFits(C, Range(s), Range(r), dd[p], bb[p], p)
      BY DEF Line
    <2>2. /\ \A cmd : Sent(Range(q), p, cmd) => Sent(Range(r), p, cmd)
          /\ Offers(Range(q), p) <=> Offers(Range(r), p)
          /\ Sent(Range(q), p, "DISCONNECT_IND") <=> Sent(Range(r), p, "DISCONNECT_IND")
          /\ OnlyStale(Range(r), p) => OnlyStale(Range(q), p)
      BY <1>2 DEF More
    <2>3. QED
      BY <2>1, <2>2 DEF CallFits
  <1>5. QED
    BY <1>2, <1>3, <1>4 DEF Line

(* A connection goes on.                                                   *)
LEMMA KeepLine ==
  ASSUME NEW C, NEW n, NEW s, NEW r, NEW dd, NEW bb, Line(C, n, s, r, dd, bb),
         NEW D, NEW i, Near(C, D, i), Soft(C[i], D[i]), C[i].plci # 0
  PROVE  Line(D, n, s, r, dd, bb)
  <1>1. Fit(C, n) /\ Numbers(C, Range(s), Range(r))
    BY DEF Line
  <1>2. Fit(D, n) /\ Alike(C, D)
    BY <1>1, KeepFit
  <1>3. Numbers(D, Range(s), Range(r))
    BY <1>1, <1>2 DEF Numbers, Alike
  <1>4. ASSUME NEW p \in Plcis PROVE CallFits(D, Range(s), Range(r), dd[p], bb[p], p)
    <2>1. CallFits(C, Range(s), Range(r), dd[p], bb[p], p)
      BY DEF Line
    <2>2. (Known(D, p) <=> Known(C, p)) /\ (Ringing(D, p) => Ringing(C, p))
      BY <1>2 DEF Alike
    <2>3. QED
      BY <2>1, <2>2 DEF CallFits
  <1>5. QED
    BY <1>2, <1>3, <1>4 DEF Line, Near

(* A message about a call that the library knows is sent.                  *)
LEMMA SayLine ==
  ASSUME NEW C, NEW n, NEW s, NEW r, NEW dd, NEW bb, Line(C, n, s, r, dd, bb),
         NEW m \in Down, m.plci \in Plcis, Known(C, m.plci),
         m.cmd \notin {"CONNECT_RESP", "DISCONNECT_RESP"}, NEW q, q = Tell(s, m)
  PROVE  Line(C, n, q, r, dd, bb)
  <1>1. QueuesFit(s, r) /\ Numbers(C, Range(s), Range(r)) /\ m.cmd # "CONNECT_REQ"
    BY Sets DEF Line, Down
  <1>2. CallFits(C, Range(s), Range(r), dd[m.plci], bb[m.plci], m.plci)
    BY DEF Line
  <1>3. ~Sent(Range(s), m.plci, "DISCONNECT_RESP")
    BY <1>2 DEF CallFits
  <1>4. QueuesFit(q, r) /\ More(Range(s), Range(q), m)
    BY <1>1, <1>3, SayQ
  <1>5. Numbers(C, Range(q), Range(r))
    BY <1>1, <1>4 DEF Numbers, More
  <1>6. ASSUME NEW p \in Plcis PROVE CallFits(C, Range(q), Range(r), dd[p], bb[p], p)
    <2>1. CallFits(C, Range(s), Range(r), dd[p], bb[p], p)
      BY DEF Line
    <2>2. /\ Sent(Range(q), p, "DISCONNECT_RESP") <=> Sent(Range(s), p, "DISCONNECT_RESP")
          /\ Sent(Range(q), p, "CONNECT_RESP") <=> Sent(Range(s), p, "CONNECT_RESP")
          /\ Refuses(Range(q), p) <=> Refuses(Range(s), p)
          /\ Silent(Range(s), p) => Silent(Range(q), p) \/ Known(C, p)
      BY <1>4 DEF More
    <2>3. QED
      BY <2>1, <2>2 DEF CallFits
  <1>7. QED
    BY <1>4, <1>5, <1>6 DEF Line

(* The call is answered.                                                   *)
LEMMA ReplyLine ==
  ASSUME NEW C, NEW n, NEW s, NEW r, NEW dd, NEW bb, Line(C, n, s, r, dd, bb),
         NEW D, NEW i, Near(C, D, i), Soft(C[i], D[i]), C[i].state = "INCOMING",
         D[i].state # "INCOMING", NEW m \in Down, m.cmd = "CONNECT_RESP",
         m.plci = C[i].plci, NEW q, q = Tell(s, m)
  PROVE  Line(D, n, q, r, dd, bb)
  <1>1. Fit(C, n) /\ QueuesFit(s, r) /\ Numbers(C, Range(s), Range(r)) /\ i \in DOMAIN C
    BY DEF Line, Near
  <1>2. m.plci \in Plcis /\ C[i].plci # 0
    BY Sets
  <1>3. Ringing(C, m.plci) /\ Known(C, m.plci)
    BY <1>1 DEF Ringing, Known
  <1>4. CallFits(C, Range(s), Range(r), dd[m.plci], bb[m.plci], m.plci)
    BY <1>2 DEF Line
  <1>5. ~Sent(Range(s), m.plci, "DISCONNECT_RESP") /\ ~Sent(Range(s), m.plci, "CONNECT_RESP")
    BY <1>3, <1>4 DEF CallFits
  <1>6. QueuesFit(q, r) /\ More(Range(s), Range(q), m)
    BY <1>1, <1>5, SayQ
  <1>7. Fit(D, n) /\ Alike(C, D) /\ ~Ringing(D, m.plci)
    BY <1>1, <1>2, KeepFit
  <1>8. Numbers(D, Range(q), Range(r))
    BY <1>1, <1>6, <1>7 DEF Numbers, More, Alike
  <1>9. ASSUME NEW p \in Plcis PROVE CallFits(D, Range(q), Range(r), dd[p], bb[p], p)
    <2>1. CallFits(C, Range(s), Range(r), dd[p], bb[p], p)
      BY DEF Line
    <2>2. (Known(D, p) <=> Known(C, p)) /\ (Ringing(D, p) => Ringing(C, p))
      BY <1>7 DEF Alike
    <2>3. CASE p # m.plci
      <3>1. /\ Sent(Range(q), p, "DISCONNECT_RESP") <=> Sent(Range(s), p, "DISCONNECT_RESP")
            /\ Sent(Range(q), p, "CONNECT_RESP") <=> Sent(Range(s), p, "CONNECT_RESP")
            /\ Refuses(Range(q), p) <=> Refuses(Range(s), p)
            /\ Silent(Range(s), p) <=> Silent(Range(q), p)
        BY <1>6, <2>3 DEF More
      <3>2. QED
        BY <2>1, <2>2, <3>1 DEF CallFits
    <2>4. CASE p = m.plci
      <3>1. Sent(Range(q), p, "DISCONNECT_RESP") <=> Sent(Range(s), p, "DISCONNECT_RESP")
        BY <1>6 DEF More
      <3>2. Sent(Range(r), p, "CONNECT_IND") => Offers(Range(r), p)
        BY Kinds
      <3>3. Known(C, p) /\ Ringing(C, p) /\ ~Ringing(D, p)
        BY <1>3, <1>7, <2>4
      <3>4. QED
        BY <2>1, <2>2, <3>1, <3>2, <3>3 DEF CallFits
    <2>5. QED
      BY <2>3, <2>4
  <1>10. QED
    BY <1>6, <1>7, <1>8, <1>9 DEF Line, Near

(* The caller hears that it rings; the number of the request is kept.      *)
LEMMA AlertLine ==
  ASSUME NEW C, NEW n, NEW s, NEW r, NEW dd, NEW bb, Line(C, n, s, r, dd, bb),
         NEW D, NEW i, Near(C, D, i), C[i].state = "INCOMING",
         D[i] = [C[i] EXCEPT !.msgid = n]
  PROVE  Line(D, n + 1, s, r, dd, bb)
  <1>1. Fit(C, n) /\ Numbers(C, Range(s), Range(r)) /\ n \in Nat
    BY DEF Line
  <1>2. Fit(D, n + 1) /\ Alike(C, D) /\ n + 1 \in Nat \ {0}
    BY <1>1, AlertFit
  <1>3. Numbers(D, Range(s), Range(r))
    BY <1>1, <1>2 DEF Numbers, Alike
  <1>4. ASSUME NEW p \in Plcis PROVE CallFits(D, Range(s), Range(r), dd[p], bb[p], p)
    <2>1. CallFits(C, Range(s), Range(r), dd[p], bb[p], p)
      BY DEF Line
    <2>2. (Known(D, p) <=> Known(C, p)) /\ (Ringing(D, p) => Ringing(C, p))
      BY <1>2 DEF Alike
    <2>3. QED
      BY <2>1, <2>2 DEF CallFits
  <1>5. D \in Seq(Connection) /\ QueuesFit(s, r)
    BY DEF Line, Near
  <1>6. QED
    BY <1>2, <1>3, <1>4, <1>5 DEF Line

(* The application makes a call.                                           *)
LEMMA CallLine ==
  ASSUME NEW C, NEW n, NEW s, NEW r, NEW dd, NEW bb, Line(C, n, s, r, dd, bb),
         NEW D, NEW c, Joined(C, D, c), c.plci = 0, c.msgid = n, c.state = "OUTGOING",
         c.nccip = NoNcci, NEW m \in Down, m.cmd = "CONNECT_REQ", m.plci = 0, m.num = n,
         NEW q, q = Tell(s, m)
  PROVE  Line(D, n + 1, q, r, dd, bb)
  <1>1. Fit(C, n) /\ QueuesFit(s, r) /\ Numbers(C, Range(s), Range(r)) /\ n \in Nat \ {0}
    BY DEF Line
  <1>2. /\ Fit(D, n + 1) /\ ~Waiting(C, n)
        /\ \A p : p # 0 => /\ Known(D, p) <=> Known(C, p)
                           /\ Ringing(D, p) <=> Ringing(C, p)
        /\ \A x : Waiting(D, x) <=> (Waiting(C, x) \/ x = n)
    BY <1>1, CallFit
  <1>3. ~Asks(Range(s), "CONNECT_REQ", n) /\ ~Asks(Range(r), "CONNECT_CONF", n)
    BY <1>1, <1>2 DEF Numbers
  <1>4. ~Sent(Range(s), m.plci, "DISCONNECT_RESP")
    <2>1. \A w \in Range(s) : w \in Down
      BY <1>1 DEF QueuesFit, Range
    <2>2. \A w \in Range(s) : w.plci = 0 => w.cmd = "CONNECT_REQ"
      BY <2>1 DEF Down
    <2>3. QED
      BY <2>2 DEF Sent
  <1>5. QueuesFit(q, r) /\ More(Range(s), Range(q), m)
    BY <1>1, <1>3, <1>4, SayQ
  <1>6. Numbers(D, Range(q), Range(r))
    BY <1>1, <1>2, <1>3, <1>5 DEF Numbers, More
  <1>7. ASSUME NEW p \in Plcis PROVE CallFits(D, Range(q), Range(r), dd[p], bb[p], p)
    <2>1. CallFits(C, Range(s), Range(r), dd[p], bb[p], p) /\ p # 0
      BY Sets DEF Line
    <2>2. (Known(D, p) <=> Known(C, p)) /\ (Ringing(D, p) <=> Ringing(C, p))
      BY <1>2, <2>1
    <2>3. /\ Sent(Range(q), p, "DISCONNECT_RESP") <=> Sent(Range(s), p, "DISCONNECT_RESP")
          /\ Sent(Range(q), p, "CONNECT_RESP") <=> Sent(Range(s), p, "CONNECT_RESP")
          /\ Refuses(Range(q), p) <=> Refuses(Range(s), p)
          /\ Silent(Range(s), p) <=> Silent(Range(q), p)
      BY <1>5, <2>1 DEF More
    <2>4. QED
      BY <2>1, <2>2, <2>3 DEF CallFits
  <1>8. D \in Seq(Connection) /\ n + 1 \in Nat \ {0}
    BY <1>1 DEF Joined
  <1>9. QED
    BY <1>2, <1>5, <1>6, <1>7, <1>8 DEF Line

(* A call comes in and is linked in; ...                                   *)
LEMMA RingLine ==
  ASSUME NEW C, NEW n, NEW s, NEW r, NEW dd, NEW bb, Line(C, n, s, r, dd, bb),
         r # <<>>, NEW m, m = Head(r), m.cmd = "CONNECT_IND", NEW q, q = Tail(r),
         NEW D, NEW c, Joined(C, D, c), c.plci = m.plci, c.msgid = 0, c.state = "INCOMING"
  PROVE  Line(D, n, s, q, dd, bb)
  <1>1. Fit(C, n) /\ QueuesFit(s, r) /\ Numbers(C, Range(s), Range(r)) /\ n \in Nat \ {0}
    BY DEF Line
  <1>2. QueuesFit(s, q) /\ m.plci \in Plcis /\ More(Range(q), Range(r), m)
        /\ (Offers(Range(q), m.plci) => Stale(m))
    BY <1>1, DropQ
  <1>3. CallFits(C, Range(s), Range(r), dd[m.plci], bb[m.plci], m.plci)
    BY <1>2 DEF Line
  <1>4. Offers(Range(r), m.plci) /\ Sent(Range(r), m.plci, "CONNECT_IND")
    BY <1>2 DEF More, Opens
  <1>5. ~Known(C, m.plci)
    BY <1>3, <1>4 DEF CallFits
  <1>6. /\ Fit(D, n)
        /\ \A p : /\ Known(D, p) <=> (Known(C, p) \/ p = m.plci)
                  /\ Ringing(D, p) <=> (Ringing(C, p) \/ p = m.plci)
        /\ \A x : Waiting(D, x) <=> Waiting(C, x)
    BY <1>1, <1>2, <1>5, RingFit
  <1>7. Numbers(D, Range(s), Range(q))
    BY <1>1, <1>2, <1>6 DEF Numbers, More
  <1>8. ASSUME NEW p \in Plcis PROVE CallFits(D, Range(s), Range(q), dd[p], bb[p], p)
    <2>1. CallFits(C, Range(s), Range(r), dd[p], bb[p], p)
      BY DEF Line
    <2>2. CASE p # m.plci
      <3>1. /\ \A cmd : Sent(Range(q), p, cmd) <=> Sent(Range(r), p, cmd)
            /\ Offers(Range(q), p) <=> Offers(Range(r), p)
            /\ OnlyStale(Range(r), p) <=> OnlyStale(Range(q), p)
        BY <1>2, <2>2 DEF More
      <3>2. (Known(D, p) <=> Known(C, p)) /\ (Ringing(D, p) <=> Ringing(C, p))
        BY <1>6, <2>2
      <3>3. QED
        BY <2>1, <3>1, <3>2 DEF CallFits
    <2>3. CASE p = m.plci
      <3>1. /\ Sent(Range(q), p, "DISCONNECT_IND") <=> Sent(Range(r), p, "DISCONNECT_IND")
            /\ Sent(Range(q), p, "CONNECT_B3_IND") <=> Sent(Range(r), p, "CONNECT_B3_IND")
            /\ ~OnlyStale(Range(r), p)
        BY <1>2, <2>3 DEF More, Stale
      <3>2. ~Offers(Range(q), p)
        BY <1>2, <2>3 DEF Stale
      <3>3. Known(D, p) /\ Offers(Range(r), p) /\ Sent(Range(r), p, "CONNECT_IND")
        BY <1>4, <1>6, <2>3
      <3>4. ~Sent(Range(q), p, "CONNECT_IND") /\ ~Sent(Range(s), p, "DISCONNECT_RESP")
            /\ ~Sent(Range(s), p, "CONNECT_RESP")
        BY <2>1, <3>2, <3>3, Kinds DEF CallFits
      <3>5. QED
        BY <2>1, <3>1, <3>2, <3>3, <3>4 DEF CallFits
    <2>4. QED
      BY <2>2, <2>3
  <1>9. D \in Seq(Connection)
    BY DEF Joined
  <1>10. QED
    BY <1>1, <1>2, <1>6, <1>7, <1>8, <1>9 DEF Line

(* ... without memory for it, it is turned down.                           *)
LEMMA IgnoreLine ==
  ASSUME NEW C, NEW n, NEW s, NEW r, NEW dd, NEW bb, Line(C, n, s, r, dd, bb),
         r # <<>>, NEW m, m = Head(r), m.cmd = "CONNECT_IND", NEW q, q = Tail(r),
         NEW w \in Down, w.cmd = "CONNECT_RESP", w.plci = m.plci, w.arg # 0,
         NEW t, t = Tell(s, w)
  PROVE  Line(C, n, t, q, dd, bb)
  <1>1. QueuesFit(s, r) /\ Numbers(C, Range(s), Range(r))
    BY DEF Line
  <1>2. QueuesFit(s, q) /\ m.plci \in Plcis /\ More(Range(q), Range(r), m)
        /\ (Offers(Range(q), m.plci) => Stale(m))
    BY <1>1, DropQ
  <1>3. CallFits(C, Range(s), Range(r), dd[m.plci], bb[m.plci], m.plci)
    BY <1>2 DEF Line
  <1>4. Offers(Range(r), m.plci) /\ Sent(Range(r), m.plci, "CONNECT_IND")
    BY <1>2 DEF More, Opens
  <1>5. ~Sent(Range(s), m.plci, "DISCONNECT_RESP") /\ ~Sent(Range(s), m.plci, "CONNECT_RESP")
    BY <1>3, <1>4, Kinds DEF CallFits
  <1>6. QueuesFit(t, q) /\ More(Range(s), Range(t), w)
    BY <1>2, <1>5, SayQ
  <1>7. Numbers(C, Range(t), Range(q))
    BY <1>1, <1>2, <1>6 DEF Numbers, More
  <1>8. ASSUME NEW p \in Plcis PROVE CallFits(C, Range(t), Range(q), dd[p], bb[p], p)
    <2>1. CallFits(C, Range(s), Range(r), dd[p], bb[p], p)
      BY DEF Line
    <2>2. CASE p # m.plci
      <3>1. /\ \A cmd : Sent(Range(q), p, cmd) <=> Sent(Range(r), p, cmd)
            /\ Offers(Range(q), p) <=> Offers(Range(r), p)
            /\ OnlyStale(Range(r), p) <=> OnlyStale(Range(q), p)
        BY <1>2, <2>2 DEF More
      <3>2. /\ Sent(Range(t), p, "DISCONNECT_RESP") <=> Sent(Range(s), p, "DISCONNECT_RESP")
            /\ Sent(Range(t), p, "CONNECT_RESP") <=> Sent(Range(s), p, "CONNECT_RESP")
            /\ Refuses(Range(t), p) <=> Refuses(Range(s), p)
            /\ Silent(Range(s), p) <=> Silent(Range(t), p)
        BY <1>6, <2>2 DEF More
      <3>3. QED
        BY <2>1, <3>1, <3>2 DEF CallFits
    <2>3. CASE p = m.plci
      <3>1. /\ Sent(Range(q), p, "DISCONNECT_IND") <=> Sent(Range(r), p, "DISCONNECT_IND")
            /\ Sent(Range(q), p, "CONNECT_B3_IND") <=> Sent(Range(r), p, "CONNECT_B3_IND")
            /\ ~OnlyStale(Range(r), p)
        BY <1>2, <2>3 DEF More, Stale
      <3>2. ~Offers(Range(q), p)
        BY <1>2, <2>3 DEF Stale
      <3>3. ~Sent(Range(q), p, "CONNECT_IND")
        BY <3>2, Kinds
      <3>4. /\ Sent(Range(t), p, "DISCONNECT_RESP") <=> Sent(Range(s), p, "DISCONNECT_RESP")
            /\ Sent(Range(t), p, "CONNECT_RESP") /\ Refuses(Range(t), p)
        BY <1>6, <2>3 DEF More
      <3>5. Offers(Range(r), p) /\ Sent(Range(r), p, "CONNECT_IND")
        BY <1>4, <2>3
      <3>6. ~Known(C, p) /\ dd[p] \in {"ringing", "clearing"} /\ ~Ringing(C, p)
        BY <2>1, <3>5 DEF CallFits, Known, Ringing
      <3>7. QED
        BY <2>1, <3>1, <3>2, <3>3, <3>4, <3>5, <3>6 DEF CallFits
    <2>4. QED
      BY <2>2, <2>3
  <1>9. QED
    BY <1>6, <1>7, <1>8 DEF Line

(* The call that was made has its PLCI ...                                 *)
LEMMA PlaceLine ==
  ASSUME NEW C, NEW n, NEW s, NEW r, NEW dd, NEW bb, Line(C, n, s, r, dd, bb),
         r # <<>>, NEW m, m = Head(r), m.cmd = "CONNECT_CONF", m.arg = 0, NEW q, q = Tail(r),
         NEW D, NEW i, Near(C, D, i), C[i].state = "OUTGOING", C[i].msgid = m.num,
         D[i].plci = m.plci, D[i].state = "ALLOCATED", D[i].msgid = C[i].msgid
  PROVE  Line(D, n, s, q, dd, bb)
  <1>1. Fit(C, n) /\ QueuesFit(s, r) /\ Numbers(C, Range(s), Range(r)) /\ n \in Nat \ {0}
    BY DEF Line
  <1>2. /\ QueuesFit(s, q) /\ m.plci \in Plcis /\ More(Range(q), Range(r), m)
        /\ Offers(Range(q), m.plci) => Stale(m)
        /\ ~Asks(Range(q), "CONNECT_CONF", m.num)
    BY <1>1, DropQ
  <1>3. CallFits(C, Range(s), Range(r), dd[m.plci], bb[m.plci], m.plci)
    BY <1>2 DEF Line
  <1>4. Offers(Range(r), m.plci) /\ Asks(Range(r), "CONNECT_CONF", m.num)
    BY <1>2 DEF More, Opens
  <1>5. ~Known(C, m.plci) /\ ~Asks(Range(s), "CONNECT_REQ", m.num)
    BY <1>1, <1>3, <1>4 DEF CallFits, Numbers
  <1>6. /\ Fit(D, n)
        /\ \A p : p # 0 => /\ Known(D, p) <=> (Known(C, p) \/ p = m.plci)
                           /\ Ringing(D, p) <=> Ringing(C, p)
        /\ \A x : Waiting(D, x) <=> (Waiting(C, x) /\ x # m.num)
    BY <1>1, <1>2, <1>5, PlaceFit
  <1>7. Numbers(D, Range(s), Range(q))
    BY <1>1, <1>2, <1>5, <1>6 DEF Numbers, More
  <1>8. ASSUME NEW p \in Plcis PROVE CallFits(D, Range(s), Range(q), dd[p], bb[p], p)
    <2>1. CallFits(C, Range(s), Range(r), dd[p], bb[p], p) /\ p # 0
      BY Sets DEF Line
    <2>2. CASE p # m.plci
      <3>1. /\ \A cmd : Sent(Range(q), p, cmd) <=> Sent(Range(r), p, cmd)
            /\ Offers(Range(q), p) <=> Offers(Range(r), p)
            /\ OnlyStale(Range(r), p) <=> OnlyStale(Range(q), p)
        BY <1>2, <2>2 DEF More
      <3>2. (Known(D, p) <=> Known(C, p)) /\ (Ringing(D, p) <=> Ringing(C, p))
        BY <1>6, <2>1, <2>2
      <3>3. QED
        BY <2>1, <3>1, <3>2 DEF CallFits
    <2>3. CASE p = m.plci
      <3>1. /\ Sent(Range(q), p, "DISCONNECT_IND") <=> Sent(Range(r), p, "DISCONNECT_IND")
            /\ Sent(Range(q), p, "CONNECT_B3_IND") <=> Sent(Range(r), p, "CONNECT_B3_IND")
            /\ Sent(Range(q), p, "CONNECT_IND") <=> Sent(Range(r), p, "CONNECT_IND")
            /\ ~OnlyStale(Range(r), p)
        BY <1>2, <2>3 DEF More, Stale
      <3>2. ~Offers(Range(q), p)
        BY <1>2, <2>3 DEF Stale
      <3>3. Known(D, p) /\ Offers(Range(r), p) /\ (Ringing(D, p) <=> Ringing(C, p))
        BY <1>4, <1>6, <2>1, <2>3
      <3>4. ~Sent(Range(q), p, "CONNECT_IND") /\ ~Sent(Range(s), p, "DISCONNECT_RESP")
            /\ ~Sent(Range(s), p, "CONNECT_RESP")
        BY <2>1, <3>2, <3>3, Kinds DEF CallFits
      <3>5. QED
        BY <2>1, <3>1, <3>2, <3>3, <3>4 DEF CallFits
    <2>4. QED
      BY <2>2, <2>3
  <1>9. D \in Seq(Connection)
    BY DEF Near
  <1>10. QED
    BY <1>1, <1>2, <1>6, <1>7, <1>8, <1>9 DEF Line

(* ... or could not be made.                                               *)
LEMMA FailLine ==
  ASSUME NEW C, NEW n, NEW s, NEW r, NEW dd, NEW bb, Line(C, n, s, r, dd, bb),
         r # <<>>, NEW m, m = Head(r), m.cmd = "CONNECT_CONF", m.arg # 0, NEW q, q = Tail(r),
         NEW D, NEW i, Parted(C, D, i), C[i].state = "OUTGOING", C[i].msgid = m.num
  PROVE  Line(D, n, s, q, dd, bb)
  <1>1. Fit(C, n) /\ QueuesFit(s, r) /\ Numbers(C, Range(s), Range(r)) /\ n \in Nat \ {0}
        /\ i \in DOMAIN C
    BY DEF Line, Parted
  <1>2. /\ QueuesFit(s, q) /\ m.plci \in Plcis /\ More(Range(q), Range(r), m)
        /\ ~Asks(Range(q), "CONNECT_CONF", m.num)
    BY <1>1, DropQ
  <1>3. C[i].plci = 0
    BY <1>1 DEF Fit, ConnFits, Held
  <1>4. Asks(Range(r), "CONNECT_CONF", m.num)
    BY <1>2 DEF More
  <1>5. ~Asks(Range(s), "CONNECT_REQ", m.num)
    BY <1>1, <1>4 DEF Numbers
  <1>6. /\ Fit(D, n)
        /\ \A p : p # 0 => /\ Known(D, p) <=> (Known(C, p) /\ p # C[i].plci)
                           /\ Ringing(D, p) <=> (Ringing(C, p) /\ p # C[i].plci)
        /\ \A x : Waiting(C, x) /\ (C[i].state = "OUTGOING" => x # C[i].msgid)
                    => Waiting(D, x)
    BY <1>1, PartFit
  <1>7. Numbers(D, Range(s), Range(q))
    BY <1>1, <1>2, <1>5, <1>6 DEF Numbers, More
  <1>8. ASSUME NEW p \in Plcis PROVE CallFits(D, Range(s), Range(q), dd[p], bb[p], p)
    <2>1. CallFits(C, Range(s), Range(r), dd[p], bb[p], p) /\ p # 0
      BY Sets DEF Line
    <2>2. (Known(D, p) <=> Known(C, p)) /\ (Ringing(D, p) <=> Ringing(C, p))
      BY <1>3, <1>6, <2>1
    <2>3. /\ Sent(Range(q), p, "DISCONNECT_IND") <=> Sent(Range(r), p, "DISCONNECT_IND")
          /\ Sent(Range(q), p, "CONNECT_B3_IND") <=> Sent(Range(r), p, "CONNECT_B3_IND")
          /\ Sent(Range(q), p, "CONNECT_IND") <=> Sent(Range(r), p, "CONNECT_IND")
          /\ Offers(Range(q), p) <=> Offers(Range(r), p)
          /\ OnlyStale(Range(r), p) => OnlyStale(Range(q), p)
      BY <1>2 DEF More, Opens
    <2>4. QED
      BY <2>1, <2>2, <2>3 DEF CallFits
  <1>9. D \in Seq(Connection)
    BY DEF Parted
  <1>10. QED
    BY <1>1, <1>2, <1>6, <1>7, <1>8, <1>9 DEF Line

(* The list D is C without the connection on p.                            *)
Forgot(C, D, p) == \/ D = C /\ ~Known(C, p)
                   \/ \E i \in DOMAIN C : C[i].plci = p /\ Parted(C, D, i)

(* The call has ended: the connection, if there is one, is gone and the    *)
(* controller is told.                                                     *)
LEMMA EndLine ==
  ASSUME NEW C, NEW n, NEW s, NEW r, NEW dd, NEW bb, Line(C, n, s, r, dd, bb),
         r # <<>>, NEW m, m = Head(r), m.cmd = "DISCONNECT_IND", NEW q, q = Tail(r),
         NEW D, Forgot(C, D, m.plci),
         NEW w \in Down, w.cmd = "DISCONNECT_RESP", w.plci = m.plci,
         NEW t, t = Tell(s, w)
  PROVE  Line(D, n, t, q, dd, bb)
  <1>1. Fit(C, n) /\ QueuesFit(s, r) /\ Numbers(C, Range(s), Range(r)) /\ n \in Nat \ {0}
        /\ C \in Seq(Connection)
    BY DEF Line
  <1>2. /\ QueuesFit(s, q) /\ m.plci \in Plcis /\ More(Range(q), Range(r), m)
        /\ OnlyStale(Range(q), m.plci) /\ m.plci # 0
    BY <1>1, DropQ, Sets
  <1>3. CallFits(C, Range(s), Range(r), dd[m.plci], bb[m.plci], m.plci)
    BY <1>2 DEF Line
  <1>4. Sent(Range(r), m.plci, "DISCONNECT_IND") /\ ~OnlyStale(Range(r), m.plci)
    BY <1>2 DEF More, Stale
  <1>5. ~Sent(Range(s), m.plci, "DISCONNECT_RESP") /\ dd[m.plci] = "clearing"
    BY <1>3, <1>4 DEF CallFits
  <1>6. QueuesFit(t, q) /\ More(Range(s), Range(t), w)
    BY <1>2, <1>5, SayQ
  <1>7. /\ Fit(D, n) /\ D \in Seq(Connection)
        /\ \A p : p # 0 => /\ Known(D, p) <=> (Known(C, p) /\ p # m.plci)
                           /\ Ringing(D, p) <=> (Ringing(C, p) /\ p # m.plci)
        /\ \A x : Waiting(C, x) => Waiting(D, x)
    <2>1. CASE D = C /\ ~Known(C, m.plci)
      <3>1. ~Ringing(C, m.plci)
        BY <2>1 DEF Known, Ringing
      <3>2. QED
        BY <1>1, <2>1, <3>1
    <2>2. CASE \E i \in DOMAIN C : C[i].plci = m.plci /\ Parted(C, D, i)
      <3>1. PICK i \in DOMAIN C : C[i].plci = m.plci /\ Parted(C, D, i)
        BY <2>2
      <3>2. C[i].state # "OUTGOING"
        BY <1>1, <1>2, <3>1 DEF Fit, ConnFits, Held
      <3>3. /\ Fit(D, n)
            /\ \A p : p # 0 => /\ Known(D, p) <=> (Known(C, p) /\ p # C[i].plci)
                               /\ Ringing(D, p) <=> (Ringing(C, p) /\ p # C[i].plci)
            /\ \A x : Waiting(C, x) /\ (C[i].state = "OUTGOING" => x # C[i].msgid)
                        => Waiting(D, x)
        BY <1>1, <3>1, PartFit
      <3>4. QED
        BY <3>1, <3>2, <3>3 DEF Parted
    <2>3. QED
      BY <2>1, <2>2 DEF Forgot
  <1>8. Numbers(D, Range(t), Range(q))
    BY <1>1, <1>2, <1>6, <1>7 DEF Numbers, More
  <1>9. ASSUME NEW p \in Plcis PROVE CallFits(D, Range(t), Range(q), dd[p], bb[p], p)
    <2>1. CallFits(C, Range(s), Range(r), dd[p], bb[p], p) /\ p # 0
      BY Sets DEF Line
    <2>2. CASE p # m.plci
      <3>1. /\ \A cmd : Sent(Range(q), p, cmd) <=> Sent(Range(r), p, cmd)
            /\ Offers(Range(q), p) <=> Offers(Range(r), p)
            /\ OnlyStale(Range(r), p) <=> OnlyStale(Range(q), p)
        BY <1>2, <2>2 DEF More
      <3>2. /\ Sent(Range(t), p, "DISCONNECT_RESP") <=> Sent(Range(s), p, "DISCONNECT_RESP")
            /\ Sent(Range(t), p, "CONNECT_RESP") <=> Sent(Range(s), p, "CONNECT_RESP")
            /\ Refuses(Range(t), p) <=> Refuses(Range(s), p)
            /\ Silent(Range(s), p) <=> Silent(Range(t), p)
        BY <1>6, <2>2 DEF More
      <3>3. (Known(D, p) <=> Known(C, p)) /\ (Ringing(D, p) <=> Ringing(C, p))
        BY <1>7, <2>1, <2>2
      <3>4. QED
        BY <2>1, <3>1, <3>2, <3>3 DEF CallFits
    <2>3. CASE p = m.plci
      <3>1. OnlyStale(Range(q), p) /\ dd[p] = "clearing"
        BY <1>2, <1>5, <2>3
      <3>2. /\ ~Offers(Range(q), p) /\ ~Sent(Range(q), p, "DISCONNECT_IND")
            /\ ~Sent(Range(q), p, "CONNECT_B3_IND") /\ ~Sent(Range(q), p, "CONNECT_IND")
        BY <3>1, Kinds
      <3>3. Sent(Range(t), p, "DISCONNECT_RESP")
        BY <1>6, <2>3 DEF More
      <3>4. ~Known(D, p) /\ ~Ringing(D, p)
        BY <1>7, <2>1, <2>3
      <3>5. bb[p] = "none"
        BY <2>1, <3>1 DEF CallFits
      <3>6. QED
        BY <3>1, <3>2, <3>3, <3>4, <3>5 DEF CallFits
    <2>4. QED
      BY <2>2, <2>3
  <1>10. QED
    BY <1>1, <1>6, <1>7, <1>8, <1>9 DEF Line

-----------------------------------------------------------------------------
(* The steps of the controller.  It takes a message that changes nothing   *)
(* about a call, ...                                                       *)
LEMMA TakeLine ==
  ASSUME NEW C, NEW n, NEW s, NEW r, NEW dd, NEW bb, Line(C, n, s, r, dd, bb),
         s # <<>>, NEW m, m = Head(s), m.cmd \notin {"CONNECT_REQ", "DISCONNECT_RESP"},
         m.cmd = "CONNECT_RESP" => dd[m.plci] # "ringing", NEW q, q = Tail(s)
  PROVE  Line(C, n, q, r, dd, bb)
  <1>1. QueuesFit(s, r) /\ Numbers(C, Range(s), Range(r))
    BY DEF Line
  <1>2. QueuesFit(q, r) /\ More(Range(q), Range(s), m)
    BY <1>1, TakeQ
  <1>3. Numbers(C, Range(q), Range(r))
    BY <1>1, <1>2 DEF Numbers, More
  <1>4. ASSUME NEW p \in Plcis PROVE CallFits(C, Range(q), Range(r), dd[p], bb[p], p)
    <2>1. CallFits(C, Range(s), Range(r), dd[p], bb[p], p)
      BY DEF Line
    <2>2. /\ Sent(Range(q), p, "DISCONNECT_RESP") <=> Sent(Range(s), p, "DISCONNECT_RESP")
          /\ Sent(Range(q), p, "CONNECT_RESP") => Sent(Range(s), p, "CONNECT_RESP")
          /\ Silent(Range(s), p) => Silent(Range(q), p)
          /\ dd[p] = "ringing" =>
               /\ Sent(Range(q), p, "CONNECT_RESP") <=> Sent(Range(s), p, "CONNECT_RESP")
               /\ Refuses(Range(q), p) <=> Refuses(Range(s), p)
      BY <1>2 DEF More
    <2>3. QED
      BY <2>1, <2>2 DEF CallFits
  <1>5. QED
    BY <1>2, <1>3, <1>4 DEF Line

(* The controller's view has turned to x on PLCI p.                        *)
Turned(dd, ee, p, x) == ee[p] = x /\ \A q \in Plcis : q # p => ee[q] = dd[q]

(* ... takes our answer to a call, ...                                     *)
LEMMA AnswerLine ==
  ASSUME NEW C, NEW n, NEW s, NEW r, NEW dd, NEW bb, Line(C, n, s, r, dd, bb),
         s # <<>>, NEW m, m = Head(s), m.cmd = "CONNECT_RESP", m.arg = 0,
         dd[m.plci] = "ringing", NEW q, q = Tail(s), NEW ee, Turned(dd, ee, m.plci, "answered")
  PROVE  Line(C, n, q, r, ee, bb)
  <1>0. ee[m.plci] = "answered" /\ \A p \in Plcis : p # m.plci => ee[p] = dd[p]
    BY DEF Turned
  <1>1. QueuesFit(s, r) /\ Numbers(C, Range(s), Range(r))
    BY DEF Line
  <1>2. QueuesFit(q, r) /\ More(Range(q), Range(s), m) /\ m \in Down
        /\ ~Sent(Range(q), m.plci, "CONNECT_RESP")
    BY <1>1, TakeQ
  <1>3. Numbers(C, Range(q), Range(r))
    BY <1>1, <1>2 DEF Numbers, More
  <1>4. ASSUME NEW p \in Plcis PROVE CallFits(C, Range(q), Range(r), ee[p], bb[p], p)
    <2>1. CallFits(C, Range(s), Range(r), dd[p], bb[p], p)
      BY DEF Line
    <2>2. CASE p # m.plci
      <3>1. /\ Sent(Range(q), p, "DISCONNECT_RESP") <=> Sent(Range(s), p, "DISCONNECT_RESP")
            /\ Sent(Range(q), p, "CONNECT_RESP") <=> Sent(Range(s), p, "CONNECT_RESP")
            /\ Silent(Range(s), p) <=> Silent(Range(q), p)
            /\ Refuses(Range(q), p) <=> Refuses(Range(s), p)
            /\ ee[p] = dd[p]
        BY <1>0, <1>2, <2>2 DEF More
      <3>2. QED
        BY <2>1, <3>1 DEF CallFits
    <2>3. CASE p = m.plci
      <3>1. /\ Sent(Range(q), p, "DISCONNECT_RESP") <=> Sent(Range(s), p, "DISCONNECT_RESP")
            /\ Sent(Range(s), p, "CONNECT_RESP") /\ ~Silent(Range(s), p)
            /\ Refuses(Range(q), p) <=> Refuses(Range(s), p)
        BY <1>2, <2>3 DEF More
      <3>2. ~Sent(Range(q), p, "CONNECT_RESP") /\ ee[p] = "answered" /\ dd[p] = "ringing"
        BY <1>0, <1>2, <2>3
      <3>3. ~Refuses(Range(q), p)
        BY <3>2, Kinds
      <3>4. QED
        BY <2>1, <3>1, <3>2, <3>3 DEF CallFits
    <2>4. QED
      BY <2>2, <2>3
  <1>5. QED
    BY <1>2, <1>3, <1>4 DEF Line

(* ... takes our word that the end of a call was heard: the PLCI is free.  *)
LEMMA FreeLine ==
  ASSUME NEW C, NEW n, NEW s, NEW r, NEW dd, NEW bb, Line(C, n, s, r, dd, bb),
         s # <<>>, NEW m, m = Head(s), m.cmd = "DISCONNECT_RESP",
         NEW q, q = Tail(s), NEW ee, Turned(dd, ee, m.plci, "idle")
  PROVE  Line(C, n, q, r, ee, bb)
  <1>0. ee[m.plci] = "idle" /\ \A p \in Plcis : p # m.plci => ee[p] = dd[p]
    BY DEF Turned
  <1>1. QueuesFit(s, r) /\ Numbers(C, Range(s), Range(r))
    BY DEF Line
  <1>2. QueuesFit(q, r) /\ More(Range(q), Range(s), m) /\ Silent(Range(q), m.plci)
    BY <1>1, TakeQ
  <1>3. Numbers(C, Range(q), Range(r))
    BY <1>1, <1>2 DEF Numbers, More
  <1>4. ASSUME NEW p \in Plcis PROVE CallFits(C, Range(q), Range(r), ee[p], bb[p], p)
    <2>1. CallFits(C, Range(s), Range(r), dd[p], bb[p], p)
      BY DEF Line
    <2>2. CASE p # m.plci
      <3>1. /\ Sent(Range(q), p, "DISCONNECT_RESP") <=> Sent(Range(s), p, "DISCONNECT_RESP")
            /\ Sent(Range(q), p, "CONNECT_RESP") <=> Sent(Range(s), p, "CONNECT_RESP")
            /\ Silent(Range(s), p) <=> Silent(Range(q), p)
            /\ Refuses(Range(q), p) <=> Refuses(Range(s), p)
            /\ ee[p] = dd[p]
        BY <1>0, <1>2, <2>2 DEF More
      <3>2. QED
        BY <2>1, <3>1 DEF CallFits
    <2>3. CASE p = m.plci
      <3>1. Sent(Range(s), p, "DISCONNECT_RESP")
        BY <1>2, <2>3 DEF More
      <3>2. Silent(Range(q), p) /\ ee[p] = "idle"
        BY <1>0, <1>2, <2>3
      <3>3. /\ ~Sent(Range(q), p, "DISCONNECT_RESP") /\ ~Sent(Range(q), p, "CONNECT_RESP")
            /\ ~Refuses(Range(q), p)
        BY <3>2, Kinds
      <3>4. dd[p] = "clearing" /\ ~Known(C, p) /\ OnlyStale(Range(r), p) /\ bb[p] = "none"
        BY <2>1, <3>1 DEF CallFits
      <3>5. /\ ~Offers(Range(r), p) /\ ~Sent(Range(r), p, "DISCONNECT_IND")
            /\ ~Sent(Range(r), p, "CONNECT_B3_IND") /\ ~Sent(Range(r), p, "CONNECT_IND")
        BY <3>4, Kinds
      <3>6. ~Ringing(C, p)
        BY <3>4 DEF Known, Ringing
      <3>7. QED
        BY <3>2, <3>3, <3>4, <3>5, <3>6 DEF CallFits
    <2>4. QED
      BY <2>2, <2>3
  <1>5. QED
    BY <1>2, <1>3, <1>4 DEF Line

(* ... and turns a request for a call down ...                             *)
LEMMA RefuseLine ==
  ASSUME NEW C, NEW n, NEW s, NEW r, NEW dd, NEW bb, Line(C, n, s, r, dd, bb),
         s # <<>>, NEW m, m = Head(s), m.cmd = "CONNECT_REQ", NEW q, q = Tail(s),
         NEW w \in Up, w.cmd = "CONNECT_CONF", w.arg # 0, w.num = m.num,
         NEW t, t = Tell(r, w)
  PROVE  Line(C, n, q, t, dd, bb)
  <1>1. QueuesFit(s, r) /\ Numbers(C, Range(s), Range(r))
    BY DEF Line
  <1>2. QueuesFit(q, r) /\ More(Range(q), Range(s), m) /\ m \in Down
        /\ ~Asks(Range(q), "CONNECT_REQ", m.num)
    BY <1>1, TakeQ
  <1>3. Asks(Range(s), "CONNECT_REQ", m.num)
    BY <1>2 DEF More
  <1>4. ~Asks(Range(r), "CONNECT_CONF", m.num) /\ Waiting(C, m.num)
    BY <1>1, <1>3 DEF Numbers
  <1>5. Stale(w) /\ ~Opens(w)
    BY DEF Stale, Opens
  <1>6. QueuesFit(q, t) /\ More(Range(r), Range(t), w)
    BY <1>2, <1>4, <1>5, TellQ
  <1>7. Numbers(C, Range(q), Range(t))
    BY <1>1, <1>2, <1>4, <1>6 DEF Numbers, More
  <1>8. ASSUME NEW p \in Plcis PROVE CallFits(C, Range(q), Range(t), dd[p], bb[p], p)
    <2>1. CallFits(C, Range(s), Range(r), dd[p], bb[p], p) /\ p # m.plci
      BY <1>2, Sets DEF Line, Down
    <2>2. /\ Sent(Range(q), p, "DISCONNECT_RESP") <=> Sent(Range(s), p, "DISCONNECT_RESP")
          /\ Sent(Range(q), p, "CONNECT_RESP") <=> Sent(Range(s), p, "CONNECT_RESP")
          /\ Silent(Range(s), p) <=> Silent(Range(q), p)
          /\ Refuses(Range(q), p) <=> Refuses(Range(s), p)
      BY <1>2, <2>1 DEF More
    <2>3. /\ Sent(Range(t), p, "DISCONNECT_IND") <=> Sent(Range(r), p, "DISCONNECT_IND")
          /\ Sent(Range(t), p, "CONNECT_IND") <=> Sent(Range(r), p, "CONNECT_IND")
          /\ Sent(Range(t), p, "CONNECT_B3_IND") <=> Sent(Range(r), p, "CONNECT_B3_IND")
          /\ Offers(Range(t), p) <=> Offers(Range(r), p)
          /\ OnlyStale(Range(t), p) <=> OnlyStale(Range(r), p)
      BY <1>5, <1>6 DEF More
    <2>4. QED
      BY <2>1, <2>2, <2>3 DEF CallFits
  <1>9. QED
    BY <1>6, <1>7, <1>8 DEF Line

(* ... or makes the call.                                                  *)
LEMMA DialLine ==
  ASSUME NEW C, NEW n, NEW s, NEW r, NEW dd, NEW bb, Line(C, n, s, r, dd, bb),
         s # <<>>, NEW m, m = Head(s), m.cmd = "CONNECT_REQ", NEW q, q = Tail(s),
         NEW w \in Up, w.cmd = "CONNECT_CONF", w.arg = 0, w.num = m.num,
         dd[w.plci] = "idle", NEW t, t = Tell(r, w), NEW ee, Turned(dd, ee, w.plci, "dialing")
  PROVE  Line(C, n, q, t, ee, bb)
  <1>0. ee[w.plci] = "dialing" /\ \A p \in Plcis : p # w.plci => ee[p] = dd[p]
    BY DEF Turned
  <1>1. QueuesFit(s, r) /\ Numbers(C, Range(s), Range(r))
    BY DEF Line
  <1>2. QueuesFit(q, r) /\ More(Range(q), Range(s), m) /\ m \in Down
        /\ ~Asks(Range(q), "CONNECT_REQ", m.num)
    BY <1>1, TakeQ
  <1>3. Asks(Range(s), "CONNECT_REQ", m.num)
    BY <1>2 DEF More
  <1>4. ~Asks(Range(r), "CONNECT_CONF", m.num) /\ Waiting(C, m.num)
    BY <1>1, <1>3 DEF Numbers
  <1>5. ~Stale(w) /\ Opens(w) /\ w.plci \in Plcis
    BY DEF Stale, Opens, Up
  <1>6. CallFits(C, Range(s), Range(r), dd[w.plci], bb[w.plci], w.plci)
    BY <1>5 DEF Line
  <1>7. OnlyStale(Range(r), w.plci) /\ ~Known(C, w.plci) /\ Silent(Range(s), w.plci)
        /\ bb[w.plci] = "none"
    BY <1>6 DEF CallFits
  <1>8. ~Sent(Range(r), w.plci, "DISCONNECT_IND") /\ ~Sent(Range(r), w.plci, "CONNECT_IND")
        /\ ~Sent(Range(r), w.plci, "CONNECT_B3_IND")
    BY <1>7, Kinds
  <1>9. QueuesFit(q, t) /\ More(Range(r), Range(t), w)
    BY <1>2, <1>4, <1>7, <1>8, TellQ
  <1>10. Numbers(C, Range(q), Range(t))
    BY <1>1, <1>2, <1>4, <1>9 DEF Numbers, More
  <1>11. ASSUME NEW p \in Plcis PROVE CallFits(C, Range(q), Range(t), ee[p], bb[p], p)
    <2>1. CallFits(C, Range(s), Range(r), dd[p], bb[p], p) /\ p # m.plci
      BY <1>2, Sets DEF Line, Down
    <2>2. /\ Sent(Range(q), p, "DISCONNECT_RESP") <=> Sent(Range(s), p, "DISCONNECT_RESP")
          /\ Sent(Range(q), p, "CONNECT_RESP") <=> Sent(Range(s), p, "CONNECT_RESP")
          /\ Silent(Range(s), p) <=> Silent(Range(q), p)
          /\ Refuses(Range(q), p) <=> Refuses(Range(s), p)
      BY <1>2, <2>1 DEF More
    <2>3. CASE p # w.plci
      <3>1. /\ Sent(Range(t), p, "DISCONNECT_IND") <=> Sent(Range(r), p, "DISCONNECT_IND")
            /\ Sent(Range(t), p, "CONNECT_IND") <=> Sent(Range(r), p, "CONNECT_IND")
            /\ Sent(Range(t), p, "CONNECT_B3_IND") <=> Sent(Range(r), p, "CONNECT_B3_IND")
            /\ Offers(Range(t), p) <=> Offers(Range(r), p)
            /\ OnlyStale(Range(t), p) <=> OnlyStale(Range(r), p)
            /\ ee[p] = dd[p]
        BY <1>0, <1>9, <2>3 DEF More
      <3>2. QED
        BY <2>1, <2>2, <3>1 DEF CallFits
    <2>4. CASE p = w.plci
      <3>1. /\ ~Sent(Range(t), p, "DISCONNECT_IND") /\ ~Sent(Range(t), p, "CONNECT_IND")
            /\ ~Sent(Range(t), p, "CONNECT_B3_IND") /\ Offers(Range(t), p)
        BY <1>5, <1>8, <1>9, <2>4 DEF More
      <3>2. ~Known(C, p) /\ Silent(Range(q), p) /\ bb[p] = "none" /\ ee[p] = "dialing"
        BY <1>0, <1>7, <2>2, <2>4
      <3>3. ~Sent(Range(q), p, "DISCONNECT_RESP") /\ ~Sent(Range(q), p, "CONNECT_RESP")
            /\ ~Refuses(Range(q), p)
        BY <3>2, Kinds
      <3>4. ~Ringing(C, p)
        BY <3>2 DEF Known, Ringing
      <3>5. QED
        BY <3>1, <3>2, <3>3, <3>4 DEF CallFits
    <2>5. QED
      BY <2>3, <2>4
  <1>12. QED
    BY <1>9, <1>10, <1>11 DEF Line

(* A call comes from the network.                                          *)
LEMMA OfferLine ==
  ASSUME NEW C, NEW n, NEW s, NEW r, NEW dd, NEW bb, Line(C, n, s, r, dd, bb),
         NEW w \in Up, w.cmd = "CONNECT_IND",
         dd[w.plci] = "idle", NEW t, t = Tell(r, w), NEW ee, ee[w.plci] = "ringing",
         \A p \in Plcis : p # w.plci => ee[p] = dd[p]
  PROVE  Line(C, n, s, t, ee, bb)
  <1>1. QueuesFit(s, r) /\ Numbers(C, Range(s), Range(r))
    BY DEF Line
  <1>2. ~Stale(w) /\ Opens(w) /\ w.plci \in Plcis
    BY DEF Stale, Opens, Up
  <1>3. CallFits(C, Range(s), Range(r), dd[w.plci], bb[w.plci], w.plci)
    BY <1>2 DEF Line
  <1>4. OnlyStale(Range(r), w.plci) /\ ~Known(C, w.plci) /\ Silent(Range(s), w.plci)
        /\ bb[w.plci] = "none"
    BY <1>3 DEF CallFits
  <1>5. ~Sent(Range(r), w.plci, "DISCONNECT_IND") /\ ~Sent(Range(r), w.plci, "CONNECT_B3_IND")
    BY <1>4, Kinds
  <1>6. QueuesFit(s, t) /\ More(Range(r), Range(t), w)
    BY <1>1, <1>4, <1>5, TellQ
  <1>7. Numbers(C, Range(s), Range(t))
    BY <1>1, <1>6 DEF Numbers, More
  <1>8. ASSUME NEW p \in Plcis PROVE CallFits(C, Range(s), Range(t), ee[p], bb[p], p)
    <2>1. CallFits(C, Range(s), Range(r), dd[p], bb[p], p)
      BY DEF Line
    <2>2. CASE p # w.plci
      <3>1. /\ Sent(Range(t), p, "DISCONNECT_IND") <=> Sent(Range(r), p, "DISCONNECT_IND")
            /\ Sent(Range(t), p, "CONNECT_IND") <=> Sent(Range(r), p, "CONNECT_IND")
            /\ Sent(Range(t), p, "CONNECT_B3_IND") <=> Sent(Range(r), p, "CONNECT_B3_IND")
            /\ Offers(Range(t), p) <=> Offers(Range(r), p)
            /\ OnlyStale(Range(t), p) <=> OnlyStale(Range(r), p)
            /\ ee[p] = dd[p]
        BY <1>6, <2>2 DEF More
      <3>2. QED
        BY <2>1, <3>1 DEF CallFits
    <2>3. CASE p = w.plci
      <3>1. /\ ~Sent(Range(t), p, "DISCONNECT_IND")
            /\ ~Sent(Range(t), p, "CONNECT_B3_IND") /\ Offers(Range(t), p)
        BY <1>2, <1>5, <1>6, <2>3 DEF More
      <3>2. ~Known(C, p) /\ Silent(Range(s), p) /\ bb[p] = "none" /\ ee[p] = "ringing"
        BY <1>4, <2>3
      <3>3. ~Sent(Range(s), p, "DISCONNECT_RESP") /\ ~Sent(Range(s), p, "CONNECT_RESP")
            /\ ~Refuses(Range(s), p)
        BY <3>2, Kinds
      <3>4. QED
        BY <3>1, <3>2, <3>3 DEF CallFits
    <2>4. QED
      BY <2>2, <2>3
  <1>9. QED
    BY <1>6, <1>7, <1>8 DEF Line

(* A confirmation that means nothing for the call is sent ...              *)
LEMMA StaleLine ==
  ASSUME NEW C, NEW n, NEW s, NEW r, NEW dd, NEW bb, Line(C, n, s, r, dd, bb),
         NEW w \in Up, Stale(w), w.cmd # "CONNECT_CONF", NEW t, t = Tell(r, w)
  PROVE  Line(C, n, s, t, dd, bb)
  <1>1. QueuesFit(s, r) /\ Numbers(C, Range(s), Range(r))
    BY DEF Line
  <1>2. ~Opens(w) /\ w.cmd \notin {"DISCONNECT_IND", "CONNECT_IND", "CONNECT_B3_IND"}
    BY DEF Stale, Opens
  <1>3. QueuesFit(s, t) /\ More(Range(r), Range(t), w)
    BY <1>1, <1>2, TellQ
  <1>4. Numbers(C, Range(s), Range(t))
    BY <1>1, <1>3 DEF Numbers, More
  <1>5. ASSUME NEW p \in Plcis PROVE CallFits(C, Range(s), Range(t), dd[p], bb[p], p)
    <2>1. CallFits(C, Range(s), Range(r), dd[p], bb[p], p)
      BY DEF Line
    <2>2. /\ Sent(Range(t), p, "DISCONNECT_IND") <=> Sent(Range(r), p, "DISCONNECT_IND")
          /\ Sent(Range(t), p, "CONNECT_IND") <=> Sent(Range(r), p, "CONNECT_IND")
          /\ Sent(Range(t), p, "CONNECT_B3_IND") <=> Sent(Range(r), p, "CONNECT_B3_IND")
          /\ Offers(Range(t), p) <=> Offers(Range(r), p)
          /\ OnlyStale(Range(t), p) <=> OnlyStale(Range(r), p)
      BY <1>2, <1>3 DEF More
    <2>3. QED
      BY <2>1, <2>2 DEF CallFits
  <1>6. QED
    BY <1>3, <1>4, <1>5 DEF Line

(* ... and one about a call that goes on.                                  *)
LEMMA LiveLine ==
  ASSUME NEW C, NEW n, NEW s, NEW r, NEW dd, NEW bb, Line(C, n, s, r, dd, bb),
         NEW w \in Up, w.cmd \notin {"CONNECT_CONF", "CONNECT_IND", "DISCONNECT_IND"},
         dd[w.plci] \notin {"idle", "clearing"},
         w.cmd = "CONNECT_B3_IND" => Known(C, w.plci), NEW t, t = Tell(r, w)
  PROVE  Line(C, n, s, t, dd, bb)
  <1>1. QueuesFit(s, r) /\ Numbers(C, Range(s), Range(r))
    BY DEF Line
  <1>2. ~Opens(w) /\ w.plci \in Plcis
    BY DEF Opens, Up
  <1>3. CallFits(C, Range(s), Range(r), dd[w.plci], bb[w.plci], w.plci)
    BY <1>2 DEF Line
  <1>4. ~Sent(Range(r), w.plci, "DISCONNECT_IND") /\ ~Sent(Range(s), w.plci, "DISCONNECT_RESP")
    BY <1>3 DEF CallFits
  <1>5. QueuesFit(s, t) /\ More(Range(r), Range(t), w)
    BY <1>1, <1>2, <1>4, TellQ
  <1>6. Numbers(C, Range(s), Range(t))
    BY <1>1, <1>5 DEF Numbers, More
  <1>7. ASSUME NEW p \in Plcis PROVE CallFits(C, Range(s), Range(t), dd[p], bb[p], p)
    <2>1. CallFits(C, Range(s), Range(r), dd[p], bb[p], p)
      BY DEF Line
    <2>2. /\ Sent(Range(t), p, "DISCONNECT_IND") <=> Sent(Range(r), p, "DISCONNECT_IND")
          /\ Sent(Range(t), p, "CONNECT_IND") <=> Sent(Range(r), p, "CONNECT_IND")
          /\ Sent(Range(t), p, "CONNECT_B3_IND") =>
               Sent(Range(r), p, "CONNECT_B3_IND") \/ Known(C, p)
          /\ Offers(Range(t), p) <=> Offers(Range(r), p)
          /\ p # w.plci => (OnlyStale(Range(t), p) <=> OnlyStale(Range(r), p))
      BY <1>2, <1>5 DEF More
    <2>3. QED
      BY <1>4, <2>1, <2>2 DEF CallFits
  <1>8. QED
    BY <1>5, <1>6, <1>7 DEF Line

(* The link of a call changes.                                             *)
LEMMA LinkLine ==
  ASSUME NEW C, NEW n, NEW s, NEW r, NEW dd, NEW bb, Line(C, n, s, r, dd, bb),
         NEW p \in Plcis, NEW cc, \A q \in Plcis : q # p => cc[q] = bb[q],
         dd[p] # "releasing",
         cc[p] = "none" \/ (dd[p] \in {"active", "called"} /\ ~Offers(Range(r), p))
  PROVE  Line(C, n, s, r, dd, cc)
  <1>1. ASSUME NEW q \in Plcis PROVE CallFits(C, Range(s), Range(r), dd[q], cc[q], q)
    <2>1. CallFits(C, Range(s), Range(r), dd[q], bb[q], q)
      BY DEF Line
    <2>2. CASE q # p
      BY <2>1, <2>2
    <2>3. CASE q = p
      BY <2>1, <2>3 DEF CallFits
    <2>4. QED
      BY <2>2, <2>3
  <1>2. QED
    BY <1>1 DEF Line

(* A call gets through.                                                    *)
LEMMA MoveLine ==
  ASSUME NEW C, NEW n, NEW s, NEW r, NEW dd, NEW bb, Line(C, n, s, r, dd, bb),
         NEW p \in Plcis, NEW ee, \A q \in Plcis : q # p => ee[q] = dd[q],
         \/ dd[p] = "dialing" /\ ee[p] = "active"
         \/ dd[p] = "answered" /\ ee[p] = "called"
  PROVE  Line(C, n, s, r, ee, bb)
  <1>1. ASSUME NEW q \in Plcis PROVE CallFits(C, Range(s), Range(r), ee[q], bb[q], q)
    <2>1. CallFits(C, Range(s), Range(r), dd[q], bb[q], q)
      BY DEF Line
    <2>2. CASE q # p
      BY <2>1, <2>2
    <2>3. CASE q = p
      BY <2>1, <2>3 DEF CallFits
    <2>4. QED
      BY <2>2, <2>3
  <1>2. QED
    BY <1>1 DEF Line

(* A link that is not there any more, or soon.                             *)
InUseStates == {"dialing", "ringing", "answered", "called", "active"}

LEMMA LinkInUse ==
  ASSUME NEW C, NEW S, NEW R, NEW x \in DStates, NEW y, NEW p, CallFits(C, S, R, x, y, p),
         y # "none", x # "releasing" \/ y # "clearing"
  PROVE  x \in {"active", "called"} /\ ~Offers(R, p) /\ Known(C, p)
  BY DEF CallFits, DStates

(* The call is to end when its link has gone.                              *)
LEMMA ReleaseLine ==
  ASSUME NEW C, NEW n, NEW s, NEW r, NEW dd, NEW bb, Line(C, n, s, r, dd, bb),
         NEW p \in Plcis, NEW ee, \A q \in Plcis : q # p => ee[q] = dd[q],
         dd[p] \in InUseStates, bb[p] = "clearing", ee[p] = "releasing"
  PROVE  Line(C, n, s, r, ee, bb)
  <1>1. ASSUME NEW q \in Plcis PROVE CallFits(C, Range(s), Range(r), ee[q], bb[q], q)
    <2>1. CallFits(C, Range(s), Range(r), dd[q], bb[q], q)
      BY DEF Line
    <2>2. CASE q # p
      BY <2>1, <2>2
    <2>3. CASE q = p
      BY <2>1, <2>3 DEF CallFits, InUseStates
    <2>4. QED
      BY <2>2, <2>3
  <1>2. QED
    BY <1>1 DEF Line

(* The end of a call is reported.                                          *)
LEMMA FinishLine ==
  ASSUME NEW C, NEW n, NEW s, NEW r, NEW dd, NEW bb, Line(C, n, s, r, dd, bb),
         NEW w \in Up, w.cmd = "DISCONNECT_IND", dd[w.plci] \notin {"idle", "clearing"},
         NEW ee, ee[w.plci] = "clearing", \A p \in Plcis : p # w.plci => ee[p] = dd[p],
         NEW cc, cc[w.plci] = "none", \A p \in Plcis : p # w.plci => cc[p] = bb[p],
         NEW t, t = Tell(r, w)
  PROVE  Line(C, n, s, t, ee, cc)
  <1>1. QueuesFit(s, r) /\ Numbers(C, Range(s), Range(r))
    BY DEF Line
  <1>2. ~Opens(w) /\ w.plci \in Plcis
    BY DEF Opens, Up
  <1>3. CallFits(C, Range(s), Range(r), dd[w.plci], bb[w.plci], w.plci)
    BY <1>2 DEF Line
  <1>4. ~Sent(Range(r), w.plci, "DISCONNECT_IND") /\ ~Sent(Range(s), w.plci, "DISCONNECT_RESP")
    BY <1>3 DEF CallFits
  <1>5. QueuesFit(s, t) /\ More(Range(r), Range(t), w)
    BY <1>1, <1>2, <1>4, TellQ
  <1>6. Numbers(C, Range(s), Range(t))
    BY <1>1, <1>5 DEF Numbers, More
  <1>7. ASSUME NEW p \in Plcis PROVE CallFits(C, Range(s), Range(t), ee[p], cc[p], p)
    <2>1. CallFits(C, Range(s), Range(r), dd[p], bb[p], p)
      BY DEF Line
    <2>2. /\ Sent(Range(t), p, "CONNECT_IND") <=> Sent(Range(r), p, "CONNECT_IND")
          /\ Sent(Range(t), p, "CONNECT_B3_IND") <=> Sent(Range(r), p, "CONNECT_B3_IND")
          /\ Offers(Range(t), p) <=> Offers(Range(r), p)
      BY <1>2, <1>5 DEF More
    <2>3. CASE p # w.plci
      <3>1. /\ Sent(Range(t), p, "DISCONNECT_IND") <=> Sent(Range(r), p, "DISCONNECT_IND")
            /\ OnlyStale(Range(t), p) <=> OnlyStale(Range(r), p)
            /\ ee[p] = dd[p] /\ cc[p] = bb[p]
        BY <1>5, <2>3 DEF More
      <3>2. QED
        BY <2>1, <2>2, <3>1 DEF CallFits
    <2>4. CASE p = w.plci
      <3>1. Sent(Range(t), p, "DISCONNECT_IND") /\ ee[p] = "clearing" /\ cc[p] = "none"
        BY <1>5, <2>4 DEF More
      <3>2. QED
        BY <1>4, <2>1, <2>2, <2>4, <3>1 DEF CallFits
    <2>5. QED
      BY <2>3, <2>4
  <1>8. QED
    BY <1>5, <1>6, <1>7 DEF Line

-----------------------------------------------------------------------------
(* The calls of the library keep the invariant.  What a call sent follows  *)
(* what was under way.                                                     *)
LEMMA OutTell ==
  ASSUME NEW S, NEW s \in Seq(S), NEW w \in S, NEW v \in S
  PROVE  /\ s \o <<>> = s /\ s \o Tell(<<>>, w) = Tell(s, w)
         /\ s \o Tell(Tell(<<>>, w), v) = Tell(Tell(s, w), v)
  BY DEF Tell

LEMMA LineSeq ==
  ASSUME NEW C, NEW n, NEW s, NEW r, NEW dd, NEW bb, Line(C, n, s, r, dd, bb)
  PROVE  /\ s \in Seq(Message) /\ s \in Seq(Down) /\ r \in Seq(Up) /\ s \o <<>> = s
         /\ Fit(C, n) /\ n \in Nat \ {0} /\ C \in Seq(Connection)
  <1>1. s \in Seq(Down) /\ r \in Seq(Up)
    BY DEF Line, QueuesFit
  <1>2. s \in Seq(Message)
    BY <1>1, Sets
  <1>3. s \o <<>> = s
    BY <1>2
  <1>4. QED
    BY <1>1, <1>2, <1>3 DEF Line

LEMMA TurnsKeep ==
  ASSUME NEW C, NEW D, NEW i, Turns(C, D, i)
  PROVE  /\ Near(C, D, i) /\ Soft(C[i], D[i]) /\ i \in DOMAIN C /\ i \in DOMAIN D
         /\ D[i].plci = C[i].plci /\ Known(C, C[i].plci) /\ Known(D, C[i].plci)
  BY DEF Turns, Near, Soft, Known

LEMMA QuietDown ==
  ASSUME NEW m \in Message, m.plci # 0, m.cmd # "CONNECT_REQ"
  PROVE  m \in Down /\ m.plci \in Plcis
  BY DEF Message, Down

LEMMA MildLine ==
  ASSUME NEW k \in Cards, NEW g, NEW s, NEW r, NEW dd, NEW bb, NEW i,
         Line(k.conns, k.msgid, s, r, dd, bb), k.out = <<>>, Mild(k, g, i),
         k.conns[i].plci # 0
  PROVE  Line(g.conns, g.msgid, s \o g.out, r, dd, bb)
  <1>1. Turns(k.conns, g.conns, i) /\ g.msgid = k.msgid
    BY DEF Mild
  <1>2. Near(k.conns, g.conns, i) /\ Soft(k.conns[i], g.conns[i])
        /\ Known(g.conns, k.conns[i].plci)
    BY <1>1, TurnsKeep
  <1>3. Line(g.conns, k.msgid, s, r, dd, bb)
    BY <1>2, KeepLine
  <1>4. s \in Seq(Message) /\ s \o <<>> = s
    BY <1>3, LineSeq
  <1>5. CASE g.out = k.out
    <2>1. s \o g.out = s
      BY <1>4, <1>5
    <2>2. QED
      BY <1>1, <1>3, <2>1
  <1>6. CASE \E m \in Message : m.plci = k.conns[i].plci /\ m.cmd \in Quiet
                                /\ g.out = Tell(k.out, m)
    <2>1. PICK m \in Message : m.plci = k.conns[i].plci /\ m.cmd \in Quiet
                               /\ g.out = Tell(k.out, m)
      BY <1>6
    <2>2. m.cmd \notin {"CONNECT_RESP", "DISCONNECT_RESP", "CONNECT_REQ"}
      BY <2>1 DEF Quiet
    <2>3. m \in Down /\ m.plci \in Plcis
      BY <2>1, <2>2, QuietDown
    <2>4. s \o g.out = Tell(s, m)
      <3>1. g.out = Tell(<<>>, m)
        BY <2>1, Zenon
      <3>2. s \o Tell(<<>>, m) = Tell(s, m)
        BY <1>4, OutTell
      <3>3. QED
        BY <3>1, <3>2, Zenon
    <2>5. Known(g.conns, m.plci)
      BY <1>2, <2>1
    <2>6. Line(g.conns, k.msgid, Tell(s, m), r, dd, bb)
      BY <1>3, <2>2, <2>3, <2>5, SayLine
    <2>7. QED
      BY <1>1, <2>4, <2>6, Zenon
  <1>7. QED
    BY <1>5, <1>6 DEF Mild

LEMMA RespDown ==
  ASSUME NEW p, p # 0, NEW a, NEW m, m = Msg("CONNECT_RESP", p, 0, 0, a), m \in Message
  PROVE  m \in Down /\ m.cmd = "CONNECT_RESP" /\ m.plci = p /\ m.arg = a
  BY DEF Msg, Down

LEMMA AnswersLine ==
  ASSUME NEW k \in Cards, NEW g, NEW s, NEW r, NEW dd, NEW bb, NEW i, NEW a,
         Line(k.conns, k.msgid, s, r, dd, bb), k.out = <<>>, Answers(k, g, i, a)
  PROVE  Line(g.conns, g.msgid, s \o g.out, r, dd, bb)
  <1> DEFINE m == Msg("CONNECT_RESP", k.conns[i].plci, 0, 0, a)
  <1>1. /\ k.conns[i].state = "INCOMING" /\ g.msgid = k.msgid /\ Turns(k.conns, g.conns, i)
        /\ g.conns[i].state = "ACCEPTING" /\ m \in Message /\ g.out = Tell(k.out, m)
    BY Zenon DEF Answers
  <1>2. Near(k.conns, g.conns, i) /\ Soft(k.conns[i], g.conns[i]) /\ i \in DOMAIN k.conns
    BY <1>1, TurnsKeep
  <1>3. Fit(k.conns, k.msgid) /\ s \in Seq(Message)
    BY LineSeq
  <1>4. k.conns[i].plci # 0
    BY <1>1, <1>2, <1>3 DEF Fit, ConnFits
  <1>5. m \in Down /\ m.cmd = "CONNECT_RESP" /\ m.plci = k.conns[i].plci
    BY <1>1, <1>4, RespDown
  <1> HIDE DEF m
  <1>6. s \o g.out = Tell(s, m)
    <2>1. g.out = Tell(<<>>, m)
      BY <1>1, Zenon
    <2>2. s \o Tell(<<>>, m) = Tell(s, m)
      BY <1>1, <1>3, OutTell
    <2>3. QED
      BY <2>1, <2>2, Zenon
  <1>7. g.conns[i].state # "INCOMING"
    BY <1>1
  <1>8. Line(g.conns, k.msgid, Tell(s, m), r, dd, bb)
    BY <1>1, <1>2, <1>5, <1>7, ReplyLine
  <1>9. QED
    BY <1>1, <1>6, <1>8, Zenon

LEMMA NextNumber ==
  ASSUME NEW x \in 0 .. MsgMod - 1, (x + 1) % MsgMod # 0
  PROVE  (x + 1) % MsgMod = x + 1
  <1>1. MsgMod \in Nat \ {0}
    BY CapiAssumption
  <1>2. CASE x + 1 = MsgMod
    BY <1>1, <1>2
  <1>3. CASE x + 1 < MsgMod
    BY <1>1, <1>3
  <1>4. QED
    BY <1>1, <1>2, <1>3

LEMMA AskedLine ==
  ASSUME NEW k \in Cards, NEW g, NEW s, NEW r, NEW dd, NEW bb, NEW i,
         Line(k.conns, k.msgid, s, r, dd, bb), k.out = <<>>, Asked(k, g, i), g.msgid # 0
  PROVE  Line(g.conns, g.msgid, s \o g.out, r, dd, bb)
  <1>1. s \in Seq(Message) /\ s \o <<>> = s
    BY LineSeq
  <1>2. CASE g = k
    <2>1. s \o g.out = s
      BY <1>1, <1>2
    <2>2. QED
      BY <1>2, <2>1
  <1>3. CASE \E a \in {0, 1, 2} : Answers(k, g, i, a)
    BY <1>3, AnswersLine
  <1>4. CASE Alerts(k, g, i)
    <2>1. /\ k.conns[i].state = "INCOMING" /\ g.msgid = (k.msgid + 1) % MsgMod
          /\ g.out = k.out /\ Near(k.conns, g.conns, i)
          /\ g.conns[i] = [k.conns[i] EXCEPT !.msgid = k.msgid]
      BY <1>4 DEF Alerts
    <2>2. k.msgid \in 0 .. MsgMod - 1
      BY DEF Cards
    <2>3. g.msgid = k.msgid + 1
      BY <2>1, <2>2, NextNumber
    <2>4. Line(g.conns, k.msgid + 1, s, r, dd, bb)
      BY <2>1, AlertLine
    <2>5. s \o g.out = s
      BY <1>1, <2>1
    <2>6. QED
      BY <2>3, <2>4, <2>5
  <1>5. QED
    BY <1>2, <1>3, <1>4 DEF Asked

(* A call comes in.                                                        *)
LEMMA IncomingLine ==
  ASSUME NEW k \in Cards, NEW g, NEW s, NEW r, NEW dd, NEW bb,
         Line(k.conns, k.msgid, s, r, dd, bb), k.out = <<>>, r # <<>>, NEW m, m = Head(r),
         m.cmd = "CONNECT_IND", g.msgid # 0, NEW q, q = Tail(r),
         \/ Ignores(k, g, m.plci)
         \/ \E h : Rings(k, h, m.plci) /\ Asked(h, g, 1)
  PROVE  Line(g.conns, g.msgid, s \o g.out, q, dd, bb)
  <1>1. s \in Seq(Message) /\ QueuesFit(s, r)
    BY LineSeq DEF Line
  <1>2. m.plci \in Plcis /\ m.plci # 0
    BY <1>1, DropQ, Sets
  <1>3. CASE Ignores(k, g, m.plci)
    <2> DEFINE w == Msg("CONNECT_RESP", m.plci, 0, 0, 1)
    <2>1. g.conns = k.conns /\ g.msgid = k.msgid /\ w \in Message /\ g.out = Tell(k.out, w)
      BY <1>3, Zenon DEF Ignores
    <2>2. w \in Down /\ w.cmd = "CONNECT_RESP" /\ w.plci = m.plci /\ w.arg = 1
      BY <1>2, <2>1, RespDown
    <2> HIDE DEF w
    <2>3. s \o g.out = Tell(s, w)
      <3>1. g.out = Tell(<<>>, w)
        BY <2>1, Zenon
      <3>2. s \o Tell(<<>>, w) = Tell(s, w)
        BY <1>1, <2>1, OutTell
      <3>3. QED
        BY <3>1, <3>2, Zenon
    <2>4. w.arg # 0
      BY <2>2
    <2>5. Line(k.conns, k.msgid, Tell(s, w), q, dd, bb)
      BY <2>2, <2>4, IgnoreLine
    <2>6. QED
      BY <2>1, <2>3, <2>5, Zenon
  <1>4. ASSUME NEW h, Rings(k, h, m.plci), Asked(h, g, 1)
        PROVE  Line(g.conns, g.msgid, s \o g.out, q, dd, bb)
    <2>1. h \in Cards /\ h.msgid = k.msgid /\ h.out = <<>>
      BY <1>4 DEF Rings
    <2>2. PICK c \in Connection : /\ Joined(k.conns, h.conns, c) /\ c.plci = m.plci
                                  /\ c.msgid = 0 /\ c.state = "INCOMING"
      BY <1>4 DEF Rings
    <2>3. Line(h.conns, k.msgid, s, q, dd, bb)
      BY <2>2, RingLine
    <2>4. Line(h.conns, h.msgid, s, q, dd, bb)
      BY <2>1, <2>3
    <2>5. QED
      BY <1>4, <2>1, <2>4, AskedLine
  <1>5. QED
    BY <1>3, <1>4

(* A call set-up is confirmed: the number finds the connection that waits. *)
LEMMA WaitingOne ==
  ASSUME NEW C, NEW n, Fit(C, n), NEW x, Waiting(C, x), NEW i \in DOMAIN C, C[i].msgid = x
  PROVE  C[i].state = "OUTGOING"
  <1>1. PICK j \in DOMAIN C : C[j].msgid = x /\ C[j].state = "OUTGOING"
    BY DEF Waiting
  <1>2. C[j].msgid # 0
    BY <1>1 DEF Fit, ConnFits, Held
  <1>3. i = j
    BY <1>1, <1>2 DEF Fit, Apart
  <1>4. QED
    BY <1>1, <1>3

LEMMA ConfirmLine ==
  ASSUME NEW k \in Cards, NEW g, NEW s, NEW r, NEW dd, NEW bb,
         Line(k.conns, k.msgid, s, r, dd, bb), k.out = <<>>, r # <<>>, NEW m, m = Head(r),
         m.cmd = "CONNECT_CONF", NEW q, q = Tail(r), g = ConnectConf(k, m)
  PROVE  Line(g.conns, g.msgid, s \o g.out, q, dd, bb)
  <1>1. s \o <<>> = s /\ QueuesFit(s, r) /\ Fit(k.conns, k.msgid)
        /\ Numbers(k.conns, Range(s), Range(r))
    BY LineSeq DEF Line
  <1>2. m \in Up /\ More(Range(q), Range(r), m)
    BY <1>1, DropQ
  <1>3. m \in Message
    BY <1>2, Sets
  <1>4. /\ g.msgid = k.msgid /\ g.out = k.out
        /\ \/ g = k /\ \A j \in DOMAIN k.conns : k.conns[j].msgid # m.num
           \/ \E i \in DOMAIN k.conns :
                /\ k.conns[i].msgid = m.num
                /\ k.conns[i].state = "OUTGOING" =>
                     IF m.arg # 0 THEN Parted(k.conns, g.conns, i)
                     ELSE /\ Near(k.conns, g.conns, i)
                          /\ g.conns[i].plci = m.plci /\ g.conns[i].state = "ALLOCATED"
                          /\ g.conns[i].msgid = k.conns[i].msgid
                          /\ g.conns[i].nccip = k.conns[i].nccip
    BY <1>3, ConnectConfIs
  <1>5. Waiting(k.conns, m.num)
    BY <1>1, <1>2 DEF Numbers, More
  <1>6. PICK i \in DOMAIN k.conns :
                /\ k.conns[i].msgid = m.num
                /\ k.conns[i].state = "OUTGOING" =>
                     IF m.arg # 0 THEN Parted(k.conns, g.conns, i)
                     ELSE /\ Near(k.conns, g.conns, i)
                          /\ g.conns[i].plci = m.plci /\ g.conns[i].state = "ALLOCATED"
                          /\ g.conns[i].msgid = k.conns[i].msgid
                          /\ g.conns[i].nccip = k.conns[i].nccip
    BY <1>4, <1>5 DEF Waiting
  <1>7. k.conns[i].state = "OUTGOING"
    BY <1>1, <1>5, <1>6, WaitingOne
  <1>8. Line(g.conns, k.msgid, s, q, dd, bb)
    <2>1. CASE m.arg # 0
      <3>1. Parted(k.conns, g.conns, i)
        BY <1>6, <1>7, <2>1
      <3>2. QED
        BY <1>6, <1>7, <2>1, <3>1, FailLine
    <2>2. CASE m.arg = 0
      <3>1. /\ Near(k.conns, g.conns, i)
            /\ g.conns[i].plci = m.plci /\ g.conns[i].state = "ALLOCATED"
            /\ g.conns[i].msgid = k.conns[i].msgid
        BY <1>6, <1>7, <2>2
      <3>2. QED
        BY <1>6, <1>7, <2>2, <3>1, PlaceLine
    <2>3. QED
      BY <2>1, <2>2
  <1>9. s \o g.out = s
    BY <1>1, <1>4
  <1>10. QED
    BY <1>4, <1>8, <1>9

(* A call has ended.                                                       *)
LEMMA EndedLine ==
  ASSUME NEW k \in Cards, NEW g, NEW s, NEW r, NEW dd, NEW bb,
         Line(k.conns, k.msgid, s, r, dd, bb), k.out = <<>>, r # <<>>, NEW m, m = Head(r),
         m.cmd = "DISCONNECT_IND", NEW q, q = Tail(r), g = DisconnectInd(k, m)
  PROVE  Line(g.conns, g.msgid, s \o g.out, q, dd, bb)
  <1>1. s \in Seq(Message) /\ QueuesFit(s, r) /\ Fit(k.conns, k.msgid)
    BY LineSeq DEF Line
  <1>2. m \in Up /\ m.plci # 0
    BY <1>1, DropQ, Sets
  <1>3. m \in Message
    BY <1>2, Sets
  <1> DEFINE w == Reply(m, "DISCONNECT_RESP")
  <1>4. /\ w \in Message /\ w.cmd = "DISCONNECT_RESP" /\ w.plci = m.plci
        /\ g.msgid = k.msgid /\ g.out = Tell(k.out, w)
        /\ \/ g.conns = k.conns /\ \A j \in DOMAIN k.conns : k.conns[j].plci # m.plci
           \/ \E i \in DOMAIN k.conns :
                /\ k.conns[i].plci = m.plci
                /\ k.conns[i].state \in Held => Parted(k.conns, g.conns, i)
    BY <1>3, DisconnectIndIs
  <1> HIDE DEF w
  <1>5. w \in Down
    BY <1>2, <1>4 DEF Down
  <1>6. Forgot(k.conns, g.conns, m.plci)
    <2>1. CASE g.conns = k.conns /\ \A j \in DOMAIN k.conns : k.conns[j].plci # m.plci
      BY <2>1 DEF Known, Forgot
    <2>2. ASSUME NEW i \in DOMAIN k.conns, k.conns[i].plci = m.plci,
                 k.conns[i].state \in Held => Parted(k.conns, g.conns, i)
          PROVE  Forgot(k.conns, g.conns, m.plci)
      <3>1. Parted(k.conns, g.conns, i)
        BY <1>1, <1>2, <2>2 DEF Fit, ConnFits
      <3>2. QED
        BY <2>2, <3>1 DEF Forgot
    <2>3. QED
      BY <1>4, <2>1, <2>2
  <1>7. Line(g.conns, k.msgid, Tell(s, w), q, dd, bb)
    <2>1. w.cmd = "DISCONNECT_RESP" /\ w.plci = m.plci
      BY <1>4
    <2>2. QED
      BY <1>5, <1>6, <2>1, EndLine
  <1>8. s \o g.out = Tell(s, w)
    <2>1. g.out = Tell(<<>>, w)
      BY <1>4, Zenon
    <2>2. s \o Tell(<<>>, w) = Tell(s, w)
      BY <1>1, <1>4, OutTell
    <2>3. QED
      BY <2>1, <2>2, Zenon
  <1>9. QED
    BY <1>4, <1>7, <1>8, Zenon

(* The link has gone.                                                      *)
LEMMA ClearsLine ==
  ASSUME NEW k \in Cards, NEW g, NEW s, NEW r, NEW dd, NEW bb, NEW i,
         Line(k.conns, k.msgid, s, r, dd, bb), k.out = <<>>, NEW w \in Message,
         w.cmd = "DISCONNECT_B3_RESP", w.plci = k.conns[i].plci, Clears(k, g, i, w),
         k.conns[i].plci # 0
  PROVE  Line(g.conns, g.msgid, s \o g.out, r, dd, bb)
  <1>1. Turns(k.conns, g.conns, i) /\ g.msgid = k.msgid
    BY DEF Clears
  <1>2. Near(k.conns, g.conns, i) /\ Soft(k.conns[i], g.conns[i])
        /\ Known(g.conns, k.conns[i].plci)
    BY <1>1, TurnsKeep
  <1>3. Line(g.conns, k.msgid, s, r, dd, bb)
    BY <1>2, KeepLine
  <1>4. s \in Seq(Message)
    BY <1>3, LineSeq
  <1>5. w \in Down /\ w.plci \in Plcis /\ w.cmd \notin {"CONNECT_RESP", "DISCONNECT_RESP"}
    BY QuietDown
  <1>6. Line(g.conns, k.msgid, Tell(s, w), r, dd, bb)
    BY <1>2, <1>3, <1>5, SayLine
  <1>7. CASE g.out = Tell(k.out, w)
    <2>1. g.out = Tell(<<>>, w)
      BY <1>7, Zenon
    <2>2. s \o Tell(<<>>, w) = Tell(s, w)
      BY <1>4, OutTell
    <2>3. QED
      BY <1>1, <1>6, <2>1, <2>2, Zenon
  <1>8. ASSUME NEW v \in Message, v.plci = k.conns[i].plci, v.cmd = "DISCONNECT_REQ",
               g.out = Tell(Tell(k.out, w), v)
        PROVE  Line(g.conns, g.msgid, s \o g.out, r, dd, bb)
    <2>1. g.out = Tell(Tell(<<>>, w), v)
      BY <1>8, Zenon
    <2>2. s \o Tell(Tell(<<>>, w), v) = Tell(Tell(s, w), v)
      BY <1>4, OutTell
    <2>3. v \in Down /\ v.plci \in Plcis /\ v.cmd \notin {"CONNECT_RESP", "DISCONNECT_RESP"}
      BY <1>8, QuietDown
    <2>4. Known(g.conns, v.plci)
      BY <1>2, <1>8
    <2>5. Line(g.conns, k.msgid, Tell(Tell(s, w), v), r, dd, bb)
      BY <1>6, <2>3, <2>4, SayLine
    <2>6. QED
      BY <1>1, <2>1, <2>2, <2>5, Zenon
  <1>9. QED
    BY <1>7, <1>8 DEF Clears

LEMMA HandledLine ==
  ASSUME NEW k \in Cards, NEW g, NEW s, NEW r, NEW dd, NEW bb,
         Line(k.conns, k.msgid, s, r, dd, bb), k.out = <<>>, r # <<>>, NEW m, m = Head(r),
         Handled(k, g, m), g.msgid # 0, NEW q, q = Tail(r)
  PROVE  Line(g.conns, g.msgid, s \o g.out, q, dd, bb)
  <1>1. s \o <<>> = s /\ QueuesFit(s, r)
    BY LineSeq DEF Line
  <1>2. m \in Up /\ m.plci # 0
    BY <1>1, DropQ, Sets
  <1>3. m \in Message
    BY <1>2, Sets
  <1>4. ASSUME m.cmd \notin {"CONNECT_IND", "CONNECT_CONF", "DISCONNECT_IND"}
        PROVE  Line(k.conns, k.msgid, s, q, dd, bb)
    BY <1>4, DropLine DEF Opens
  <1>5. ASSUME g = k, m.cmd \notin {"CONNECT_IND", "CONNECT_CONF", "DISCONNECT_IND"}
        PROVE  Line(g.conns, g.msgid, s \o g.out, q, dd, bb)
    <2>1. s \o g.out = s
      BY <1>1, <1>5
    <2>2. QED
      BY <1>4, <1>5, <2>1
  <1>6. ASSUME NEW i, Near(k.conns, g.conns, i), Soft(k.conns[i], g.conns[i]),
               k.conns[i].plci = m.plci, g.msgid = k.msgid, g.out = k.out,
               m.cmd \notin {"CONNECT_IND", "CONNECT_CONF", "DISCONNECT_IND"}
        PROVE  Line(g.conns, g.msgid, s \o g.out, q, dd, bb)
    <2>1. Line(k.conns, k.msgid, s, q, dd, bb)
      BY <1>4, <1>6
    <2>2. k.conns[i].plci # 0
      BY <1>2, <1>6
    <2>3. Line(g.conns, k.msgid, s, q, dd, bb)
      BY <1>6, <2>1, <2>2, KeepLine
    <2>4. s \o g.out = s
      BY <1>1, <1>6
    <2>5. QED
      BY <1>6, <2>3, <2>4
  <1>7. CASE m.cmd = "CONNECT_IND" /\ (\/ Ignores(k, g, m.plci)
                                       \/ \E h : Rings(k, h, m.plci) /\ Asked(h, g, 1))
    BY <1>7, IncomingLine
  <1>8. CASE m.cmd = "CONNECT_CONF" /\ g = ConnectConf(k, m)
    BY <1>8, ConfirmLine
  <1>9. CASE m.cmd = "DISCONNECT_IND" /\ g = DisconnectInd(k, m)
    BY <1>9, EndedLine
  <1>10. CASE m.cmd = "INFO_IND"
              /\ \E i \in DOMAIN k.conns : k.conns[i].plci = m.plci /\ Asked(k, g, i)
    <2>1. PICK i \in DOMAIN k.conns : Asked(k, g, i)
      BY <1>10
    <2>2. Line(k.conns, k.msgid, s, q, dd, bb)
      BY <1>4, <1>10
    <2>3. QED
      BY <2>1, <2>2, AskedLine
  <1>11. CASE m.cmd = "DISCONNECT_B3_IND" /\ g = DisconnectB3Ind(k, m)
    <2> DEFINE w == Reply(m, "DISCONNECT_B3_RESP")
    <2>1. /\ w \in Message /\ w.cmd = "DISCONNECT_B3_RESP" /\ w.plci = m.plci
          /\ \/ g = k
             \/ \E i \in DOMAIN k.conns : k.conns[i].plci = m.plci /\ Clears(k, g, i, w)
      BY <1>3, <1>11, LinkDownIs
    <2> HIDE DEF w
    <2>2. CASE g = k
      BY <1>5, <1>11, <2>2
    <2>3. ASSUME NEW i \in DOMAIN k.conns, k.conns[i].plci = m.plci, Clears(k, g, i, w)
          PROVE  Line(g.conns, g.msgid, s \o g.out, q, dd, bb)
      <3>1. Line(k.conns, k.msgid, s, q, dd, bb)
        BY <1>4, <1>11
      <3>2. k.conns[i].plci # 0 /\ w.plci = k.conns[i].plci
        BY <1>2, <2>1, <2>3
      <3>3. QED
        BY <2>1, <2>3, <3>1, <3>2, ClearsLine
    <2>4. QED
      BY <2>1, <2>2, <2>3
  <1>12. CASE m.cmd = "CONNECT_B3_ACTIVE_IND"
              /\ \E i \in DOMAIN k.conns : k.conns[i].plci = m.plci /\ Wakes(k, g, i)
    <2>1. PICK i \in DOMAIN k.conns : k.conns[i].plci = m.plci /\ Wakes(k, g, i)
      BY <1>12
    <2>2. Near(k.conns, g.conns, i) /\ Soft(k.conns[i], g.conns[i])
          /\ g.msgid = k.msgid /\ g.out = k.out
      BY <2>1 DEF Wakes
    <2>3. QED
      BY <1>6, <1>12, <2>1, <2>2
  <1>13. CASE m.cmd = "DATA_B3_CONF" /\ g = DataB3Conf(k, m)
    <2>1. \/ g = k
          \/ \E i \in DOMAIN k.conns : k.conns[i].plci = m.plci /\ Confirms(k, g, i, m.arg)
      BY <1>3, <1>13, DataConfIs
    <2>2. CASE g = k
      BY <1>5, <1>13, <2>2
    <2>3. ASSUME NEW i \in DOMAIN k.conns, k.conns[i].plci = m.plci, Confirms(k, g, i, m.arg)
          PROVE  Line(g.conns, g.msgid, s \o g.out, q, dd, bb)
      <3>1. Near(k.conns, g.conns, i) /\ Soft(k.conns[i], g.conns[i])
            /\ g.msgid = k.msgid /\ g.out = k.out
        BY <2>3 DEF Confirms
      <3>2. QED
        BY <1>6, <1>13, <2>3, <3>1
    <2>4. QED
      BY <2>1, <2>2, <2>3
  <1>14. CASE /\ m.cmd \in {"CONNECT_ACTIVE_IND", "DISCONNECT_CONF", "CONNECT_B3_IND",
                            "CONNECT_B3_CONF", "RESET_B3_IND", "DISCONNECT_B3_CONF"}
              /\ \E i \in DOMAIN k.conns : k.conns[i].plci = m.plci /\ Mild(k, g, i)
    <2>1. PICK i \in DOMAIN k.conns : k.conns[i].plci = m.plci /\ Mild(k, g, i)
      BY <1>14
    <2>2. Line(k.conns, k.msgid, s, q, dd, bb) /\ k.conns[i].plci # 0
      BY <1>2, <1>4, <1>14, <2>1
    <2>3. QED
      BY <2>1, <2>2, MildLine
  <1>15. CASE /\ g = k
              /\ m.cmd \in {"CONNECT_IND", "CONNECT_CONF", "DISCONNECT_IND"} => m.n # 0
    <2>1. m.cmd \notin {"CONNECT_IND", "CONNECT_CONF", "DISCONNECT_IND"}
      BY <1>2, <1>15 DEF Up
    <2>2. QED
      BY <1>5, <1>15, <2>1
  <1>16. QED
    BY <1>7, <1>8, <1>9, <1>10, <1>11, <1>12, <1>13, <1>14, <1>15 DEF Handled

-----------------------------------------------------------------------------
(* The invariant of the state, and the steps of the library.               *)
LineInv == Line(card.conns, card.msgid, toCapi, toApp, d, b)

LEMMA InitLine ==
  ASSUME Init, card.msgid # 0 PROVE LineInv
  <1>1. card.conns = <<>> /\ card.msgid = MsgStart /\ toCapi = <<>> /\ toApp = <<>>
    BY DEF Init
  <1>2. card.msgid \in Nat \ {0}
    BY <1>1, LineAssumption, CapiAssumption
  <1>3. Range(toCapi) = {} /\ Range(toApp) = {} /\ DOMAIN card.conns = {}
    BY <1>1 DEF Range
  <1>4. card.conns \in Seq(Connection) /\ Fit(card.conns, card.msgid)
    BY <1>1, <1>3 DEF Fit
  <1>5. QueuesFit(toCapi, toApp)
    BY <1>1 DEF QueuesFit, CapiOrder, AppOrder, Distinct
  <1>6. Numbers(card.conns, Range(toCapi), Range(toApp))
    BY <1>3 DEF Numbers, Asks
  <1>7. ASSUME NEW p \in Plcis
        PROVE  CallFits(card.conns, Range(toCapi), Range(toApp), d[p], b[p], p)
    <2>1. d[p] = "idle" /\ b[p] = "none"
      BY DEF Init
    <2>2. QED
      BY <1>3, <2>1 DEF CallFits, Known, Ringing, OnlyStale, Silent, Sent, Offers, Refuses
  <1>8. QED
    BY <1>2, <1>4, <1>5, <1>6, <1>7 DEF LineInv, Line

LEMMA BecomesLine ==
  ASSUME NEW k \in Cards, Becomes(k), NEW q,
         Line(k.conns, k.msgid, toCapi \o k.out, q, d, b), toApp' = q, d' = d, b' = b
  PROVE  LineInv'
  <1>1. card'.conns = k.conns /\ card'.msgid = k.msgid /\ toCapi' = toCapi \o k.out
    BY BecomesIs
  <1>2. QED
    BY <1>1, Zenon DEF LineInv

LEMMA SameLine ==
  ASSUME LineInv, TypeInv
  PROVE  Line(card.conns, card.msgid, toCapi \o card.out, toApp, d, b)
  <1>1. card.out = <<>> /\ toCapi \o <<>> = toCapi
    BY LineSeq DEF TypeInv, LineInv
  <1>2. QED
    BY <1>1, Zenon DEF LineInv

LEMMA InjectStep ==
  ASSUME TypeInv, LineInv, Inject, card'.msgid # 0 PROVE LineInv'
  <1>1. PICK complete \in BOOLEAN, answer \in {"accept", "ignore", "reject", "wait"} :
          Becomes(capiconn_inject(card, Head(toApp), complete, answer))
    BY DEF Inject
  <1> DEFINE g == capiconn_inject(card, Head(toApp), complete, answer)
  <1>2. toApp # <<>> /\ toApp' = Tail(toApp) /\ d' = d /\ b' = b /\ Head(toApp) \in Message
    BY DEF Inject, Receive, Controller, TypeInv
  <1>3. Handled(card, g, Head(toApp)) /\ card \in Cards /\ card.out = <<>>
    BY <1>2, InjectIs DEF TypeInv
  <1>4. g \in Cards
    BY <1>2, <1>3, HandledType
  <1>5. Becomes(g)
    BY <1>1
  <1> HIDE DEF g
  <1>6. g.msgid # 0
    BY <1>4, <1>5, BecomesIs
  <1>7. Line(g.conns, g.msgid, toCapi \o g.out, Tail(toApp), d, b)
    BY <1>2, <1>3, <1>6, HandledLine DEF LineInv
  <1>8. QED
    BY <1>2, <1>4, <1>5, <1>7, BecomesLine

LEMMA ConnectStep ==
  ASSUME TypeInv, LineInv, Connect, card'.msgid # 0 PROVE LineInv'
  <1> DEFINE g == capiconn_connect(card)
             m == Msg("CONNECT_REQ", 0, 0, card.msgid, 0)
  <1>1. Unused(card) # {} /\ Becomes(g) /\ toApp' = toApp /\ d' = d /\ b' = b
    BY DEF Connect, Controller
  <1>2. card \in Cards /\ card.out = <<>> /\ card.msgid \in 0 .. MsgMod - 1
    BY DEF TypeInv, Cards
  <1>3. /\ g \in Cards /\ g.msgid = (card.msgid + 1) % MsgMod
        /\ m \in Message /\ g.out = Tell(card.out, m)
        /\ \E c \in Connection : /\ Joined(card.conns, g.conns, c)
                                 /\ c.plci = 0 /\ c.msgid = card.msgid
                                 /\ c.state = "OUTGOING" /\ c.nccip = NoNcci
    BY <1>1, <1>2, ConnectIs
  <1>4. m.cmd = "CONNECT_REQ" /\ m.plci = 0 /\ m.num = card.msgid
    BY DEF Msg
  <1> HIDE DEF g, m
  <1>5. g.msgid = card.msgid + 1
    <2>1. g.msgid # 0
      BY <1>1, <1>3, BecomesIs
    <2>2. QED
      BY <1>2, <1>3, <2>1, NextNumber
  <1>6. m \in Down
    BY <1>3, <1>4 DEF Down
  <1>7. PICK c \in Connection : /\ Joined(card.conns, g.conns, c)
                                /\ c.plci = 0 /\ c.msgid = card.msgid
                                /\ c.state = "OUTGOING" /\ c.nccip = NoNcci
    BY <1>3
  <1>8. Line(g.conns, card.msgid + 1, Tell(toCapi, m), toApp, d, b)
    BY <1>4, <1>6, <1>7, CallLine DEF LineInv
  <1>9. toCapi \o g.out = Tell(toCapi, m)
    <2>1. g.out = Tell(<<>>, m)
      BY <1>2, <1>3, Zenon
    <2>2. toCapi \o Tell(<<>>, m) = Tell(toCapi, m)
      BY <1>3, OutTell DEF TypeInv
    <2>3. QED
      BY <2>1, <2>2, Zenon
  <1>10. Line(g.conns, g.msgid, toCapi \o g.out, toApp, d, b)
    BY <1>5, <1>8, <1>9, Zenon
  <1>11. QED
    BY <1>1, <1>3, <1>10, BecomesLine

LEMMA DecideStep ==
  ASSUME TypeInv, LineInv, Decide PROVE LineInv'
  <1>1. PICK i \in DOMAIN card.conns : card.conns[i].state = "INCOMING"
            /\ \/ Becomes(capiconn_accept(card, i))
               \/ Becomes(capiconn_ignore(card, i))
               \/ Becomes(capiconn_reject(card, i))
    BY DEF Decide, Conns
  <1>2. PICK a \in {0, 1, 2} : Becomes(ConnectResp(card, i, a))
    BY <1>1 DEF capiconn_accept, capiconn_ignore, capiconn_reject
  <1> DEFINE g == ConnectResp(card, i, a)
  <1>3. toApp' = toApp /\ d' = d /\ b' = b
    BY DEF Decide, Controller
  <1>4. Answers(card, g, i, a) /\ card \in Cards /\ card.out = <<>>
    BY <1>1, ConnectRespIs DEF TypeInv
  <1>5. Becomes(g)
    BY <1>2
  <1> HIDE DEF g
  <1>6. g \in Cards
    BY <1>4 DEF Answers
  <1>7. Line(g.conns, g.msgid, toCapi \o g.out, toApp, d, b)
    BY <1>4, AnswersLine DEF LineInv
  <1>8. QED
    BY <1>3, <1>5, <1>6, <1>7, BecomesLine

LEMMA DisconnectStep ==
  ASSUME TypeInv, LineInv, Disconnect PROVE LineInv'
  <1>1. PICK i \in DOMAIN card.conns : Becomes(capiconn_disconnect(card, i))
    BY DEF Disconnect, Conns
  <1> DEFINE g == capiconn_disconnect(card, i)
  <1>2. toApp' = toApp /\ d' = d /\ b' = b
    BY DEF Disconnect, Controller
  <1>3. card \in Cards /\ card.out = <<>>
    BY DEF TypeInv
  <1>4. \/ g = card
        \/ /\ Mild(card, g, i) \/ Answers(card, g, i, 2)
           /\ \/ card.conns[i].nccip # NoNcci \/ card.conns[i].state = "INCOMING"
              \/ card.conns[i].plci # 0
    BY <1>3, DisconnectIs
  <1>5. Becomes(g) /\ g \in Cards
    BY <1>1, <1>3, DisconnectType
  <1> HIDE DEF g
  <1>6. Line(g.conns, g.msgid, toCapi \o g.out, toApp, d, b)
    <2>1. CASE g = card
      BY <2>1, SameLine, Zenon
    <2>2. CASE /\ Mild(card, g, i)
               /\ \/ card.conns[i].nccip # NoNcci \/ card.conns[i].state = "INCOMING"
                  \/ card.conns[i].plci # 0
      <3>1. ConnFits(card.conns[i], card.msgid)
        BY LineSeq DEF LineInv, Fit
      <3>2. card.conns[i].plci # 0
        BY <2>2, <3>1 DEF ConnFits
      <3>3. QED
        BY <1>3, <2>2, <3>2, MildLine DEF LineInv
    <2>3. CASE Answers(card, g, i, 2)
      BY <1>3, <2>3, AnswersLine DEF LineInv
    <2>4. QED
      BY <1>4, <2>1, <2>2, <2>3
  <1>7. QED
    BY <1>2, <1>5, <1>6, BecomesLine

LEMMA QueuesLine ==
  ASSUME NEW k \in Cards, NEW g, NEW s, NEW r, NEW dd, NEW bb, NEW i \in DOMAIN k.conns,
         Line(k.conns, k.msgid, s, r, dd, bb), k.out = <<>>, Queues(k, g, i)
  PROVE  Line(g.conns, g.msgid, s \o g.out, r, dd, bb)
  <1>1. k.conns[i].plci # 0
    <2>1. ConnFits(k.conns[i], k.msgid)
      BY LineSeq DEF Fit
    <2>2. QED
      BY <2>1 DEF ConnFits, Queues, CanSend
  <1>2. Near(k.conns, g.conns, i) /\ Soft(k.conns[i], g.conns[i]) /\ g.msgid = k.msgid
    BY DEF Queues
  <1>3. Line(g.conns, k.msgid, s, r, dd, bb)
    BY <1>1, <1>2, KeepLine
  <1>4. PICK m \in Message : m.cmd = "DATA_B3_REQ" /\ m.plci = k.conns[i].plci
                             /\ g.out = Tell(k.out, m)
    BY DEF Queues
  <1>5. m \in Down /\ m.plci \in Plcis /\ m.cmd \notin {"CONNECT_RESP", "DISCONNECT_RESP"}
    BY <1>1, <1>4, QuietDown
  <1>6. Known(g.conns, m.plci)
    BY <1>2, <1>4 DEF Known, Near, Soft
  <1>7. Line(g.conns, k.msgid, Tell(s, m), r, dd, bb)
    BY <1>3, <1>5, <1>6, SayLine
  <1>8. s \o g.out = Tell(s, m)
    <2>1. g.out = Tell(<<>>, m)
      BY <1>4, Zenon
    <2>2. s \in Seq(Message)
      BY LineSeq
    <2>3. s \o Tell(<<>>, m) = Tell(s, m)
      BY <2>2, OutTell
    <2>4. QED
      BY <2>1, <2>3, Zenon
  <1>9. QED
    BY <1>2, <1>7, <1>8, Zenon

LEMMA SendStep ==
  ASSUME TypeInv, LineInv, Send PROVE LineInv'
  <1>1. PICK i \in DOMAIN card.conns, put \in BOOLEAN : Becomes(capiconn_send(card, i, put))
    BY DEF Send, Conns
  <1> DEFINE g == capiconn_send(card, i, put)
  <1>2. toApp' = toApp /\ d' = d /\ b' = b
    BY DEF Send, Controller
  <1>3. card \in Cards /\ card.out = <<>>
    BY DEF TypeInv
  <1>4. Becomes(g) /\ (g = card \/ Queues(card, g, i))
    BY <1>1, <1>3, SendIs
  <1> HIDE DEF g
  <1>5. CASE g = card
    <2>1. g \in Cards /\ Line(g.conns, g.msgid, toCapi \o g.out, toApp, d, b)
      BY <1>3, <1>5, SameLine, Zenon
    <2>2. QED
      BY <1>2, <1>4, <2>1, BecomesLine
  <1>6. CASE Queues(card, g, i)
    <2>1. g \in Cards
      BY <1>6 DEF Queues
    <2>2. Line(g.conns, g.msgid, toCapi \o g.out, toApp, d, b)
      BY <1>3, <1>6, QueuesLine DEF LineInv
    <2>3. QED
      BY <1>2, <1>4, <2>1, <2>2, BecomesLine
  <1>7. QED
    BY <1>4, <1>5, <1>6

-----------------------------------------------------------------------------
(* The steps of the controller.                                            *)
LEMMA SetAt ==
  ASSUME NEW S, NEW f \in [Plcis -> S], NEW p \in Plcis, NEW x, NEW g, g = [f EXCEPT ![p] = x]
  PROVE  g[p] = x /\ \A q \in Plcis : q # p => g[q] = f[q]
  OBVIOUS

LEMMA SayUp ==
  ASSUME NEW cmd \in Commands, NEW p \in Plcis, NEW n \in {0, 1},
         NEW x \in 0 .. MsgMod - 1, NEW a \in Nat,
         cmd \in {"CONNECT_IND", "CONNECT_CONF", "DISCONNECT_IND"} => n = 0,
         cmd \in {"DISCONNECT_B3_IND", "DATA_B3_CONF"} => n = 1,
         NEW m, m = Say(cmd, p, n, x, a)
  PROVE  m \in Up /\ m.cmd = cmd /\ m.plci = p /\ m.num = x /\ m.arg = a /\ m.n = n
  <1>1. m \in Message
    BY SayType
  <1>2. m.cmd = cmd /\ m.plci = p /\ m.num = x /\ m.arg = a /\ m.n = n
    BY DEF Say
  <1>3. QED
    BY <1>1, <1>2 DEF Up

LEMMA IndUp ==
  ASSUME NEW cmd \in Commands, NEW p \in Plcis, NEW n \in {0, 1},
         cmd \in {"CONNECT_IND", "CONNECT_CONF", "DISCONNECT_IND"} => n = 0,
         cmd \in {"DISCONNECT_B3_IND", "DATA_B3_CONF"} => n = 1,
         NEW m, m = Ind(cmd, p, n)
  PROVE  m \in Up /\ m.cmd = cmd /\ m.plci = p
  <1>1. 0 \in 0 .. MsgMod - 1 /\ 0 \in Nat
    BY CapiAssumption
  <1>2. m = Say(cmd, p, n, 0, 0)
    BY DEF Ind
  <1>3. QED
    BY <1>1, <1>2, SayUp

LEMMA LineAt ==
  ASSUME NEW C, NEW n, NEW s, NEW r, NEW dd, NEW bb, Line(C, n, s, r, dd, bb), NEW p \in Plcis
  PROVE  CallFits(C, Range(s), Range(r), dd[p], bb[p], p)
  BY DEF Line

(* The other side or the controller clears the link of a call.             *)
LEMMA ClearLine ==
  ASSUME NEW C, NEW n, NEW s, NEW r, NEW dd, NEW bb, Line(C, n, s, r, dd, bb),
         NEW w \in Up, w.cmd = "DISCONNECT_B3_IND", dd[w.plci] \in DStates,
         bb[w.plci] \notin {"none", "clearing"}, NEW t, t = Tell(r, w),
         NEW cc, \A q \in Plcis : q # w.plci => cc[q] = bb[q]
  PROVE  Line(C, n, s, t, dd, cc) /\ dd[w.plci] \in {"active", "called"}
  <1>1. w.plci \in Plcis
    BY DEF Up
  <1>2. dd[w.plci] \in {"active", "called"}
    BY <1>1, LineAt, LinkInUse
  <1>3. Line(C, n, s, t, dd, bb)
    BY <1>2, LiveLine
  <1>4. ~Offers(Range(t), w.plci)
    BY <1>1, <1>3, LineAt, LinkInUse
  <1>5. Line(C, n, s, t, dd, cc)
    BY <1>1, <1>2, <1>3, <1>4, LinkLine
  <1>6. QED
    BY <1>2, <1>5

LEMMA ReleaseStep ==
  ASSUME NEW C, NEW n, NEW s, NEW r, Line(C, n, s, r, d, b), NEW p \in Plcis,
         d \in [Plcis -> DStates], b \in [Plcis -> BStates],
         d[p] \in InUseStates, Release(p, r)
  PROVE  Line(C, n, s, toApp', d', b')
  <1>1. {"DISCONNECT_IND", "DISCONNECT_B3_IND"} \subseteq Commands
    BY DEF Commands
  <1>2. d[p] \notin {"idle", "clearing", "releasing"} /\ d[p] \in DStates
    BY DEF InUseStates
  <1>3. CASE b[p] = "none"
    <2> DEFINE w == Ind("DISCONNECT_IND", p, 0)
    <2>1. w \in Up /\ w.cmd = "DISCONNECT_IND" /\ w.plci = p
      BY <1>1, IndUp
    <2>2. d' = [d EXCEPT ![p] = "clearing"] /\ toApp' = Tell(r, w) /\ b' = b
      BY <1>3 DEF Release
    <2> HIDE DEF w
    <2>3. d'[p] = "clearing" /\ \A q \in Plcis : q # p => d'[q] = d[q]
      BY <2>2, SetAt
    <2>4. Line(C, n, s, toApp', d', b)
      BY <1>2, <1>3, <2>1, <2>2, <2>3, FinishLine
    <2>5. QED
      BY <2>2, <2>4
  <1>4. CASE b[p] = "clearing"
    <2>1. d' = [d EXCEPT ![p] = "releasing"] /\ toApp' = r /\ b' = b
      BY <1>4 DEF Release
    <2>2. d'[p] = "releasing" /\ \A q \in Plcis : q # p => d'[q] = d[q]
      BY <2>1, SetAt
    <2>3. Line(C, n, s, r, d', b)
      BY <1>4, <2>2, ReleaseLine
    <2>4. QED
      BY <2>1, <2>3
  <1>5. CASE b[p] \notin {"none", "clearing"}
    <2> DEFINE w == Ind("DISCONNECT_B3_IND", p, 1)
    <2>1. w \in Up /\ w.cmd = "DISCONNECT_B3_IND" /\ w.plci = p
      BY <1>1, IndUp
    <2>2. /\ d' = [d EXCEPT ![p] = "releasing"] /\ b' = [b EXCEPT ![p] = "clearing"]
          /\ toApp' = Tell(r, w)
      BY <1>5 DEF Release
    <2> HIDE DEF w
    <2>3. d'[p] = "releasing" /\ \A q \in Plcis : q # p => d'[q] = d[q]
      BY <2>2, SetAt
    <2>4. b'[p] = "clearing" /\ \A q \in Plcis : q # p => b'[q] = b[q]
      BY <2>2, SetAt
    <2>5. toApp' = Tell(r, w)
      BY <2>2
    <2>6. Line(C, n, s, toApp', d, b')
      BY <1>2, <1>5, <2>1, <2>4, <2>5, ClearLine
    <2>7. QED
      BY <2>3, <2>4, <2>6, ReleaseLine
  <1>6. QED
    BY <1>3, <1>4, <1>5

LEMMA NetworkStep ==
  ASSUME TypeInv, LineInv,
         Ring \/ Digits \/ Answered \/ LinkAsked \/ LinkUp \/ ConfirmData \/ DataOrReset
         \/ (\E p \in Plcis : Hangup(p) \/ LinkDown(p))
  PROVE  LineInv'
  <1>1. d \in [Plcis -> DStates] /\ b \in [Plcis -> BStates] /\ unconf \in [Plcis -> Seq(Nat)]
    BY DEF TypeInv
  <1> DEFINE Cmds == {"CONNECT_IND", "INFO_IND", "CONNECT_ACTIVE_IND", "CONNECT_B3_IND",
                      "CONNECT_B3_ACTIVE_IND", "DATA_B3_CONF", "DATA_B3_IND", "RESET_B3_IND",
                      "DISCONNECT_B3_IND"}
  <1>2. Cmds \subseteq Commands
    BY DEF Commands
  <1>3. card' = card /\ toCapi' = toCapi
    BY DEF Ring, Digits, Answered, LinkAsked, LinkUp, ConfirmData, DataOrReset, Hangup, LinkDown
  <1> DEFINE Goal == Line(card.conns, card.msgid, toCapi, toApp', d', b')
  <1> SUFFICES Goal
    BY <1>3 DEF LineInv
  <1>4. ASSUME NEW p \in Plcis
        PROVE  CallFits(card.conns, Range(toCapi), Range(toApp), d[p], b[p], p)
               /\ d[p] \in DStates /\ b[p] \in BStates
    BY <1>1, <1>4, LineAt DEF LineInv
  <1>5. CASE Ring
    <2>1. PICK p \in Plcis : /\ d[p] = "idle" /\ d' = [d EXCEPT ![p] = "ringing"]
                             /\ toApp' = Tell(toApp, Ind("CONNECT_IND", p, 0)) /\ b' = b
      BY <1>5 DEF Ring
    <2> DEFINE w == Ind("CONNECT_IND", p, 0)
    <2>2. w \in Up /\ w.cmd = "CONNECT_IND" /\ w.plci = p
      BY <1>2, IndUp
    <2>3. toApp' = Tell(toApp, w)
      BY <2>1
    <2> HIDE DEF w
    <2>4. d'[p] = "ringing" /\ \A q \in Plcis : q # p => d'[q] = d[q]
      BY <1>1, <2>1, SetAt
    <2>5. d[p] = "idle" /\ b' = b
      BY <2>1
    <2>6. Line(card.conns, card.msgid, toCapi, toApp', d', b)
      BY <2>2, <2>3, <2>4, <2>5, OfferLine DEF LineInv
    <2>7. QED
      BY <2>5, <2>6
  <1>6. CASE Digits
    <2>1. PICK p \in Plcis : /\ d[p] \in {"ringing", "answered"}
                             /\ toApp' = Tell(toApp, Ind("INFO_IND", p, 0))
      BY <1>6 DEF Digits
    <2> DEFINE w == Ind("INFO_IND", p, 0)
    <2>2. w \in Up /\ w.cmd = "INFO_IND" /\ w.plci = p
      BY <1>2, IndUp
    <2>3. toApp' = Tell(toApp, w)
      BY <2>1
    <2> HIDE DEF w
    <2>4. d' = d /\ b' = b
      BY <1>6 DEF Digits, Controller
    <2>5. d[p] \notin {"idle", "clearing"}
      BY <2>1
    <2>6. Line(card.conns, card.msgid, toCapi, toApp', d, b)
      BY <2>2, <2>3, <2>5, LiveLine DEF LineInv
    <2>7. QED
      BY <2>4, <2>6
  <1>7. CASE Answered
    <2>1. PICK p \in Plcis :
             /\ d[p] \in {"dialing", "answered"}
             /\ d' = [d EXCEPT ![p] = IF @ = "dialing" THEN "active" ELSE "called"]
             /\ toApp' = Tell(toApp, Ind("CONNECT_ACTIVE_IND", p, 0)) /\ b' = b
      BY <1>7 DEF Answered
    <2> DEFINE w == Ind("CONNECT_ACTIVE_IND", p, 0)
    <2>2. w \in Up /\ w.cmd = "CONNECT_ACTIVE_IND" /\ w.plci = p
      BY <1>2, IndUp
    <2>3. toApp' = Tell(toApp, w)
      BY <2>1
    <2> HIDE DEF w
    <2>4. /\ \A q \in Plcis : q # p => d'[q] = d[q]
          /\ \/ d[p] = "dialing" /\ d'[p] = "active"
             \/ d[p] = "answered" /\ d'[p] = "called"
      BY <1>1, <2>1
    <2>5. d[p] \notin {"idle", "clearing"} /\ b' = b
      BY <2>1
    <2>6. Line(card.conns, card.msgid, toCapi, toApp', d, b)
      BY <2>2, <2>3, <2>5, LiveLine DEF LineInv
    <2>7. Line(card.conns, card.msgid, toCapi, toApp', d', b)
      BY <2>4, <2>6, MoveLine
    <2>8. QED
      BY <2>5, <2>7
  <1>8. CASE LinkAsked
    <2>1. PICK p \in Plcis : /\ d[p] = "called" /\ b[p] = "none"
                             /\ b' = [b EXCEPT ![p] = "in"] /\ d' = d
                             /\ toApp' = Tell(toApp, Ind("CONNECT_B3_IND", p, 1))
      BY <1>8 DEF LinkAsked
    <2> DEFINE w == Ind("CONNECT_B3_IND", p, 1)
    <2>2. w \in Up /\ w.cmd = "CONNECT_B3_IND" /\ w.plci = p
      BY <1>2, IndUp
    <2>3. toApp' = Tell(toApp, w)
      BY <2>1
    <2> HIDE DEF w
    <2>4. \A q \in Plcis : q # p => b'[q] = b[q]
      BY <1>1, <2>1, SetAt
    <2>5. d[p] \notin {"idle", "clearing", "releasing"} /\ d' = d /\ d[p] \in {"active", "called"}
      BY <2>1
    <2>6. Known(card.conns, p)
      BY <1>4, <2>1 DEF CallFits
    <2>7. Line(card.conns, card.msgid, toCapi, toApp', d, b)
      BY <2>2, <2>3, <2>5, <2>6, LiveLine DEF LineInv
    <2>8. ~Offers(Range(toApp'), p)
      <3>1. CallFits(card.conns, Range(toCapi), Range(toApp'), d[p], b[p], p)
        BY <2>7, LineAt
      <3>2. QED
        BY <2>1, <3>1 DEF CallFits
    <2>9. Line(card.conns, card.msgid, toCapi, toApp', d, b')
      BY <2>4, <2>5, <2>7, <2>8, LinkLine
    <2>10. QED
      BY <2>5, <2>9
  <1>9. CASE LinkUp
    <2>1. PICK p \in Plcis : /\ b[p] \in {"out", "agreed"}
                             /\ b' = [b EXCEPT ![p] = "up"] /\ d' = d
                             /\ toApp' = Tell(toApp, Ind("CONNECT_B3_ACTIVE_IND", p, 1))
      BY <1>9 DEF LinkUp
    <2> DEFINE w == Ind("CONNECT_B3_ACTIVE_IND", p, 1)
    <2>2. w \in Up /\ w.cmd = "CONNECT_B3_ACTIVE_IND" /\ w.plci = p
      BY <1>2, IndUp
    <2>3. toApp' = Tell(toApp, w)
      BY <2>1
    <2> HIDE DEF w
    <2>4. \A q \in Plcis : q # p => b'[q] = b[q]
      BY <1>1, <2>1, SetAt
    <2>5. b[p] \notin {"none", "clearing"} /\ d' = d
      BY <2>1
    <2>6. d[p] \in {"active", "called"}
      BY <1>4, <2>5, LinkInUse
    <2>7. Line(card.conns, card.msgid, toCapi, toApp', d, b)
      BY <2>2, <2>3, <2>6, LiveLine DEF LineInv
    <2>8. ~Offers(Range(toApp'), p)
      BY <1>4, <2>5, <2>7, LineAt, LinkInUse
    <2>9. Line(card.conns, card.msgid, toCapi, toApp', d, b')
      BY <2>4, <2>6, <2>7, <2>8, LinkLine
    <2>10. QED
      BY <2>5, <2>9
  <1>10. CASE ConfirmData
    <2>1. PICK p \in Plcis :
             /\ unconf[p] # <<>> /\ b[p] = "up"
             /\ toApp' = Tell(toApp, Say("DATA_B3_CONF", p, 1, 0, Head(unconf[p])))
      BY <1>10 DEF ConfirmData
    <2> DEFINE w == Say("DATA_B3_CONF", p, 1, 0, Head(unconf[p]))
    <2>2. Head(unconf[p]) \in Nat /\ 0 \in 0 .. MsgMod - 1
      BY <1>1, <2>1, CapiAssumption
    <2>3. w \in Up /\ w.cmd = "DATA_B3_CONF" /\ w.plci = p
      BY <1>2, <2>2, SayUp
    <2>4. toApp' = Tell(toApp, w)
      BY <2>1
    <2> HIDE DEF w
    <2>5. d' = d /\ b' = b
      BY <1>10 DEF ConfirmData
    <2>6. d[p] \in {"active", "called"}
      <3>1. b[p] # "none" /\ b[p] # "clearing"
        BY <2>1
      <3>2. QED
        BY <1>4, <3>1, LinkInUse
    <2>7. Line(card.conns, card.msgid, toCapi, toApp', d, b)
      BY <2>3, <2>4, <2>6, LiveLine DEF LineInv
    <2>8. QED
      BY <2>5, <2>7
  <1>11. CASE DataOrReset
    <2>1. PICK p \in Plcis, cmd \in {"DATA_B3_IND", "RESET_B3_IND"} :
             b[p] = "up" /\ toApp' = Tell(toApp, Ind(cmd, p, 1))
      BY <1>11 DEF DataOrReset
    <2> DEFINE w == Ind(cmd, p, 1)
    <2>2. w \in Up /\ w.cmd = cmd /\ w.plci = p
      BY <1>2, IndUp
    <2>3. toApp' = Tell(toApp, w)
      BY <2>1
    <2> HIDE DEF w
    <2>4. d' = d /\ b' = b
      BY <1>11 DEF DataOrReset, Controller
    <2>5. d[p] \in {"active", "called"}
      <3>1. b[p] # "none" /\ b[p] # "clearing"
        BY <2>1
      <3>2. QED
        BY <1>4, <3>1, LinkInUse
    <2>6. w.cmd \notin {"CONNECT_CONF", "CONNECT_IND", "DISCONNECT_IND", "CONNECT_B3_IND"}
      BY <2>2
    <2>7. Line(card.conns, card.msgid, toCapi, toApp', d, b)
      BY <2>2, <2>3, <2>5, <2>6, LiveLine DEF LineInv
    <2>8. QED
      BY <2>4, <2>7
  <1>12. ASSUME NEW p \in Plcis, Hangup(p) PROVE Goal
    <2>1. Release(p, toApp) /\ d[p] \in InUseStates
      BY <1>12 DEF Hangup, InUse, InUseStates
    <2>2. QED
      BY <1>1, <2>1, ReleaseStep DEF LineInv
  <1>13. ASSUME NEW p \in Plcis, LinkDown(p) PROVE Goal
    <2> DEFINE w == Ind("DISCONNECT_B3_IND", p, 1)
    <2>1. w \in Up /\ w.cmd = "DISCONNECT_B3_IND" /\ w.plci = p
      BY <1>2, IndUp
    <2>2. /\ b[p] \notin {"none", "clearing"} /\ b' = [b EXCEPT ![p] = "clearing"] /\ d' = d
          /\ toApp' = Tell(toApp, w)
      BY <1>13 DEF LinkDown
    <2> HIDE DEF w
    <2>3. \A q \in Plcis : q # p => b'[q] = b[q]
      BY <1>1, <2>2, SetAt
    <2>4. d[p] \in DStates /\ toApp' = Tell(toApp, w) /\ b[p] \notin {"none", "clearing"} /\ d' = d
      BY <1>4, <2>2
    <2>5. Line(card.conns, card.msgid, toCapi, toApp', d, b')
      BY <2>1, <2>3, <2>4, ClearLine DEF LineInv
    <2>6. QED
      BY <2>4, <2>5
  <1>14. QED
    BY <1>5, <1>6, <1>7, <1>8, <1>9, <1>10, <1>11, <1>12, <1>13

LEMMA HeadDown ==
  ASSUME NEW C, NEW n, NEW s, NEW r, NEW dd, NEW bb, Line(C, n, s, r, dd, bb),
         s # <<>>, NEW m, m = Head(s)
  PROVE  /\ m \in Down /\ m.n \in {0, 1} /\ m.num \in 0 .. MsgMod - 1
         /\ m.cmd # "CONNECT_REQ" => m.plci \in Plcis /\ ~Offers(Range(r), m.plci)
  <1>1. QueuesFit(s, r)
    BY DEF Line
  <1>2. m \in Down /\ More(Range(Tail(s)), Range(s), m)
    BY <1>1, TakeQ
  <1>3. m.n \in {0, 1} /\ m.num \in 0 .. MsgMod - 1
    BY <1>2 DEF Down, Message
  <1>4. m.cmd # "CONNECT_REQ" => m.plci \in Plcis
    BY <1>2, Sets
  <1>5. ASSUME m.plci \in Plcis PROVE ~Offers(Range(r), m.plci)
    <2>1. ~Silent(Range(s), m.plci)
      BY <1>2 DEF More
    <2>2. QED
      BY <1>5, <2>1, LineAt DEF CallFits
  <1>6. QED
    BY <1>2, <1>3, <1>4, <1>5

LEMMA Unringing ==
  ASSUME d \in [Plcis -> DStates], NEW p \in Plcis, NEW r, Release(p, r)
  PROVE  d'[p] # "ringing"
  <1>1. d' = [d EXCEPT ![p] = "clearing"] \/ d' = [d EXCEPT ![p] = "releasing"]
    BY DEF Release
  <1>2. QED
    BY <1>1

LEMMA TakeStep ==
  ASSUME TypeInv, LineInv, Take PROVE LineInv'
  <1> DEFINE m == Head(toCapi)
             s == Tail(toCapi)
             p == m.plci
             C == card.conns
             n == card.msgid
  <1>1. d \in [Plcis -> DStates] /\ b \in [Plcis -> BStates]
    BY DEF TypeInv
  <1>2. toCapi # <<>> /\ toCapi' = s /\ card' = card
    BY DEF Take, Serve
  <1>3. \/ TakeConnectReq(m) \/ RefuseConnectReq(m) \/ TakeConnectResp(m)
        \/ TakeB3Req(m) \/ TakeB3Resp(m) \/ TakeDisconnectB3Req(m)
        \/ TakeDisconnectB3Resp(m) \/ TakeDisconnectReq(m)
        \/ TakeDisconnectResp(m) \/ TakeData(m)
    BY DEF Take
  <1>4. Line(C, n, toCapi, toApp, d, b)
    BY DEF LineInv
  <1>5. /\ m \in Down /\ m.n \in {0, 1} /\ m.num \in 0 .. MsgMod - 1
        /\ m.cmd # "CONNECT_REQ" => p \in Plcis /\ ~Offers(Range(toApp), p)
    BY <1>2, <1>4, HeadDown
  <1> SUFFICES Line(C, n, s, toApp', d', b')
    BY <1>2 DEF LineInv
  <1>6. ASSUME NEW dd, NEW bb, NEW r, Line(C, n, toCapi, r, dd, bb),
               m.cmd \notin {"CONNECT_REQ", "DISCONNECT_RESP"},
               m.cmd = "CONNECT_RESP" => dd[p] # "ringing"
        PROVE  Line(C, n, s, r, dd, bb)
    BY <1>2, <1>6, TakeLine
  <1> DEFINE Cmds == {"CONNECT_CONF", "CONNECT_B3_CONF", "DISCONNECT_B3_CONF",
                      "DISCONNECT_CONF", "DISCONNECT_B3_IND", "DISCONNECT_IND"}
  <1>7. Cmds \subseteq Commands /\ {0, 1} \subseteq Nat
    BY DEF Commands
  <1>8. ASSUME NEW cmd \in {"CONNECT_B3_CONF", "DISCONNECT_B3_CONF", "DISCONNECT_CONF"},
               NEW x \in {0, 1}, NEW a \in {0, 1}, p \in Plcis, NEW bb,
               Line(C, n, s, toApp, d, bb)
        PROVE  Line(C, n, s, Tell(toApp, Say(cmd, p, x, m.num, a)), d, bb)
    <2> DEFINE w == Say(cmd, p, x, m.num, a)
    <2>1. w \in Up /\ w.cmd = cmd
      BY <1>5, <1>7, <1>8, SayUp
    <2> HIDE DEF w
    <2>2. Stale(w) /\ w.cmd # "CONNECT_CONF"
      BY <2>1 DEF Stale
    <2>3. Line(C, n, s, Tell(toApp, w), d, bb)
      BY <1>8, <2>1, <2>2, StaleLine
    <2>4. QED
      BY <2>3 DEF w
  <1>9. (\A q \in Plcis : d[q] \in DStates /\ b[q] \in BStates)
        /\ m = Head(toCapi) /\ s = Tail(toCapi) /\ p = m.plci
    BY <1>1
  <1> HIDE DEF m, s, p, C, n, Cmds
  <1>10. CASE TakeConnectReq(m)
    <2>1. PICK o \in Plcis, ok \in BOOLEAN :
            /\ m.cmd = "CONNECT_REQ" /\ d[o] = "idle"
            /\ d' = [d EXCEPT ![o] = IF ok THEN "dialing" ELSE @]
            /\ toApp' = Tell(toApp, Say("CONNECT_CONF", o, 0, m.num, IF ok THEN 0 ELSE 1))
            /\ b' = b
      BY <1>10 DEF TakeConnectReq
    <2>2. "CONNECT_CONF" \in Commands /\ 0 \in Nat /\ 1 \in Nat
      BY DEF Commands
    <2>3. CASE ok
      <3> DEFINE w == Say("CONNECT_CONF", o, 0, m.num, 0)
      <3>1. /\ w \in Up /\ w.cmd = "CONNECT_CONF" /\ w.plci = o /\ w.num = m.num
            /\ w.arg = 0
        BY <1>5, <2>2, SayUp
      <3>2. toApp' = Tell(toApp, w) /\ d' = [d EXCEPT ![o] = "dialing"]
        BY <2>1, <2>3
      <3> HIDE DEF w
      <3>3. d'[o] = "dialing" /\ \A q \in Plcis : q # o => d'[q] = d[q]
        BY <1>1, <3>2, SetAt
      <3>4. m.cmd = "CONNECT_REQ" /\ d[o] = "idle" /\ toApp' = Tell(toApp, w) /\ b' = b
        BY <2>1, <3>2
      <3>5. d[w.plci] = "idle" /\ Turned(d, d', w.plci, "dialing")
        BY <3>1, <3>3, <3>4 DEF Turned
      <3>6. Line(C, n, s, toApp', d', b)
        BY <1>2, <1>4, <1>9, <3>1, <3>4, <3>5, DialLine
      <3>7. QED
        BY <3>4, <3>6
    <2>4. CASE ~ok
      <3> DEFINE w == Say("CONNECT_CONF", o, 0, m.num, 1)
      <3>1. /\ w \in Up /\ w.cmd = "CONNECT_CONF" /\ w.plci = o /\ w.num = m.num
            /\ w.arg # 0
        BY <1>5, <2>2, SayUp
      <3>2. toApp' = Tell(toApp, w) /\ d' = d
        BY <1>1, <2>1, <2>4
      <3> HIDE DEF w
      <3>3. m.cmd = "CONNECT_REQ" /\ toApp' = Tell(toApp, w) /\ b' = b
        BY <2>1, <3>2
      <3>4. Line(C, n, s, toApp', d, b)
        BY <1>2, <1>4, <1>9, <3>1, <3>3, RefuseLine
      <3>5. QED
        BY <3>2, <3>3, <3>4
    <2>5. QED
      BY <2>3, <2>4
  <1>11. CASE RefuseConnectReq(m)
    <2>1. PICK o \in Plcis : toApp' = Tell(toApp, Say("CONNECT_CONF", o, 0, m.num, 1))
      BY <1>11 DEF RefuseConnectReq
    <2>2. "CONNECT_CONF" \in Commands /\ 0 \in Nat /\ 1 \in Nat
      BY DEF Commands
    <2> DEFINE w == Say("CONNECT_CONF", o, 0, m.num, 1)
    <2>3. w \in Up /\ w.cmd = "CONNECT_CONF" /\ w.num = m.num /\ w.arg # 0
      BY <1>5, <2>2, SayUp
    <2>4. toApp' = Tell(toApp, w)
      BY <2>1
    <2> HIDE DEF w
    <2>5. m.cmd = "CONNECT_REQ" /\ d' = d /\ b' = b
      BY <1>11 DEF RefuseConnectReq, Controller
    <2>6. Line(C, n, s, toApp', d, b)
      BY <1>2, <1>4, <1>9, <2>3, <2>4, <2>5, RefuseLine
    <2>7. QED
      BY <2>5, <2>6
  <1>12. CASE TakeConnectResp(m)
    <2>1. m.cmd = "CONNECT_RESP" /\ p \in Plcis
      BY <1>5, <1>12 DEF TakeConnectResp
    <2>2. CASE d[p] # "ringing"
      <3>1. toApp' = toApp /\ d' = d /\ b' = b
        BY <1>12, <2>2 DEF TakeConnectResp, p
      <3>2. Line(C, n, s, toApp, d, b)
        BY <1>4, <1>6, <2>1, <2>2
      <3>3. QED
        BY <3>1, <3>2
    <2>3. CASE d[p] = "ringing" /\ m.arg # 0
      <3>1. Release(p, toApp)
        BY <1>12, <2>3 DEF TakeConnectResp, p
      <3>2. d[p] \in InUseStates
        BY <2>3 DEF InUseStates
      <3>3. Line(C, n, toCapi, toApp', d', b')
        BY <1>1, <1>4, <2>1, <3>1, <3>2, ReleaseStep
      <3>4. d'[p] # "ringing"
        BY <1>1, <2>1, <3>1, Unringing
      <3>5. QED
        BY <1>6, <2>1, <3>3, <3>4
    <2>4. CASE d[p] = "ringing" /\ m.arg = 0
      <3>1. d' = [d EXCEPT ![p] = "answered"] /\ toApp' = toApp /\ b' = b
        BY <1>12, <2>4 DEF TakeConnectResp, p
      <3>2. d'[p] = "answered" /\ \A q \in Plcis : q # p => d'[q] = d[q]
        BY <1>1, <2>1, <3>1, SetAt
      <3>3. d[m.plci] = "ringing" /\ Turned(d, d', m.plci, "answered")
        BY <1>9, <2>4, <3>2 DEF Turned
      <3>4. m.cmd = "CONNECT_RESP" /\ m.arg = 0 /\ m = Head(toCapi) /\ s = Tail(toCapi)
        BY <1>9, <2>1, <2>4
      <3>5. Line(C, n, s, toApp, d', b)
        BY <1>2, <1>4, <3>3, <3>4, AnswerLine
      <3>6. QED
        BY <3>1, <3>5
    <2>5. QED
      BY <2>2, <2>3, <2>4
  <1>13. CASE TakeB3Req(m)
    <2>1. m.cmd = "CONNECT_B3_REQ" /\ p \in Plcis /\ ~Offers(Range(toApp), p) /\ d' = d
      BY <1>5, <1>13 DEF TakeB3Req
    <2>2. CASE d[p] = "active" /\ b[p] = "none"
      <3>1. /\ b' = [b EXCEPT ![p] = "out"]
            /\ toApp' = Tell(toApp, Say("CONNECT_B3_CONF", p, 1, m.num, 0))
        BY <1>13, <2>2 DEF TakeB3Req, p
      <3>2. \A q \in Plcis : q # p => b'[q] = b[q]
        BY <1>1, <2>1, <3>1, SetAt
      <3>3. Line(C, n, toCapi, toApp, d, b')
        BY <1>4, <2>1, <2>2, <3>2, LinkLine
      <3>4. Line(C, n, s, toApp, d, b')
        BY <1>6, <2>1, <3>3
      <3>5. Line(C, n, s, Tell(toApp, Say("CONNECT_B3_CONF", p, 1, m.num, 0)), d, b')
        BY <1>8, <2>1, <3>4
      <3>6. QED
        BY <2>1, <3>1, <3>5
    <2>3. CASE ~(d[p] = "active" /\ b[p] = "none")
      <3>1. b' = b /\ \E x \in {0, 1} :
              toApp' = Tell(toApp, Say("CONNECT_B3_CONF", p, x, m.num, 1))
        BY <1>13, <2>3 DEF TakeB3Req, p
      <3>2. Line(C, n, s, toApp, d, b)
        BY <1>4, <1>6, <2>1
      <3>3. \A x \in {0, 1} :
              Line(C, n, s, Tell(toApp, Say("CONNECT_B3_CONF", p, x, m.num, 1)), d, b)
        BY <1>8, <2>1, <3>2
      <3>4. QED
        BY <2>1, <3>1, <3>3
    <2>4. QED
      BY <2>2, <2>3
  <1>14. CASE TakeB3Resp(m)
    <2>1. m.cmd = "CONNECT_B3_RESP" /\ p \in Plcis /\ d' = d /\ toApp' = toApp
      BY <1>5, <1>14 DEF TakeB3Resp
    <2>2. b' = [b EXCEPT ![p] = IF @ = "in" THEN "agreed" ELSE @]
      BY <1>14 DEF TakeB3Resp, p
    <2>3. CASE b[p] = "in"
      <3>1. b' = [b EXCEPT ![p] = "agreed"]
        BY <2>2, <2>3
      <3>2. \A q \in Plcis : q # p => b'[q] = b[q]
        BY <1>1, <2>1, <3>1, SetAt
      <3>3. d[p] \in {"active", "called"} /\ ~Offers(Range(toApp), p)
        <4>1. b[p] # "none" /\ b[p] # "clearing"
          BY <2>3
        <4>2. QED
          BY <1>4, <1>9, <2>1, <4>1, LineAt, LinkInUse
      <3>4. Line(C, n, toCapi, toApp, d, b')
        BY <1>4, <2>1, <3>2, <3>3, LinkLine
      <3>5. QED
        BY <1>6, <2>1, <3>4
    <2>4. CASE b[p] # "in"
      <3>1. b' = b
        BY <1>1, <2>2, <2>4
      <3>2. Line(C, n, s, toApp, d, b)
        BY <1>4, <1>6, <2>1
      <3>3. QED
        BY <2>1, <3>1, <3>2
    <2>5. QED
      BY <2>3, <2>4
  <1>15. CASE TakeDisconnectB3Req(m)
    <2>1. m.cmd = "DISCONNECT_B3_REQ" /\ p \in Plcis /\ d' = d
      BY <1>5, <1>15 DEF TakeDisconnectB3Req
    <2>2. Line(C, n, s, toApp, d, b)
      BY <1>4, <1>6, <2>1
    <2>3. CASE m.n = 1 /\ b[p] \notin {"none", "clearing"}
      <3> DEFINE x == Say("DISCONNECT_B3_CONF", p, 1, m.num, 0)
                 w == Ind("DISCONNECT_B3_IND", p, 1)
                 q == Tell(toApp, x)
      <3>1. b' = [b EXCEPT ![p] = "clearing"] /\ toApp' = Tell(q, w)
        BY <1>15, <2>3 DEF TakeDisconnectB3Req, p
      <3>2. Line(C, n, s, q, d, b)
        BY <1>8, <2>1, <2>2
      <3>3. w \in Up /\ w.cmd = "DISCONNECT_B3_IND" /\ w.plci = p
        <4>1. "DISCONNECT_B3_IND" \in Commands
          BY DEF Commands
        <4>2. QED
          BY <2>1, <4>1, IndUp
      <3> HIDE DEF w, q, x
      <3>4. \A o \in Plcis : o # p => b'[o] = b[o]
        BY <1>1, <2>1, <3>1, SetAt
      <3>5. /\ d[w.plci] \in DStates /\ b[w.plci] \notin {"none", "clearing"}
            /\ \A o \in Plcis : o # w.plci => b'[o] = b[o]
        BY <1>9, <2>1, <2>3, <3>3, <3>4
      <3>6. w \in Up /\ w.cmd = "DISCONNECT_B3_IND" /\ toApp' = Tell(q, w)
        BY <3>1, <3>3
      <3>7. Line(C, n, s, toApp', d, b')
        BY <3>2, <3>5, <3>6, ClearLine
      <3>8. QED
        BY <2>1, <3>7
    <2>4. CASE ~(m.n = 1 /\ b[p] \notin {"none", "clearing"})
      <3>1. b' = b /\ toApp' = Tell(toApp, Say("DISCONNECT_B3_CONF", p, m.n, m.num, 1))
        BY <1>15, <2>4 DEF TakeDisconnectB3Req, p
      <3>2. Line(C, n, s, Tell(toApp, Say("DISCONNECT_B3_CONF", p, m.n, m.num, 1)), d, b)
        BY <1>5, <1>8, <2>1, <2>2
      <3>3. QED
        BY <2>1, <3>1, <3>2
    <2>5. QED
      BY <2>3, <2>4
  <1>16. CASE TakeDisconnectB3Resp(m)
    <2>1. m.cmd = "DISCONNECT_B3_RESP" /\ p \in Plcis
      BY <1>5, <1>16 DEF TakeDisconnectB3Resp
    <2>2. Line(C, n, s, toApp, d, b)
      BY <1>4, <1>6, <2>1
    <2>3. b' = [b EXCEPT ![p] = "none"]
      BY <1>16 DEF TakeDisconnectB3Resp, p
    <2>4. b'[p] = "none" /\ \A q \in Plcis : q # p => b'[q] = b[q]
      BY <1>1, <2>1, <2>3, SetAt
    <2>5. CASE d[p] = "releasing"
      <3> DEFINE w == Ind("DISCONNECT_IND", p, 0)
      <3>1. d' = [d EXCEPT ![p] = "clearing"] /\ toApp' = Tell(toApp, w)
        BY <1>16, <2>5 DEF TakeDisconnectB3Resp, p
      <3>2. w \in Up /\ w.cmd = "DISCONNECT_IND" /\ w.plci = p
        <4>1. "DISCONNECT_IND" \in Commands
          BY DEF Commands
        <4>2. QED
          BY <2>1, <4>1, IndUp
      <3> HIDE DEF w
      <3>3. d'[p] = "clearing" /\ \A q \in Plcis : q # p => d'[q] = d[q]
        BY <1>1, <2>1, <3>1, SetAt
      <3>4. d[p] \notin {"idle", "clearing"} /\ toApp' = Tell(toApp, w)
        BY <2>5, <3>1
      <3>5. QED
        BY <2>2, <2>4, <3>2, <3>3, <3>4, FinishLine
    <2>6. CASE d[p] # "releasing"
      <3>1. d' = d /\ toApp' = toApp
        BY <1>1, <1>16, <2>6 DEF TakeDisconnectB3Resp, p
      <3>2. Line(C, n, s, toApp, d, b')
        BY <2>1, <2>2, <2>4, <2>6, LinkLine
      <3>3. QED
        BY <3>1, <3>2
    <2>7. QED
      BY <2>5, <2>6
  <1>17. CASE TakeDisconnectReq(m)
    <2>1. m.cmd = "DISCONNECT_REQ" /\ p \in Plcis
      BY <1>5, <1>17 DEF TakeDisconnectReq
    <2>2. Line(C, n, s, toApp, d, b)
      BY <1>4, <1>6, <2>1
    <2>3. PICK a \in {0, 1} :
            \/ /\ d[p] \in InUseStates
               /\ Release(p, Tell(toApp, Say("DISCONNECT_CONF", p, 0, m.num, a)))
            \/ /\ toApp' = Tell(toApp, Say("DISCONNECT_CONF", p, 0, m.num, a))
               /\ d' = d /\ b' = b
      <3>1. CASE InUse(p)
        BY <1>17, <3>1 DEF TakeDisconnectReq, InUse, InUseStates, p
      <3>2. CASE ~InUse(p)
        BY <1>17, <3>2 DEF TakeDisconnectReq, p
      <3>3. QED
        BY <3>1, <3>2
    <2> DEFINE q == Tell(toApp, Say("DISCONNECT_CONF", p, 0, m.num, a))
    <2>4. Line(C, n, s, q, d, b)
      BY <1>8, <2>1, <2>2
    <2>5. (d[p] \in InUseStates /\ Release(p, q)) \/ (toApp' = q /\ d' = d /\ b' = b)
      BY <2>3
    <2> HIDE DEF q
    <2>6. CASE d[p] \in InUseStates /\ Release(p, q)
      BY <1>1, <2>1, <2>4, <2>6, ReleaseStep
    <2>7. CASE toApp' = q /\ d' = d /\ b' = b
      BY <2>4, <2>7
    <2>8. QED
      BY <2>5, <2>6, <2>7
  <1>18. CASE TakeDisconnectResp(m)
    <2>1. /\ m.cmd = "DISCONNECT_RESP" /\ p \in Plcis /\ toApp' = toApp /\ b' = b
          /\ d' = [d EXCEPT ![p] = "idle"]
      BY <1>5, <1>18 DEF TakeDisconnectResp, p
    <2>2. d'[p] = "idle" /\ \A q \in Plcis : q # p => d'[q] = d[q]
      BY <1>1, <2>1, SetAt
    <2>3. Turned(d, d', m.plci, "idle")
      BY <1>9, <2>2 DEF Turned
    <2>4. m.cmd = "DISCONNECT_RESP" /\ m = Head(toCapi) /\ s = Tail(toCapi)
      BY <1>9, <2>1
    <2>5. Line(C, n, s, toApp, d', b)
      BY <1>2, <1>4, <2>3, <2>4, FreeLine
    <2>6. QED
      BY <2>1, <2>5
  <1>19. CASE TakeData(m)
    <2>1. m.cmd = "DATA_B3_REQ" /\ toApp' = toApp /\ d' = d /\ b' = b
      BY <1>19 DEF TakeData
    <2>2. Line(C, n, s, toApp, d, b)
      BY <1>4, <1>6, <2>1
    <2>3. QED
      BY <2>1, <2>2
  <1>20. QED
    BY <1>3, <1>10, <1>11, <1>12, <1>13, <1>14, <1>15, <1>16, <1>17, <1>18, <1>19

-----------------------------------------------------------------------------
(* All steps.  The number of the next message has not come round to 0.     *)
InRound == card.msgid # 0

LEMMA NextLine ==
  ASSUME TypeInv, LineInv, [Next]_vars, InRound' PROVE LineInv'
  <1>1. card'.msgid # 0
    BY DEF InRound
  <1>2. CASE Connect
    BY <1>1, <1>2, ConnectStep
  <1>3. CASE Decide
    BY <1>3, DecideStep
  <1>4. CASE Disconnect
    BY <1>4, DisconnectStep
  <1>5. CASE Send
    BY <1>5, SendStep
  <1>6. CASE Inject
    BY <1>1, <1>6, InjectStep
  <1>7. CASE Take
    BY <1>7, TakeStep
  <1>8. CASE Ring \/ Digits \/ Answered \/ LinkAsked \/ LinkUp \/ ConfirmData \/ DataOrReset
             \/ (\E p \in Plcis : Hangup(p) \/ LinkDown(p))
    BY <1>8, NetworkStep
  <1>9. CASE UNCHANGED vars
    BY <1>9 DEF vars, LineInv
  <1>10. QED
    BY <1>2, <1>3, <1>4, <1>5, <1>6, <1>7, <1>8, <1>9 DEF Next

LEMMA LineAlways == Spec /\ []InRound => [](TypeInv /\ LineInv)
  <1>1. Init /\ InRound => TypeInv /\ LineInv
    BY InitType, InitLine DEF InRound
  <1>2. TypeInv /\ LineInv /\ InRound' /\ [Next]_vars => (TypeInv /\ LineInv)'
    BY NextType, NextLine
  <1>3. QED
    BY <1>1, <1>2, PTL DEF Spec

(* find_plci_by_plci finds the call that is meant: as long as the message  *)
(* numbers that capiconn_connect and check_incoming_complete remember have *)
(* not come round to 0, no PLCI belongs to two connections, also when the  *)
(* controller gives a PLCI it has just freed to the next call.             *)
THEOREM PlciUnique == Spec /\ []InRound => []OneCallPerPlci
  <1>1. ASSUME LineInv PROVE OneCallPerPlci
    <2>1. ASSUME NEW p \in Plcis PROVE Cardinality(Of(p)) <= 1
      <3>1. p # 0 /\ Fit(card.conns, card.msgid)
        BY <1>1, Sets, LineSeq DEF LineInv
      <3>2. \A i, j \in Of(p) : i = j
        BY <3>1 DEF Of, Conns, Fit, Apart
      <3>3. CASE Of(p) = {}
        BY <3>3, FS_EmptySet
      <3>4. CASE Of(p) # {}
        <4>1. PICK i \in Of(p) : TRUE
          BY <3>4
        <4>2. Of(p) = {i}
          BY <3>2, <4>1
        <4>3. Cardinality({i}) = 1
          BY FS_Singleton
        <4>4. QED
          BY <4>2, <4>3
      <3>5. QED
        BY <3>3, <3>4
    <2>2. QED
      BY <2>1 DEF OneCallPerPlci
  <1>2. QED
    BY <1>1, LineAlways, PTL

(* However a hang-up crosses with an answer, a disconnect or a link set-up *)
(* in the queues, once they are empty the list of capiconn.c holds exactly *)
(* the calls that the controller still has.                                *)
THEOREM CallsAgree == Spec /\ []InRound => []SameCalls
  <1>1. ASSUME TypeInv, LineInv PROVE SameCalls
    <2>1. ASSUME Still, NEW p \in Plcis PROVE (Of(p) # {}) <=> (d[p] # "idle")
      <3>1. Range(toCapi) = {} /\ Range(toApp) = {}
        BY <2>1 DEF Still, Range
      <3>2. /\ \A cmd : ~Sent(Range(toCapi), p, cmd) /\ ~Sent(Range(toApp), p, cmd)
            /\ ~Offers(Range(toApp), p) /\ ~Refuses(Range(toCapi), p)
        BY <3>1 DEF Sent, Offers, Refuses
      <3>3. CallFits(card.conns, Range(toCapi), Range(toApp), d[p], b[p], p)
        BY <1>1, LineAt DEF LineInv
      <3>4. d[p] \in DStates
        BY <1>1 DEF TypeInv
      <3>5. Known(card.conns, p) <=> d[p] # "idle"
        BY <3>2, <3>3, <3>4 DEF CallFits, DStates
      <3>6. QED
        BY <3>5 DEF Known, Of, Conns
    <2>2. QED
      BY <2>1 DEF SameCalls
  <1>2. QED
    BY <1>1, LineAlways, PTL

(* A CONNECT_CONF finds by its number the connection that sent the         *)
(* CONNECT_REQ, and handle_ncci never follows a null pointer for a         *)
(* CONNECT_B3_IND: its call is still in the list.                          *)
THEOREM SearchesSucceed == Spec /\ []InRound => []MessagesFindCall
  <1>1. ASSUME TypeInv, LineInv, toApp # <<>>
        PROVE  LET m == Head(toApp)
                   i == find_plci_by_msgid(card, m.num)
               IN  /\ m.cmd = "CONNECT_CONF" => i # 0 /\ card.conns[i].state = "OUTGOING"
                   /\ m.cmd = "CONNECT_B3_IND" => Of(m.plci) # {}
    <2> DEFINE m == Head(toApp)
               i == find_plci_by_msgid(card, m.num)
    <2>1. /\ QueuesFit(toCapi, toApp) /\ Fit(card.conns, card.msgid)
          /\ Numbers(card.conns, Range(toCapi), Range(toApp))
      BY <1>1 DEF LineInv, Line
    <2>2. More(Range(Tail(toApp)), Range(toApp), m) /\ m.plci \in Plcis
      BY <1>1, <2>1, DropQ
    <2>3. card.conns \in Seq(Connection)
      BY <1>1, LineSeq DEF LineInv
    <2>4. \/ i = 0 /\ \A j \in DOMAIN card.conns : card.conns[j].msgid # m.num
          \/ i # 0 /\ i \in DOMAIN card.conns /\ card.conns[i].msgid = m.num
      BY <2>3, FindMsgid
    <2> HIDE DEF m, i
    <2>5. ASSUME m.cmd = "CONNECT_CONF" PROVE i # 0 /\ card.conns[i].state = "OUTGOING"
      <3>1. Waiting(card.conns, m.num)
        BY <2>1, <2>2, <2>5 DEF More, Numbers
      <3>2. i \in DOMAIN card.conns /\ card.conns[i].msgid = m.num /\ i # 0
        BY <2>4, <3>1 DEF Waiting
      <3>3. QED
        BY <2>1, <3>1, <3>2, WaitingOne
    <2>6. ASSUME m.cmd = "CONNECT_B3_IND" PROVE Of(m.plci) # {}
      <3>1. Sent(Range(toApp), m.plci, "CONNECT_B3_IND")
        BY <2>2, <2>6 DEF More
      <3>2. Known(card.conns, m.plci)
        BY <1>1, <2>2, <3>1, LineAt DEF CallFits, LineInv
      <3>3. QED
        BY <3>2 DEF Known, Of, Conns
    <2>7. QED
      BY <2>5, <2>6 DEF m, i
  <1>2. TypeInv /\ LineInv => MessagesFindCall
    BY <1>1 DEF MessagesFindCall
  <1>3. QED
    BY <1>2, LineAlways, PTL

(* Digits that arrive late make check_incoming_complete ask the            *)
(* application again, yet the controller never finds a CONNECT_RESP for a  *)
(* call that has been answered.                                            *)
THEOREM NoSecondAnswer == Spec /\ []InRound => []AnsweredOnce
  <1>1. ASSUME LineInv, toCapi # <<>>, Head(toCapi).cmd = "CONNECT_RESP"
        PROVE  d[Head(toCapi).plci] \in {"ringing", "releasing", "clearing"}
    <2> DEFINE m == Head(toCapi)
    <2>1. QueuesFit(toCapi, toApp)
      BY <1>1 DEF LineInv, Line
    <2>2. m \in Down /\ More(Range(Tail(toCapi)), Range(toCapi), m)
      BY <1>1, <2>1, TakeQ
    <2>3. m.cmd = "CONNECT_RESP"
      BY <1>1
    <2> HIDE DEF m
    <2>4. m.plci \in Plcis
      BY <2>2, <2>3, Sets
    <2>5. Sent(Range(toCapi), m.plci, "CONNECT_RESP")
      BY <2>2, <2>3 DEF More
    <2>6. d[m.plci] \in {"ringing", "clearing"}
      BY <1>1, <2>4, <2>5, LineAt DEF CallFits, LineInv
    <2>7. QED
      BY <2>6 DEF m
  <1>2. LineInv => AnsweredOnce
    BY <1>1 DEF AnsweredOnce
  <1>3. QED
    BY <1>2, LineAlways, PTL
=============================================================================
