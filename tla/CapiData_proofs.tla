-------------------------- MODULE CapiData_proofs --------------------------
(***************************************************************************)
(* The invariants of CapiLine about the Layer 3 links and the data sent on *)
(* them, on top of the one about calls (LineInv).                          *)
(***************************************************************************)
EXTENDS CapiLine_proofs

-----------------------------------------------------------------------------
(***************************************************************************)
(* The Layer 3 links.  A link that the library takes for usable, or will   *)
(* when it reads what is under way, is up or its end is under way; the end *)
(* of a link is told once and answered once before the next one begins.    *)
(***************************************************************************)
LiveOn(C, p) == \E i \in DOMAIN C : C[i].plci = p /\ Live(C[i])

LinkFits(C, S, R, y, p) ==
    /\ Sent(R, p, "DISCONNECT_B3_IND") =>
         y = "clearing" /\ ~Sent(S, p, "DISCONNECT_B3_RESP")
    /\ Sent(S, p, "DISCONNECT_B3_RESP") => y = "clearing"
    /\ Sent(R, p, "CONNECT_B3_ACTIVE_IND") \/ LiveOn(C, p) =>
         y = "up" \/ Sent(R, p, "DISCONNECT_B3_IND")

(* After message a in a queue there is none of the kinds K on its PLCI.    *)
NoneAfter(q, a, K) ==
    \A i, j \in DOMAIN q : i < j /\ q[i].plci = q[j].plci /\ q[i].cmd = a => q[j].cmd \notin K

Ups == {"DISCONNECT_B3_IND", "CONNECT_B3_ACTIVE_IND", "DATA_B3_CONF"}
Downs == {"DISCONNECT_B3_RESP"}

LinksQ(s, r) == /\ s \in Seq(Message) /\ r \in Seq(Message)
                /\ NoneAfter(s, "DISCONNECT_B3_RESP", Downs) /\ NoneAfter(r, "DISCONNECT_B3_IND", Ups)

Links(C, s, r, bb) == /\ LinksQ(s, r)
                      /\ \A p \in Plcis : LinkFits(C, Range(s), Range(r), bb[p], p)

LEMMA TellAfter ==
  ASSUME NEW S, NEW q \in Seq(S), NEW m, NEW r, r = Tell(q, m), NEW a, NEW K, NoneAfter(q, a, K),
         m.cmd \in K => ~Sent(Range(q), m.plci, a)
  PROVE  NoneAfter(r, a, K)
  <1>1. /\ DOMAIN r = 1 .. Len(q) + 1 /\ DOMAIN q = 1 .. Len(q) /\ Len(q) \in Nat
        /\ r[Len(q) + 1] = m /\ \A j \in 1 .. Len(q) : r[j] = q[j]
    BY TellAt
  <1>2. \A j \in 1 .. Len(q) : q[j] \in Range(q)
    BY <1>1 DEF Range
  <1>3. \A i, j \in DOMAIN r : i < j => /\ i \in DOMAIN q /\ r[i] = q[i]
                                        /\ \/ j \in DOMAIN q /\ r[j] = q[j]
                                           \/ r[j] = m
    BY <1>1
  <1>4. QED
    BY <1>1, <1>2, <1>3 DEF NoneAfter, Sent

LEMMA TailAfter ==
  ASSUME NEW S, NEW q \in Seq(S), q # <<>>, NEW r, r = Tail(q), NEW a, NEW K, NoneAfter(q, a, K)
  PROVE  /\ NoneAfter(r, a, K)
         /\ Head(q).cmd = a => \A c \in K : ~Sent(Range(r), Head(q).plci, c)
  <1>1. /\ DOMAIN q = 1 .. Len(q) /\ Len(q) \in Nat \ {0} /\ DOMAIN r = 1 .. Len(q) - 1
        /\ q[1] = Head(q) /\ \A j \in 1 .. Len(q) - 1 : r[j] = q[j + 1]
    BY TailAt
  <1>2. \A x \in Range(r) : \E j \in DOMAIN q : 1 < j /\ q[j] = x
    BY <1>1 DEF Range
  <1>3. 1 \in DOMAIN q
    BY <1>1
  <1>4. \A i, j \in DOMAIN r : i < j => i + 1 \in DOMAIN q /\ j + 1 \in DOMAIN q /\ i + 1 < j + 1
    BY <1>1
  <1>5. \A j \in DOMAIN r : r[j] = q[j + 1]
    BY <1>1
  <1>6. NoneAfter(r, a, K)
    BY <1>4, <1>5 DEF NoneAfter
  <1>7. \A x \in Range(r) : x.plci = Head(q).plci /\ Head(q).cmd = a => x.cmd \notin K
    BY <1>1, <1>2, <1>3 DEF NoneAfter
  <1>8. QED
    BY <1>6, <1>7 DEF Sent

(* A message is added or taken.                                            *)
LEMMA TellMore ==
  ASSUME NEW S, NEW q \in Seq(S), NEW m, NEW r, r = Tell(q, m)
  PROVE  More(Range(q), Range(r), m)
  BY TellRange, Added

LEMMA TailMore ==
  ASSUME NEW S, NEW q \in Seq(S), q # <<>>, NEW r, r = Tail(q)
  PROVE  More(Range(r), Range(q), Head(q)) /\ Head(q) \in S /\ r \in Seq(S)
  <1>1. Range(q) = Range(r) \cup {Head(q)}
    BY TailRange
  <1>2. More(Range(r), Range(q), Head(q))
    BY <1>1, Added
  <1>3. QED
    BY <1>2, TailAt

(* The library: no link becomes live, ...                                  *)
Dim(C, D) == \A p \in Plcis : LiveOn(D, p) => LiveOn(C, p)

LEMMA DimLinks ==
  ASSUME NEW C, NEW D, NEW s, NEW r, NEW bb, Links(C, s, r, bb), Dim(C, D)
  PROVE  Links(D, s, r, bb)
  <1>1. ASSUME NEW p \in Plcis PROVE LinkFits(D, Range(s), Range(r), bb[p], p)
    <2>1. LinkFits(C, Range(s), Range(r), bb[p], p)
      BY DEF Links
    <2>2. LiveOn(D, p) => LiveOn(C, p)
      BY DEF Dim
    <2>3. QED
      BY <2>1, <2>2 DEF LinkFits
  <1>2. QED
    BY <1>1 DEF Links

LEMMA SayLinks ==
  ASSUME NEW C, NEW s, NEW r, NEW bb, Links(C, s, r, bb), NEW m \in Message,
         m.cmd # "DISCONNECT_B3_RESP", NEW t, t = Tell(s, m)
  PROVE  Links(C, t, r, bb)
  <1>1. s \in Seq(Message) /\ r \in Seq(Message)
        /\ NoneAfter(s, "DISCONNECT_B3_RESP", Downs) /\ NoneAfter(r, "DISCONNECT_B3_IND", Ups)
    BY DEF Links, LinksQ
  <1>2. NoneAfter(t, "DISCONNECT_B3_RESP", Downs)
    BY <1>1, TellAfter DEF Downs
  <1>3. t \in Seq(Message) /\ More(Range(s), Range(t), m)
    BY <1>1, TellType, TellMore
  <1>4. ASSUME NEW p \in Plcis PROVE LinkFits(C, Range(t), Range(r), bb[p], p)
    <2>1. LinkFits(C, Range(s), Range(r), bb[p], p)
      BY DEF Links
    <2>2. Sent(Range(t), p, "DISCONNECT_B3_RESP") <=> Sent(Range(s), p, "DISCONNECT_B3_RESP")
      BY <1>3 DEF More
    <2>3. QED
      BY <2>1, <2>2 DEF LinkFits
  <1>5. QED
    BY <1>1, <1>2, <1>3, <1>4 DEF Links, LinksQ

(* ... a message that says nothing of the end of a link is read, ...       *)
LEMMA DropLinks ==
  ASSUME NEW C, NEW s, NEW r, NEW bb, Links(C, s, r, bb), r # <<>>,
         Head(r).cmd # "DISCONNECT_B3_IND", NEW q, q = Tail(r)
  PROVE  Links(C, s, q, bb)
  <1>1. s \in Seq(Message) /\ r \in Seq(Message)
        /\ NoneAfter(s, "DISCONNECT_B3_RESP", Downs) /\ NoneAfter(r, "DISCONNECT_B3_IND", Ups)
    BY DEF Links, LinksQ
  <1>2. NoneAfter(q, "DISCONNECT_B3_IND", Ups)
    BY <1>1, TailAfter
  <1>3. q \in Seq(Message) /\ More(Range(q), Range(r), Head(r))
    BY <1>1, TailMore
  <1>4. ASSUME NEW p \in Plcis PROVE LinkFits(C, Range(s), Range(q), bb[p], p)
    <2>1. LinkFits(C, Range(s), Range(r), bb[p], p)
      BY DEF Links
    <2>2. /\ Sent(Range(r), p, "DISCONNECT_B3_IND") <=> Sent(Range(q), p, "DISCONNECT_B3_IND")
          /\ Sent(Range(q), p, "CONNECT_B3_ACTIVE_IND") =>
               Sent(Range(r), p, "CONNECT_B3_ACTIVE_IND")
      BY <1>3 DEF More
    <2>3. QED
      BY <2>1, <2>2 DEF LinkFits
  <1>5. QED
    BY <1>1, <1>2, <1>3, <1>4 DEF Links, LinksQ

(* ... or the one that makes the link on PLCI p usable, ...                *)
DimBut(C, D, p) == \A q \in Plcis : q # p /\ LiveOn(D, q) => LiveOn(C, q)

LEMMA WakeLinks ==
  ASSUME NEW C, NEW s, NEW r, NEW bb, Links(C, s, r, bb), r # <<>>,
         Head(r).cmd = "CONNECT_B3_ACTIVE_IND", NEW q, q = Tail(r),
         NEW D, DimBut(C, D, Head(r).plci)
  PROVE  Links(D, s, q, bb)
  <1>1. Links(C, s, q, bb)
    BY DropLinks
  <1>2. r \in Seq(Message)
    BY DEF Links, LinksQ
  <1>3. More(Range(q), Range(r), Head(r))
    BY <1>2, TailMore
  <1>4. ASSUME NEW p \in Plcis PROVE LinkFits(D, Range(s), Range(q), bb[p], p)
    <2>1. LinkFits(C, Range(s), Range(q), bb[p], p) /\ LinkFits(C, Range(s), Range(r), bb[p], p)
      BY <1>1 DEF Links
    <2>2. CASE p # Head(r).plci
      <3>1. LiveOn(D, p) => LiveOn(C, p)
        BY <2>2 DEF DimBut
      <3>2. QED
        BY <2>1, <3>1 DEF LinkFits
    <2>3. CASE p = Head(r).plci
      <3>1. Sent(Range(r), p, "CONNECT_B3_ACTIVE_IND")
            /\ (Sent(Range(r), p, "DISCONNECT_B3_IND") => Sent(Range(q), p, "DISCONNECT_B3_IND"))
        BY <1>3, <2>3 DEF More
      <3>2. bb[p] = "up" \/ Sent(Range(q), p, "DISCONNECT_B3_IND")
        BY <2>1, <3>1 DEF LinkFits
      <3>3. QED
        BY <2>1, <3>2 DEF LinkFits
    <2>4. QED
      BY <2>2, <2>3
  <1>5. QED
    BY <1>1, <1>4 DEF Links

(* ... or the one that ends it: then it is not live, and is answered.      *)
LEMMA GoneLinks ==
  ASSUME NEW C, NEW s, NEW r, NEW bb, Links(C, s, r, bb), r # <<>>,
         Head(r).cmd = "DISCONNECT_B3_IND", Head(r).plci \in Plcis, NEW q, q = Tail(r),
         NEW D, DimBut(C, D, Head(r).plci), ~LiveOn(D, Head(r).plci),
         NEW t, \/ t = s
                \/ \E w \in Message : /\ w.cmd = "DISCONNECT_B3_RESP" /\ w.plci = Head(r).plci
                                      /\ t = Tell(s, w)
  PROVE  Links(D, t, q, bb)
  <1> DEFINE p == Head(r).plci
  <1>1. s \in Seq(Message) /\ r \in Seq(Message)
        /\ NoneAfter(s, "DISCONNECT_B3_RESP", Downs) /\ NoneAfter(r, "DISCONNECT_B3_IND", Ups)
    BY DEF Links, LinksQ
  <1>2. /\ NoneAfter(q, "DISCONNECT_B3_IND", Ups) /\ ~Sent(Range(q), p, "DISCONNECT_B3_IND")
        /\ ~Sent(Range(q), p, "CONNECT_B3_ACTIVE_IND")
    <2>1. NoneAfter(q, "DISCONNECT_B3_IND", Ups) /\ \A c \in Ups : ~Sent(Range(q), p, c)
      BY <1>1, TailAfter
    <2>2. QED
      BY <2>1 DEF Ups
  <1>3. q \in Seq(Message) /\ More(Range(q), Range(r), Head(r))
    BY <1>1, TailMore
  <1>4. Sent(Range(r), p, "DISCONNECT_B3_IND")
    BY <1>3 DEF More
  <1>5. LinkFits(C, Range(s), Range(r), bb[p], p)
    BY DEF Links
  <1>6. bb[p] = "clearing" /\ ~Sent(Range(s), p, "DISCONNECT_B3_RESP")
    BY <1>4, <1>5 DEF LinkFits
  <1>7. /\ t \in Seq(Message) /\ NoneAfter(t, "DISCONNECT_B3_RESP", Downs)
        /\ \A o \in Plcis : o # p => (Sent(Range(t), o, "DISCONNECT_B3_RESP")
                                        <=> Sent(Range(s), o, "DISCONNECT_B3_RESP"))
    <2>1. CASE t = s
      BY <1>1, <2>1
    <2>2. ASSUME NEW w \in Message, w.cmd = "DISCONNECT_B3_RESP", w.plci = p, t = Tell(s, w)
          PROVE  /\ t \in Seq(Message) /\ NoneAfter(t, "DISCONNECT_B3_RESP", Downs)
                 /\ \A o \in Plcis : o # p => (Sent(Range(t), o, "DISCONNECT_B3_RESP")
                                                 <=> Sent(Range(s), o, "DISCONNECT_B3_RESP"))
      <3>1. t \in Seq(Message) /\ More(Range(s), Range(t), w)
        BY <1>1, <2>2, TellType, TellMore
      <3>2. ~Sent(Range(s), w.plci, "DISCONNECT_B3_RESP")
        BY <1>6, <2>2
      <3>3. NoneAfter(t, "DISCONNECT_B3_RESP", Downs)
        BY <1>1, <2>2, <3>2, TellAfter
      <3>4. QED
        BY <2>2, <3>1, <3>3 DEF More
    <2>3. QED
      BY <2>1, <2>2
  <1>8. ASSUME NEW o \in Plcis PROVE LinkFits(D, Range(t), Range(q), bb[o], o)
    <2>1. CASE o # p
      <3>1. LinkFits(C, Range(s), Range(r), bb[o], o)
        BY DEF Links
      <3>2. /\ Sent(Range(r), o, "DISCONNECT_B3_IND") <=> Sent(Range(q), o, "DISCONNECT_B3_IND")
            /\ Sent(Range(q), o, "CONNECT_B3_ACTIVE_IND") =>
                 Sent(Range(r), o, "CONNECT_B3_ACTIVE_IND")
        BY <1>3, <2>1 DEF More
      <3>3. LiveOn(D, o) => LiveOn(C, o)
        BY <2>1 DEF DimBut
      <3>4. Sent(Range(t), o, "DISCONNECT_B3_RESP") <=> Sent(Range(s), o, "DISCONNECT_B3_RESP")
        BY <1>7, <2>1
      <3>5. QED
        BY <3>1, <3>2, <3>3, <3>4 DEF LinkFits
    <2>2. CASE o = p
      BY <1>2, <1>6, <2>2 DEF LinkFits
    <2>3. QED
      BY <2>1, <2>2
  <1>9. QED
    BY <1>2, <1>3, <1>7, <1>8 DEF Links, LinksQ

(* The controller takes a message, ...                                     *)
LEMMA TakeLinks ==
  ASSUME NEW C, NEW s, NEW r, NEW bb, Links(C, s, r, bb), s # <<>>, NEW q, q = Tail(s)
  PROVE  Links(C, q, r, bb)
  <1>1. s \in Seq(Message) /\ r \in Seq(Message)
        /\ NoneAfter(s, "DISCONNECT_B3_RESP", Downs) /\ NoneAfter(r, "DISCONNECT_B3_IND", Ups)
    BY DEF Links, LinksQ
  <1>2. NoneAfter(q, "DISCONNECT_B3_RESP", Downs)
    BY <1>1, TailAfter
  <1>3. q \in Seq(Message) /\ More(Range(q), Range(s), Head(s))
    BY <1>1, TailMore
  <1>4. ASSUME NEW p \in Plcis PROVE LinkFits(C, Range(q), Range(r), bb[p], p)
    <2>1. LinkFits(C, Range(s), Range(r), bb[p], p)
      BY DEF Links
    <2>2. Sent(Range(q), p, "DISCONNECT_B3_RESP") => Sent(Range(s), p, "DISCONNECT_B3_RESP")
      BY <1>3 DEF More
    <2>3. QED
      BY <2>1, <2>2 DEF LinkFits
  <1>5. QED
    BY <1>1, <1>2, <1>3, <1>4 DEF Links, LinksQ

(* ... sends one that does not end a link, ...                             *)
LEMMA TellLinks ==
  ASSUME NEW C, NEW s, NEW r, NEW bb, Links(C, s, r, bb), NEW w \in Message, w.plci \in Plcis,
         w.cmd # "DISCONNECT_B3_IND",
         w.cmd \in {"CONNECT_B3_ACTIVE_IND", "DATA_B3_CONF"} => bb[w.plci] = "up",
         NEW t, t = Tell(r, w)
  PROVE  Links(C, s, t, bb)
  <1>1. s \in Seq(Message) /\ r \in Seq(Message)
        /\ NoneAfter(s, "DISCONNECT_B3_RESP", Downs) /\ NoneAfter(r, "DISCONNECT_B3_IND", Ups)
    BY DEF Links, LinksQ
  <1>2. t \in Seq(Message) /\ More(Range(r), Range(t), w)
    BY <1>1, TellType, TellMore
  <1>3. w.cmd \in Ups => ~Sent(Range(r), w.plci, "DISCONNECT_B3_IND")
    <2>1. LinkFits(C, Range(s), Range(r), bb[w.plci], w.plci)
      BY DEF Links
    <2>2. QED
      BY <2>1 DEF LinkFits, Ups
  <1>4. NoneAfter(t, "DISCONNECT_B3_IND", Ups)
    BY <1>1, <1>3, TellAfter
  <1>5. ASSUME NEW p \in Plcis PROVE LinkFits(C, Range(s), Range(t), bb[p], p)
    <2>1. LinkFits(C, Range(s), Range(r), bb[p], p)
      BY DEF Links
    <2>2. /\ Sent(Range(t), p, "DISCONNECT_B3_IND") <=> Sent(Range(r), p, "DISCONNECT_B3_IND")
          /\ Sent(Range(t), p, "CONNECT_B3_ACTIVE_IND") =>
               Sent(Range(r), p, "CONNECT_B3_ACTIVE_IND") \/ bb[p] = "up"
      BY <1>2 DEF More
    <2>3. QED
      BY <2>1, <2>2 DEF LinkFits
  <1>6. QED
    BY <1>1, <1>2, <1>4, <1>5 DEF Links, LinksQ

(* ... changes the state of a link that is neither up nor being cleared,   *)
(* ...                                                                     *)
LEMMA SetLinks ==
  ASSUME NEW C, NEW s, NEW r, NEW bb, Links(C, s, r, bb), NEW p \in Plcis,
         bb[p] \notin {"up", "clearing"}, NEW cc, \A q \in Plcis : q # p => cc[q] = bb[q]
  PROVE  Links(C, s, r, cc)
  <1>1. LinkFits(C, Range(s), Range(r), bb[p], p)
    BY DEF Links
  <1>2. LinkFits(C, Range(s), Range(r), cc[p], p)
    BY <1>1 DEF LinkFits
  <1>3. ASSUME NEW q \in Plcis PROVE LinkFits(C, Range(s), Range(r), cc[q], q)
    <2>1. CASE q = p
      BY <1>2, <2>1
    <2>2. CASE q # p
      <3>1. cc[q] = bb[q] /\ LinkFits(C, Range(s), Range(r), bb[q], q)
        BY <2>2 DEF Links
      <3>2. QED
        BY <3>1
    <2>3. QED
      BY <2>1, <2>2
  <1>4. QED
    BY <1>3 DEF Links

(* ... clears a link ...                                                   *)
LEMMA ClearLinks ==
  ASSUME NEW C, NEW s, NEW r, NEW bb, Links(C, s, r, bb), NEW w \in Message, w.plci \in Plcis,
         w.cmd = "DISCONNECT_B3_IND", bb[w.plci] # "clearing", NEW t, t = Tell(r, w),
         NEW cc, cc[w.plci] = "clearing", \A q \in Plcis : q # w.plci => cc[q] = bb[q]
  PROVE  Links(C, s, t, cc)
  <1>1. s \in Seq(Message) /\ r \in Seq(Message)
        /\ NoneAfter(s, "DISCONNECT_B3_RESP", Downs) /\ NoneAfter(r, "DISCONNECT_B3_IND", Ups)
    BY DEF Links, LinksQ
  <1>2. t \in Seq(Message) /\ More(Range(r), Range(t), w)
    BY <1>1, TellType, TellMore
  <1>3. /\ ~Sent(Range(r), w.plci, "DISCONNECT_B3_IND")
        /\ ~Sent(Range(s), w.plci, "DISCONNECT_B3_RESP")
    <2>1. LinkFits(C, Range(s), Range(r), bb[w.plci], w.plci)
      BY DEF Links
    <2>2. QED
      BY <2>1 DEF LinkFits
  <1>4. NoneAfter(t, "DISCONNECT_B3_IND", Ups)
    BY <1>1, <1>3, TellAfter
  <1>5. ASSUME NEW p \in Plcis PROVE LinkFits(C, Range(s), Range(t), cc[p], p)
    <2>1. CASE p = w.plci
      <3>1. Sent(Range(t), p, "DISCONNECT_B3_IND")
        BY <1>2, <2>1 DEF More
      <3>2. QED
        BY <1>3, <2>1, <3>1 DEF LinkFits
    <2>2. CASE p # w.plci
      <3>1. LinkFits(C, Range(s), Range(r), cc[p], p)
        BY <2>2 DEF Links
      <3>2. /\ Sent(Range(t), p, "DISCONNECT_B3_IND") <=> Sent(Range(r), p, "DISCONNECT_B3_IND")
            /\ Sent(Range(t), p, "CONNECT_B3_ACTIVE_IND") <=>
                 Sent(Range(r), p, "CONNECT_B3_ACTIVE_IND")
        BY <1>2, <2>2 DEF More
      <3>3. QED
        BY <3>1, <3>2 DEF LinkFits
    <2>3. QED
      BY <2>1, <2>2
  <1>6. QED
    BY <1>1, <1>2, <1>4, <1>5 DEF Links, LinksQ

(* ... and frees it when the library has heard of it.                      *)
LEMMA BackLinks ==
  ASSUME NEW C, NEW s, NEW r, NEW bb, Links(C, s, r, bb), s # <<>>,
         Head(s).cmd = "DISCONNECT_B3_RESP", NEW p \in Plcis, p = Head(s).plci,
         NEW q, q = Tail(s), NEW cc, cc[p] = "none", \A o \in Plcis : o # p => cc[o] = bb[o]
  PROVE  Links(C, q, r, cc)
  <1>1. s \in Seq(Message) /\ NoneAfter(s, "DISCONNECT_B3_RESP", Downs)
    BY DEF Links, LinksQ
  <1>2. Links(C, q, r, bb)
    BY TakeLinks
  <1>3. ~Sent(Range(q), p, "DISCONNECT_B3_RESP")
    <2>1. \A c \in Downs : ~Sent(Range(q), p, c)
      BY <1>1, TailAfter
    <2>2. QED
      BY <2>1 DEF Downs
  <1>4. More(Range(q), Range(s), Head(s))
    BY <1>1, TailMore
  <1>5. Sent(Range(s), p, "DISCONNECT_B3_RESP")
    BY <1>4 DEF More
  <1>6. LinkFits(C, Range(s), Range(r), bb[p], p)
    BY DEF Links
  <1>7. /\ ~Sent(Range(r), p, "DISCONNECT_B3_IND") /\ ~LiveOn(C, p)
        /\ ~Sent(Range(r), p, "CONNECT_B3_ACTIVE_IND")
    BY <1>5, <1>6 DEF LinkFits
  <1>8. ASSUME NEW o \in Plcis PROVE LinkFits(C, Range(q), Range(r), cc[o], o)
    <2>1. CASE o = p
      BY <1>3, <1>7, <2>1 DEF LinkFits
    <2>2. CASE o # p
      <3>1. cc[o] = bb[o] /\ LinkFits(C, Range(q), Range(r), bb[o], o)
        BY <1>2, <2>2 DEF Links
      <3>2. QED
        BY <3>1
    <2>3. QED
      BY <2>1, <2>2
  <1>9. QED
    BY <1>2, <1>8 DEF Links

-----------------------------------------------------------------------------
(* What the entry points do to the links.                                  *)
LEMMA NearDim ==
  ASSUME NEW C, NEW D, NEW i, Near(C, D, i), D[i].plci = C[i].plci, Live(D[i]) => Live(C[i])
  PROVE  Dim(C, D)
  <1>1. ASSUME NEW p \in Plcis, LiveOn(D, p) PROVE LiveOn(C, p)
    <2>1. PICK j \in DOMAIN D : D[j].plci = p /\ Live(D[j])
      BY <1>1 DEF LiveOn
    <2>2. j \in DOMAIN C /\ i \in DOMAIN C /\ (j # i => D[j] = C[j])
      BY DEF Near
    <2>3. C[j].plci = p /\ Live(C[j])
      BY <2>1, <2>2
    <2>4. QED
      BY <2>2, <2>3 DEF LiveOn
  <1>2. QED
    BY <1>1 DEF Dim

LEMMA NearDimBut ==
  ASSUME NEW C, NEW D, NEW i, Near(C, D, i), D[i].plci = C[i].plci
  PROVE  DimBut(C, D, C[i].plci)
  <1>1. ASSUME NEW p \in Plcis, p # C[i].plci, LiveOn(D, p) PROVE LiveOn(C, p)
    <2>1. PICK j \in DOMAIN D : D[j].plci = p /\ Live(D[j])
      BY <1>1 DEF LiveOn
    <2>2. j \in DOMAIN C /\ (j # i => D[j] = C[j])
      BY DEF Near
    <2>3. C[j].plci = p /\ Live(C[j])
      BY <1>1, <2>1, <2>2
    <2>4. QED
      BY <2>2, <2>3 DEF LiveOn
  <1>2. QED
    BY <1>1 DEF DimBut

(* ... and to their queues: each link of D is new or is one of C with the  *)
(* queue it had.                                                           *)
Same(c, e) == /\ c.nccip # NoNcci /\ e.plci = c.plci /\ (Live(e) <=> Live(c))
              /\ e.nccip.ackqueue = c.nccip.ackqueue
              /\ e.nccip.datahandle = c.nccip.datahandle
Keeps(C, D) == \A j \in DOMAIN D : D[j].nccip # NoNcci =>
                 Fresh(D[j]) \/ \E i \in DOMAIN C : Same(C[i], D[j])

LEMMA KeepsSelf == ASSUME NEW C PROVE Keeps(C, C)
  BY DEF Keeps, Same

LEMMA KeepsDim ==
  ASSUME NEW C, NEW D, Keeps(C, D) PROVE Dim(C, D)
  <1>1. ASSUME NEW p \in Plcis, LiveOn(D, p) PROVE LiveOn(C, p)
    <2>1. PICK j \in DOMAIN D : D[j].plci = p /\ Live(D[j])
      BY <1>1 DEF LiveOn
    <2>2. D[j].nccip # NoNcci /\ ~Fresh(D[j])
      BY <2>1 DEF Live, Fresh
    <2>3. PICK i \in DOMAIN C : Same(C[i], D[j])
      BY <2>2 DEF Keeps
    <2>4. C[i].plci = p /\ Live(C[i])
      BY <2>1, <2>3 DEF Same
    <2>5. QED
      BY <2>4 DEF LiveOn
  <1>2. QED
    BY <1>1 DEF Dim

LEMMA KeepsTwice ==
  ASSUME NEW C, NEW D, NEW E, Keeps(C, D), Keeps(D, E) PROVE Keeps(C, E)
  <1>1. ASSUME NEW j \in DOMAIN E, E[j].nccip # NoNcci, ~Fresh(E[j])
        PROVE  \E i \in DOMAIN C : Same(C[i], E[j])
    <2>1. PICK i \in DOMAIN D : Same(D[i], E[j])
      BY <1>1 DEF Keeps
    <2>2. D[i].nccip # NoNcci /\ ~Fresh(D[i])
      BY <1>1, <2>1 DEF Same, Fresh
    <2>3. PICK l \in DOMAIN C : Same(C[l], D[i])
      BY <2>2 DEF Keeps
    <2>4. Same(C[l], E[j])
      BY <2>1, <2>3 DEF Same
    <2>5. QED
      BY <2>4
  <1>2. QED
    BY <1>1 DEF Keeps

LEMMA NearKeeps ==
  ASSUME NEW C, NEW D, NEW i, Near(C, D, i),
         D[i].nccip # NoNcci => Fresh(D[i]) \/ Same(C[i], D[i])
  PROVE  Keeps(C, D)
  <1>1. ASSUME NEW j \in DOMAIN D, D[j].nccip # NoNcci, ~Fresh(D[j])
        PROVE  \E l \in DOMAIN C : Same(C[l], D[j])
    <2>1. j \in DOMAIN C /\ i \in DOMAIN C /\ (j # i => D[j] = C[j])
      BY DEF Near
    <2>2. CASE j = i
      BY <1>1, <2>1, <2>2
    <2>3. CASE j # i
      <3>1. Same(C[j], D[j])
        BY <1>1, <2>1, <2>3 DEF Same
      <3>2. QED
        BY <2>1, <3>1
    <2>4. QED
      BY <2>2, <2>3
  <1>2. QED
    BY <1>1 DEF Keeps

LEMMA TurnsKeeps ==
  ASSUME NEW C, NEW D, NEW i, Turns(C, D, i) PROVE Keeps(C, D)
  <1>1. Near(C, D, i) /\ D[i].plci = C[i].plci
    BY DEF Turns, Soft
  <1>2. D[i].nccip # NoNcci => Fresh(D[i]) \/ Same(C[i], D[i])
    BY <1>1 DEF Turns, Weak, Same
  <1>3. QED
    BY <1>1, <1>2, NearKeeps

LEMMA JoinedKeeps ==
  ASSUME NEW C, NEW D, NEW c, Joined(C, D, c), c.nccip = NoNcci PROVE Keeps(C, D)
  <1>1. \A j \in DOMAIN D : \/ j = 1 /\ D[j] = c
                            \/ j # 1 /\ j - 1 \in DOMAIN C /\ D[j] = C[j - 1]
    BY JoinedAt
  <1>2. ASSUME NEW j \in DOMAIN D, D[j].nccip # NoNcci PROVE \E i \in DOMAIN C : Same(C[i], D[j])
    <2>1. j - 1 \in DOMAIN C /\ D[j] = C[j - 1]
      BY <1>1, <1>2
    <2>2. Same(C[j - 1], D[j])
      BY <1>2, <2>1 DEF Same
    <2>3. QED
      BY <2>1, <2>2
  <1>3. QED
    BY <1>2 DEF Keeps

LEMMA PartedKeeps ==
  ASSUME NEW C, NEW D, NEW i, Parted(C, D, i) PROVE Keeps(C, D)
  <1>1. \A j \in DOMAIN D : After(i, j) \in DOMAIN C /\ D[j] = C[After(i, j)]
    BY PartedAt
  <1>2. ASSUME NEW j \in DOMAIN D, D[j].nccip # NoNcci PROVE \E l \in DOMAIN C : Same(C[l], D[j])
    <2>1. Same(C[After(i, j)], D[j])
      BY <1>1, <1>2 DEF Same
    <2>2. QED
      BY <1>1, <2>1
  <1>3. QED
    BY <1>2 DEF Keeps

(* An entry point makes no link live and sends at most one message, which  *)
(* does not answer the end of a link.                                      *)
Calms(k, g) == /\ Dim(k.conns, g.conns)
               /\ \/ g.out = <<>>
                  \/ \E m \in Message : m.cmd # "DISCONNECT_B3_RESP" /\ g.out = Tell(<<>>, m)

LEMMA CalmsLinks ==
  ASSUME NEW k, NEW g, NEW s, NEW r, NEW bb, Links(k.conns, s, r, bb), Calms(k, g)
  PROVE  Links(g.conns, s \o g.out, r, bb)
  <1>1. s \in Seq(Message)
    BY DEF Links, LinksQ
  <1>2. Links(g.conns, s, r, bb)
    BY DimLinks DEF Calms
  <1>3. CASE g.out = <<>>
    <2>1. s \o g.out = s
      BY <1>1, <1>3
    <2>2. QED
      BY <1>2, <2>1, Zenon
  <1>4. ASSUME NEW m \in Message, m.cmd # "DISCONNECT_B3_RESP", g.out = Tell(<<>>, m)
        PROVE  Links(g.conns, s \o g.out, r, bb)
    <2>1. s \o Tell(<<>>, m) = Tell(s, m)
      BY <1>1, OutTell
    <2>2. Links(g.conns, Tell(s, m), r, bb)
      <3>1. m.cmd # "DISCONNECT_B3_RESP"
        BY <1>4
      <3>2. QED
        BY <1>2, <3>1, SayLinks
    <2>3. QED
      BY <1>4, <2>1, <2>2, Zenon
  <1>5. QED
    BY <1>3, <1>4 DEF Calms

(* One that does not touch the data leaves the queues as they are, too.    *)
Leaves(k, g) == /\ Keeps(k.conns, g.conns)
                /\ \/ g.out = <<>>
                   \/ \E m \in Message : /\ m.cmd \notin {"DISCONNECT_B3_RESP", "DATA_B3_REQ"}
                                         /\ g.out = Tell(<<>>, m)

LEMMA LeavesCalms ==
  ASSUME NEW k, NEW g, Leaves(k, g) PROVE Calms(k, g)
  <1>1. Dim(k.conns, g.conns)
    BY KeepsDim DEF Leaves
  <1>2. \A x : x \notin {"DISCONNECT_B3_RESP", "DATA_B3_REQ"} => x # "DISCONNECT_B3_RESP"
    OBVIOUS
  <1>3. QED
    BY <1>1, <1>2, Zenon DEF Leaves, Calms

LEMMA MildLeaves ==
  ASSUME NEW k, k.out = <<>>, NEW g, NEW i, Mild(k, g, i) PROVE Leaves(k, g)
  <1>1. Keeps(k.conns, g.conns)
    BY TurnsKeeps DEF Mild
  <1>2. \A m : m.cmd \in Quiet => m.cmd \notin {"DISCONNECT_B3_RESP", "DATA_B3_REQ"}
    BY DEF Quiet
  <1>3. \/ g.out = k.out
        \/ \E m \in Message : m.cmd \in Quiet /\ g.out = Tell(k.out, m)
    BY DEF Mild
  <1>4. \/ g.out = <<>>
        \/ \E m \in Message : /\ m.cmd \notin {"DISCONNECT_B3_RESP", "DATA_B3_REQ"}
                              /\ g.out = Tell(<<>>, m)
    BY <1>2, <1>3, Zenon
  <1>5. QED
    BY <1>1, <1>4, Zenon DEF Leaves

LEMMA AnswersLeaves ==
  ASSUME NEW k, k.out = <<>>, NEW g, NEW i, NEW a, Answers(k, g, i, a) PROVE Leaves(k, g)
  <1> DEFINE m == Msg("CONNECT_RESP", k.conns[i].plci, 0, 0, a)
  <1>1. Keeps(k.conns, g.conns)
    BY TurnsKeeps DEF Answers
  <1>2. m \in Message /\ g.out = Tell(k.out, m)
    BY DEF Answers
  <1>3. m.cmd \notin {"DISCONNECT_B3_RESP", "DATA_B3_REQ"}
    BY DEF Msg
  <1> HIDE DEF m
  <1>4. g.out = Tell(<<>>, m)
    BY <1>2, Zenon
  <1>5. QED
    BY <1>1, <1>2, <1>3, <1>4, Zenon DEF Leaves

LEMMA AlertsKeeps ==
  ASSUME NEW k \in Cards, NEW g, NEW i, Alerts(k, g, i) PROVE Keeps(k.conns, g.conns)
  <1>1. Near(k.conns, g.conns, i) /\ g.conns[i] = [k.conns[i] EXCEPT !.msgid = k.msgid]
    BY DEF Alerts
  <1>2. k.conns[i] \in Connection
    <2>1. k.conns \in Seq(Connection) /\ i \in DOMAIN k.conns
      BY <1>1 DEF Near
    <2>2. QED
      BY <2>1
  <1>3. g.conns[i].plci = k.conns[i].plci /\ g.conns[i].nccip = k.conns[i].nccip
    BY <1>1, <1>2 DEF Connection
  <1>4. g.conns[i].nccip # NoNcci => Fresh(g.conns[i]) \/ Same(k.conns[i], g.conns[i])
    BY <1>3 DEF Same, Live
  <1>5. QED
    BY <1>1, <1>4, NearKeeps

LEMMA AskedLeaves ==
  ASSUME NEW k \in Cards, k.out = <<>>, NEW g, NEW i, Asked(k, g, i) PROVE Leaves(k, g)
  <1>1. CASE g = k
    BY <1>1, KeepsSelf, Zenon DEF Leaves
  <1>2. CASE Alerts(k, g, i)
    <2>1. g.out = <<>> /\ Keeps(k.conns, g.conns)
      BY <1>2, AlertsKeeps DEF Alerts
    <2>2. QED
      BY <2>1, Zenon DEF Leaves
  <1>3. ASSUME NEW a \in {0, 1, 2}, Answers(k, g, i, a) PROVE Leaves(k, g)
    BY <1>3, AnswersLeaves
  <1>4. QED
    BY <1>1, <1>2, <1>3 DEF Asked

LEMMA ConnectLeaves ==
  ASSUME NEW k \in Cards, k.out = <<>>, Unused(k) # {}, NEW g, g = capiconn_connect(k)
  PROVE  Leaves(k, g)
  <1> DEFINE m == Msg("CONNECT_REQ", 0, 0, k.msgid, 0)
  <1>1. /\ m \in Message /\ g.out = Tell(k.out, m)
        /\ \E c \in Connection : Joined(k.conns, g.conns, c) /\ c.nccip = NoNcci
    BY ConnectIs
  <1>2. m.cmd \notin {"DISCONNECT_B3_RESP", "DATA_B3_REQ"}
    BY DEF Msg
  <1> HIDE DEF m
  <1>3. Keeps(k.conns, g.conns)
    BY <1>1, JoinedKeeps
  <1>4. g.out = Tell(<<>>, m)
    BY <1>1, Zenon
  <1>5. QED
    BY <1>1, <1>2, <1>3, <1>4, Zenon DEF Leaves

LEMMA IncomingLeaves ==
  ASSUME NEW k \in Cards, k.out = <<>>, NEW g, NEW p,
         Ignores(k, g, p) \/ \E h : Rings(k, h, p) /\ Asked(h, g, 1)
  PROVE  Leaves(k, g)
  <1>1. CASE Ignores(k, g, p)
    <2> DEFINE m == Msg("CONNECT_RESP", p, 0, 0, 1)
    <2>1. m \in Message /\ g.out = Tell(k.out, m) /\ g.conns = k.conns
      BY <1>1 DEF Ignores
    <2>2. m.cmd \notin {"DISCONNECT_B3_RESP", "DATA_B3_REQ"}
      BY DEF Msg
    <2> HIDE DEF m
    <2>3. g.out = Tell(<<>>, m) /\ Keeps(k.conns, g.conns)
      BY <2>1, KeepsSelf, Zenon
    <2>4. QED
      BY <2>1, <2>2, <2>3, Zenon DEF Leaves
  <1>2. ASSUME NEW h, Rings(k, h, p), Asked(h, g, 1) PROVE Leaves(k, g)
    <2>1. h \in Cards /\ h.out = <<>>
          /\ \E c \in Connection : Joined(k.conns, h.conns, c) /\ c.nccip = NoNcci
      BY <1>2 DEF Rings
    <2>2. Keeps(k.conns, h.conns)
      BY <2>1, JoinedKeeps
    <2>3. Leaves(h, g)
      BY <1>2, <2>1, AskedLeaves
    <2>4. Keeps(h.conns, g.conns)
      BY <2>3 DEF Leaves
    <2>5. Keeps(k.conns, g.conns)
      BY <2>2, <2>4, KeepsTwice
    <2>6. QED
      BY <2>3, <2>5, Zenon DEF Leaves
  <1>3. QED
    BY <1>1, <1>2

LEMMA ConfirmLeaves ==
  ASSUME NEW k \in Cards, NEW g, NEW s, NEW r, NEW dd, NEW bb,
         Line(k.conns, k.msgid, s, r, dd, bb), k.out = <<>>, r # <<>>, NEW m, m = Head(r),
         m.cmd = "CONNECT_CONF", g = ConnectConf(k, m)
  PROVE  Leaves(k, g)
  <1>1. QueuesFit(s, r) /\ Fit(k.conns, k.msgid) /\ Numbers(k.conns, Range(s), Range(r))
    BY DEF Line
  <1>2. m \in Up /\ More(Range(Tail(r)), Range(r), m)
    BY <1>1, DropQ
  <1>3. m \in Message /\ m.plci # 0
    BY <1>1, <1>2, DropQ, Sets
  <1>4. /\ g.out = k.out
        /\ \/ g = k /\ \A j \in DOMAIN k.conns : k.conns[j].msgid # m.num
           \/ \E i \in DOMAIN k.conns :
                /\ k.conns[i].msgid = m.num
                /\ k.conns[i].state = "OUTGOING" =>
                     IF m.arg # 0 THEN Parted(k.conns, g.conns, i)
                     ELSE /\ Near(k.conns, g.conns, i)
                          /\ g.conns[i].plci = m.plci /\ g.conns[i].state = "ALLOCATED"
                          /\ g.conns[i].msgid = k.conns[i].msgid
                          /\ g.conns[i].nccip = k.conns[i].nccip
    BY <1>3, ConnectConfIs
  <1>5. Waiting(k.conns, m.num)
    BY <1>1, <1>2 DEF Numbers, More
  <1>6. PICK i \in DOMAIN k.conns :
                /\ k.conns[i].msgid = m.num
                /\ k.conns[i].state = "OUTGOING" =>
                     IF m.arg # 0 THEN Parted(k.conns, g.conns, i)
                     ELSE /\ Near(k.conns, g.conns, i)
                          /\ g.conns[i].nccip = k.conns[i].nccip
    BY <1>4, <1>5 DEF Waiting
  <1>7. k.conns[i].state = "OUTGOING"
    BY <1>1, <1>5, <1>6, WaitingOne
  <1>8. Keeps(k.conns, g.conns)
    <2>1. CASE m.arg # 0
      <3>1. Parted(k.conns, g.conns, i)
        BY <1>6, <1>7, <2>1
      <3>2. QED
        BY <3>1, PartedKeeps
    <2>2. CASE m.arg = 0
      <3>1. Near(k.conns, g.conns, i) /\ g.conns[i].nccip = k.conns[i].nccip
        BY <1>6, <1>7, <2>2
      <3>2. k.conns[i].nccip = NoNcci
        BY <1>1, <1>7 DEF Fit, ConnFits, Held
      <3>3. g.conns[i].nccip = NoNcci
        BY <3>1, <3>2
      <3>4. QED
        BY <3>1, <3>3, NearKeeps
    <2>3. QED
      BY <2>1, <2>2
  <1>9. QED
    BY <1>4, <1>8, Zenon DEF Leaves

LEMMA EndLeaves ==
  ASSUME NEW k \in Cards, NEW g, NEW s, NEW r, NEW dd, NEW bb,
         Line(k.conns, k.msgid, s, r, dd, bb), k.out = <<>>, r # <<>>, NEW m, m = Head(r),
         m.cmd = "DISCONNECT_IND", g = DisconnectInd(k, m)
  PROVE  Leaves(k, g)
  <1>1. QueuesFit(s, r) /\ Fit(k.conns, k.msgid)
    BY DEF Line
  <1>2. m \in Up /\ m.plci # 0
    BY <1>1, DropQ, Sets
  <1>3. m \in Message
    BY <1>2, Sets
  <1> DEFINE w == Reply(m, "DISCONNECT_RESP")
  <1>4. /\ w \in Message /\ w.cmd = "DISCONNECT_RESP" /\ g.out = Tell(k.out, w)
        /\ \/ g.conns = k.conns
           \/ \E i \in DOMAIN k.conns :
                /\ k.conns[i].plci = m.plci
                /\ k.conns[i].state \in Held => Parted(k.conns, g.conns, i)
    BY <1>3, DisconnectIndIs
  <1> HIDE DEF w
  <1>5. Keeps(k.conns, g.conns)
    <2>1. CASE g.conns = k.conns
      BY <2>1, KeepsSelf, Zenon
    <2>2. ASSUME NEW i \in DOMAIN k.conns, k.conns[i].plci = m.plci,
                 k.conns[i].state \in Held => Parted(k.conns, g.conns, i)
          PROVE  Keeps(k.conns, g.conns)
      <3>1. Parted(k.conns, g.conns, i)
        BY <1>1, <1>2, <2>2 DEF Fit, ConnFits
      <3>2. QED
        BY <3>1, PartedKeeps
    <2>3. QED
      BY <1>4, <2>1, <2>2
  <1>6. w.cmd \notin {"DISCONNECT_B3_RESP", "DATA_B3_REQ"} /\ w \in Message
    BY <1>4
  <1>7. g.out = Tell(<<>>, w)
    BY <1>4, Zenon
  <1>8. QED
    BY <1>5, <1>6, <1>7, Zenon DEF Leaves

LEMMA QueuesCalms ==
  ASSUME NEW k, k.out = <<>>, NEW g, NEW i, Queues(k, g, i) PROVE Calms(k, g)
  <1>1. /\ Near(k.conns, g.conns, i) /\ Soft(k.conns[i], g.conns[i]) /\ CanSend(k.conns[i])
        /\ \E m \in Message : m.cmd = "DATA_B3_REQ" /\ g.out = Tell(k.out, m)
    BY DEF Queues
  <1>2. Live(k.conns[i]) /\ g.conns[i].plci = k.conns[i].plci
    BY <1>1 DEF CanSend, Live, Soft
  <1>3. Dim(k.conns, g.conns)
    BY <1>1, <1>2, NearDim
  <1>4. \E m \in Message : m.cmd # "DISCONNECT_B3_RESP" /\ g.out = Tell(<<>>, m)
    <2>1. PICK m \in Message : m.cmd = "DATA_B3_REQ" /\ g.out = Tell(k.out, m)
      BY <1>1
    <2>2. m.cmd # "DISCONNECT_B3_RESP"
      BY <2>1
    <2>3. QED
      BY <2>1, <2>2, Zenon
  <1>5. QED
    BY <1>3, <1>4, Zenon DEF Calms


(* The end of a link.                                                      *)
LEMMA OneDim ==
  ASSUME NEW C, NEW n, Fit(C, n), NEW i \in DOMAIN C, C[i].plci # 0, ~Live(C[i])
  PROVE  ~LiveOn(C, C[i].plci)
  <1>1. \A j \in DOMAIN C : C[j].plci = C[i].plci => j = i
    BY DEF Fit, Apart
  <1>2. QED
    BY <1>1 DEF LiveOn

LEMMA ClearsGone ==
  ASSUME NEW k, NEW g, NEW n, NEW i, NEW w, Fit(k.conns, n), Clears(k, g, i, w),
         k.conns[i].plci # 0
  PROVE  DimBut(k.conns, g.conns, k.conns[i].plci) /\ ~LiveOn(g.conns, k.conns[i].plci)
  <1>1. Near(k.conns, g.conns, i) /\ g.conns[i].plci = k.conns[i].plci /\ ~Live(g.conns[i])
    BY DEF Clears, Turns, Soft
  <1>2. DimBut(k.conns, g.conns, k.conns[i].plci)
    BY <1>1, NearDimBut
  <1>3. \A j \in DOMAIN k.conns : k.conns[j].plci = k.conns[i].plci => j = i
    <2>1. i \in DOMAIN k.conns
      BY <1>1 DEF Near
    <2>2. QED
      BY <2>1 DEF Fit, Apart
  <1>4. \A j \in DOMAIN g.conns : j # i => j \in DOMAIN k.conns /\ g.conns[j] = k.conns[j]
    BY <1>1 DEF Near
  <1>5. ~LiveOn(g.conns, k.conns[i].plci)
    BY <1>1, <1>3, <1>4 DEF LiveOn
  <1>6. QED
    BY <1>2, <1>5

LEMMA DownLinks ==
  ASSUME NEW k \in Cards, NEW g, NEW s, NEW r, NEW dd, NEW bb,
         Line(k.conns, k.msgid, s, r, dd, bb), Links(k.conns, s, r, bb), k.out = <<>>,
         r # <<>>, NEW m, m = Head(r), m.cmd = "DISCONNECT_B3_IND", NEW q, q = Tail(r),
         g = DisconnectB3Ind(k, m)
  PROVE  Links(g.conns, s \o g.out, q, bb)
  <1>1. QueuesFit(s, r) /\ Fit(k.conns, k.msgid) /\ s \in Seq(Message) /\ s \o <<>> = s
        /\ k.conns \in Seq(Connection)
    BY LineSeq DEF Line
  <1>2. m \in Up /\ m.plci \in Plcis
    BY <1>1, DropQ
  <1>3. m \in Message /\ m.plci # 0
    BY <1>2, Sets
  <1> DEFINE w == Reply(m, "DISCONNECT_B3_RESP")
             i == find_plci_by_plci(k, m.plci)
  <1>4. /\ w \in Message /\ w.cmd = "DISCONNECT_B3_RESP" /\ w.plci = m.plci
        /\ \/ g = k /\ \A j \in DOMAIN k.conns : k.conns[j].plci = m.plci =>
                         k.conns[i].nccip = NoNcci
           \/ \E j \in DOMAIN k.conns : k.conns[j].plci = m.plci /\ Clears(k, g, j, w)
    BY <1>3, LinkDownIs
  <1>5. \/ i = 0 /\ \A j \in DOMAIN k.conns : k.conns[j].plci # m.plci
        \/ i # 0 /\ i \in DOMAIN k.conns /\ k.conns[i].plci = m.plci
    BY <1>1, FindPlci
  <1> HIDE DEF w, i
  <1>6. Head(r).cmd = "DISCONNECT_B3_IND" /\ Head(r).plci \in Plcis /\ m.plci = Head(r).plci
    BY <1>2
  <1>7. CASE g = k /\ \A j \in DOMAIN k.conns : k.conns[j].plci = m.plci =>
                        k.conns[i].nccip = NoNcci
    <2>1. ~LiveOn(k.conns, m.plci)
      <3>1. CASE \A j \in DOMAIN k.conns : k.conns[j].plci # m.plci
        BY <3>1 DEF LiveOn
      <3>2. CASE i \in DOMAIN k.conns /\ k.conns[i].plci = m.plci
        <4>1. k.conns[i].nccip = NoNcci
          BY <1>7, <3>2
        <4>2. ~Live(k.conns[i])
          BY <4>1 DEF Live
        <4>3. ~LiveOn(k.conns, k.conns[i].plci)
          BY <1>1, <1>3, <3>2, <4>2, OneDim
        <4>4. QED
          BY <3>2, <4>3
      <3>3. QED
        BY <1>5, <3>1, <3>2
    <2>2. DimBut(k.conns, k.conns, Head(r).plci) /\ ~LiveOn(k.conns, Head(r).plci)
      BY <1>6, <2>1 DEF DimBut
    <2>3. Links(k.conns, s, q, bb)
      BY <1>6, <2>2, GoneLinks
    <2>4. g.conns = k.conns /\ s \o g.out = s
      BY <1>1, <1>7, Zenon
    <2>5. QED
      BY <2>3, <2>4, Zenon
  <1>8. ASSUME NEW j \in DOMAIN k.conns, k.conns[j].plci = m.plci, Clears(k, g, j, w)
        PROVE  Links(g.conns, s \o g.out, q, bb)
    <2>1. DimBut(k.conns, g.conns, Head(r).plci) /\ ~LiveOn(g.conns, Head(r).plci)
      BY <1>1, <1>3, <1>6, <1>8, ClearsGone
    <2>2. \E x \in Message : /\ x.cmd = "DISCONNECT_B3_RESP" /\ x.plci = Head(r).plci
                             /\ Tell(s, w) = Tell(s, x)
      BY <1>4, <1>6, Zenon
    <2>3. Links(g.conns, Tell(s, w), q, bb)
      BY <1>6, <2>1, <2>2, GoneLinks
    <2>4. CASE g.out = Tell(k.out, w)
      <3>1. g.out = Tell(<<>>, w)
        BY <2>4, Zenon
      <3>2. s \o Tell(<<>>, w) = Tell(s, w)
        BY <1>1, <1>4, OutTell
      <3>3. QED
        BY <2>3, <3>1, <3>2, Zenon
    <2>5. ASSUME NEW v \in Message, v.cmd = "DISCONNECT_REQ", g.out = Tell(Tell(k.out, w), v)
          PROVE  Links(g.conns, s \o g.out, q, bb)
      <3>1. g.out = Tell(Tell(<<>>, w), v)
        BY <2>5, Zenon
      <3>2. s \o Tell(Tell(<<>>, w), v) = Tell(Tell(s, w), v)
        <4>1. s \in Seq(Message) /\ w \in Message
          BY <1>1, <1>4
        <4>2. QED
          BY <4>1, OutTell
      <3>3. v.cmd # "DISCONNECT_B3_RESP"
        BY <2>5
      <3>4. Links(g.conns, Tell(Tell(s, w), v), q, bb)
        BY <2>3, <3>3, SayLinks
      <3>5. QED
        BY <3>1, <3>2, <3>4, Zenon
    <2>6. QED
      BY <1>8, <2>4, <2>5 DEF Clears
  <1>9. QED
    BY <1>4, <1>7, <1>8

(* Every message of the controller.                                        *)
LEMMA HandledLinks ==
  ASSUME NEW k \in Cards, NEW g, NEW s, NEW r, NEW dd, NEW bb,
         Line(k.conns, k.msgid, s, r, dd, bb), Links(k.conns, s, r, bb), k.out = <<>>,
         r # <<>>, NEW m, m = Head(r), Handled(k, g, m), NEW q, q = Tail(r)
  PROVE  Links(g.conns, s \o g.out, q, bb)
  <1>1. QueuesFit(s, r) /\ s \o <<>> = s
    BY LineSeq DEF Line
  <1>2. m \in Up
    BY <1>1, DropQ
  <1>3. m \in Message
    BY <1>2, Sets
  <1>4. ASSUME Calms(k, g), m.cmd # "DISCONNECT_B3_IND"
        PROVE  Links(g.conns, s \o g.out, q, bb)
    <2>1. Links(k.conns, s, q, bb)
      BY <1>4, DropLinks
    <2>2. QED
      BY <1>4, <2>1, CalmsLinks
  <1>5. g = k => Calms(k, g)
    <2>1. g = k => Leaves(k, g)
      BY KeepsSelf, Zenon DEF Leaves
    <2>2. QED
      BY <2>1, LeavesCalms
  <1>6. CASE m.cmd = "CONNECT_IND" /\ (\/ Ignores(k, g, m.plci)
                                       \/ \E h : Rings(k, h, m.plci) /\ Asked(h, g, 1))
    <2>1. Calms(k, g)
      BY <1>6, IncomingLeaves, LeavesCalms
    <2>2. QED
      BY <1>4, <1>6, <2>1
  <1>7. CASE m.cmd = "CONNECT_CONF" /\ g = ConnectConf(k, m)
    <2>1. Calms(k, g)
      BY <1>7, ConfirmLeaves, LeavesCalms
    <2>2. QED
      BY <1>4, <1>7, <2>1
  <1>8. CASE m.cmd = "DISCONNECT_IND" /\ g = DisconnectInd(k, m)
    <2>1. Calms(k, g)
      BY <1>8, EndLeaves, LeavesCalms
    <2>2. QED
      BY <1>4, <1>8, <2>1
  <1>9. CASE m.cmd = "INFO_IND"
             /\ \E i \in DOMAIN k.conns : k.conns[i].plci = m.plci /\ Asked(k, g, i)
    <2>1. PICK i \in DOMAIN k.conns : Asked(k, g, i)
      BY <1>9
    <2>2. Calms(k, g)
      BY <2>1, AskedLeaves, LeavesCalms
    <2>3. QED
      BY <1>4, <1>9, <2>2
  <1>10. CASE m.cmd = "DISCONNECT_B3_IND" /\ g = DisconnectB3Ind(k, m)
    BY <1>10, DownLinks
  <1>11. CASE m.cmd = "CONNECT_B3_ACTIVE_IND"
              /\ \E i \in DOMAIN k.conns : k.conns[i].plci = m.plci /\ Wakes(k, g, i)
    <2>1. PICK i \in DOMAIN k.conns : k.conns[i].plci = m.plci /\ Wakes(k, g, i)
      BY <1>11
    <2>2. Near(k.conns, g.conns, i) /\ g.conns[i].plci = k.conns[i].plci /\ g.out = k.out
      BY <2>1 DEF Wakes, Soft
    <2>3. DimBut(k.conns, g.conns, k.conns[i].plci)
      BY <2>2, NearDimBut
    <2>4. DimBut(k.conns, g.conns, Head(r).plci) /\ Head(r).cmd = "CONNECT_B3_ACTIVE_IND"
      BY <1>11, <2>1, <2>3
    <2>5. Links(g.conns, s, q, bb)
      BY <2>4, WakeLinks
    <2>6. s \o g.out = s
      BY <1>1, <2>2, Zenon
    <2>7. QED
      BY <2>5, <2>6, Zenon
  <1>12. CASE m.cmd = "DATA_B3_CONF" /\ g = DataB3Conf(k, m)
    <2>1. \/ g = k
          \/ \E i \in DOMAIN k.conns : k.conns[i].plci = m.plci /\ Confirms(k, g, i, m.arg)
      BY <1>3, <1>12, DataConfIs
    <2>2. ASSUME NEW i \in DOMAIN k.conns, Confirms(k, g, i, m.arg) PROVE Calms(k, g)
      <3>1. /\ Near(k.conns, g.conns, i) /\ g.conns[i].plci = k.conns[i].plci /\ g.out = k.out
            /\ Live(g.conns[i]) => Live(k.conns[i])
        BY <2>2 DEF Confirms, Soft
      <3>2. Dim(k.conns, g.conns)
        BY <3>1, NearDim
      <3>3. g.out = <<>>
        BY <3>1, Zenon
      <3>4. QED
        BY <3>2, <3>3, Zenon DEF Calms
    <2>3. Calms(k, g)
      BY <1>5, <2>1, <2>2
    <2>4. QED
      BY <1>4, <1>12, <2>3
  <1>13. CASE /\ m.cmd \in {"CONNECT_ACTIVE_IND", "DISCONNECT_CONF", "CONNECT_B3_IND",
                            "CONNECT_B3_CONF", "RESET_B3_IND", "DISCONNECT_B3_CONF"}
              /\ \E i \in DOMAIN k.conns : k.conns[i].plci = m.plci /\ Mild(k, g, i)
    <2>1. PICK i \in DOMAIN k.conns : Mild(k, g, i)
      BY <1>13
    <2>2. Calms(k, g)
      BY <2>1, MildLeaves, LeavesCalms
    <2>3. m.cmd # "DISCONNECT_B3_IND"
      BY <1>13
    <2>4. QED
      BY <1>4, <2>2, <2>3
  <1>14. CASE g = k /\ (m.cmd \in {"DISCONNECT_B3_IND", "DATA_B3_CONF"} => m.n = 0)
    <2>1. m.cmd # "DISCONNECT_B3_IND"
      BY <1>2, <1>14 DEF Up
    <2>2. QED
      BY <1>4, <1>5, <1>14, <2>1
  <1>15. QED
    BY <1>6, <1>7, <1>8, <1>9, <1>10, <1>11, <1>12, <1>13, <1>14 DEF Handled

-----------------------------------------------------------------------------
(* The invariant of the links, and the steps.                              *)
LinkInv == Links(card.conns, toCapi, toApp, b)

LEMMA InitLinks ==
  ASSUME Init PROVE LinkInv
  <1>1. card.conns = <<>> /\ toCapi = <<>> /\ toApp = <<>>
    BY DEF Init
  <1>2. Range(toCapi) = {} /\ Range(toApp) = {} /\ DOMAIN card.conns = {}
    BY <1>1 DEF Range
  <1>3. LinksQ(toCapi, toApp)
    BY <1>1 DEF LinksQ, NoneAfter
  <1>4. \A p \in Plcis : LinkFits(card.conns, Range(toCapi), Range(toApp), b[p], p)
    BY <1>2 DEF LinkFits, LiveOn, Sent
  <1>5. QED
    BY <1>3, <1>4 DEF LinkInv, Links

LEMMA BecomesLinks ==
  ASSUME NEW k \in Cards, Becomes(k), NEW q, Links(k.conns, toCapi \o k.out, q, b),
         toApp' = q, b' = b
  PROVE  LinkInv'
  <1>1. card'.conns = k.conns /\ toCapi' = toCapi \o k.out
    BY BecomesIs
  <1>2. QED
    BY <1>1, Zenon DEF LinkInv

LEMMA CalmStep ==
  ASSUME LinkInv, NEW k \in Cards, Becomes(k), Calms(card, k), toApp' = toApp, b' = b
  PROVE  LinkInv'
  <1>1. Links(k.conns, toCapi \o k.out, toApp, b)
    BY CalmsLinks DEF LinkInv
  <1>2. QED
    BY <1>1, BecomesLinks

LEMMA InjectLinks ==
  ASSUME TypeInv, LineInv, LinkInv, Inject PROVE LinkInv'
  <1>1. PICK complete \in BOOLEAN, answer \in {"accept", "ignore", "reject", "wait"} :
          Becomes(capiconn_inject(card, Head(toApp), complete, answer))
    BY DEF Inject
  <1> DEFINE g == capiconn_inject(card, Head(toApp), complete, answer)
  <1>2. toApp # <<>> /\ toApp' = Tail(toApp) /\ b' = b /\ Head(toApp) \in Message
    BY DEF Inject, Receive, Controller, TypeInv
  <1>3. Handled(card, g, Head(toApp)) /\ card \in Cards /\ card.out = <<>>
    BY <1>2, InjectIs DEF TypeInv
  <1>4. g \in Cards
    BY <1>2, <1>3, HandledType
  <1>5. Becomes(g)
    BY <1>1
  <1> HIDE DEF g
  <1>6. Links(g.conns, toCapi \o g.out, Tail(toApp), b)
    BY <1>2, <1>3, HandledLinks DEF LineInv, LinkInv
  <1>7. QED
    BY <1>2, <1>4, <1>5, <1>6, BecomesLinks

LEMMA LibraryLinks ==
  ASSUME TypeInv, LinkInv, Connect \/ Decide \/ Disconnect \/ Send PROVE LinkInv'
  <1>1. card \in Cards /\ card.out = <<>>
    BY DEF TypeInv
  <1>2. toApp' = toApp /\ b' = b
    BY DEF Connect, Decide, Disconnect, Send, Controller
  <1>3. Calms(card, card)
    <2>1. Leaves(card, card)
      BY <1>1, KeepsSelf, Zenon DEF Leaves
    <2>2. QED
      BY <2>1, LeavesCalms
  <1>4. \E g \in Cards : Becomes(g) /\ Calms(card, g)
    <2>1. CASE Connect
      <3> DEFINE g == capiconn_connect(card)
      <3>1. Unused(card) # {} /\ Becomes(g)
        BY <2>1 DEF Connect
      <3>2. g \in Cards /\ Calms(card, g)
        BY <1>1, <3>1, ConnectIs, ConnectLeaves, LeavesCalms
      <3> HIDE DEF g
      <3>3. QED
        BY <3>1, <3>2
    <2>2. CASE Decide
      <3>1. PICK i \in DOMAIN card.conns : card.conns[i].state = "INCOMING"
                /\ \/ Becomes(capiconn_accept(card, i))
                   \/ Becomes(capiconn_ignore(card, i))
                   \/ Becomes(capiconn_reject(card, i))
        BY <2>2 DEF Decide, Conns
      <3>2. PICK a \in {0, 1, 2} : Becomes(ConnectResp(card, i, a))
        BY <3>1 DEF capiconn_accept, capiconn_ignore, capiconn_reject
      <3> DEFINE g == ConnectResp(card, i, a)
      <3>3. Answers(card, g, i, a)
        BY <1>1, <3>1, ConnectRespIs
      <3>4. Becomes(g)
        BY <3>2
      <3> HIDE DEF g
      <3>5. g \in Cards /\ Calms(card, g)
        <4>1. g \in Cards
          BY <3>3 DEF Answers
        <4>2. Calms(card, g)
          BY <1>1, <3>3, AnswersLeaves, LeavesCalms
        <4>3. QED
          BY <4>1, <4>2
      <3>6. QED
        BY <3>4, <3>5
    <2>3. CASE Disconnect
      <3>1. PICK i \in DOMAIN card.conns : Becomes(capiconn_disconnect(card, i))
        BY <2>3 DEF Disconnect, Conns
      <3> DEFINE g == capiconn_disconnect(card, i)
      <3>2. g = card \/ Mild(card, g, i) \/ Answers(card, g, i, 2)
        BY <1>1, DisconnectIs
      <3>3. Becomes(g) /\ g \in Cards
        BY <1>1, <3>1, DisconnectType
      <3> HIDE DEF g
      <3>4. Calms(card, g)
        <4>1. CASE g = card
          BY <1>3, <4>1, Zenon
        <4>2. CASE Mild(card, g, i)
          BY <1>1, <4>2, MildLeaves, LeavesCalms
        <4>3. CASE Answers(card, g, i, 2)
          BY <1>1, <4>3, AnswersLeaves, LeavesCalms
        <4>4. QED
          BY <3>2, <4>1, <4>2, <4>3
      <3>5. QED
        BY <3>3, <3>4
    <2>4. CASE Send
      <3>1. PICK i \in DOMAIN card.conns, put \in BOOLEAN : Becomes(capiconn_send(card, i, put))
        BY <2>4 DEF Send, Conns
      <3> DEFINE g == capiconn_send(card, i, put)
      <3>2. Becomes(g) /\ (g = card \/ Queues(card, g, i))
        BY <1>1, <3>1, SendIs
      <3> HIDE DEF g
      <3>3. CASE g = card
        BY <1>1, <1>3, <3>2, <3>3, Zenon
      <3>4. CASE Queues(card, g, i)
        <4>1. g \in Cards
          BY <3>4 DEF Queues
        <4>2. Calms(card, g)
          BY <1>1, <3>4, QueuesCalms
        <4>3. QED
          BY <3>2, <4>1, <4>2
      <3>5. QED
        BY <3>2, <3>3, <3>4
    <2>5. QED
      BY <2>1, <2>2, <2>3, <2>4
  <1>5. QED
    BY <1>2, <1>4, CalmStep

-----------------------------------------------------------------------------
(* The steps of the controller.                                            *)
LEMMA UpMessage ==
  ASSUME NEW w \in Up PROVE w \in Message /\ w.plci \in Plcis
  BY DEF Up

LEMMA ReleaseLinks ==
  ASSUME NEW C, NEW s, NEW r, Links(C, s, r, b), NEW p \in Plcis,
         b \in [Plcis -> BStates], Release(p, r)
  PROVE  Links(C, s, toApp', b')
  <1>1. {"DISCONNECT_IND", "DISCONNECT_B3_IND"} \subseteq Commands
    BY DEF Commands
  <1>2. CASE b[p] = "none"
    <2> DEFINE w == Ind("DISCONNECT_IND", p, 0)
    <2>1. w \in Up /\ w.cmd = "DISCONNECT_IND"
      BY <1>1, IndUp
    <2>2. toApp' = Tell(r, w) /\ b' = b
      BY <1>2 DEF Release
    <2> HIDE DEF w
    <2>3. /\ w \in Message /\ w.plci \in Plcis /\ w.cmd # "DISCONNECT_B3_IND"
          /\ w.cmd \notin {"CONNECT_B3_ACTIVE_IND", "DATA_B3_CONF"}
      BY <2>1, UpMessage
    <2>4. Links(C, s, toApp', b)
      BY <2>2, <2>3, TellLinks
    <2>5. QED
      BY <2>2, <2>4
  <1>3. CASE b[p] = "clearing"
    <2>1. toApp' = r /\ b' = b
      BY <1>3 DEF Release
    <2>2. QED
      BY <2>1
  <1>4. CASE b[p] \notin {"none", "clearing"}
    <2> DEFINE w == Ind("DISCONNECT_B3_IND", p, 1)
    <2>1. w \in Up /\ w.cmd = "DISCONNECT_B3_IND" /\ w.plci = p
      BY <1>1, IndUp
    <2>2. b' = [b EXCEPT ![p] = "clearing"] /\ toApp' = Tell(r, w)
      BY <1>4 DEF Release
    <2> HIDE DEF w
    <2>3. b'[p] = "clearing" /\ \A q \in Plcis : q # p => b'[q] = b[q]
      BY <2>2, SetAt
    <2>4. /\ w \in Message /\ w.plci \in Plcis /\ w.cmd = "DISCONNECT_B3_IND"
          /\ b[w.plci] # "clearing" /\ toApp' = Tell(r, w) /\ b'[w.plci] = "clearing"
          /\ \A q \in Plcis : q # w.plci => b'[q] = b[q]
      BY <1>4, <2>1, <2>2, <2>3, UpMessage
    <2>5. QED
      BY <2>4, ClearLinks
  <1>5. QED
    BY <1>2, <1>3, <1>4

LEMMA NetworkLinks ==
  ASSUME TypeInv, LinkInv,
         Ring \/ Digits \/ Answered \/ LinkAsked \/ LinkUp \/ ConfirmData \/ DataOrReset
         \/ (\E p \in Plcis : Hangup(p) \/ LinkDown(p))
  PROVE  LinkInv'
  <1>1. b \in [Plcis -> BStates] /\ unconf \in [Plcis -> Seq(Nat)]
    BY DEF TypeInv
  <1> DEFINE Cmds == {"CONNECT_IND", "INFO_IND", "CONNECT_ACTIVE_IND", "CONNECT_B3_IND",
                      "CONNECT_B3_ACTIVE_IND", "DATA_B3_CONF", "DATA_B3_IND", "RESET_B3_IND",
                      "DISCONNECT_B3_IND"}
  <1>2. Cmds \subseteq Commands
    BY DEF Commands
  <1>3. card' = card /\ toCapi' = toCapi
    BY DEF Ring, Digits, Answered, LinkAsked, LinkUp, ConfirmData, DataOrReset, Hangup, LinkDown
  <1> DEFINE Goal == Links(card.conns, toCapi, toApp', b')
  <1> SUFFICES Goal
    BY <1>3 DEF LinkInv
  <1>4. Links(card.conns, toCapi, toApp, b)
    BY DEF LinkInv
  <1>5. ASSUME NEW cc, Links(card.conns, toCapi, toApp, cc), b' = cc, NEW p \in Plcis,
               NEW n \in {0, 1}, NEW cmd \in Cmds \ {"DATA_B3_CONF", "DISCONNECT_B3_IND"},
               cmd = "CONNECT_IND" => n = 0, toApp' = Tell(toApp, Ind(cmd, p, n)),
               cmd = "CONNECT_B3_ACTIVE_IND" => cc[p] = "up"
        PROVE  Goal
    <2> DEFINE w == Ind(cmd, p, n)
    <2>1. w \in Up /\ w.cmd = cmd /\ w.plci = p
      BY <1>2, <1>5, IndUp
    <2>2. toApp' = Tell(toApp, w)
      BY <1>5
    <2> HIDE DEF w
    <2>3. /\ w \in Message /\ w.plci \in Plcis /\ w.cmd # "DISCONNECT_B3_IND"
          /\ w.cmd \in {"CONNECT_B3_ACTIVE_IND", "DATA_B3_CONF"} => cc[w.plci] = "up"
      BY <1>5, <2>1, UpMessage
    <2>4. Links(card.conns, toCapi, toApp', cc)
      BY <1>5, <2>2, <2>3, TellLinks
    <2>5. QED
      BY <1>5, <2>4
  <1>6. CASE Ring
    <2>1. PICK p \in Plcis : toApp' = Tell(toApp, Ind("CONNECT_IND", p, 0)) /\ b' = b
      BY <1>6 DEF Ring
    <2>2. QED
      BY <1>4, <1>5, <2>1
  <1>7. CASE Digits
    <2>1. PICK p \in Plcis : toApp' = Tell(toApp, Ind("INFO_IND", p, 0)) /\ b' = b
      BY <1>7 DEF Digits, Controller
    <2>2. QED
      BY <1>4, <1>5, <2>1
  <1>8. CASE Answered
    <2>1. PICK p \in Plcis : toApp' = Tell(toApp, Ind("CONNECT_ACTIVE_IND", p, 0)) /\ b' = b
      BY <1>8 DEF Answered
    <2>2. QED
      BY <1>4, <1>5, <2>1
  <1>9. CASE LinkAsked
    <2>1. PICK p \in Plcis : /\ b[p] = "none" /\ b' = [b EXCEPT ![p] = "in"]
                             /\ toApp' = Tell(toApp, Ind("CONNECT_B3_IND", p, 1))
      BY <1>9 DEF LinkAsked
    <2>2. b[p] \notin {"up", "clearing"} /\ \A q \in Plcis : q # p => b'[q] = b[q]
      BY <1>1, <2>1, SetAt
    <2>3. Links(card.conns, toCapi, toApp, b')
      BY <1>4, <2>2, SetLinks
    <2>4. toApp' = Tell(toApp, Ind("CONNECT_B3_IND", p, 1))
      BY <2>1
    <2>5. QED
      BY <1>5, <2>3, <2>4
  <1>10. CASE LinkUp
    <2>1. PICK p \in Plcis : /\ b[p] \in {"out", "agreed"} /\ b' = [b EXCEPT ![p] = "up"]
                             /\ toApp' = Tell(toApp, Ind("CONNECT_B3_ACTIVE_IND", p, 1))
      BY <1>10 DEF LinkUp
    <2>2. b[p] \notin {"up", "clearing"} /\ b'[p] = "up"
          /\ \A q \in Plcis : q # p => b'[q] = b[q]
      BY <1>1, <2>1, SetAt
    <2>3. Links(card.conns, toCapi, toApp, b')
      BY <1>4, <2>2, SetLinks
    <2>4. toApp' = Tell(toApp, Ind("CONNECT_B3_ACTIVE_IND", p, 1))
      BY <2>1
    <2>5. QED
      BY <1>5, <2>2, <2>3, <2>4
  <1>11. CASE ConfirmData
    <2>1. PICK p \in Plcis :
             /\ unconf[p] # <<>> /\ b[p] = "up"
             /\ toApp' = Tell(toApp, Say("DATA_B3_CONF", p, 1, 0, Head(unconf[p])))
      BY <1>11 DEF ConfirmData
    <2> DEFINE w == Say("DATA_B3_CONF", p, 1, 0, Head(unconf[p]))
    <2>2. Head(unconf[p]) \in Nat /\ 0 \in 0 .. MsgMod - 1
      BY <1>1, <2>1, CapiAssumption
    <2>3. w \in Up /\ w.cmd = "DATA_B3_CONF" /\ w.plci = p
      BY <1>2, <2>2, SayUp
    <2>4. toApp' = Tell(toApp, w)
      BY <2>1
    <2> HIDE DEF w
    <2>5. b' = b
      BY <1>11 DEF ConfirmData
    <2>6. /\ w \in Message /\ w.plci \in Plcis /\ w.cmd # "DISCONNECT_B3_IND"
          /\ b[w.plci] = "up"
      BY <2>1, <2>3, UpMessage
    <2>7. Links(card.conns, toCapi, toApp', b)
      BY <1>4, <2>4, <2>6, TellLinks
    <2>8. QED
      BY <2>5, <2>7
  <1>12. CASE DataOrReset
    <2>1. PICK p \in Plcis, cmd \in {"DATA_B3_IND", "RESET_B3_IND"} :
             toApp' = Tell(toApp, Ind(cmd, p, 1))
      BY <1>12 DEF DataOrReset
    <2>2. b' = b /\ cmd \in Cmds \ {"DATA_B3_CONF", "DISCONNECT_B3_IND"}
          /\ cmd # "CONNECT_IND" /\ cmd # "CONNECT_B3_ACTIVE_IND" /\ 1 \in {0, 1}
      BY <1>12 DEF DataOrReset, Controller
    <2> HIDE DEF Cmds
    <2>3. QED
      BY <1>4, <1>5, <2>1, <2>2
  <1>13. ASSUME NEW p \in Plcis, Hangup(p) PROVE Goal
    <2>1. Release(p, toApp)
      BY <1>13 DEF Hangup
    <2>2. QED
      BY <1>1, <1>4, <2>1, ReleaseLinks
  <1>14. ASSUME NEW p \in Plcis, LinkDown(p) PROVE Goal
    <2> DEFINE w == Ind("DISCONNECT_B3_IND", p, 1)
    <2>1. w \in Up /\ w.cmd = "DISCONNECT_B3_IND" /\ w.plci = p
      BY <1>2, IndUp
    <2>2. /\ b[p] # "clearing" /\ b' = [b EXCEPT ![p] = "clearing"] /\ toApp' = Tell(toApp, w)
      BY <1>14 DEF LinkDown
    <2> HIDE DEF w
    <2>3. b'[p] = "clearing" /\ \A q \in Plcis : q # p => b'[q] = b[q]
      BY <1>1, <2>2, SetAt
    <2>4. /\ w \in Message /\ w.plci \in Plcis /\ w.cmd = "DISCONNECT_B3_IND"
          /\ b[w.plci] # "clearing" /\ toApp' = Tell(toApp, w) /\ b'[w.plci] = "clearing"
          /\ \A q \in Plcis : q # w.plci => b'[q] = b[q]
      BY <2>1, <2>2, <2>3, UpMessage
    <2>5. QED
      BY <1>4, <2>4, ClearLinks
  <1>15. QED
    BY <1>6, <1>7, <1>8, <1>9, <1>10, <1>11, <1>12, <1>13, <1>14

LEMMA ServeLinks ==
  ASSUME TypeInv, LineInv, LinkInv, Take PROVE LinkInv'
  <1> DEFINE m == Head(toCapi)
             s == Tail(toCapi)
             p == m.plci
             C == card.conns
  <1>1. b \in [Plcis -> BStates]
    BY DEF TypeInv
  <1>2. toCapi # <<>> /\ toCapi' = s /\ card' = card
    BY DEF Take, Serve
  <1>3. \/ TakeConnectReq(m) \/ RefuseConnectReq(m) \/ TakeConnectResp(m)
        \/ TakeB3Req(m) \/ TakeB3Resp(m) \/ TakeDisconnectB3Req(m)
        \/ TakeDisconnectB3Resp(m) \/ TakeDisconnectReq(m)
        \/ TakeDisconnectResp(m) \/ TakeData(m)
    BY DEF Take
  <1>4. Links(C, toCapi, toApp, b)
    BY DEF LinkInv
  <1>5. /\ m.n \in {0, 1} /\ m.num \in 0 .. MsgMod - 1
        /\ m.cmd # "CONNECT_REQ" => p \in Plcis
    BY <1>2, HeadDown DEF LineInv
  <1> SUFFICES Links(C, s, toApp', b')
    BY <1>2 DEF LinkInv
  <1>6. Links(C, s, toApp, b)
    BY <1>2, <1>4, TakeLinks
  <1> DEFINE Cmds == {"CONNECT_CONF", "CONNECT_B3_CONF", "DISCONNECT_B3_CONF", "DISCONNECT_CONF"}
  <1>7. ASSUME NEW bb, Links(C, s, toApp, bb), NEW cmd \in Cmds, NEW o \in Plcis,
               NEW x \in {0, 1}, NEW a \in {0, 1}, cmd = "CONNECT_CONF" => x = 0
        PROVE  Links(C, s, Tell(toApp, Say(cmd, o, x, m.num, a)), bb)
    <2> DEFINE w == Say(cmd, o, x, m.num, a)
    <2>1. cmd \in Commands /\ a \in Nat /\ cmd \notin {"DISCONNECT_B3_IND", "DATA_B3_CONF",
            "CONNECT_IND", "DISCONNECT_IND", "CONNECT_B3_ACTIVE_IND"}
      BY DEF Commands
    <2>2. w \in Up /\ w.cmd = cmd
      BY <1>5, <1>7, <2>1, SayUp
    <2> HIDE DEF w, m, Cmds
    <2>3. /\ w \in Message /\ w.plci \in Plcis /\ w.cmd # "DISCONNECT_B3_IND"
          /\ w.cmd \notin {"CONNECT_B3_ACTIVE_IND", "DATA_B3_CONF"}
      BY <2>1, <2>2, UpMessage
    <2>4. Links(C, s, Tell(toApp, w), bb)
      BY <1>7, <2>3, TellLinks
    <2>5. QED
      BY <2>4 DEF w
  <1>8. m = Head(toCapi) /\ s = Tail(toCapi) /\ p = m.plci
        /\ {"DISCONNECT_IND", "DISCONNECT_B3_IND"} \subseteq Commands
    BY DEF Commands
  <1>9. "CONNECT_CONF" \in Cmds /\ "CONNECT_B3_CONF" \in Cmds /\ "DISCONNECT_B3_CONF" \in Cmds
        /\ "DISCONNECT_CONF" \in Cmds /\ 0 \in {0, 1} /\ 1 \in {0, 1}
    OBVIOUS
  <1> HIDE DEF m, s, p, C, Cmds
  <1>10. CASE TakeConnectReq(m)
    <2>1. PICK o \in Plcis, ok \in BOOLEAN :
            toApp' = Tell(toApp, Say("CONNECT_CONF", o, 0, m.num, IF ok THEN 0 ELSE 1)) /\ b' = b
      BY <1>10 DEF TakeConnectReq
    <2>2. PICK a \in {0, 1} : toApp' = Tell(toApp, Say("CONNECT_CONF", o, 0, m.num, a))
      <3>1. CASE ok
        BY <2>1, <3>1
      <3>2. CASE ~ok
        BY <2>1, <3>2
      <3>3. QED
        BY <3>1, <3>2
    <2>3. Links(C, s, Tell(toApp, Say("CONNECT_CONF", o, 0, m.num, a)), b)
      BY <1>6, <1>7, <1>9
    <2>4. QED
      BY <2>1, <2>2, <2>3, Zenon
  <1>11. CASE RefuseConnectReq(m)
    <2>1. PICK o \in Plcis : toApp' = Tell(toApp, Say("CONNECT_CONF", o, 0, m.num, 1))
      BY <1>11 DEF RefuseConnectReq
    <2>2. b' = b
      BY <1>11 DEF RefuseConnectReq, Controller
    <2>3. Links(C, s, Tell(toApp, Say("CONNECT_CONF", o, 0, m.num, 1)), b)
      BY <1>6, <1>7, <1>9
    <2>4. QED
      BY <2>1, <2>2, <2>3, Zenon
  <1>12. CASE TakeConnectResp(m)
    <2>1. p \in Plcis
      BY <1>5, <1>12 DEF TakeConnectResp
    <2>2. (toApp' = toApp /\ b' = b) \/ Release(p, toApp)
      BY <1>12 DEF TakeConnectResp, p
    <2>3. CASE toApp' = toApp /\ b' = b
      BY <1>6, <2>3
    <2>4. CASE Release(p, toApp)
      BY <1>1, <1>6, <2>1, <2>4, ReleaseLinks
    <2>5. QED
      BY <2>2, <2>3, <2>4
  <1>13. CASE TakeB3Req(m)
    <2>1. p \in Plcis
      BY <1>5, <1>13 DEF TakeB3Req
    <2>2. CASE d[p] = "active" /\ b[p] = "none"
      <3>1. /\ b' = [b EXCEPT ![p] = "out"]
            /\ toApp' = Tell(toApp, Say("CONNECT_B3_CONF", p, 1, m.num, 0))
        BY <1>13, <2>2 DEF TakeB3Req, p
      <3>2. b[p] \notin {"up", "clearing"} /\ \A q \in Plcis : q # p => b'[q] = b[q]
        BY <1>1, <2>1, <2>2, <3>1, SetAt
      <3>3. Links(C, s, toApp, b')
        BY <1>6, <2>1, <3>2, SetLinks
      <3>4. Links(C, s, Tell(toApp, Say("CONNECT_B3_CONF", p, 1, m.num, 0)), b')
        BY <1>7, <1>9, <2>1, <3>3
      <3>5. QED
        BY <3>1, <3>4, Zenon
    <2>3. CASE ~(d[p] = "active" /\ b[p] = "none")
      <3>1. b' = b /\ \E x \in {0, 1} :
              toApp' = Tell(toApp, Say("CONNECT_B3_CONF", p, x, m.num, 1))
        BY <1>13, <2>3 DEF TakeB3Req, p
      <3>2. \A x \in {0, 1} : Links(C, s, Tell(toApp, Say("CONNECT_B3_CONF", p, x, m.num, 1)), b)
        BY <1>6, <1>7, <1>9, <2>1
      <3>3. QED
        BY <3>1, <3>2, Zenon
    <2>4. QED
      BY <2>2, <2>3
  <1>14. CASE TakeB3Resp(m)
    <2>1. p \in Plcis /\ toApp' = toApp
      BY <1>5, <1>14 DEF TakeB3Resp
    <2>2. b' = [b EXCEPT ![p] = IF @ = "in" THEN "agreed" ELSE @]
      BY <1>14 DEF TakeB3Resp, p
    <2>3. CASE b[p] = "in"
      <3>1. b' = [b EXCEPT ![p] = "agreed"]
        BY <2>2, <2>3
      <3>2. b[p] \notin {"up", "clearing"} /\ \A q \in Plcis : q # p => b'[q] = b[q]
        BY <1>1, <2>1, <2>3, <3>1, SetAt
      <3>3. Links(C, s, toApp, b')
        BY <1>6, <2>1, <3>2, SetLinks
      <3>4. QED
        BY <2>1, <3>3
    <2>4. CASE b[p] # "in"
      <3>1. b' = b
        BY <1>1, <2>2, <2>4
      <3>2. QED
        BY <1>6, <2>1, <3>1
    <2>5. QED
      BY <2>3, <2>4
  <1>15. CASE TakeDisconnectB3Req(m)
    <2>1. p \in Plcis
      BY <1>5, <1>15 DEF TakeDisconnectB3Req
    <2>2. CASE m.n = 1 /\ b[p] \notin {"none", "clearing"}
      <3> DEFINE w == Ind("DISCONNECT_B3_IND", p, 1)
                 q == Tell(toApp, Say("DISCONNECT_B3_CONF", p, 1, m.num, 0))
      <3>1. b' = [b EXCEPT ![p] = "clearing"] /\ toApp' = Tell(q, w)
        BY <1>15, <2>2 DEF TakeDisconnectB3Req, p
      <3>2. Links(C, s, q, b)
        BY <1>6, <1>7, <1>9, <2>1
      <3>3. w \in Up /\ w.cmd = "DISCONNECT_B3_IND" /\ w.plci = p
        BY <1>8, <2>1, IndUp
      <3> HIDE DEF w, q
      <3>4. b'[p] = "clearing" /\ \A o \in Plcis : o # p => b'[o] = b[o]
        BY <1>1, <2>1, <3>1, SetAt
      <3>5. /\ w \in Message /\ w.plci \in Plcis /\ w.cmd = "DISCONNECT_B3_IND"
            /\ b[w.plci] # "clearing" /\ toApp' = Tell(q, w) /\ b'[w.plci] = "clearing"
            /\ \A o \in Plcis : o # w.plci => b'[o] = b[o]
        BY <2>2, <3>1, <3>3, <3>4, UpMessage
      <3>6. QED
        BY <3>2, <3>5, ClearLinks
    <2>3. CASE ~(m.n = 1 /\ b[p] \notin {"none", "clearing"})
      <3>1. b' = b /\ toApp' = Tell(toApp, Say("DISCONNECT_B3_CONF", p, m.n, m.num, 1))
        BY <1>15, <2>3 DEF TakeDisconnectB3Req, p
      <3>2. Links(C, s, Tell(toApp, Say("DISCONNECT_B3_CONF", p, m.n, m.num, 1)), b)
        BY <1>5, <1>6, <1>7, <1>9, <2>1
      <3>3. QED
        BY <3>1, <3>2, Zenon
    <2>4. QED
      BY <2>2, <2>3
  <1>16. CASE TakeDisconnectB3Resp(m)
    <2>1. m.cmd = "DISCONNECT_B3_RESP" /\ p \in Plcis
      BY <1>5, <1>16 DEF TakeDisconnectB3Resp
    <2>2. b' = [b EXCEPT ![p] = "none"]
      BY <1>16 DEF TakeDisconnectB3Resp, p
    <2>3. b'[p] = "none" /\ \A q \in Plcis : q # p => b'[q] = b[q]
      BY <1>1, <2>1, <2>2, SetAt
    <2>4. Head(toCapi).cmd = "DISCONNECT_B3_RESP" /\ p = Head(toCapi).plci /\ s = Tail(toCapi)
      BY <1>8, <2>1
    <2>5. Links(C, s, toApp, b')
      BY <1>2, <1>4, <2>1, <2>3, <2>4, BackLinks
    <2>6. CASE d[p] = "releasing"
      <3> DEFINE w == Ind("DISCONNECT_IND", p, 0)
      <3>1. toApp' = Tell(toApp, w)
        BY <1>16, <2>6 DEF TakeDisconnectB3Resp, p
      <3>2. w \in Up /\ w.cmd = "DISCONNECT_IND"
        BY <1>8, <2>1, IndUp
      <3> HIDE DEF w
      <3>3. /\ w \in Message /\ w.plci \in Plcis /\ w.cmd # "DISCONNECT_B3_IND"
            /\ w.cmd \notin {"CONNECT_B3_ACTIVE_IND", "DATA_B3_CONF"}
        BY <3>2, UpMessage
      <3>4. QED
        BY <2>5, <3>1, <3>3, TellLinks
    <2>7. CASE d[p] # "releasing"
      <3>1. toApp' = toApp
        BY <1>16, <2>7 DEF TakeDisconnectB3Resp, p
      <3>2. QED
        BY <2>5, <3>1
    <2>8. QED
      BY <2>6, <2>7
  <1>17. CASE TakeDisconnectReq(m)
    <2>1. p \in Plcis
      BY <1>5, <1>17 DEF TakeDisconnectReq
    <2>2. PICK a \in {0, 1} :
            \/ Release(p, Tell(toApp, Say("DISCONNECT_CONF", p, 0, m.num, a)))
            \/ toApp' = Tell(toApp, Say("DISCONNECT_CONF", p, 0, m.num, a)) /\ b' = b
      <3>1. CASE InUse(p)
        BY <1>17, <3>1 DEF TakeDisconnectReq, p
      <3>2. CASE ~InUse(p)
        BY <1>17, <3>2 DEF TakeDisconnectReq, p
      <3>3. QED
        BY <3>1, <3>2
    <2> DEFINE q == Tell(toApp, Say("DISCONNECT_CONF", p, 0, m.num, a))
    <2>3. Links(C, s, q, b)
      BY <1>6, <1>7, <1>9, <2>1
    <2>4. Release(p, q) \/ (toApp' = q /\ b' = b)
      BY <2>2
    <2> HIDE DEF q
    <2>5. CASE Release(p, q)
      BY <1>1, <2>1, <2>3, <2>5, ReleaseLinks
    <2>6. CASE toApp' = q /\ b' = b
      BY <2>3, <2>6
    <2>7. QED
      BY <2>4, <2>5, <2>6
  <1>18. CASE TakeDisconnectResp(m) \/ TakeData(m)
    <2>1. toApp' = toApp /\ b' = b
      BY <1>18 DEF TakeDisconnectResp, TakeData
    <2>2. QED
      BY <1>6, <2>1
  <1>19. QED
    BY <1>3, <1>10, <1>11, <1>12, <1>13, <1>14, <1>15, <1>16, <1>17, <1>18

LEMMA NextLinks ==
  ASSUME TypeInv, LineInv, LinkInv, [Next]_vars PROVE LinkInv'
  <1>1. CASE Connect \/ Decide \/ Disconnect \/ Send
    BY <1>1, LibraryLinks
  <1>2. CASE Inject
    BY <1>2, InjectLinks
  <1>3. CASE Take
    BY <1>3, ServeLinks
  <1>4. CASE Ring \/ Digits \/ Answered \/ LinkAsked \/ LinkUp \/ ConfirmData \/ DataOrReset
             \/ (\E p \in Plcis : Hangup(p) \/ LinkDown(p))
    BY <1>4, NetworkLinks
  <1>5. CASE UNCHANGED vars
    BY <1>5 DEF vars, LinkInv
  <1>6. QED
    BY <1>1, <1>2, <1>3, <1>4, <1>5 DEF Next

LEMMA LinksAlways == Spec /\ []InRound => [](TypeInv /\ LineInv /\ LinkInv)
  <1>1. Init => LinkInv
    BY InitLinks
  <1>2. TypeInv /\ LineInv /\ LinkInv /\ [Next]_vars => LinkInv'
    BY NextLinks
  <1>3. QED
    BY <1>1, <1>2, LineAlways, PTL DEF Spec

(* However the two ends of a link set it up and clear it at the same time, *)
(* once the queues are empty the library takes a link for usable only when *)
(* the controller has it up: ncci_change_state has seen every end of a     *)
(* link, also the one that overtook the answer to a DISCONNECT_B3_REQ.     *)
THEOREM LinksAgree == Spec /\ []InRound => []SameLink
  <1>1. ASSUME LineInv, LinkInv PROVE SameLink
    <2>1. ASSUME Still, NEW i \in DOMAIN card.conns, card.conns[i].nccip # NoNcci,
                 card.conns[i].nccip.state = "ACTIVE"
          PROVE  b[card.conns[i].plci] = "up"
      <3> DEFINE p == card.conns[i].plci
      <3>1. Range(toCapi) = {} /\ Range(toApp) = {}
        BY <2>1 DEF Still, Range
      <3>2. Fit(card.conns, card.msgid) /\ card.conns \in Seq(Connection)
        BY <1>1, LineSeq DEF LineInv
      <3>3. p # 0
        BY <2>1, <3>2 DEF Fit, ConnFits
      <3>4. p \in Plcis
        <4>1. card.conns[i] \in Connection
          BY <2>1, <3>2
        <4>2. QED
          BY <3>3, <4>1 DEF Connection
      <3>5. LiveOn(card.conns, p)
        BY <2>1 DEF LiveOn, Live
      <3> HIDE DEF p
      <3>6. LinkFits(card.conns, Range(toCapi), Range(toApp), b[p], p)
        BY <1>1, <3>4 DEF LinkInv, Links
      <3>7. b[p] = "up"
        BY <3>1, <3>5, <3>6 DEF LinkFits, Sent
      <3>8. QED
        BY <3>7 DEF p
    <2>2. QED
      BY <2>1 DEF SameLink, Conns
  <1>2. LineInv /\ LinkInv => SameLink
    BY <1>1
  <1>3. QED
    BY <1>2, LinksAlways, PTL

-----------------------------------------------------------------------------
(***************************************************************************)
(* The data.  What waits in the queue of a link to be confirmed is, in     *)
(* this order, what is confirmed and not yet heard of, what the controller *)
(* has to confirm and what has not reached it; the handles follow each     *)
(* other, so the oldest is the next to be confirmed.                       *)
(***************************************************************************)

(* Sequence a lists the arguments of the messages cmd on PLCI p in queue r *)
(* in their order; f says where they are.                                  *)
Places(r, p, cmd, a, f) ==
    /\ \A i, j \in DOMAIN a : i < j => f[i] < f[j]
    /\ \A i \in DOMAIN a : r[f[i]].plci = p /\ r[f[i]].cmd = cmd /\ r[f[i]].arg = a[i]
    /\ \A j \in DOMAIN r : r[j].plci = p /\ r[j].cmd = cmd => \E i \in DOMAIN a : f[i] = j

Lists(r, p, cmd, a) == \E f \in [DOMAIN a -> DOMAIN r] : Places(r, p, cmd, a, f)

LEMMA ListsNone ==
  ASSUME NEW r, NEW p, NEW cmd, ~Sent(Range(r), p, cmd) PROVE Lists(r, p, cmd, <<>>)
  <1> DEFINE a == <<>>
             f == [i \in DOMAIN a |-> 0]
  <1>1. DOMAIN a = {}
    OBVIOUS
  <1>2. f \in [DOMAIN a -> DOMAIN r]
    BY <1>1
  <1>3. \A j \in DOMAIN r : ~(r[j].plci = p /\ r[j].cmd = cmd)
    BY DEF Sent, Range
  <1>4. Places(r, p, cmd, a, f)
    BY <1>1, <1>3 DEF Places
  <1>5. QED
    BY <1>2, <1>4 DEF Lists

LEMMA ListsMore ==
  ASSUME NEW S, NEW q \in Seq(S), NEW m, NEW r, r = Tell(q, m), NEW T, NEW a \in Seq(T),
         Lists(q, m.plci, m.cmd, a), NEW e, e = Append(a, m.arg)
  PROVE  Lists(r, m.plci, m.cmd, e)
  <1>1. PICK f \in [DOMAIN a -> DOMAIN q] : Places(q, m.plci, m.cmd, a, f)
    BY DEF Lists
  <1>2. /\ DOMAIN r = 1 .. Len(q) + 1 /\ DOMAIN q = 1 .. Len(q) /\ Len(q) \in Nat
        /\ r[Len(q) + 1] = m /\ \A j \in 1 .. Len(q) : r[j] = q[j]
    BY TellAt
  <1>3. /\ DOMAIN e = 1 .. Len(a) + 1 /\ DOMAIN a = 1 .. Len(a) /\ Len(a) \in Nat
        /\ e[Len(a) + 1] = m.arg /\ \A j \in 1 .. Len(a) : e[j] = a[j]
    OBVIOUS
  <1> DEFINE g == [i \in DOMAIN e |-> IF i \in DOMAIN a THEN f[i] ELSE Len(q) + 1]
  <1>4. g \in [DOMAIN e -> DOMAIN r]
    BY <1>1, <1>2, <1>3
  <1>5. /\ \A i \in DOMAIN a : i \in DOMAIN e /\ g[i] = f[i] /\ f[i] \in 1 .. Len(q)
        /\ Len(a) + 1 \in DOMAIN e /\ g[Len(a) + 1] = Len(q) + 1
    BY <1>1, <1>2, <1>3
  <1> HIDE DEF g
  <1>6. \A i, j \in DOMAIN e : i < j => g[i] < g[j]
    <2>1. ASSUME NEW i \in DOMAIN e, NEW j \in DOMAIN e, i < j PROVE g[i] < g[j]
      <3>1. i \in DOMAIN a /\ (j \in DOMAIN a \/ j = Len(a) + 1)
        BY <1>3, <2>1
      <3>2. CASE j \in DOMAIN a
        BY <1>1, <1>5, <2>1, <3>1, <3>2 DEF Places
      <3>3. CASE j = Len(a) + 1
        BY <1>2, <1>5, <3>1, <3>3
      <3>4. QED
        BY <3>1, <3>2, <3>3
    <2>2. QED
      BY <2>1
  <1>7. \A i \in DOMAIN e : r[g[i]].plci = m.plci /\ r[g[i]].cmd = m.cmd /\ r[g[i]].arg = e[i]
    <2>1. ASSUME NEW i \in DOMAIN a
          PROVE  r[g[i]].plci = m.plci /\ r[g[i]].cmd = m.cmd /\ r[g[i]].arg = e[i]
      <3>1. r[g[i]] = q[f[i]] /\ e[i] = a[i]
        BY <1>2, <1>3, <1>5
      <3>2. QED
        BY <1>1, <3>1 DEF Places
    <2>2. r[g[Len(a) + 1]] = m /\ e[Len(a) + 1] = m.arg
      BY <1>2, <1>3, <1>5
    <2>3. \A i \in DOMAIN e : i \in DOMAIN a \/ i = Len(a) + 1
      BY <1>3
    <2>4. QED
      BY <2>1, <2>2, <2>3
  <1>8. ASSUME NEW j \in DOMAIN r, r[j].plci = m.plci, r[j].cmd = m.cmd
        PROVE  \E i \in DOMAIN e : g[i] = j
    <2>1. CASE j \in DOMAIN q
      <3>1. r[j] = q[j]
        BY <1>2, <2>1
      <3>2. PICK i \in DOMAIN a : f[i] = j
        BY <1>1, <1>8, <2>1, <3>1 DEF Places
      <3>3. QED
        BY <1>5, <3>2
    <2>2. CASE j = Len(q) + 1
      BY <1>5, <2>2
    <2>3. QED
      BY <1>2, <2>1, <2>2
  <1>9. Places(r, m.plci, m.cmd, e, g)
    BY <1>6, <1>7, <1>8 DEF Places
  <1>10. QED
    BY <1>4, <1>9 DEF Lists

LEMMA ListsOther ==
  ASSUME NEW S, NEW q \in Seq(S), NEW m, NEW r, r = Tell(q, m), NEW p, NEW cmd, NEW a,
         Lists(q, p, cmd, a), m.plci # p \/ m.cmd # cmd
  PROVE  Lists(r, p, cmd, a)
  <1>1. PICK f \in [DOMAIN a -> DOMAIN q] : Places(q, p, cmd, a, f)
    BY DEF Lists
  <1>2. /\ DOMAIN r = 1 .. Len(q) + 1 /\ DOMAIN q = 1 .. Len(q) /\ Len(q) \in Nat
        /\ r[Len(q) + 1] = m /\ \A j \in 1 .. Len(q) : r[j] = q[j]
    BY TellAt
  <1>3. DOMAIN q \subseteq DOMAIN r /\ \A j \in DOMAIN r : j \in DOMAIN q \/ r[j] = m
    BY <1>2
  <1>4. \A j \in DOMAIN q : r[j] = q[j]
    BY <1>2
  <1>5. f \in [DOMAIN a -> DOMAIN r] /\ \A i \in DOMAIN a : f[i] \in DOMAIN q
    BY <1>1, <1>3
  <1>6. Places(r, p, cmd, a, f)
    BY <1>1, <1>3, <1>4, <1>5 DEF Places
  <1>7. QED
    BY <1>5, <1>6 DEF Lists

LEMMA Before ==
  ASSUME NEW n \in Nat, NEW i \in 1 .. n, i # 1 PROVE i - 1 \in 1 .. n - 1 /\ i - 1 + 1 = i
  OBVIOUS

(* The first message is taken: if it is listed it is the first of the list.*)
LEMMA ListsLess ==
  ASSUME NEW S, NEW q \in Seq(S), q # <<>>, NEW r, r = Tail(q), NEW T, NEW a \in Seq(T),
         NEW m, m = Head(q), Lists(q, m.plci, m.cmd, a)
  PROVE  a # <<>> /\ Head(a) = m.arg /\ Tail(a) \in Seq(T) /\ Lists(r, m.plci, m.cmd, Tail(a))
  <1>1. PICK f \in [DOMAIN a -> DOMAIN q] : Places(q, m.plci, m.cmd, a, f)
    BY DEF Lists
  <1>2. /\ DOMAIN q = 1 .. Len(q) /\ Len(q) \in Nat \ {0} /\ DOMAIN r = 1 .. Len(q) - 1
        /\ q[1] = m /\ \A j \in 1 .. Len(q) - 1 : r[j] = q[j + 1]
    BY TailAt
  <1>3. DOMAIN a = 1 .. Len(a) /\ Len(a) \in Nat
    OBVIOUS
  <1>4. PICK k \in DOMAIN a : f[k] = 1
    BY <1>1, <1>2 DEF Places
  <1>5. a # <<>> /\ 1 \in DOMAIN a /\ Len(a) \in Nat \ {0}
    BY <1>3, <1>4
  <1>6. k = 1
    <2>1. 1 < k => f[1] < f[k]
      BY <1>1, <1>5 DEF Places
    <2>2. f[1] \in 1 .. Len(q)
      BY <1>1, <1>2, <1>5
    <2>3. QED
      BY <1>3, <1>4, <2>1, <2>2
  <1>7. Head(a) = m.arg
    <2>1. q[f[1]].arg = a[1]
      BY <1>1, <1>5 DEF Places
    <2>2. QED
      BY <1>2, <1>4, <1>5, <1>6, <2>1
  <1> DEFINE e == Tail(a)
             g == [i \in DOMAIN e |-> f[i + 1] - 1]
  <1>8. /\ e \in Seq(T) /\ DOMAIN e = 1 .. Len(a) - 1
        /\ \A i \in DOMAIN e : i + 1 \in DOMAIN a /\ e[i] = a[i + 1]
    BY <1>3, <1>5
  <1>9. \A i \in DOMAIN e : f[i + 1] \in 1 .. Len(q) /\ 1 < f[i + 1]
    BY <1>1, <1>2, <1>4, <1>5, <1>6, <1>8 DEF Places
  <1>10. \A i \in DOMAIN e : g[i] \in DOMAIN r /\ g[i] = f[i + 1] - 1 /\ r[g[i]] = q[f[i + 1]]
    BY <1>2, <1>9
  <1>11. g \in [DOMAIN e -> DOMAIN r]
    BY <1>10
  <1> HIDE DEF g, e
  <1>12. \A i, j \in DOMAIN e : i < j => g[i] < g[j]
    <2>1. ASSUME NEW i \in DOMAIN e, NEW j \in DOMAIN e, i < j PROVE g[i] < g[j]
      <3>1. i + 1 \in DOMAIN a /\ j + 1 \in DOMAIN a /\ i + 1 < j + 1
        BY <1>8, <2>1
      <3>2. f[i + 1] < f[j + 1]
        BY <1>1, <3>1 DEF Places
      <3>3. QED
        BY <1>9, <1>10, <3>2
    <2>2. QED
      BY <2>1
  <1>13. \A i \in DOMAIN e : r[g[i]].plci = m.plci /\ r[g[i]].cmd = m.cmd /\ r[g[i]].arg = e[i]
    <2>1. ASSUME NEW i \in DOMAIN e
          PROVE  r[g[i]].plci = m.plci /\ r[g[i]].cmd = m.cmd /\ r[g[i]].arg = e[i]
      <3>1. i + 1 \in DOMAIN a /\ e[i] = a[i + 1] /\ r[g[i]] = q[f[i + 1]]
        BY <1>8, <1>10
      <3>2. /\ q[f[i + 1]].plci = m.plci /\ q[f[i + 1]].cmd = m.cmd
            /\ q[f[i + 1]].arg = a[i + 1]
        BY <1>1, <3>1 DEF Places
      <3>3. QED
        BY <3>1, <3>2, Zenon
    <2>2. QED
      BY <2>1
  <1>14. ASSUME NEW j \in DOMAIN r, r[j].plci = m.plci, r[j].cmd = m.cmd
         PROVE  \E i \in DOMAIN e : g[i] = j
    <2>1. j + 1 \in DOMAIN q /\ r[j] = q[j + 1] /\ j \in 1 .. Len(q) - 1
      BY <1>2
    <2>2. PICK i \in DOMAIN a : f[i] = j + 1
      BY <1>1, <1>14, <2>1 DEF Places
    <2>3. i # 1
      BY <1>4, <1>6, <2>1, <2>2
    <2>4. i - 1 \in DOMAIN e /\ i - 1 + 1 = i
      <3>1. i \in 1 .. Len(a) /\ Len(a) \in Nat /\ DOMAIN e = 1 .. Len(a) - 1
        BY <1>3, <1>8, Zenon
      <3>2. i - 1 \in 1 .. Len(a) - 1 /\ i - 1 + 1 = i
        BY <2>3, <3>1, Before
      <3>3. QED
        BY <3>1, <3>2, Zenon
    <2>5. g[i - 1] = j
      BY <1>10, <2>1, <2>2, <2>4
    <2>6. QED
      BY <2>4, <2>5
  <1>15. Places(r, m.plci, m.cmd, e, g)
    BY <1>12, <1>13, <1>14 DEF Places
  <1>16. Lists(r, m.plci, m.cmd, e)
    BY <1>11, <1>15 DEF Lists
  <1>17. QED
    BY <1>5, <1>7, <1>8, <1>16 DEF e

LEMMA ListsSkip ==
  ASSUME NEW S, NEW q \in Seq(S), q # <<>>, NEW r, r = Tail(q), NEW p, NEW cmd, NEW a,
         Lists(q, p, cmd, a), Head(q).plci # p \/ Head(q).cmd # cmd
  PROVE  Lists(r, p, cmd, a)
  <1>1. PICK f \in [DOMAIN a -> DOMAIN q] : Places(q, p, cmd, a, f)
    BY DEF Lists
  <1>2. /\ DOMAIN q = 1 .. Len(q) /\ Len(q) \in Nat \ {0} /\ DOMAIN r = 1 .. Len(q) - 1
        /\ q[1] = Head(q) /\ \A j \in 1 .. Len(q) - 1 : r[j] = q[j + 1]
    BY TailAt
  <1> DEFINE g == [i \in DOMAIN a |-> f[i] - 1]
  <1>3. \A i \in DOMAIN a : f[i] \in 1 .. Len(q) /\ f[i] # 1
    <2>1. \A i \in DOMAIN a : f[i] \in 1 .. Len(q)
      BY <1>1, <1>2
    <2>2. \A i \in DOMAIN a : q[f[i]].plci = p /\ q[f[i]].cmd = cmd
      BY <1>1 DEF Places
    <2>3. QED
      BY <1>2, <2>1, <2>2
  <1>4. \A i \in DOMAIN a : g[i] \in DOMAIN r /\ g[i] = f[i] - 1 /\ r[g[i]] = q[f[i]]
    BY <1>2, <1>3
  <1>5. g \in [DOMAIN a -> DOMAIN r]
    BY <1>4
  <1> HIDE DEF g
  <1>6. \A i, j \in DOMAIN a : i < j => g[i] < g[j]
    <2>1. ASSUME NEW i \in DOMAIN a, NEW j \in DOMAIN a, i < j PROVE g[i] < g[j]
      <3>1. f[i] < f[j]
        BY <1>1, <2>1 DEF Places
      <3>2. QED
        BY <1>3, <1>4, <3>1
    <2>2. QED
      BY <2>1
  <1>7. \A i \in DOMAIN a : r[g[i]].plci = p /\ r[g[i]].cmd = cmd /\ r[g[i]].arg = a[i]
    BY <1>1, <1>4 DEF Places
  <1>8. ASSUME NEW j \in DOMAIN r, r[j].plci = p, r[j].cmd = cmd
        PROVE  \E i \in DOMAIN a : g[i] = j
    <2>1. j + 1 \in DOMAIN q /\ r[j] = q[j + 1] /\ j \in 1 .. Len(q) - 1
      BY <1>2
    <2>2. PICK i \in DOMAIN a : f[i] = j + 1
      BY <1>1, <1>8, <2>1 DEF Places
    <2>3. g[i] = j
      BY <1>4, <2>1, <2>2
    <2>4. QED
      BY <2>3
  <1>9. Places(r, p, cmd, a, g)
    BY <1>6, <1>7, <1>8 DEF Places
  <1>10. QED
    BY <1>5, <1>9 DEF Lists

(* Handles follow each other round the numbers below HandleMod; h is next. *)
Wrap(x) == IF x < HandleMod THEN x ELSE x - HandleMod

Run(q, h) == /\ q \in Seq(0 .. HandleMod - 1) /\ Len(q) <= Window
             /\ \E l \in 0 .. HandleMod - 1 : /\ h = Wrap(l + Len(q))
                                              /\ \A i \in 1 .. Len(q) : q[i] = Wrap(l + i - 1)

LEMMA RunEmpty == Run(<<>>, 0)
  <1>1. 0 \in 0 .. HandleMod - 1 /\ Wrap(0 + 0) = 0
    BY CapiAssumption DEF Wrap
  <1>2. Len(<<>>) = 0 /\ <<>> \in Seq(0 .. HandleMod - 1) /\ 1 .. 0 = {} /\ 0 <= Window
    BY CapiAssumption
  <1>3. QED
    BY <1>1, <1>2 DEF Run

LEMMA WrapNext ==
  ASSUME NEW x \in Nat, x < 2 * HandleMod - 1
  PROVE  Wrap(x) \in 0 .. HandleMod - 1 /\ (Wrap(x) + 1) % HandleMod = Wrap(x + 1)
  <1>1. HandleMod \in Nat \ {0}
    BY CapiAssumption
  <1>2. Wrap(x) \in 0 .. HandleMod - 1
    BY <1>1 DEF Wrap
  <1>3. CASE Wrap(x) + 1 < HandleMod
    <2>1. (Wrap(x) + 1) % HandleMod = Wrap(x) + 1
      BY <1>1, <1>2, <1>3
    <2>2. Wrap(x) + 1 = Wrap(x + 1)
      BY <1>1, <1>3 DEF Wrap
    <2>3. QED
      BY <1>2, <2>1, <2>2
  <1>4. CASE Wrap(x) + 1 = HandleMod
    <2>1. HandleMod % HandleMod = 0
      BY <1>1
    <2>2. Wrap(x + 1) = 0
      BY <1>1, <1>4 DEF Wrap
    <2>3. QED
      BY <1>2, <1>4, <2>1, <2>2
  <1>5. QED
    BY <1>1, <1>2, <1>3, <1>4

LEMMA RunMore ==
  ASSUME NEW q, NEW h, Run(q, h), Len(q) < Window, NEW r, r = Append(q, h)
  PROVE  Run(r, (h + 1) % HandleMod)
  <1>1. HandleMod \in Nat \ {0} /\ Window \in Nat /\ Window <= HandleMod
    BY CapiAssumption, WindowAssumption
  <1>2. PICK l \in 0 .. HandleMod - 1 : /\ h = Wrap(l + Len(q))
                                        /\ \A i \in 1 .. Len(q) : q[i] = Wrap(l + i - 1)
    BY DEF Run
  <1>3. q \in Seq(0 .. HandleMod - 1) /\ Len(q) \in Nat
    BY DEF Run
  <1>4. h \in 0 .. HandleMod - 1 /\ (h + 1) % HandleMod = Wrap(l + Len(q) + 1)
    <2>1. l + Len(q) \in Nat /\ l + Len(q) < 2 * HandleMod - 1
      BY <1>1, <1>3
    <2>2. QED
      BY <1>2, <2>1, WrapNext
  <1>5. /\ r \in Seq(0 .. HandleMod - 1) /\ Len(r) = Len(q) + 1
        /\ r[Len(q) + 1] = h /\ \A i \in 1 .. Len(q) : r[i] = q[i]
    BY <1>3, <1>4
  <1>6. l + Len(q) + 1 = l + Len(r) /\ l + (Len(q) + 1) - 1 = l + Len(q) /\ Len(r) <= Window
    BY <1>1, <1>3, <1>5
  <1>7. ASSUME NEW i \in 1 .. Len(r) PROVE r[i] = Wrap(l + i - 1)
    <2>1. CASE i \in 1 .. Len(q)
      BY <1>2, <1>5, <2>1
    <2>2. CASE i = Len(q) + 1
      BY <1>2, <1>5, <1>6, <2>2
    <2>3. QED
      BY <1>3, <1>5, <2>1, <2>2
  <1>8. (h + 1) % HandleMod = Wrap(l + Len(r))
    BY <1>4, <1>6
  <1>9. QED
    BY <1>5, <1>6, <1>7, <1>8 DEF Run

LEMMA RunLess ==
  ASSUME NEW q, NEW h, Run(q, h), q # <<>>, NEW r, r = Tail(q)
  PROVE  Run(r, h)
  <1>1. HandleMod \in Nat \ {0} /\ Window \in Nat /\ Window <= HandleMod
    BY CapiAssumption, WindowAssumption
  <1>2. PICK l \in 0 .. HandleMod - 1 : /\ h = Wrap(l + Len(q))
                                        /\ \A i \in 1 .. Len(q) : q[i] = Wrap(l + i - 1)
    BY DEF Run
  <1>3. q \in Seq(0 .. HandleMod - 1) /\ Len(q) \in Nat \ {0} /\ Len(q) <= Window
    BY DEF Run
  <1>4. /\ r \in Seq(0 .. HandleMod - 1) /\ Len(r) = Len(q) - 1
        /\ \A i \in 1 .. Len(r) : i + 1 \in 1 .. Len(q) /\ r[i] = q[i + 1]
    BY <1>3
  <1> DEFINE k == IF l + 1 < HandleMod THEN l + 1 ELSE 0
  <1>5. k \in 0 .. HandleMod - 1
    BY <1>1
  <1>6. ASSUME NEW i \in 0 .. Len(q), i # 0 PROVE Wrap(l + i) = Wrap(k + (i - 1))
    BY <1>1, <1>3, <1>6 DEF Wrap
  <1> HIDE DEF k
  <1>7. h = Wrap(k + Len(r))
    <2>1. Len(q) \in 0 .. Len(q) /\ Len(q) # 0
      BY <1>3
    <2>2. QED
      BY <1>2, <1>4, <1>6, <2>1
  <1>8. ASSUME NEW i \in 1 .. Len(r) PROVE r[i] = Wrap(k + i - 1)
    <2>1. r[i] = Wrap(l + (i + 1) - 1)
      BY <1>2, <1>4
    <2>2. i \in 0 .. Len(q) /\ i # 0 /\ l + (i + 1) - 1 = l + i /\ k + (i - 1) = k + i - 1
      BY <1>3, <1>4, <1>5
    <2>3. QED
      BY <1>6, <2>1, <2>2
  <1>9. Len(r) <= Window
    BY <1>1, <1>3, <1>4
  <1>10. QED
    BY <1>4, <1>5, <1>7, <1>8, <1>9 DEF Run

LEMMA RunInjective ==
  ASSUME NEW q, NEW h, Run(q, h) PROVE IsInjective(q)
  <1>1. HandleMod \in Nat \ {0} /\ Window \in Nat /\ Window <= HandleMod
    BY CapiAssumption, WindowAssumption
  <1>2. PICK l \in 0 .. HandleMod - 1 : \A i \in 1 .. Len(q) : q[i] = Wrap(l + i - 1)
    BY DEF Run
  <1>3. DOMAIN q = 1 .. Len(q) /\ Len(q) \in Nat /\ Len(q) <= Window
    BY DEF Run
  <1>4. ASSUME NEW i \in 1 .. Len(q), NEW j \in 1 .. Len(q), q[i] = q[j] PROVE i = j
    <2>1. Wrap(l + i - 1) = Wrap(l + j - 1)
      BY <1>2, <1>4
    <2>2. i \in 1 .. HandleMod /\ j \in 1 .. HandleMod
      BY <1>1, <1>3
    <2>3. QED
      BY <1>1, <2>1, <2>2 DEF Wrap
  <1>5. QED
    BY <1>3, <1>4 DEF IsInjective

(* The oldest block is confirmed.                                          *)
LEMMA DelHead ==
  ASSUME NEW S, NEW q \in Seq(S), q # <<>>, NEW x, x = Head(q) PROVE capi_del_ack(q, x) = Tail(q)
  <1> DEFINE I == {j \in 1 .. Len(q) : q[j] = x}
  <1>1. Len(q) \in Nat \ {0} /\ q[1] = x /\ 1 \in 1 .. Len(q)
    OBVIOUS
  <1>2. 1 \in I /\ I # {} /\ \A j \in I : 1 <= j
    BY <1>1
  <1>3. \E j \in 1 .. Len(q) : q[j] = x
    BY <1>1
  <1>4. capi_del_ack(q, x) = RemoveAt(q, IF I # {} THEN Min(I) ELSE 0)
    BY <1>3 DEF capi_del_ack, RemoveFirst, SelectInSeq
  <1>5. Min(I) = 1
    <2>1. I \subseteq Int
      OBVIOUS
    <2> HIDE DEF I
    <2>2. \A y \in I : (\A z \in I : y <= z) => y = 1
      BY <1>2, <2>1
    <2>3. QED
      BY <1>2, <2>2 DEF Min
  <1>6. capi_del_ack(q, x) = RemoveAt(q, 1)
    BY <1>2, <1>4, <1>5
  <1> HIDE DEF I
  <1>7. RemoveAt(q, 1) = Tail(q)
    <2>1. RemoveAt(q, 1) = SubSeq(q, 1, 0) \o SubSeq(q, 2, Len(q))
      BY DEF RemoveAt
    <2>2. SubSeq(q, 1, 0) = <<>> /\ SubSeq(q, 2, Len(q)) = Tail(q) /\ Tail(q) \in Seq(S)
      BY <1>1
    <2>3. <<>> \o Tail(q) = Tail(q)
      BY <2>2
    <2>4. QED
      BY <2>1, <2>2, <2>3
  <1>8. QED
    BY <1>6, <1>7

LEMMA DelNone == ASSUME NEW x PROVE capi_del_ack(<<>>, x) = <<>>
  <1>1. ~\E j \in 1 .. Len(<<>>) : <<>>[j] = x
    OBVIOUS
  <1>2. QED
    BY <1>1 DEF capi_del_ack, RemoveFirst

(* The queue q of a link in its three parts.                               *)
Three(a, u, z) == a \o u \o z
Parts(q, a, u, z) == a \in Seq(Nat) /\ u \in Seq(Nat) /\ z \in Seq(Nat) /\ q = Three(a, u, z)

LEMMA PartsNone == Parts(<<>>, <<>>, <<>>, <<>>)
  BY DEF Parts, Three

(* A handle moves on: into the queue, to the controller, back and out.     *)
LEMMA ThreeAppend ==
  ASSUME NEW a \in Seq(Nat), NEW u \in Seq(Nat), NEW z \in Seq(Nat), NEW h \in Nat
  PROVE  Append(a \o u \o z, h) = a \o u \o Append(z, h)
  <1> DEFINE L == Append(a \o u \o z, h)
             R == a \o u \o Append(z, h)
  <1>1. L \in Seq(Nat) /\ R \in Seq(Nat)
    OBVIOUS
  <1>2. Len(L) = Len(a) + Len(u) + Len(z) + 1 /\ Len(R) = Len(a) + Len(u) + Len(z) + 1
    OBVIOUS
  <1>3. \A i \in 1 .. Len(L) : L[i] = R[i]
    <2>1. SUFFICES ASSUME NEW i \in 1 .. Len(a) + Len(u) + Len(z) + 1 PROVE L[i] = R[i]
      BY <1>2
    <2>2. CASE i <= Len(a)
      BY <2>2
    <2>3. CASE i > Len(a) /\ i <= Len(a) + Len(u)
      BY <2>3
    <2>4. CASE i > Len(a) + Len(u)
      BY <2>4
    <2>5. QED
      BY <2>2, <2>3, <2>4
  <1> HIDE DEF L, R
  <1>4. L = R
    BY <1>1, <1>2, <1>3, SeqEqual, Zenon
  <1>5. QED
    BY <1>4, Zenon DEF L, R

LEMMA PartsMore ==
  ASSUME NEW q, NEW a, NEW u, NEW z, Parts(q, a, u, z), NEW h \in Nat
  PROVE  Parts(Append(q, h), a, u, Append(z, h))
  <1>1. a \in Seq(Nat) /\ u \in Seq(Nat) /\ z \in Seq(Nat)
    BY DEF Parts, Three
  <1>2. q = a \o u \o z
    BY DEF Parts, Three
  <1>3. Append(a \o u \o z, h) = a \o u \o Append(z, h)
    BY <1>1, ThreeAppend, ZenonT(60)
  <1>4. Append(z, h) \in Seq(Nat)
    BY <1>1
  <1>5. QED
    BY <1>1, <1>2, <1>3, <1>4, Zenon DEF Parts, Three

LEMMA ThreeMove ==
  ASSUME NEW S, NEW a \in Seq(S), NEW u \in Seq(S), NEW z \in Seq(S)
  PROVE  /\ z # <<>> => Three(a, u, z) = Three(a, Append(u, Head(z)), Tail(z))
         /\ u # <<>> => Three(a, u, z) = Three(Append(a, Head(u)), Tail(u), z)
  <1>1. z # <<>> => a \o u \o z = a \o Append(u, Head(z)) \o Tail(z)
    OBVIOUS
  <1>2. u # <<>> => a \o u \o z = Append(a, Head(u)) \o Tail(u) \o z
    OBVIOUS
  <1>3. QED
    BY <1>1, <1>2, Zenon DEF Three

LEMMA PartsTake ==
  ASSUME NEW q, NEW a, NEW u, NEW z, Parts(q, a, u, z), z # <<>>
  PROVE  Parts(q, a, Append(u, Head(z)), Tail(z))
  <1>1. a \in Seq(Nat) /\ u \in Seq(Nat) /\ z \in Seq(Nat)
    BY DEF Parts
  <1>2. q = Three(a, u, z)
    BY DEF Parts
  <1>3. Three(a, u, z) = Three(a, Append(u, Head(z)), Tail(z))
    BY <1>1, ThreeMove
  <1>4. Append(u, Head(z)) \in Seq(Nat) /\ Tail(z) \in Seq(Nat)
    BY <1>1
  <1>5. QED
    BY <1>1, <1>2, <1>3, <1>4, Zenon DEF Parts

LEMMA PartsBack ==
  ASSUME NEW q, NEW a, NEW u, NEW z, Parts(q, a, u, z), u # <<>>
  PROVE  Parts(q, Append(a, Head(u)), Tail(u), z)
  <1>1. a \in Seq(Nat) /\ u \in Seq(Nat) /\ z \in Seq(Nat)
    BY DEF Parts
  <1>2. q = Three(a, u, z)
    BY DEF Parts
  <1>3. Three(a, u, z) = Three(Append(a, Head(u)), Tail(u), z)
    BY <1>1, ThreeMove
  <1>4. Append(a, Head(u)) \in Seq(Nat) /\ Tail(u) \in Seq(Nat)
    BY <1>1
  <1>5. QED
    BY <1>1, <1>2, <1>3, <1>4, Zenon DEF Parts

LEMMA PartsLess ==
  ASSUME NEW q, NEW a, NEW u, NEW z, Parts(q, a, u, z), a # <<>>
  PROVE  q \in Seq(Nat) /\ q # <<>> /\ Head(q) = Head(a) /\ Parts(Tail(q), Tail(a), u, z)
  <1>1. a \in Seq(Nat) /\ u \in Seq(Nat) /\ z \in Seq(Nat)
    BY DEF Parts, Three
  <1>2. q = a \o u \o z
    BY DEF Parts, Three
  <1>3. /\ a \o u \o z \in Seq(Nat) /\ a \o u \o z # <<>>
        /\ Head(a \o u \o z) = Head(a) /\ Tail(a \o u \o z) = Tail(a) \o u \o z
    BY <1>1
  <1>4. Tail(a) \in Seq(Nat)
    BY <1>1
  <1>5. QED
    BY <1>1, <1>2, <1>3, <1>4, Zenon DEF Parts, Three

LEMMA PartsHold ==
  ASSUME NEW q, NEW a, NEW u, NEW z, Parts(q, a, u, z) PROVE Range(u) \subseteq Range(q)
  <1>1. a \in Seq(Nat) /\ u \in Seq(Nat) /\ z \in Seq(Nat)
    BY DEF Parts, Three
  <1>2. q = a \o u \o z
    BY DEF Parts, Three
  <1>3. \A i \in DOMAIN u : Len(a) + i \in DOMAIN q /\ q[Len(a) + i] = u[i]
    BY <1>1, <1>2
  <1>4. QED
    BY <1>3 DEF Range

(* What is queued for the link on PLCI p, with h the next handle: u is     *)
(* what the controller, whose link is in state y, has to confirm.          *)
Carries(q, h, p, s, r, y, u) ==
    /\ Run(q, h)
    /\ \E a, z \in Seq(Nat) : /\ Parts(q, a, u, z) /\ Lists(r, p, "DATA_B3_CONF", a)
                              /\ y = "up" => Lists(s, p, "DATA_B3_REQ", z)

LEMMA CarriesSound ==
  ASSUME NEW q, NEW h, NEW p, NEW s, NEW r, NEW y, NEW u, Carries(q, h, p, s, r, y, u)
  PROVE  Len(q) <= Window /\ IsInjective(q) /\ Range(u) \subseteq Range(q)
  <1>1. Len(q) <= Window
    BY DEF Carries, Run
  <1>2. IsInjective(q)
    BY RunInjective DEF Carries
  <1>3. Range(u) \subseteq Range(q)
    BY PartsHold DEF Carries
  <1>4. QED
    BY <1>1, <1>2, <1>3

LEMMA CarriesNone ==
  ASSUME NEW p, NEW s, NEW r, NEW y, ~Sent(Range(s), p, "DATA_B3_REQ"),
         ~Sent(Range(r), p, "DATA_B3_CONF")
  PROVE  Carries(<<>>, 0, p, s, r, y, <<>>)
  <1>1. Lists(s, p, "DATA_B3_REQ", <<>>) /\ Lists(r, p, "DATA_B3_CONF", <<>>)
    BY ListsNone
  <1>2. <<>> \in Seq(Nat)
    OBVIOUS
  <1>3. QED
    BY <1>1, <1>2, RunEmpty, PartsNone, Zenon DEF Carries

(* Messages about something else.                                          *)
LEMMA CarriesSay ==
  ASSUME NEW q, NEW h, NEW p, NEW s, NEW r, NEW y, NEW u, Carries(q, h, p, s, r, y, u),
         NEW S, s \in Seq(S), NEW m, NEW t, t = Tell(s, m), m.plci # p \/ m.cmd # "DATA_B3_REQ"
  PROVE  Carries(q, h, p, t, r, y, u)
  <1>1. PICK a \in Seq(Nat), z \in Seq(Nat) :
          /\ Parts(q, a, u, z) /\ Lists(r, p, "DATA_B3_CONF", a)
          /\ y = "up" => Lists(s, p, "DATA_B3_REQ", z)
    BY DEF Carries
  <1>2. y = "up" => Lists(t, p, "DATA_B3_REQ", z)
    BY <1>1, ListsOther
  <1>3. QED
    BY <1>1, <1>2, Zenon DEF Carries

LEMMA CarriesHear ==
  ASSUME NEW q, NEW h, NEW p, NEW s, NEW r, NEW y, NEW u, Carries(q, h, p, s, r, y, u),
         NEW S, r \in Seq(S), NEW m, NEW t, t = Tell(r, m), m.plci # p \/ m.cmd # "DATA_B3_CONF"
  PROVE  Carries(q, h, p, s, t, y, u)
  <1>1. PICK a \in Seq(Nat), z \in Seq(Nat) :
          /\ Parts(q, a, u, z) /\ Lists(r, p, "DATA_B3_CONF", a)
          /\ y = "up" => Lists(s, p, "DATA_B3_REQ", z)
    BY DEF Carries
  <1>2. Lists(t, p, "DATA_B3_CONF", a)
    BY <1>1, ListsOther
  <1>3. QED
    BY <1>1, <1>2, Zenon DEF Carries

LEMMA CarriesServe ==
  ASSUME NEW q, NEW h, NEW p, NEW s, NEW r, NEW y, NEW u, Carries(q, h, p, s, r, y, u),
         NEW S, s \in Seq(S), s # <<>>, NEW t, t = Tail(s),
         Head(s).plci # p \/ Head(s).cmd # "DATA_B3_REQ"
  PROVE  Carries(q, h, p, t, r, y, u)
  <1>1. PICK a \in Seq(Nat), z \in Seq(Nat) :
          /\ Parts(q, a, u, z) /\ Lists(r, p, "DATA_B3_CONF", a)
          /\ y = "up" => Lists(s, p, "DATA_B3_REQ", z)
    BY DEF Carries
  <1>2. y = "up" => Lists(t, p, "DATA_B3_REQ", z)
    BY <1>1, ListsSkip
  <1>3. QED
    BY <1>1, <1>2, Zenon DEF Carries

LEMMA CarriesRead ==
  ASSUME NEW q, NEW h, NEW p, NEW s, NEW r, NEW y, NEW u, Carries(q, h, p, s, r, y, u),
         NEW S, r \in Seq(S), r # <<>>, NEW t, t = Tail(r),
         Head(r).plci # p \/ Head(r).cmd # "DATA_B3_CONF"
  PROVE  Carries(q, h, p, s, t, y, u)
  <1>1. PICK a \in Seq(Nat), z \in Seq(Nat) :
          /\ Parts(q, a, u, z) /\ Lists(r, p, "DATA_B3_CONF", a)
          /\ y = "up" => Lists(s, p, "DATA_B3_REQ", z)
    BY DEF Carries
  <1>2. Lists(t, p, "DATA_B3_CONF", a)
    BY <1>1, ListsSkip
  <1>3. QED
    BY <1>1, <1>2, Zenon DEF Carries

(* A link that goes down takes no more data.                               *)
LEMMA CarriesDown ==
  ASSUME NEW q, NEW h, NEW p, NEW s, NEW r, NEW y, NEW u, Carries(q, h, p, s, r, y, u),
         NEW x, x # "up"
  PROVE  Carries(q, h, p, s, r, x, u)
  BY DEF Carries

LEMMA CarriesDropped ==
  ASSUME NEW q, NEW h, NEW p, NEW s, NEW r, NEW y, NEW u, Carries(q, h, p, s, r, y, u),
         y # "up", NEW t
  PROVE  Carries(q, h, p, t, r, y, u)
  BY DEF Carries

(* The way of a block: sent, taken, confirmed and heard of.                *)
LEMMA CarriesSend ==
  ASSUME NEW q, NEW h \in Nat, NEW p, NEW s, NEW r, NEW y, NEW u, Carries(q, h, p, s, r, y, u),
         NEW S, s \in Seq(S), Len(q) < Window, NEW m, m.cmd = "DATA_B3_REQ", m.plci = p,
         m.arg = h, NEW t, t = Tell(s, m)
  PROVE  Carries(Append(q, h), (h + 1) % HandleMod, p, t, r, y, u)
  <1>1. PICK a \in Seq(Nat), z \in Seq(Nat) :
          /\ Parts(q, a, u, z) /\ Lists(r, p, "DATA_B3_CONF", a)
          /\ y = "up" => Lists(s, p, "DATA_B3_REQ", z)
    BY DEF Carries
  <1>2. Run(Append(q, h), (h + 1) % HandleMod)
    BY RunMore DEF Carries
  <1>3. Parts(Append(q, h), a, u, Append(z, h))
    BY <1>1, PartsMore
  <1>4. y = "up" => Lists(t, p, "DATA_B3_REQ", Append(z, h))
    <2>1. ASSUME y = "up" PROVE Lists(t, m.plci, m.cmd, Append(z, m.arg))
      <3>1. Lists(s, m.plci, m.cmd, z)
        BY <1>1, <2>1
      <3>2. QED
        BY <1>1, <3>1, ListsMore
    <2>2. QED
      BY <2>1
  <1>5. Append(z, h) \in Seq(Nat)
    BY <1>1
  <1>6. QED
    BY <1>1, <1>2, <1>3, <1>4, <1>5, Zenon DEF Carries

LEMMA CarriesTake ==
  ASSUME NEW q, NEW h, NEW p, NEW s, NEW r, NEW y, NEW u, Carries(q, h, p, s, r, y, u),
         y = "up", NEW S, s \in Seq(S), s # <<>>, NEW m, m = Head(s), m.cmd = "DATA_B3_REQ",
         m.plci = p, NEW t, t = Tail(s)
  PROVE  Carries(q, h, p, t, r, y, Append(u, m.arg))
  <1>1. PICK a \in Seq(Nat), z \in Seq(Nat) :
          /\ Parts(q, a, u, z) /\ Lists(r, p, "DATA_B3_CONF", a)
          /\ Lists(s, p, "DATA_B3_REQ", z)
    BY DEF Carries
  <1>2. Lists(s, m.plci, m.cmd, z)
    BY <1>1
  <1>3. /\ z # <<>> /\ Head(z) = m.arg /\ Tail(z) \in Seq(Nat)
        /\ Lists(t, m.plci, m.cmd, Tail(z))
    BY <1>1, <1>2, ListsLess
  <1>4. Parts(q, a, Append(u, Head(z)), Tail(z))
    BY <1>1, <1>3, PartsTake
  <1>5. Lists(t, p, "DATA_B3_REQ", Tail(z)) /\ Append(u, Head(z)) = Append(u, m.arg)
    BY <1>3
  <1>6. Run(q, h)
    BY DEF Carries
  <1>7. Parts(q, a, Append(u, m.arg), Tail(z))
    BY <1>4, <1>5, Zenon
  <1>8. QED
    BY <1>1, <1>3, <1>5, <1>6, <1>7, Zenon DEF Carries

LEMMA CarriesBack ==
  ASSUME NEW q, NEW h, NEW p, NEW s, NEW r, NEW y, NEW u, Carries(q, h, p, s, r, y, u),
         u # <<>>, NEW S, r \in Seq(S), NEW m, m.cmd = "DATA_B3_CONF", m.plci = p,
         m.arg = Head(u), NEW t, t = Tell(r, m)
  PROVE  Carries(q, h, p, s, t, y, Tail(u))
  <1>1. PICK a \in Seq(Nat), z \in Seq(Nat) :
          /\ Parts(q, a, u, z) /\ Lists(r, p, "DATA_B3_CONF", a)
          /\ y = "up" => Lists(s, p, "DATA_B3_REQ", z)
    BY DEF Carries
  <1>2. Parts(q, Append(a, Head(u)), Tail(u), z)
    BY <1>1, PartsBack
  <1>3. Lists(r, m.plci, m.cmd, a)
    BY <1>1
  <1>4. Lists(t, m.plci, m.cmd, Append(a, m.arg))
    BY <1>1, <1>3, ListsMore
  <1>5. Append(a, Head(u)) \in Seq(Nat)
    BY <1>2 DEF Parts
  <1>6. Lists(t, p, "DATA_B3_CONF", Append(a, Head(u)))
    BY <1>4
  <1>7. Run(q, h)
    BY DEF Carries
  <1>8. QED
    BY <1>1, <1>2, <1>5, <1>6, <1>7, Zenon DEF Carries

LEMMA CarriesConfirm ==
  ASSUME NEW q, NEW h, NEW p, NEW s, NEW r, NEW y, NEW u, Carries(q, h, p, s, r, y, u),
         NEW S, r \in Seq(S), r # <<>>, NEW m, m = Head(r), m.cmd = "DATA_B3_CONF",
         m.plci = p, NEW t, t = Tail(r)
  PROVE  Carries(capi_del_ack(q, m.arg), h, p, s, t, y, u)
  <1>1. PICK a \in Seq(Nat), z \in Seq(Nat) :
          /\ Parts(q, a, u, z) /\ Lists(r, p, "DATA_B3_CONF", a)
          /\ y = "up" => Lists(s, p, "DATA_B3_REQ", z)
    BY DEF Carries
  <1>2. Lists(r, m.plci, m.cmd, a)
    BY <1>1
  <1>3. /\ a # <<>> /\ Head(a) = m.arg /\ Tail(a) \in Seq(Nat)
        /\ Lists(t, m.plci, m.cmd, Tail(a))
    BY <1>1, <1>2, ListsLess
  <1>4. q \in Seq(Nat) /\ q # <<>> /\ Head(q) = Head(a) /\ Parts(Tail(q), Tail(a), u, z)
    BY <1>1, <1>3, PartsLess
  <1>5. m.arg = Head(q)
    BY <1>3, <1>4
  <1>6. capi_del_ack(q, m.arg) = Tail(q)
    BY <1>4, <1>5, DelHead
  <1>7. Run(Tail(q), h)
    BY <1>4, RunLess DEF Carries
  <1>8. Lists(t, p, "DATA_B3_CONF", Tail(a))
    BY <1>3
  <1>9. Carries(Tail(q), h, p, s, t, y, u)
    BY <1>1, <1>3, <1>4, <1>7, <1>8, Zenon DEF Carries
  <1>10. QED
    BY <1>6, <1>9, Zenon

(* No data is under way on PLCI p.                                         *)
NoData(S, R, u, p) == /\ u = <<>> /\ ~Sent(S, p, "DATA_B3_REQ")
                      /\ ~Sent(R, p, "DATA_B3_CONF")

(* There is none before a link is up and the library knows of it.          *)
DataFits(C, S, R, y, u, p) ==
    /\ y \in {"none", "out", "in", "agreed"} => NoData(S, R, u, p)
    /\ Sent(R, p, "CONNECT_B3_ACTIVE_IND") => NoData(S, R, u, p) /\ ~LiveOn(C, p)
    /\ Sent(R, p, "DATA_B3_CONF") => y = "up" \/ Sent(R, p, "DISCONNECT_B3_IND")

Reqs == {"DATA_B3_REQ"}
Acts == {"CONNECT_B3_ACTIVE_IND"}

DatasQ(s, r) == /\ s \in Seq(Message) /\ r \in Seq(Message)
                /\ NoneAfter(s, "DISCONNECT_B3_RESP", Reqs)
                /\ NoneAfter(r, "CONNECT_B3_ACTIVE_IND", Acts)

Holds(c, s, r, bb, uu) ==
    c.nccip # NoNcci /\ c.plci \in Plcis =>
      \/ Fresh(c)
      \/ /\ Live(c)
         /\ Carries(c.nccip.ackqueue, c.nccip.datahandle, c.plci, s, r, bb[c.plci], uu[c.plci])

Datas(C, s, r, bb, uu) ==
    /\ DatasQ(s, r)
    /\ \A p \in Plcis : DataFits(C, Range(s), Range(r), bb[p], uu[p], p)
    /\ \A i \in DOMAIN C : Holds(C[i], s, r, bb, uu)

LEMMA HoldsPass ==
  ASSUME NEW C, NEW s, NEW r, NEW bb, NEW uu, \A i \in DOMAIN C : Holds(C[i], s, r, bb, uu),
         NEW t, NEW v, NEW cc, NEW ww,
         \A p \in Plcis : LiveOn(C, p) =>
           \A q, h : Carries(q, h, p, s, r, bb[p], uu[p]) => Carries(q, h, p, t, v, cc[p], ww[p])
  PROVE  \A i \in DOMAIN C : Holds(C[i], t, v, cc, ww)
  <1>1. ASSUME NEW i \in DOMAIN C, C[i].nccip # NoNcci, C[i].plci \in Plcis, ~Fresh(C[i])
        PROVE  /\ Live(C[i])
               /\ Carries(C[i].nccip.ackqueue, C[i].nccip.datahandle, C[i].plci, t, v,
                          cc[C[i].plci], ww[C[i].plci])
    <2>1. /\ Live(C[i])
          /\ Carries(C[i].nccip.ackqueue, C[i].nccip.datahandle, C[i].plci, s, r,
                     bb[C[i].plci], uu[C[i].plci])
      BY <1>1 DEF Holds
    <2>2. LiveOn(C, C[i].plci)
      BY <2>1 DEF LiveOn
    <2>3. QED
      BY <1>1, <2>1, <2>2
  <1>2. QED
    BY <1>1 DEF Holds

(* The library leaves the queues as they are, ...                          *)
LEMMA KeepDatas ==
  ASSUME NEW C, NEW D, NEW s, NEW r, NEW bb, NEW uu, Datas(C, s, r, bb, uu), Keeps(C, D)
  PROVE  Datas(D, s, r, bb, uu)
  <1>1. Dim(C, D)
    BY KeepsDim
  <1>2. ASSUME NEW p \in Plcis PROVE DataFits(D, Range(s), Range(r), bb[p], uu[p], p)
    <2>1. DataFits(C, Range(s), Range(r), bb[p], uu[p], p) /\ (LiveOn(D, p) => LiveOn(C, p))
      BY <1>1 DEF Datas, Dim
    <2>2. QED
      BY <2>1 DEF DataFits
  <1>3. ASSUME NEW j \in DOMAIN D PROVE Holds(D[j], s, r, bb, uu)
    <2>1. SUFFICES ASSUME D[j].nccip # NoNcci, D[j].plci \in Plcis, ~Fresh(D[j])
                   PROVE  /\ Live(D[j])
                          /\ Carries(D[j].nccip.ackqueue, D[j].nccip.datahandle, D[j].plci, s, r,
                                     bb[D[j].plci], uu[D[j].plci])
      BY DEF Holds
    <2>2. PICK i \in DOMAIN C : Same(C[i], D[j])
      BY <2>1 DEF Keeps
    <2>3. C[i].nccip # NoNcci /\ C[i].plci \in Plcis /\ ~Fresh(C[i])
      BY <2>1, <2>2 DEF Same, Fresh
    <2>4. /\ Live(C[i])
          /\ Carries(C[i].nccip.ackqueue, C[i].nccip.datahandle, C[i].plci, s, r,
                     bb[C[i].plci], uu[C[i].plci])
      BY <2>3 DEF Datas, Holds
    <2>5. QED
      BY <2>2, <2>4 DEF Same
  <1>4. QED
    BY <1>2, <1>3 DEF Datas

(* ... sends something else than data, ...                                 *)
LEMMA SayDatas ==
  ASSUME NEW C, NEW s, NEW r, NEW bb, NEW uu, Datas(C, s, r, bb, uu), NEW m \in Message,
         m.cmd # "DATA_B3_REQ", NEW t, t = Tell(s, m)
  PROVE  Datas(C, t, r, bb, uu)
  <1>1. s \in Seq(Message) /\ r \in Seq(Message) /\ NoneAfter(s, "DISCONNECT_B3_RESP", Reqs)
        /\ NoneAfter(r, "CONNECT_B3_ACTIVE_IND", Acts)
    BY DEF Datas, DatasQ
  <1>2. NoneAfter(t, "DISCONNECT_B3_RESP", Reqs)
    BY <1>1, TellAfter DEF Reqs
  <1>3. t \in Seq(Message) /\ More(Range(s), Range(t), m)
    BY <1>1, TellType, TellMore
  <1>4. ASSUME NEW p \in Plcis PROVE DataFits(C, Range(t), Range(r), bb[p], uu[p], p)
    <2>1. DataFits(C, Range(s), Range(r), bb[p], uu[p], p)
      BY DEF Datas
    <2>2. Sent(Range(t), p, "DATA_B3_REQ") <=> Sent(Range(s), p, "DATA_B3_REQ")
      BY <1>3 DEF More
    <2>3. QED
      BY <2>1, <2>2 DEF DataFits, NoData
  <1>5. \A i \in DOMAIN C : Holds(C[i], t, r, bb, uu)
    <2>1. \A i \in DOMAIN C : Holds(C[i], s, r, bb, uu)
      BY DEF Datas
    <2>2. \A p \in Plcis : \A q, h : Carries(q, h, p, s, r, bb[p], uu[p]) =>
                                       Carries(q, h, p, t, r, bb[p], uu[p])
      BY <1>1, CarriesSay
    <2>3. QED
      BY <2>1, <2>2, HoldsPass
  <1>6. QED
    BY <1>1, <1>2, <1>3, <1>4, <1>5 DEF Datas, DatasQ

(* ... reads something else than a confirmation of data, ...               *)
LEMMA DropDatas ==
  ASSUME NEW C, NEW s, NEW r, NEW bb, NEW uu, Datas(C, s, r, bb, uu), Links(C, s, r, bb),
         r # <<>>, Head(r).cmd # "DATA_B3_CONF", NEW q, q = Tail(r)
  PROVE  Datas(C, s, q, bb, uu)
  <1>1. s \in Seq(Message) /\ r \in Seq(Message) /\ NoneAfter(s, "DISCONNECT_B3_RESP", Reqs)
        /\ NoneAfter(r, "CONNECT_B3_ACTIVE_IND", Acts)
    BY DEF Datas, DatasQ
  <1>2. NoneAfter(q, "CONNECT_B3_ACTIVE_IND", Acts)
    BY <1>1, TailAfter
  <1>3. q \in Seq(Message) /\ More(Range(q), Range(r), Head(r))
    BY <1>1, TailMore
  <1>4. Head(r).cmd = "DISCONNECT_B3_IND" => ~Sent(Range(q), Head(r).plci, "DATA_B3_CONF")
    <2>1. NoneAfter(r, "DISCONNECT_B3_IND", Ups)
      BY DEF Links, LinksQ
    <2>2. Head(r).cmd = "DISCONNECT_B3_IND" => \A c \in Ups : ~Sent(Range(q), Head(r).plci, c)
      BY <1>1, <2>1, TailAfter
    <2>3. QED
      BY <2>2 DEF Ups
  <1>5. ASSUME NEW p \in Plcis PROVE DataFits(C, Range(s), Range(q), bb[p], uu[p], p)
    <2>1. DataFits(C, Range(s), Range(r), bb[p], uu[p], p)
      BY DEF Datas
    <2>2. /\ Sent(Range(q), p, "DATA_B3_CONF") <=> Sent(Range(r), p, "DATA_B3_CONF")
          /\ Sent(Range(q), p, "CONNECT_B3_ACTIVE_IND") =>
               Sent(Range(r), p, "CONNECT_B3_ACTIVE_IND")
      BY <1>3 DEF More
    <2>3. Sent(Range(r), p, "DISCONNECT_B3_IND") =>
            Sent(Range(q), p, "DISCONNECT_B3_IND") \/ ~Sent(Range(q), p, "DATA_B3_CONF")
      BY <1>3, <1>4 DEF More
    <2>4. QED
      BY <2>1, <2>2, <2>3 DEF DataFits, NoData
  <1>6. \A i \in DOMAIN C : Holds(C[i], s, q, bb, uu)
    <2>1. \A i \in DOMAIN C : Holds(C[i], s, r, bb, uu)
      BY DEF Datas
    <2>2. \A p \in Plcis : \A a, h : Carries(a, h, p, s, r, bb[p], uu[p]) =>
                                       Carries(a, h, p, s, q, bb[p], uu[p])
      BY <1>1, CarriesRead
    <2>3. QED
      BY <2>1, <2>2, HoldsPass
  <1>7. QED
    BY <1>1, <1>2, <1>3, <1>5, <1>6 DEF Datas, DatasQ

(* ... or learns that the link of connection i is usable, ...              *)
LEMMA WakeDatas ==
  ASSUME NEW C, NEW s, NEW r, NEW bb, NEW uu, Datas(C, s, r, bb, uu), Links(C, s, r, bb),
         r # <<>>, Head(r).cmd = "CONNECT_B3_ACTIVE_IND", NEW q, q = Tail(r), NEW D,
         NEW i, Near(C, D, i), C[i].plci = Head(r).plci, Head(r).plci \in Plcis,
         D[i].plci = C[i].plci, C[i].nccip # NoNcci,
         D[i].nccip.ackqueue = C[i].nccip.ackqueue,
         D[i].nccip.datahandle = C[i].nccip.datahandle, Live(C[i]) => Live(D[i])
  PROVE  Datas(D, s, q, bb, uu)
  <1> DEFINE p == Head(r).plci
  <1>1. Datas(C, s, q, bb, uu)
    BY DropDatas
  <1>2. r \in Seq(Message) /\ NoneAfter(r, "CONNECT_B3_ACTIVE_IND", Acts)
    BY DEF Datas, DatasQ
  <1>3. ~Sent(Range(q), p, "CONNECT_B3_ACTIVE_IND")
    <2>1. \A c \in Acts : ~Sent(Range(q), p, c)
      BY <1>2, TailAfter
    <2>2. QED
      BY <2>1 DEF Acts
  <1>4. More(Range(q), Range(r), Head(r))
    BY <1>2, TailMore
  <1>5. Sent(Range(r), p, "CONNECT_B3_ACTIVE_IND")
    BY <1>4 DEF More
  <1>6. NoData(Range(s), Range(r), uu[p], p) /\ ~LiveOn(C, p)
    BY <1>5 DEF Datas, DataFits
  <1>7. ~Sent(Range(s), p, "DATA_B3_REQ") /\ ~Sent(Range(q), p, "DATA_B3_CONF") /\ uu[p] = <<>>
    BY <1>4, <1>6 DEF NoData, More
  <1>8. i \in DOMAIN C /\ DOMAIN D = DOMAIN C /\ \A j \in DOMAIN C : j # i => D[j] = C[j]
    BY DEF Near
  <1>9. ~Live(C[i]) /\ Fresh(C[i])
    <2>1. ~Live(C[i])
      BY <1>6, <1>8 DEF LiveOn
    <2>2. Holds(C[i], s, r, bb, uu)
      BY <1>8 DEF Datas
    <2>3. QED
      BY <2>1, <2>2 DEF Holds
  <1>10. D[i].nccip.ackqueue = <<>> /\ D[i].nccip.datahandle = 0
    BY <1>9 DEF Fresh
  <1>11. Carries(<<>>, 0, p, s, q, bb[p], <<>>)
    BY <1>7, CarriesNone
  <1> HIDE DEF p
  <1>12. ASSUME NEW o \in Plcis PROVE DataFits(D, Range(s), Range(q), bb[o], uu[o], o)
    <2>1. DataFits(C, Range(s), Range(q), bb[o], uu[o], o)
      BY <1>1 DEF Datas
    <2>2. CASE o = p
      BY <1>3, <2>1, <2>2 DEF DataFits
    <2>3. CASE o # p
      <3>1. C[i].plci # o /\ D[i].plci # o
        BY <2>3 DEF p
      <3>2. LiveOn(D, o) => LiveOn(C, o)
        BY <1>8, <3>1 DEF LiveOn
      <3>3. QED
        BY <2>1, <3>2 DEF DataFits
    <2>4. QED
      BY <2>2, <2>3
  <1>13. ASSUME NEW j \in DOMAIN D PROVE Holds(D[j], s, q, bb, uu)
    <2>1. CASE j # i
      <3>1. j \in DOMAIN C /\ D[j] = C[j]
        BY <1>8, <2>1
      <3>2. Holds(C[j], s, q, bb, uu)
        BY <1>1, <3>1 DEF Datas
      <3>3. QED
        BY <3>1, <3>2
    <2>2. CASE j = i
      <3>1. D[i].plci = p
        BY DEF p
      <3>2. CASE Live(D[i])
        BY <1>7, <1>10, <1>11, <2>2, <3>1, <3>2 DEF Holds
      <3>3. CASE ~Live(D[i])
        BY <1>10, <2>2, <3>3 DEF Holds, Fresh
      <3>4. QED
        BY <3>2, <3>3
    <2>3. QED
      BY <2>1, <2>2
  <1>14. QED
    BY <1>1, <1>12, <1>13 DEF Datas

(* ... sends a block on the link of connection i, ...                      *)
LEMMA SendDatas ==
  ASSUME NEW C, NEW s, NEW r, NEW bb, NEW uu, Datas(C, s, r, bb, uu), Links(C, s, r, bb),
         NEW n, Fit(C, n), NEW D, NEW i, Near(C, D, i), NEW p \in Plcis, p # 0,
         C[i].plci = p, D[i].plci = p, Live(C[i]), Live(D[i]), D[i].nccip # NoNcci,
         NEW q, q = C[i].nccip.ackqueue, NEW h \in Nat, h = C[i].nccip.datahandle,
         Len(q) < Window, D[i].nccip.ackqueue = Append(q, h),
         D[i].nccip.datahandle = (h + 1) % HandleMod,
         NEW m \in Message, m.cmd = "DATA_B3_REQ", m.plci = p, m.arg = h, NEW t, t = Tell(s, m)
  PROVE  Datas(D, t, r, bb, uu)
  <1>1. s \in Seq(Message) /\ r \in Seq(Message) /\ NoneAfter(s, "DISCONNECT_B3_RESP", Reqs)
        /\ NoneAfter(r, "CONNECT_B3_ACTIVE_IND", Acts)
    BY DEF Datas, DatasQ
  <1>2. i \in DOMAIN C /\ DOMAIN D = DOMAIN C /\ \A j \in DOMAIN C : j # i => D[j] = C[j]
    BY DEF Near
  <1>3. LiveOn(C, p)
    BY <1>2 DEF LiveOn
  <1>4. bb[p] \in {"up", "clearing"} /\ ~Sent(Range(s), p, "DISCONNECT_B3_RESP")
    BY <1>3 DEF Links, LinkFits
  <1>5. NoneAfter(t, "DISCONNECT_B3_RESP", Reqs)
    BY <1>1, <1>4, TellAfter
  <1>6. t \in Seq(Message) /\ More(Range(s), Range(t), m)
    BY <1>1, TellType, TellMore
  <1>7. \A j \in DOMAIN C : j # i => C[j].plci # p
    BY <1>2 DEF Fit, Apart
  <1>8. ASSUME NEW o \in Plcis PROVE DataFits(D, Range(t), Range(r), bb[o], uu[o], o)
    <2>1. DataFits(C, Range(s), Range(r), bb[o], uu[o], o)
      BY DEF Datas
    <2>2. CASE o = p
      <3>1. ~Sent(Range(r), p, "CONNECT_B3_ACTIVE_IND")
        BY <1>3, <2>1, <2>2 DEF DataFits
      <3>2. QED
        BY <1>4, <2>1, <2>2, <3>1 DEF DataFits
    <2>3. CASE o # p
      <3>1. LiveOn(D, o) => LiveOn(C, o)
        BY <1>2, <2>3 DEF LiveOn
      <3>2. Sent(Range(t), o, "DATA_B3_REQ") <=> Sent(Range(s), o, "DATA_B3_REQ")
        BY <1>6, <2>3 DEF More
      <3>3. QED
        BY <2>1, <3>1, <3>2 DEF DataFits, NoData
    <2>4. QED
      BY <2>2, <2>3
  <1>9. Holds(D[i], t, r, bb, uu)
    <2>1. C[i].nccip # NoNcci /\ ~Fresh(C[i])
      BY DEF Live, Fresh
    <2>2. Carries(q, h, p, s, r, bb[p], uu[p])
      <3>1. Holds(C[i], s, r, bb, uu)
        BY <1>2 DEF Datas
      <3>2. QED
        BY <2>1, <3>1 DEF Holds
    <2>3. Carries(Append(q, h), (h + 1) % HandleMod, p, t, r, bb[p], uu[p])
      BY <1>1, <2>2, CarriesSend
    <2>4. QED
      BY <2>3 DEF Holds
  <1>10. ASSUME NEW j \in DOMAIN D, j # i PROVE Holds(D[j], t, r, bb, uu)
    <2>1. D[j] = C[j] /\ j \in DOMAIN C /\ C[j].plci # p
      BY <1>2, <1>7, <1>10
    <2>2. Holds(C[j], s, r, bb, uu)
      BY <2>1 DEF Datas
    <2>3. \A a, x, y, u : Carries(a, x, C[j].plci, s, r, y, u) =>
                            Carries(a, x, C[j].plci, t, r, y, u)
      BY <1>1, <2>1, CarriesSay
    <2>4. Holds(C[j], t, r, bb, uu)
      BY <2>2, <2>3 DEF Holds
    <2>5. QED
      BY <2>1, <2>4
  <1>11. QED
    BY <1>1, <1>5, <1>6, <1>8, <1>9, <1>10 DEF Datas, DatasQ

(* ... and hears that the oldest block has been sent, ...                  *)
LEMMA ConfirmDatas ==
  ASSUME NEW C, NEW s, NEW r, NEW bb, NEW uu, Datas(C, s, r, bb, uu), NEW n, Fit(C, n),
         r # <<>>, NEW m, m = Head(r), m.cmd = "DATA_B3_CONF", NEW t, t = Tail(r),
         NEW D, NEW i, Near(C, D, i), NEW p \in Plcis, p # 0, m.plci = p,
         C[i].plci = p, D[i].plci = p, Live(D[i]) <=> Live(C[i]), C[i].nccip # NoNcci,
         D[i].nccip.ackqueue = capi_del_ack(C[i].nccip.ackqueue, m.arg),
         D[i].nccip.datahandle = C[i].nccip.datahandle
  PROVE  Datas(D, s, t, bb, uu)
  <1>1. s \in Seq(Message) /\ r \in Seq(Message) /\ NoneAfter(s, "DISCONNECT_B3_RESP", Reqs)
        /\ NoneAfter(r, "CONNECT_B3_ACTIVE_IND", Acts)
    BY DEF Datas, DatasQ
  <1>2. i \in DOMAIN C /\ DOMAIN D = DOMAIN C /\ \A j \in DOMAIN C : j # i => D[j] = C[j]
    BY DEF Near
  <1>3. NoneAfter(t, "CONNECT_B3_ACTIVE_IND", Acts)
    BY <1>1, TailAfter
  <1>4. t \in Seq(Message) /\ More(Range(t), Range(r), m)
    BY <1>1, TailMore
  <1>5. \A j \in DOMAIN C : j # i => C[j].plci # p
    BY <1>2 DEF Fit, Apart
  <1>6. Dim(C, D)
    BY NearDim
  <1>7. ASSUME NEW o \in Plcis PROVE DataFits(D, Range(s), Range(t), bb[o], uu[o], o)
    <2>1. DataFits(C, Range(s), Range(r), bb[o], uu[o], o) /\ (LiveOn(D, o) => LiveOn(C, o))
      BY <1>6 DEF Datas, Dim
    <2>2. /\ Sent(Range(t), o, "DATA_B3_CONF") => Sent(Range(r), o, "DATA_B3_CONF")
          /\ Sent(Range(t), o, "CONNECT_B3_ACTIVE_IND") <=>
               Sent(Range(r), o, "CONNECT_B3_ACTIVE_IND")
          /\ Sent(Range(t), o, "DISCONNECT_B3_IND") <=> Sent(Range(r), o, "DISCONNECT_B3_IND")
      BY <1>4 DEF More
    <2>3. QED
      BY <2>1, <2>2 DEF DataFits, NoData
  <1>8. Holds(D[i], s, t, bb, uu)
    <2>1. Holds(C[i], s, r, bb, uu)
      BY <1>2 DEF Datas
    <2>2. CASE Fresh(C[i])
      <3>1. D[i].nccip.ackqueue = <<>>
        BY <2>2, DelNone DEF Fresh
      <3>2. Fresh(D[i])
        BY <2>2, <3>1 DEF Fresh
      <3>3. QED
        BY <3>2 DEF Holds
    <2>3. CASE ~Fresh(C[i])
      <3>1. /\ Live(C[i])
            /\ Carries(C[i].nccip.ackqueue, C[i].nccip.datahandle, p, s, r, bb[p], uu[p])
        BY <2>1, <2>3 DEF Holds
      <3>2. Carries(capi_del_ack(C[i].nccip.ackqueue, m.arg), C[i].nccip.datahandle, p, s, t,
                    bb[p], uu[p])
        BY <1>1, <3>1, CarriesConfirm
      <3>3. QED
        BY <3>1, <3>2 DEF Holds
    <2>4. QED
      BY <2>2, <2>3
  <1>9. ASSUME NEW j \in DOMAIN D, j # i PROVE Holds(D[j], s, t, bb, uu)
    <2>1. D[j] = C[j] /\ j \in DOMAIN C /\ C[j].plci # p
      BY <1>2, <1>5, <1>9
    <2>2. Holds(C[j], s, r, bb, uu)
      BY <2>1 DEF Datas
    <2>3. \A a, x, y, u : Carries(a, x, C[j].plci, s, r, y, u) =>
                            Carries(a, x, C[j].plci, s, t, y, u)
      BY <1>1, <2>1, CarriesRead
    <2>4. Holds(C[j], s, t, bb, uu)
      BY <2>2, <2>3 DEF Holds
    <2>5. QED
      BY <2>1, <2>4
  <1>10. QED
    BY <1>1, <1>3, <1>4, <1>7, <1>8, <1>9 DEF Datas, DatasQ

(* ... also when the link is gone.                                         *)
LEMMA LateDatas ==
  ASSUME NEW C, NEW s, NEW r, NEW bb, NEW uu, Datas(C, s, r, bb, uu), r # <<>>,
         Head(r).cmd = "DATA_B3_CONF", ~LiveOn(C, Head(r).plci), NEW t, t = Tail(r)
  PROVE  Datas(C, s, t, bb, uu)
  <1>1. s \in Seq(Message) /\ r \in Seq(Message) /\ NoneAfter(s, "DISCONNECT_B3_RESP", Reqs)
        /\ NoneAfter(r, "CONNECT_B3_ACTIVE_IND", Acts)
    BY DEF Datas, DatasQ
  <1>2. NoneAfter(t, "CONNECT_B3_ACTIVE_IND", Acts)
    BY <1>1, TailAfter
  <1>3. t \in Seq(Message) /\ More(Range(t), Range(r), Head(r))
    BY <1>1, TailMore
  <1>4. ASSUME NEW o \in Plcis PROVE DataFits(C, Range(s), Range(t), bb[o], uu[o], o)
    <2>1. DataFits(C, Range(s), Range(r), bb[o], uu[o], o)
      BY DEF Datas
    <2>2. /\ Sent(Range(t), o, "DATA_B3_CONF") => Sent(Range(r), o, "DATA_B3_CONF")
          /\ Sent(Range(t), o, "CONNECT_B3_ACTIVE_IND") <=>
               Sent(Range(r), o, "CONNECT_B3_ACTIVE_IND")
          /\ Sent(Range(t), o, "DISCONNECT_B3_IND") <=> Sent(Range(r), o, "DISCONNECT_B3_IND")
      BY <1>3 DEF More
    <2>3. QED
      BY <2>1, <2>2 DEF DataFits, NoData
  <1>5. \A i \in DOMAIN C : Holds(C[i], s, t, bb, uu)
    <2>1. \A i \in DOMAIN C : Holds(C[i], s, r, bb, uu)
      BY DEF Datas
    <2>2. \A p \in Plcis : LiveOn(C, p) =>
            \A q, h : Carries(q, h, p, s, r, bb[p], uu[p]) => Carries(q, h, p, s, t, bb[p], uu[p])
      <3>1. ASSUME NEW p \in Plcis, LiveOn(C, p), NEW q, NEW h, Carries(q, h, p, s, r, bb[p], uu[p])
            PROVE  Carries(q, h, p, s, t, bb[p], uu[p])
        <4>1. Head(r).plci # p
          BY <3>1
        <4>2. QED
          BY <1>1, <3>1, <4>1, CarriesRead
      <3>2. QED
        BY <3>1
    <2>3. QED
      BY <2>1, <2>2, HoldsPass
  <1>6. QED
    BY <1>1, <1>2, <1>3, <1>4, <1>5 DEF Datas, DatasQ

(* The controller takes a message that carries no data, ...                *)
LEMMA ServedDatas ==
  ASSUME NEW C, NEW s, NEW r, NEW bb, NEW uu, Datas(C, s, r, bb, uu), s # <<>>,
         Head(s).cmd # "DATA_B3_REQ", NEW q, q = Tail(s)
  PROVE  Datas(C, q, r, bb, uu)
  <1>1. s \in Seq(Message) /\ r \in Seq(Message) /\ NoneAfter(s, "DISCONNECT_B3_RESP", Reqs)
        /\ NoneAfter(r, "CONNECT_B3_ACTIVE_IND", Acts)
    BY DEF Datas, DatasQ
  <1>2. NoneAfter(q, "DISCONNECT_B3_RESP", Reqs)
    BY <1>1, TailAfter
  <1>3. q \in Seq(Message) /\ More(Range(q), Range(s), Head(s))
    BY <1>1, TailMore
  <1>4. ASSUME NEW p \in Plcis PROVE DataFits(C, Range(q), Range(r), bb[p], uu[p], p)
    <2>1. DataFits(C, Range(s), Range(r), bb[p], uu[p], p)
      BY DEF Datas
    <2>2. Sent(Range(q), p, "DATA_B3_REQ") <=> Sent(Range(s), p, "DATA_B3_REQ")
      BY <1>3 DEF More
    <2>3. QED
      BY <2>1, <2>2 DEF DataFits, NoData
  <1>5. \A i \in DOMAIN C : Holds(C[i], q, r, bb, uu)
    <2>1. \A i \in DOMAIN C : Holds(C[i], s, r, bb, uu)
      BY DEF Datas
    <2>2. \A p \in Plcis : \A a, h : Carries(a, h, p, s, r, bb[p], uu[p]) =>
                                       Carries(a, h, p, q, r, bb[p], uu[p])
      BY <1>1, CarriesServe
    <2>3. QED
      BY <2>1, <2>2, HoldsPass
  <1>6. QED
    BY <1>1, <1>2, <1>3, <1>4, <1>5 DEF Datas, DatasQ

(* ... sends one that says nothing of a link that is up, ...               *)
LEMMA TellDatas ==
  ASSUME NEW C, NEW s, NEW r, NEW bb, NEW uu, Datas(C, s, r, bb, uu), NEW w \in Message,
         w.cmd \notin {"CONNECT_B3_ACTIVE_IND", "DATA_B3_CONF"}, NEW t, t = Tell(r, w)
  PROVE  Datas(C, s, t, bb, uu)
  <1>1. s \in Seq(Message) /\ r \in Seq(Message) /\ NoneAfter(s, "DISCONNECT_B3_RESP", Reqs)
        /\ NoneAfter(r, "CONNECT_B3_ACTIVE_IND", Acts)
    BY DEF Datas, DatasQ
  <1>2. NoneAfter(t, "CONNECT_B3_ACTIVE_IND", Acts)
    BY <1>1, TellAfter DEF Acts
  <1>3. t \in Seq(Message) /\ More(Range(r), Range(t), w)
    BY <1>1, TellType, TellMore
  <1>4. ASSUME NEW p \in Plcis PROVE DataFits(C, Range(s), Range(t), bb[p], uu[p], p)
    <2>1. DataFits(C, Range(s), Range(r), bb[p], uu[p], p)
      BY DEF Datas
    <2>2. /\ Sent(Range(t), p, "DATA_B3_CONF") <=> Sent(Range(r), p, "DATA_B3_CONF")
          /\ Sent(Range(t), p, "CONNECT_B3_ACTIVE_IND") <=>
               Sent(Range(r), p, "CONNECT_B3_ACTIVE_IND")
          /\ Sent(Range(r), p, "DISCONNECT_B3_IND") => Sent(Range(t), p, "DISCONNECT_B3_IND")
      BY <1>3 DEF More
    <2>3. QED
      BY <2>1, <2>2 DEF DataFits, NoData
  <1>5. \A i \in DOMAIN C : Holds(C[i], s, t, bb, uu)
    <2>1. \A i \in DOMAIN C : Holds(C[i], s, r, bb, uu)
      BY DEF Datas
    <2>2. \A p \in Plcis : \A a, h : Carries(a, h, p, s, r, bb[p], uu[p]) =>
                                       Carries(a, h, p, s, t, bb[p], uu[p])
      BY <1>1, CarriesHear
    <2>3. QED
      BY <2>1, <2>2, HoldsPass
  <1>6. QED
    BY <1>1, <1>2, <1>3, <1>4, <1>5 DEF Datas, DatasQ

(* ... changes the state of a link that is on its way up, ...              *)
Early == {"none", "out", "in", "agreed"}

LEMMA SetDatas ==
  ASSUME NEW C, NEW s, NEW r, NEW bb, NEW uu, Datas(C, s, r, bb, uu), NEW p \in Plcis,
         bb[p] \in Early, NEW cc, cc[p] \in Early, \A o \in Plcis : o # p => cc[o] = bb[o]
  PROVE  Datas(C, s, r, cc, uu)
  <1>1. ASSUME NEW o \in Plcis PROVE DataFits(C, Range(s), Range(r), cc[o], uu[o], o)
    <2>1. DataFits(C, Range(s), Range(r), bb[o], uu[o], o)
      BY DEF Datas
    <2>2. CASE o = p
      <3>1. NoData(Range(s), Range(r), uu[o], o)
        BY <2>1, <2>2 DEF DataFits, Early
      <3>2. QED
        BY <2>1, <3>1 DEF DataFits, NoData
    <2>3. CASE o # p
      BY <2>1, <2>3
    <2>4. QED
      BY <2>2, <2>3
  <1>2. \A i \in DOMAIN C : Holds(C[i], s, r, cc, uu)
    <2>1. \A i \in DOMAIN C : Holds(C[i], s, r, bb, uu)
      BY DEF Datas
    <2>2. ASSUME NEW o \in Plcis, NEW a, NEW h, Carries(a, h, o, s, r, bb[o], uu[o])
          PROVE  Carries(a, h, o, s, r, cc[o], uu[o])
      <3>1. CASE o = p
        <4>1. cc[o] # "up"
          BY <3>1 DEF Early
        <4>2. QED
          BY <2>2, <4>1, CarriesDown
      <3>2. CASE o # p
        BY <2>2, <3>2
      <3>3. QED
        BY <3>1, <3>2
    <2>3. QED
      BY <2>1, <2>2, HoldsPass
  <1>3. QED
    BY <1>1, <1>2 DEF Datas

(* ... brings it up, ...                                                   *)
LEMMA UpDatas ==
  ASSUME NEW C, NEW s, NEW r, NEW bb, NEW uu, Datas(C, s, r, bb, uu), Links(C, s, r, bb),
         NEW w \in Message, w.cmd = "CONNECT_B3_ACTIVE_IND", NEW p \in Plcis, w.plci = p,
         bb[p] \in Early, NEW cc, cc[p] = "up", \A o \in Plcis : o # p => cc[o] = bb[o],
         NEW t, t = Tell(r, w)
  PROVE  Datas(C, s, t, cc, uu)
  <1>1. s \in Seq(Message) /\ r \in Seq(Message) /\ NoneAfter(s, "DISCONNECT_B3_RESP", Reqs)
        /\ NoneAfter(r, "CONNECT_B3_ACTIVE_IND", Acts)
    BY DEF Datas, DatasQ
  <1>2. t \in Seq(Message) /\ More(Range(r), Range(t), w)
    BY <1>1, TellType, TellMore
  <1>3. ~LiveOn(C, p) /\ ~Sent(Range(r), p, "CONNECT_B3_ACTIVE_IND")
    <2>1. LinkFits(C, Range(s), Range(r), bb[p], p)
      BY DEF Links
    <2>2. QED
      BY <2>1 DEF LinkFits, Early
  <1>4. NoneAfter(t, "CONNECT_B3_ACTIVE_IND", Acts)
    BY <1>1, <1>3, TellAfter
  <1>5. ASSUME NEW o \in Plcis PROVE DataFits(C, Range(s), Range(t), cc[o], uu[o], o)
    <2>1. DataFits(C, Range(s), Range(r), bb[o], uu[o], o)
      BY DEF Datas
    <2>2. Sent(Range(t), o, "DATA_B3_CONF") <=> Sent(Range(r), o, "DATA_B3_CONF")
      BY <1>2 DEF More
    <2>3. CASE o = p
      <3>1. NoData(Range(s), Range(r), uu[o], o)
        BY <2>1, <2>3 DEF DataFits, Early
      <3>2. NoData(Range(s), Range(t), uu[o], o)
        BY <2>2, <3>1 DEF NoData
      <3>3. QED
        BY <1>3, <2>3, <3>2 DEF DataFits
    <2>4. CASE o # p
      <3>1. /\ Sent(Range(t), o, "CONNECT_B3_ACTIVE_IND") <=>
                 Sent(Range(r), o, "CONNECT_B3_ACTIVE_IND")
            /\ Sent(Range(t), o, "DISCONNECT_B3_IND") <=> Sent(Range(r), o, "DISCONNECT_B3_IND")
            /\ cc[o] = bb[o]
        BY <1>2, <2>4 DEF More
      <3>2. QED
        BY <2>1, <2>2, <3>1 DEF DataFits, NoData
    <2>5. QED
      BY <2>3, <2>4
  <1>6. \A i \in DOMAIN C : Holds(C[i], s, t, cc, uu)
    <2>1. \A i \in DOMAIN C : Holds(C[i], s, r, bb, uu)
      BY DEF Datas
    <2>2. ASSUME NEW o \in Plcis, LiveOn(C, o), NEW a, NEW h,
                 Carries(a, h, o, s, r, bb[o], uu[o])
          PROVE  Carries(a, h, o, s, t, cc[o], uu[o])
      <3>1. cc[o] = bb[o]
        BY <1>3, <2>2
      <3>2. Carries(a, h, o, s, t, bb[o], uu[o])
        BY <1>1, <2>2, CarriesHear
      <3>3. QED
        BY <3>1, <3>2
    <2>3. QED
      BY <2>1, <2>2, HoldsPass
  <1>7. QED
    BY <1>1, <1>2, <1>4, <1>5, <1>6 DEF Datas, DatasQ

(* ... clears it ...                                                       *)
LEMMA ClearDatas ==
  ASSUME NEW C, NEW s, NEW r, NEW bb, NEW uu, Datas(C, s, r, bb, uu), NEW w \in Message,
         w.cmd = "DISCONNECT_B3_IND", w.plci \in Plcis, NEW cc, cc[w.plci] = "clearing",
         \A o \in Plcis : o # w.plci => cc[o] = bb[o], NEW t, t = Tell(r, w)
  PROVE  Datas(C, s, t, cc, uu)
  <1>1. s \in Seq(Message) /\ r \in Seq(Message) /\ NoneAfter(s, "DISCONNECT_B3_RESP", Reqs)
        /\ NoneAfter(r, "CONNECT_B3_ACTIVE_IND", Acts)
    BY DEF Datas, DatasQ
  <1>2. t \in Seq(Message) /\ More(Range(r), Range(t), w)
    BY <1>1, TellType, TellMore
  <1>3. Datas(C, s, t, bb, uu)
    <2>1. w.cmd \notin {"CONNECT_B3_ACTIVE_IND", "DATA_B3_CONF"}
      OBVIOUS
    <2>2. QED
      BY <2>1, TellDatas
  <1>4. ASSUME NEW o \in Plcis PROVE DataFits(C, Range(s), Range(t), cc[o], uu[o], o)
    <2>1. DataFits(C, Range(s), Range(t), bb[o], uu[o], o)
      BY <1>3 DEF Datas
    <2>2. CASE o = w.plci
      <3>1. Sent(Range(t), o, "DISCONNECT_B3_IND")
        BY <1>2, <2>2 DEF More
      <3>2. QED
        BY <2>1, <2>2, <3>1 DEF DataFits
    <2>3. CASE o # w.plci
      BY <2>1, <2>3
    <2>4. QED
      BY <2>2, <2>3
  <1>5. \A i \in DOMAIN C : Holds(C[i], s, t, cc, uu)
    <2>1. \A i \in DOMAIN C : Holds(C[i], s, t, bb, uu)
      BY <1>3 DEF Datas
    <2>2. ASSUME NEW o \in Plcis, NEW a, NEW h, Carries(a, h, o, s, t, bb[o], uu[o])
          PROVE  Carries(a, h, o, s, t, cc[o], uu[o])
      <3>1. CASE o = w.plci
        <4>1. cc[o] # "up"
          BY <3>1
        <4>2. QED
          BY <2>2, <4>1, CarriesDown
      <3>2. CASE o # w.plci
        BY <2>2, <3>2
      <3>3. QED
        BY <3>1, <3>2
    <2>3. QED
      BY <2>1, <2>2, HoldsPass
  <1>6. QED
    BY <1>3, <1>4, <1>5 DEF Datas

(* ... and frees it when the library has heard of it.                      *)
Elsewhere(f, g, p) == \A o \in Plcis : o # p => g[o] = f[o]

LEMMA BackDatas ==
  ASSUME NEW C, NEW s, NEW r, NEW bb, NEW uu, Datas(C, s, r, bb, uu), Links(C, s, r, bb),
         s # <<>>, Head(s).cmd = "DISCONNECT_B3_RESP", NEW p \in Plcis, p = Head(s).plci,
         NEW q, q = Tail(s), NEW cc, cc[p] = "none", Elsewhere(bb, cc, p),
         NEW ww, ww[p] = <<>>, Elsewhere(uu, ww, p)
  PROVE  Datas(C, q, r, cc, ww)
  <1>1. s \in Seq(Message) /\ r \in Seq(Message) /\ NoneAfter(s, "DISCONNECT_B3_RESP", Reqs)
    BY DEF Datas, DatasQ
  <1>2. Datas(C, q, r, bb, uu)
    <2>1. Head(s).cmd # "DATA_B3_REQ"
      OBVIOUS
    <2>2. QED
      BY <2>1, ServedDatas
  <1>3. ~Sent(Range(q), p, "DATA_B3_REQ")
    <2>1. \A c \in Reqs : ~Sent(Range(q), p, c)
      BY <1>1, TailAfter
    <2>2. QED
      BY <2>1 DEF Reqs
  <1>4. Sent(Range(s), p, "DISCONNECT_B3_RESP")
    <2>1. More(Range(q), Range(s), Head(s))
      BY <1>1, TailMore
    <2>2. QED
      BY <2>1 DEF More
  <1>5. /\ ~Sent(Range(r), p, "DISCONNECT_B3_IND") /\ ~LiveOn(C, p) /\ bb[p] = "clearing"
        /\ ~Sent(Range(r), p, "CONNECT_B3_ACTIVE_IND")
    <2>1. LinkFits(C, Range(s), Range(r), bb[p], p)
      BY DEF Links
    <2>2. QED
      BY <1>4, <2>1 DEF LinkFits
  <1>6. ~Sent(Range(r), p, "DATA_B3_CONF")
    <2>1. DataFits(C, Range(q), Range(r), bb[p], uu[p], p)
      BY <1>2 DEF Datas
    <2>2. QED
      BY <1>5, <2>1 DEF DataFits
  <1>7. ASSUME NEW o \in Plcis PROVE DataFits(C, Range(q), Range(r), cc[o], ww[o], o)
    <2>1. CASE o = p
      <3>1. NoData(Range(q), Range(r), ww[o], o)
        BY <1>3, <1>6, <2>1 DEF NoData
      <3>2. QED
        BY <1>5, <1>6, <2>1, <3>1 DEF DataFits
    <2>2. CASE o # p
      <3>1. DataFits(C, Range(q), Range(r), bb[o], uu[o], o) /\ cc[o] = bb[o] /\ ww[o] = uu[o]
        BY <1>2, <2>2 DEF Datas, Elsewhere
      <3>2. QED
        BY <3>1
    <2>3. QED
      BY <2>1, <2>2
  <1>8. \A i \in DOMAIN C : Holds(C[i], q, r, cc, ww)
    <2>1. \A i \in DOMAIN C : Holds(C[i], q, r, bb, uu)
      BY <1>2 DEF Datas
    <2>2. ASSUME NEW o \in Plcis, LiveOn(C, o), NEW a, NEW h,
                 Carries(a, h, o, q, r, bb[o], uu[o])
          PROVE  Carries(a, h, o, q, r, cc[o], ww[o])
      <3>1. cc[o] = bb[o] /\ ww[o] = uu[o]
        BY <1>5, <2>2 DEF Elsewhere
      <3>2. QED
        BY <2>2, <3>1
    <2>3. QED
      BY <2>1, <2>2, HoldsPass
  <1>9. QED
    BY <1>2, <1>7, <1>8 DEF Datas

(* It takes a block when the link is up, and drops it otherwise.           *)
LEMMA TakeDatas ==
  ASSUME NEW C, NEW s, NEW r, NEW bb, NEW uu, Datas(C, s, r, bb, uu), s # <<>>,
         NEW m, m = Head(s), m.cmd = "DATA_B3_REQ", NEW p \in Plcis, p = m.plci,
         NEW q, q = Tail(s), NEW ww,
         bb[p] = "up" => ww[p] = Append(uu[p], m.arg), bb[p] # "up" => ww[p] = uu[p],
         Elsewhere(uu, ww, p)
  PROVE  Datas(C, q, r, bb, ww)
  <1>1. s \in Seq(Message) /\ r \in Seq(Message) /\ NoneAfter(s, "DISCONNECT_B3_RESP", Reqs)
        /\ NoneAfter(r, "CONNECT_B3_ACTIVE_IND", Acts)
    BY DEF Datas, DatasQ
  <1>2. NoneAfter(q, "DISCONNECT_B3_RESP", Reqs)
    BY <1>1, TailAfter
  <1>3. q \in Seq(Message) /\ More(Range(q), Range(s), m)
    BY <1>1, TailMore
  <1>4. Sent(Range(s), p, "DATA_B3_REQ")
    BY <1>3 DEF More
  <1>5. ASSUME NEW o \in Plcis PROVE DataFits(C, Range(q), Range(r), bb[o], ww[o], o)
    <2>1. DataFits(C, Range(s), Range(r), bb[o], uu[o], o)
      BY DEF Datas
    <2>2. CASE o = p
      BY <1>4, <2>1, <2>2 DEF DataFits, NoData
    <2>3. CASE o # p
      <3>1. Sent(Range(q), o, "DATA_B3_REQ") <=> Sent(Range(s), o, "DATA_B3_REQ")
        BY <1>3, <2>3 DEF More
      <3>2. ww[o] = uu[o]
        BY <2>3 DEF Elsewhere
      <3>3. QED
        BY <2>1, <3>1, <3>2 DEF DataFits, NoData
    <2>4. QED
      BY <2>2, <2>3
  <1>6. \A i \in DOMAIN C : Holds(C[i], q, r, bb, ww)
    <2>1. \A i \in DOMAIN C : Holds(C[i], s, r, bb, uu)
      BY DEF Datas
    <2>2. ASSUME NEW o \in Plcis, NEW a, NEW h, Carries(a, h, o, s, r, bb[o], uu[o])
          PROVE  Carries(a, h, o, q, r, bb[o], ww[o])
      <3>1. CASE o # p
        <4>1. ww[o] = uu[o] /\ Head(s).plci # o
          BY <3>1 DEF Elsewhere
        <4>2. Carries(a, h, o, q, r, bb[o], uu[o])
          BY <1>1, <2>2, <4>1, CarriesServe
        <4>3. QED
          BY <4>1, <4>2
      <3>2. CASE o = p /\ bb[p] = "up"
        <4>1. bb[o] = "up" /\ m.plci = o
          BY <3>2
        <4>2. Carries(a, h, o, q, r, bb[o], Append(uu[o], m.arg))
          BY <1>1, <2>2, <4>1, CarriesTake
        <4>3. ww[o] = Append(uu[o], m.arg)
          BY <3>2
        <4>4. QED
          BY <4>2, <4>3, Zenon
      <3>3. CASE o = p /\ bb[p] # "up"
        <4>1. bb[o] # "up" /\ ww[o] = uu[o]
          BY <3>3
        <4>2. Carries(a, h, o, q, r, bb[o], uu[o])
          BY <2>2, <4>1, CarriesDropped
        <4>3. QED
          BY <4>1, <4>2
      <3>4. QED
        BY <3>1, <3>2, <3>3
    <2>3. QED
      BY <2>1, <2>2, HoldsPass
  <1>7. QED
    BY <1>1, <1>2, <1>3, <1>5, <1>6 DEF Datas, DatasQ

(* It confirms the oldest block it has.                                    *)
LEMMA HeardDatas ==
  ASSUME NEW C, NEW s, NEW r, NEW bb, NEW uu, Datas(C, s, r, bb, uu), NEW p \in Plcis,
         bb[p] = "up", uu[p] # <<>>, NEW w \in Message, w.cmd = "DATA_B3_CONF", w.plci = p,
         w.arg = Head(uu[p]), NEW t, t = Tell(r, w), NEW ww, ww[p] = Tail(uu[p]),
         \A o \in Plcis : o # p => ww[o] = uu[o]
  PROVE  Datas(C, s, t, bb, ww)
  <1>1. s \in Seq(Message) /\ r \in Seq(Message) /\ NoneAfter(s, "DISCONNECT_B3_RESP", Reqs)
        /\ NoneAfter(r, "CONNECT_B3_ACTIVE_IND", Acts)
    BY DEF Datas, DatasQ
  <1>2. NoneAfter(t, "CONNECT_B3_ACTIVE_IND", Acts)
    BY <1>1, TellAfter DEF Acts
  <1>3. t \in Seq(Message) /\ More(Range(r), Range(t), w)
    BY <1>1, TellType, TellMore
  <1>4. ASSUME NEW o \in Plcis PROVE DataFits(C, Range(s), Range(t), bb[o], ww[o], o)
    <2>1. DataFits(C, Range(s), Range(r), bb[o], uu[o], o)
      BY DEF Datas
    <2>2. /\ Sent(Range(t), o, "CONNECT_B3_ACTIVE_IND") <=>
               Sent(Range(r), o, "CONNECT_B3_ACTIVE_IND")
          /\ Sent(Range(t), o, "DISCONNECT_B3_IND") <=> Sent(Range(r), o, "DISCONNECT_B3_IND")
      BY <1>3 DEF More
    <2>3. CASE o = p
      <3>1. uu[o] # <<>> /\ bb[o] = "up"
        BY <2>3
      <3>2. ~Sent(Range(r), o, "CONNECT_B3_ACTIVE_IND")
        BY <2>1, <3>1 DEF DataFits, NoData
      <3>3. QED
        BY <2>2, <3>1, <3>2 DEF DataFits
    <2>4. CASE o # p
      <3>1. (Sent(Range(t), o, "DATA_B3_CONF") <=> Sent(Range(r), o, "DATA_B3_CONF"))
            /\ ww[o] = uu[o]
        BY <1>3, <2>4 DEF More
      <3>2. QED
        BY <2>1, <2>2, <3>1 DEF DataFits, NoData
    <2>5. QED
      BY <2>3, <2>4
  <1>5. \A i \in DOMAIN C : Holds(C[i], s, t, bb, ww)
    <2>1. \A i \in DOMAIN C : Holds(C[i], s, r, bb, uu)
      BY DEF Datas
    <2>2. ASSUME NEW o \in Plcis, NEW a, NEW h, Carries(a, h, o, s, r, bb[o], uu[o])
          PROVE  Carries(a, h, o, s, t, bb[o], ww[o])
      <3>1. CASE o # p
        <4>1. ww[o] = uu[o] /\ w.plci # o
          BY <3>1
        <4>2. Carries(a, h, o, s, t, bb[o], uu[o])
          BY <1>1, <2>2, <4>1, CarriesHear
        <4>3. QED
          BY <4>1, <4>2
      <3>2. CASE o = p
        <4>1. uu[o] # <<>> /\ w.plci = o /\ w.arg = Head(uu[o]) /\ ww[o] = Tail(uu[o])
          BY <3>2
        <4>2. Carries(a, h, o, s, t, bb[o], Tail(uu[o]))
          BY <1>1, <2>2, <4>1, CarriesBack
        <4>3. QED
          BY <4>1, <4>2, Zenon
      <3>3. QED
        BY <3>1, <3>2
    <2>3. QED
      BY <2>1, <2>2, HoldsPass
  <1>6. QED
    BY <1>1, <1>2, <1>3, <1>4, <1>5 DEF Datas, DatasQ

-----------------------------------------------------------------------------
(* What the entry points do to the queues of data.                         *)
LEMMA LeavesDatas ==
  ASSUME NEW k, NEW g, NEW s, NEW r, NEW bb, NEW uu, Datas(k.conns, s, r, bb, uu), Leaves(k, g)
  PROVE  Datas(g.conns, s \o g.out, r, bb, uu)
  <1>1. s \in Seq(Message)
    BY DEF Datas, DatasQ
  <1>2. Datas(g.conns, s, r, bb, uu)
    BY KeepDatas DEF Leaves
  <1>3. CASE g.out = <<>>
    <2>1. s \o g.out = s
      BY <1>1, <1>3
    <2>2. QED
      BY <1>2, <2>1, Zenon
  <1>4. ASSUME NEW m \in Message, m.cmd \notin {"DISCONNECT_B3_RESP", "DATA_B3_REQ"},
               g.out = Tell(<<>>, m)
        PROVE  Datas(g.conns, s \o g.out, r, bb, uu)
    <2>1. s \o Tell(<<>>, m) = Tell(s, m)
      BY <1>1, OutTell
    <2>2. Datas(g.conns, Tell(s, m), r, bb, uu)
      <3>1. m.cmd # "DATA_B3_REQ"
        BY <1>4
      <3>2. QED
        BY <1>2, <3>1, SayDatas
    <2>3. QED
      BY <1>4, <2>1, <2>2, Zenon
  <1>5. QED
    BY <1>3, <1>4 DEF Leaves

(* find_ncci finds no link: none is live on this PLCI.                     *)
LEMMA NotLive ==
  ASSUME NEW k, NEW n, Fit(k.conns, n), k.conns \in Seq(Connection), NEW p, p # 0,
         \A j \in DOMAIN k.conns : k.conns[j].plci = p =>
           k.conns[find_plci_by_plci(k, p)].nccip = NoNcci
  PROVE  ~LiveOn(k.conns, p)
  <1> DEFINE i == find_plci_by_plci(k, p)
  <1>1. \/ i = 0 /\ \A j \in DOMAIN k.conns : k.conns[j].plci # p
        \/ i # 0 /\ i \in DOMAIN k.conns /\ k.conns[i].plci = p
    BY FindPlci
  <1>2. \A j \in DOMAIN k.conns : k.conns[j].plci = p => k.conns[i].nccip = NoNcci
    OBVIOUS
  <1> HIDE DEF i
  <1>3. CASE \A j \in DOMAIN k.conns : k.conns[j].plci # p
    BY <1>3 DEF LiveOn
  <1>4. CASE i \in DOMAIN k.conns /\ k.conns[i].plci = p
    <2>1. k.conns[i].nccip = NoNcci
      BY <1>2, <1>4
    <2>2. ~Live(k.conns[i])
      BY <2>1 DEF Live
    <2>3. ~LiveOn(k.conns, k.conns[i].plci)
      BY <1>4, <2>2, OneDim
    <2>4. QED
      BY <1>4, <2>3
  <1>5. QED
    BY <1>1, <1>3, <1>4

(* The end of a link.                                                      *)
LEMMA DownDatas ==
  ASSUME NEW k \in Cards, NEW g, NEW s, NEW r, NEW bb, NEW uu,
         Datas(k.conns, s, r, bb, uu), Links(k.conns, s, r, bb), k.out = <<>>,
         r # <<>>, NEW m \in Message, m = Head(r), m.cmd = "DISCONNECT_B3_IND",
         NEW q, q = Tail(r), g = DisconnectB3Ind(k, m)
  PROVE  Datas(g.conns, s \o g.out, q, bb, uu)
  <1>1. s \in Seq(Message) /\ s \o <<>> = s
    BY DEF Datas, DatasQ
  <1>2. Datas(k.conns, s, q, bb, uu)
    <2>1. Head(r).cmd # "DATA_B3_CONF"
      OBVIOUS
    <2>2. QED
      BY <2>1, DropDatas
  <1> DEFINE w == Reply(m, "DISCONNECT_B3_RESP")
  <1>3. /\ w \in Message /\ w.cmd = "DISCONNECT_B3_RESP"
        /\ \/ g = k
           \/ \E j \in DOMAIN k.conns : Clears(k, g, j, w)
    BY LinkDownIs
  <1> HIDE DEF w
  <1>4. CASE g = k
    <2>1. g.conns = k.conns /\ s \o g.out = s
      BY <1>1, <1>4, Zenon
    <2>2. QED
      BY <1>2, <2>1, Zenon
  <1>5. ASSUME NEW j \in DOMAIN k.conns, Clears(k, g, j, w)
        PROVE  Datas(g.conns, s \o g.out, q, bb, uu)
    <2>1. Keeps(k.conns, g.conns)
      BY <1>5, TurnsKeeps DEF Clears
    <2>2. Datas(g.conns, s, q, bb, uu)
      BY <1>2, <2>1, KeepDatas
    <2>3. Datas(g.conns, Tell(s, w), q, bb, uu)
      <3>1. w.cmd # "DATA_B3_REQ" /\ w \in Message
        BY <1>3
      <3>2. QED
        BY <2>2, <3>1, SayDatas
    <2>4. CASE g.out = Tell(k.out, w)
      <3>1. g.out = Tell(<<>>, w)
        BY <2>4, Zenon
      <3>2. s \o Tell(<<>>, w) = Tell(s, w)
        BY <1>1, <1>3, OutTell
      <3>3. QED
        BY <2>3, <3>1, <3>2, Zenon
    <2>5. ASSUME NEW v \in Message, v.cmd = "DISCONNECT_REQ", g.out = Tell(Tell(k.out, w), v)
          PROVE  Datas(g.conns, s \o g.out, q, bb, uu)
      <3>1. g.out = Tell(Tell(<<>>, w), v)
        BY <2>5, Zenon
      <3>2. s \o Tell(Tell(<<>>, w), v) = Tell(Tell(s, w), v)
        <4>1. s \in Seq(Message) /\ w \in Message
          BY <1>1, <1>3
        <4>2. QED
          BY <4>1, OutTell
      <3>3. v.cmd # "DATA_B3_REQ"
        BY <2>5
      <3>4. Datas(g.conns, Tell(Tell(s, w), v), q, bb, uu)
        BY <2>3, <3>3, SayDatas
      <3>5. QED
        BY <3>1, <3>2, <3>4, Zenon
    <2>6. QED
      BY <1>5, <2>4, <2>5 DEF Clears
  <1>6. QED
    BY <1>3, <1>4, <1>5

(* A confirmation of data.                                                 *)
LEMMA SentDatas ==
  ASSUME NEW k \in Cards, NEW g, NEW n, NEW s, NEW r, NEW bb, NEW uu, Fit(k.conns, n),
         Datas(k.conns, s, r, bb, uu), k.out = <<>>, r # <<>>, NEW m \in Message, m = Head(r),
         m.cmd = "DATA_B3_CONF", NEW p \in Plcis, p # 0, m.plci = p, NEW q, q = Tail(r),
         g = DataB3Conf(k, m)
  PROVE  Datas(g.conns, s \o g.out, q, bb, uu)
  <1>1. s \in Seq(Message) /\ s \o <<>> = s /\ k.conns \in Seq(Connection)
    BY DEF Datas, DatasQ, Cards
  <1>2. \/ g = k /\ \A j \in DOMAIN k.conns : k.conns[j].plci = m.plci =>
                          k.conns[find_plci_by_plci(k, m.plci)].nccip = NoNcci
        \/ \E i \in DOMAIN k.conns : k.conns[i].plci = m.plci /\ Confirms(k, g, i, m.arg)
    BY DataConfIs
  <1>3. CASE g = k /\ \A j \in DOMAIN k.conns : k.conns[j].plci = p =>
                          k.conns[find_plci_by_plci(k, p)].nccip = NoNcci
    <2>1. ~LiveOn(k.conns, p)
      BY <1>1, <1>3, NotLive
    <2>2. ~LiveOn(k.conns, Head(r).plci) /\ Head(r).cmd = "DATA_B3_CONF"
      BY <2>1
    <2>3. Datas(k.conns, s, q, bb, uu)
      BY <2>2, LateDatas
    <2>4. g.conns = k.conns /\ s \o g.out = s
      BY <1>1, <1>3, Zenon
    <2>5. QED
      BY <2>3, <2>4, Zenon
  <1>4. ASSUME NEW i \in DOMAIN k.conns, k.conns[i].plci = p, Confirms(k, g, i, m.arg)
        PROVE  Datas(g.conns, s \o g.out, q, bb, uu)
    <2>1. /\ Near(k.conns, g.conns, i) /\ g.conns[i].plci = p /\ g.out = k.out
          /\ Live(g.conns[i]) <=> Live(k.conns[i])
          /\ k.conns[i].nccip # NoNcci
          /\ g.conns[i].nccip.datahandle = k.conns[i].nccip.datahandle
      BY <1>4 DEF Confirms, Soft
    <2>2. g.conns[i].nccip.ackqueue = capi_del_ack(k.conns[i].nccip.ackqueue, m.arg)
      BY <1>4 DEF Confirms
    <2> DEFINE C == k.conns
               D == g.conns
    <2>3. /\ Datas(C, s, r, bb, uu) /\ Fit(C, n) /\ Near(C, D, i) /\ C[i].plci = p /\ D[i].plci = p
          /\ Live(D[i]) <=> Live(C[i])
          /\ C[i].nccip # NoNcci
          /\ D[i].nccip.ackqueue = capi_del_ack(C[i].nccip.ackqueue, m.arg)
          /\ D[i].nccip.datahandle = C[i].nccip.datahandle
      BY <1>4, <2>1, <2>2
    <2> HIDE DEF C, D
    <2>4. Datas(D, s, q, bb, uu)
      BY <2>3, ConfirmDatas
    <2>5. Datas(g.conns, s, q, bb, uu)
      BY <2>4 DEF D
    <2>6. s \o g.out = s
      BY <1>1, <2>1, Zenon
    <2>7. QED
      BY <2>5, <2>6, Zenon
  <1>5. QED
    BY <1>2, <1>3, <1>4

(* Every message of the controller.                                        *)
LEMMA HandledDatas ==
  ASSUME NEW k \in Cards, NEW g, NEW s, NEW r, NEW dd, NEW bb, NEW uu,
         Line(k.conns, k.msgid, s, r, dd, bb), Links(k.conns, s, r, bb),
         Datas(k.conns, s, r, bb, uu), k.out = <<>>,
         r # <<>>, NEW m, m = Head(r), Handled(k, g, m), NEW q, q = Tail(r)
  PROVE  Datas(g.conns, s \o g.out, q, bb, uu)
  <1>1. QueuesFit(s, r) /\ s \o <<>> = s /\ Fit(k.conns, k.msgid)
    BY LineSeq DEF Line
  <1>2. m \in Up /\ m.plci \in Plcis
    BY <1>1, DropQ
  <1>3. m \in Message /\ m.plci # 0
    BY <1>2, Sets
  <1>4. ASSUME Leaves(k, g), m.cmd # "DATA_B3_CONF"
        PROVE  Datas(g.conns, s \o g.out, q, bb, uu)
    <2>1. Datas(k.conns, s, q, bb, uu)
      BY <1>4, DropDatas
    <2>2. QED
      BY <1>4, <2>1, LeavesDatas
  <1>5. g = k => Leaves(k, g)
    BY KeepsSelf, Zenon DEF Leaves
  <1>6. CASE m.cmd = "CONNECT_IND" /\ (\/ Ignores(k, g, m.plci)
                                       \/ \E h : Rings(k, h, m.plci) /\ Asked(h, g, 1))
    <2>1. Leaves(k, g)
      BY <1>6, IncomingLeaves
    <2>2. QED
      BY <1>4, <1>6, <2>1
  <1>7. CASE m.cmd = "CONNECT_CONF" /\ g = ConnectConf(k, m)
    <2>1. Leaves(k, g)
      BY <1>7, ConfirmLeaves
    <2>2. QED
      BY <1>4, <1>7, <2>1
  <1>8. CASE m.cmd = "DISCONNECT_IND" /\ g = DisconnectInd(k, m)
    <2>1. Leaves(k, g)
      BY <1>8, EndLeaves
    <2>2. QED
      BY <1>4, <1>8, <2>1
  <1>9. CASE m.cmd = "INFO_IND"
             /\ \E i \in DOMAIN k.conns : k.conns[i].plci = m.plci /\ Asked(k, g, i)
    <2>1. PICK i \in DOMAIN k.conns : Asked(k, g, i)
      BY <1>9
    <2>2. Leaves(k, g)
      BY <2>1, AskedLeaves
    <2>3. QED
      BY <1>4, <1>9, <2>2
  <1>10. CASE m.cmd = "DISCONNECT_B3_IND" /\ g = DisconnectB3Ind(k, m)
    BY <1>3, <1>10, DownDatas
  <1>11. CASE m.cmd = "CONNECT_B3_ACTIVE_IND"
              /\ \E i \in DOMAIN k.conns : k.conns[i].plci = m.plci /\ Wakes(k, g, i)
    <2>1. PICK i \in DOMAIN k.conns : k.conns[i].plci = m.plci /\ Wakes(k, g, i)
      BY <1>11
    <2>2. /\ Near(k.conns, g.conns, i) /\ g.conns[i].plci = k.conns[i].plci /\ g.out = k.out
          /\ k.conns[i].nccip # NoNcci
          /\ g.conns[i].nccip.ackqueue = k.conns[i].nccip.ackqueue
          /\ g.conns[i].nccip.datahandle = k.conns[i].nccip.datahandle
      BY <2>1 DEF Wakes, Soft
    <2>3. Live(k.conns[i]) => Live(g.conns[i])
      BY <2>1 DEF Wakes
    <2>4. /\ Head(r).cmd = "CONNECT_B3_ACTIVE_IND" /\ k.conns[i].plci = Head(r).plci
          /\ Head(r).plci \in Plcis
      BY <1>2, <1>11, <2>1
    <2>5. Datas(g.conns, s, q, bb, uu)
      BY <2>2, <2>3, <2>4, WakeDatas
    <2>6. s \o g.out = s
      BY <1>1, <2>2, Zenon
    <2>7. QED
      BY <2>5, <2>6, Zenon
  <1>12. CASE m.cmd = "DATA_B3_CONF" /\ g = DataB3Conf(k, m)
    BY <1>1, <1>2, <1>3, <1>12, SentDatas
  <1>13. CASE /\ m.cmd \in {"CONNECT_ACTIVE_IND", "DISCONNECT_CONF", "CONNECT_B3_IND",
                            "CONNECT_B3_CONF", "RESET_B3_IND", "DISCONNECT_B3_CONF"}
              /\ \E i \in DOMAIN k.conns : k.conns[i].plci = m.plci /\ Mild(k, g, i)
    <2>1. PICK i \in DOMAIN k.conns : Mild(k, g, i)
      BY <1>13
    <2>2. Leaves(k, g)
      BY <2>1, MildLeaves
    <2>3. m.cmd # "DATA_B3_CONF"
      BY <1>13
    <2>4. QED
      BY <1>4, <2>2, <2>3
  <1>14. CASE g = k /\ (m.cmd \in {"DISCONNECT_B3_IND", "DATA_B3_CONF"} => m.n = 0)
    <2>1. m.cmd # "DATA_B3_CONF"
      BY <1>2, <1>14 DEF Up
    <2>2. QED
      BY <1>4, <1>5, <1>14, <2>1
  <1>15. QED
    BY <1>6, <1>7, <1>8, <1>9, <1>10, <1>11, <1>12, <1>13, <1>14 DEF Handled

-----------------------------------------------------------------------------
(* The invariant of the data, and the steps.                               *)
DataInv == Datas(card.conns, toCapi, toApp, b, unconf)

LEMMA InitDatas ==
  ASSUME Init PROVE DataInv
  <1>1. card.conns = <<>> /\ toCapi = <<>> /\ toApp = <<>> /\ \A p \in Plcis : unconf[p] = <<>>
    BY DEF Init
  <1>2. Range(toCapi) = {} /\ Range(toApp) = {} /\ DOMAIN card.conns = {}
    BY <1>1 DEF Range
  <1>3. DatasQ(toCapi, toApp)
    BY <1>1 DEF DatasQ, NoneAfter
  <1>4. \A p \in Plcis : DataFits(card.conns, Range(toCapi), Range(toApp), b[p], unconf[p], p)
    BY <1>1, <1>2 DEF DataFits, NoData, LiveOn, Sent
  <1>5. QED
    BY <1>2, <1>3, <1>4 DEF DataInv, Datas

LEMMA BecomesDatas ==
  ASSUME NEW k \in Cards, Becomes(k), NEW q, Datas(k.conns, toCapi \o k.out, q, b, unconf),
         toApp' = q, b' = b, unconf' = unconf
  PROVE  DataInv'
  <1>1. card'.conns = k.conns /\ toCapi' = toCapi \o k.out
    BY BecomesIs
  <1>2. QED
    BY <1>1, Zenon DEF DataInv

LEMMA LeaveStep ==
  ASSUME DataInv, NEW k \in Cards, Becomes(k), Leaves(card, k), toApp' = toApp, b' = b,
         unconf' = unconf
  PROVE  DataInv'
  <1>1. Datas(k.conns, toCapi \o k.out, toApp, b, unconf)
    BY LeavesDatas DEF DataInv
  <1>2. QED
    BY <1>1, BecomesDatas

LEMMA QueueStep ==
  ASSUME TypeInv, LineInv, LinkInv, DataInv, NEW g, NEW i, Becomes(g), Queues(card, g, i),
         toApp' = toApp, b' = b, unconf' = unconf
  PROVE  DataInv'
  <1> DEFINE C == card.conns
             D == g.conns
             p == C[i].plci
             a == C[i].nccip.ackqueue
             h == C[i].nccip.datahandle
  <1>1. /\ g \in Cards /\ Near(C, D, i) /\ Soft(C[i], D[i]) /\ CanSend(C[i])
        /\ D[i].nccip # NoNcci /\ Live(D[i])
    BY DEF Queues
  <1>2. D[i].nccip.ackqueue = Append(a, h) /\ D[i].nccip.datahandle = (h + 1) % HandleMod
    BY DEF Queues
  <1>3. PICK m \in Message : m.cmd = "DATA_B3_REQ" /\ m.plci = p /\ m.arg = h
                             /\ g.out = Tell(card.out, m)
    BY DEF Queues
  <1>4. card.out = <<>> /\ toCapi \in Seq(Message)
    BY DEF TypeInv
  <1>5. Datas(C, toCapi, toApp, b, unconf) /\ Links(C, toCapi, toApp, b)
        /\ Fit(C, card.msgid)
    BY LineSeq DEF DataInv, LinkInv, LineInv
  <1>6. Live(C[i]) /\ Len(a) < Window /\ C[i].nccip # NoNcci /\ D[i].plci = p
    BY <1>1 DEF CanSend, Live, Soft
  <1>7. C[i] \in Connection /\ i \in DOMAIN C
    <2>1. C \in Seq(Connection) /\ i \in DOMAIN C
      BY <1>1 DEF Near
    <2> HIDE DEF C
    <2>2. QED
      BY <2>1
  <1>8. p \in Plcis /\ p # 0
    <2>1. p # 0
      BY <1>5, <1>6, <1>7 DEF Fit, ConnFits
    <2>2. QED
      BY <1>7, <2>1 DEF Connection
  <1>9. h \in Nat
    <2>1. C[i].nccip \in Ncci
      BY <1>6, <1>7 DEF Connection
    <2>2. h \in 0 .. HandleMod - 1
      BY <2>1 DEF Ncci
    <2>3. QED
      BY <2>2, CapiAssumption
  <1>10. C[i].plci = p /\ a = C[i].nccip.ackqueue /\ h = C[i].nccip.datahandle
    OBVIOUS
  <1> HIDE DEF C, D, p, a, h
  <1>11. Datas(D, Tell(toCapi, m), toApp, b, unconf)
    BY <1>1, <1>2, <1>3, <1>5, <1>6, <1>8, <1>9, <1>10, SendDatas
  <1>12. toCapi \o g.out = Tell(toCapi, m)
    <2>1. toCapi \o Tell(<<>>, m) = Tell(toCapi, m)
      BY <1>4, OutTell
    <2>2. g.out = Tell(<<>>, m)
      BY <1>3, <1>4, Zenon
    <2>3. QED
      BY <2>1, <2>2, Zenon
  <1>13. Datas(g.conns, toCapi \o g.out, toApp, b, unconf)
    BY <1>11, <1>12, Zenon DEF D
  <1>14. QED
    BY <1>1, <1>13, BecomesDatas

LEMMA InjectDatas ==
  ASSUME TypeInv, LineInv, LinkInv, DataInv, Inject PROVE DataInv'
  <1>1. PICK complete \in BOOLEAN, answer \in {"accept", "ignore", "reject", "wait"} :
          Becomes(capiconn_inject(card, Head(toApp), complete, answer))
    BY DEF Inject
  <1> DEFINE g == capiconn_inject(card, Head(toApp), complete, answer)
  <1>2. toApp # <<>> /\ toApp' = Tail(toApp) /\ b' = b /\ unconf' = unconf
        /\ Head(toApp) \in Message
    BY DEF Inject, Receive, Controller, TypeInv
  <1>3. Handled(card, g, Head(toApp)) /\ card \in Cards /\ card.out = <<>>
    BY <1>2, InjectIs DEF TypeInv
  <1>4. g \in Cards
    BY <1>2, <1>3, HandledType
  <1>5. Becomes(g)
    BY <1>1
  <1> HIDE DEF g
  <1>6. Datas(g.conns, toCapi \o g.out, Tail(toApp), b, unconf)
    BY <1>2, <1>3, HandledDatas DEF LineInv, LinkInv, DataInv
  <1>7. QED
    BY <1>2, <1>4, <1>5, <1>6, BecomesDatas

LEMMA LibraryDatas ==
  ASSUME TypeInv, LineInv, LinkInv, DataInv, Connect \/ Decide \/ Disconnect \/ Send
  PROVE  DataInv'
  <1>1. card \in Cards /\ card.out = <<>>
    BY DEF TypeInv
  <1>2. toApp' = toApp /\ b' = b /\ unconf' = unconf
    BY DEF Connect, Decide, Disconnect, Send, Controller
  <1>3. Leaves(card, card)
    BY <1>1, KeepsSelf, Zenon DEF Leaves
  <1>4. CASE Connect
    <2> DEFINE g == capiconn_connect(card)
    <2>1. Unused(card) # {} /\ Becomes(g)
      BY <1>4 DEF Connect
    <2>2. g \in Cards /\ Leaves(card, g)
      BY <1>1, <2>1, ConnectIs, ConnectLeaves
    <2> HIDE DEF g
    <2>3. QED
      BY <1>2, <2>1, <2>2, LeaveStep
  <1>5. CASE Decide
    <2>1. PICK i \in DOMAIN card.conns : card.conns[i].state = "INCOMING"
              /\ \/ Becomes(capiconn_accept(card, i))
                 \/ Becomes(capiconn_ignore(card, i))
                 \/ Becomes(capiconn_reject(card, i))
      BY <1>5 DEF Decide, Conns
    <2>2. PICK a \in {0, 1, 2} : Becomes(ConnectResp(card, i, a))
      BY <2>1 DEF capiconn_accept, capiconn_ignore, capiconn_reject
    <2> DEFINE g == ConnectResp(card, i, a)
    <2>3. Answers(card, g, i, a)
      BY <1>1, <2>1, ConnectRespIs
    <2>4. Becomes(g)
      BY <2>2
    <2> HIDE DEF g
    <2>5. g \in Cards
      BY <2>3 DEF Answers
    <2>6. Leaves(card, g)
      BY <1>1, <2>3, AnswersLeaves
    <2>7. QED
      BY <1>2, <2>4, <2>5, <2>6, LeaveStep
  <1>6. CASE Disconnect
    <2>1. PICK i \in DOMAIN card.conns : Becomes(capiconn_disconnect(card, i))
      BY <1>6 DEF Disconnect, Conns
    <2> DEFINE g == capiconn_disconnect(card, i)
    <2>2. g = card \/ Mild(card, g, i) \/ Answers(card, g, i, 2)
      BY <1>1, DisconnectIs
    <2>3. Becomes(g) /\ g \in Cards
      BY <1>1, <2>1, DisconnectType
    <2> HIDE DEF g
    <2>4. Leaves(card, g)
      <3>1. CASE g = card
        BY <1>3, <3>1, Zenon
      <3>2. CASE Mild(card, g, i)
        BY <1>1, <3>2, MildLeaves
      <3>3. CASE Answers(card, g, i, 2)
        BY <1>1, <3>3, AnswersLeaves
      <3>4. QED
        BY <2>2, <3>1, <3>2, <3>3
    <2>5. QED
      BY <1>2, <2>3, <2>4, LeaveStep
  <1>7. CASE Send
    <2>1. PICK i \in DOMAIN card.conns, put \in BOOLEAN : Becomes(capiconn_send(card, i, put))
      BY <1>7 DEF Send, Conns
    <2> DEFINE g == capiconn_send(card, i, put)
    <2>2. Becomes(g) /\ (g = card \/ Queues(card, g, i))
      BY <1>1, <2>1, SendIs
    <2> HIDE DEF g
    <2>3. CASE g = card
      <3>1. g \in Cards /\ Leaves(card, g)
        BY <1>1, <1>3, <2>3, Zenon
      <3>2. QED
        BY <1>2, <2>2, <3>1, LeaveStep
    <2>4. CASE Queues(card, g, i)
      BY <1>2, <2>2, <2>4, QueueStep
    <2>5. QED
      BY <2>2, <2>3, <2>4
  <1>8. QED
    BY <1>4, <1>5, <1>6, <1>7

-----------------------------------------------------------------------------
(* The steps of the controller.                                            *)
LEMMA ReleaseDatas ==
  ASSUME NEW C, NEW s, NEW r, NEW uu, Datas(C, s, r, b, uu), NEW p \in Plcis,
         b \in [Plcis -> BStates], Release(p, r)
  PROVE  Datas(C, s, toApp', b', uu)
  <1>1. {"DISCONNECT_IND", "DISCONNECT_B3_IND"} \subseteq Commands
    BY DEF Commands
  <1>2. CASE b[p] = "none"
    <2> DEFINE w == Ind("DISCONNECT_IND", p, 0)
    <2>1. w \in Up /\ w.cmd = "DISCONNECT_IND"
      BY <1>1, IndUp
    <2>2. toApp' = Tell(r, w) /\ b' = b
      BY <1>2 DEF Release
    <2> HIDE DEF w
    <2>3. w \in Message /\ w.cmd \notin {"CONNECT_B3_ACTIVE_IND", "DATA_B3_CONF"}
      BY <2>1, UpMessage
    <2>4. Datas(C, s, toApp', b, uu)
      BY <2>2, <2>3, TellDatas
    <2>5. QED
      BY <2>2, <2>4
  <1>3. CASE b[p] = "clearing"
    <2>1. toApp' = r /\ b' = b
      BY <1>3 DEF Release
    <2>2. QED
      BY <2>1
  <1>4. CASE b[p] \notin {"none", "clearing"}
    <2> DEFINE w == Ind("DISCONNECT_B3_IND", p, 1)
    <2>1. w \in Up /\ w.cmd = "DISCONNECT_B3_IND" /\ w.plci = p
      BY <1>1, IndUp
    <2>2. b' = [b EXCEPT ![p] = "clearing"] /\ toApp' = Tell(r, w)
      BY <1>4 DEF Release
    <2> HIDE DEF w
    <2>3. b'[p] = "clearing" /\ \A q \in Plcis : q # p => b'[q] = b[q]
      BY <2>2, SetAt
    <2>4. /\ w \in Message /\ w.plci \in Plcis /\ w.cmd = "DISCONNECT_B3_IND"
          /\ toApp' = Tell(r, w) /\ b'[w.plci] = "clearing"
          /\ \A q \in Plcis : q # w.plci => b'[q] = b[q]
      BY <2>1, <2>2, <2>3, UpMessage
    <2>5. QED
      BY <2>4, ClearDatas
  <1>5. QED
    BY <1>2, <1>3, <1>4

LEMMA NetworkDatas ==
  ASSUME TypeInv, LinkInv, DataInv,
         Ring \/ Digits \/ Answered \/ LinkAsked \/ LinkUp \/ ConfirmData \/ DataOrReset
         \/ (\E p \in Plcis : Hangup(p) \/ LinkDown(p))
  PROVE  DataInv'
  <1>1. b \in [Plcis -> BStates] /\ unconf \in [Plcis -> Seq(Nat)]
    BY DEF TypeInv
  <1> DEFINE Cmds == {"CONNECT_IND", "INFO_IND", "CONNECT_ACTIVE_IND", "CONNECT_B3_IND",
                      "DATA_B3_IND", "RESET_B3_IND"}
  <1>2. Cmds \cup {"CONNECT_B3_ACTIVE_IND", "DATA_B3_CONF", "DISCONNECT_B3_IND"} \subseteq Commands
    BY DEF Commands
  <1>3. card' = card /\ toCapi' = toCapi
    BY DEF Ring, Digits, Answered, LinkAsked, LinkUp, ConfirmData, DataOrReset, Hangup, LinkDown
  <1> DEFINE Goal == Datas(card.conns, toCapi, toApp', b', unconf')
  <1> SUFFICES Goal
    BY <1>3 DEF DataInv
  <1>4. Datas(card.conns, toCapi, toApp, b, unconf) /\ Links(card.conns, toCapi, toApp, b)
    BY DEF DataInv, LinkInv
  <1>5. ASSUME NEW cc, Datas(card.conns, toCapi, toApp, cc, unconf), b' = cc, NEW p \in Plcis,
               unconf' = unconf, NEW n \in {0, 1}, NEW cmd \in Cmds,
               cmd = "CONNECT_IND" => n = 0, toApp' = Tell(toApp, Ind(cmd, p, n))
        PROVE  Goal
    <2> DEFINE w == Ind(cmd, p, n)
    <2>1. w \in Up /\ w.cmd = cmd
      BY <1>2, <1>5, IndUp
    <2>2. toApp' = Tell(toApp, w)
      BY <1>5
    <2> HIDE DEF w
    <2>3. w \in Message /\ w.cmd \notin {"CONNECT_B3_ACTIVE_IND", "DATA_B3_CONF"}
      BY <1>5, <2>1, UpMessage
    <2>4. Datas(card.conns, toCapi, toApp', cc, unconf)
      BY <1>5, <2>2, <2>3, TellDatas
    <2>5. QED
      BY <1>5, <2>4
  <1>6. CASE Ring
    <2>1. PICK p \in Plcis : toApp' = Tell(toApp, Ind("CONNECT_IND", p, 0)) /\ b' = b
      BY <1>6 DEF Ring
    <2>2. unconf' = unconf
      BY <1>6 DEF Ring
    <2>3. QED
      BY <1>4, <1>5, <2>1, <2>2
  <1>7. CASE Digits
    <2>1. PICK p \in Plcis : toApp' = Tell(toApp, Ind("INFO_IND", p, 0)) /\ b' = b
      BY <1>7 DEF Digits, Controller
    <2>2. unconf' = unconf
      BY <1>7 DEF Digits, Controller
    <2>3. QED
      BY <1>4, <1>5, <2>1, <2>2
  <1>8. CASE Answered
    <2>1. PICK p \in Plcis : toApp' = Tell(toApp, Ind("CONNECT_ACTIVE_IND", p, 0)) /\ b' = b
      BY <1>8 DEF Answered
    <2>2. unconf' = unconf
      BY <1>8 DEF Answered
    <2>3. QED
      BY <1>4, <1>5, <2>1, <2>2
  <1>9. CASE LinkAsked
    <2>1. PICK p \in Plcis : /\ b[p] = "none" /\ b' = [b EXCEPT ![p] = "in"]
                             /\ toApp' = Tell(toApp, Ind("CONNECT_B3_IND", p, 1))
      BY <1>9 DEF LinkAsked
    <2>2. b[p] \in Early /\ b'[p] \in Early /\ \A q \in Plcis : q # p => b'[q] = b[q]
      BY <1>1, <2>1, SetAt DEF Early
    <2>3. Datas(card.conns, toCapi, toApp, b', unconf)
      BY <1>4, <2>2, SetDatas
    <2>4. toApp' = Tell(toApp, Ind("CONNECT_B3_IND", p, 1)) /\ unconf' = unconf
      BY <1>9, <2>1 DEF LinkAsked
    <2>5. QED
      BY <1>5, <2>3, <2>4
  <1>10. CASE LinkUp
    <2>1. PICK p \in Plcis : /\ b[p] \in {"out", "agreed"} /\ b' = [b EXCEPT ![p] = "up"]
                             /\ toApp' = Tell(toApp, Ind("CONNECT_B3_ACTIVE_IND", p, 1))
      BY <1>10 DEF LinkUp
    <2> DEFINE w == Ind("CONNECT_B3_ACTIVE_IND", p, 1)
    <2>2. b[p] \in Early /\ b'[p] = "up" /\ \A q \in Plcis : q # p => b'[q] = b[q]
      BY <1>1, <2>1, SetAt DEF Early
    <2>3. w \in Up /\ w.cmd = "CONNECT_B3_ACTIVE_IND" /\ w.plci = p
      BY <1>2, IndUp
    <2>4. toApp' = Tell(toApp, w)
      BY <2>1
    <2> HIDE DEF w
    <2>5. w \in Message /\ unconf' = unconf
      BY <1>10, <2>3, UpMessage DEF LinkUp
    <2>6. Datas(card.conns, toCapi, toApp', b', unconf)
      BY <1>4, <2>2, <2>3, <2>4, <2>5, UpDatas
    <2>7. QED
      BY <2>5, <2>6
  <1>11. CASE ConfirmData
    <2>1. PICK p \in Plcis :
             /\ unconf[p] # <<>> /\ b[p] = "up" /\ unconf' = [unconf EXCEPT ![p] = Tail(@)]
             /\ toApp' = Tell(toApp, Say("DATA_B3_CONF", p, 1, 0, Head(unconf[p])))
      BY <1>11 DEF ConfirmData
    <2> DEFINE w == Say("DATA_B3_CONF", p, 1, 0, Head(unconf[p]))
    <2>2. Head(unconf[p]) \in Nat /\ 0 \in 0 .. MsgMod - 1
      BY <1>1, <2>1, CapiAssumption
    <2>3. w \in Up /\ w.cmd = "DATA_B3_CONF" /\ w.plci = p /\ w.arg = Head(unconf[p])
      BY <1>2, <2>2, SayUp
    <2>4. toApp' = Tell(toApp, w)
      BY <2>1
    <2> HIDE DEF w
    <2>5. b' = b /\ w \in Message
      BY <1>11, <2>3, UpMessage DEF ConfirmData
    <2>6. unconf'[p] = Tail(unconf[p]) /\ \A q \in Plcis : q # p => unconf'[q] = unconf[q]
      BY <1>1, <2>1, SetAt
    <2>7. Datas(card.conns, toCapi, toApp', b, unconf')
      <3>1. Datas(card.conns, toCapi, toApp, b, unconf) /\ b[p] = "up" /\ unconf[p] # <<>>
        BY <1>4, <2>1
      <3> HIDE DEF Goal, Cmds
      <3>2. QED
        BY <2>3, <2>4, <2>5, <2>6, <3>1, HeardDatas
    <2>8. QED
      BY <2>5, <2>7
  <1>12. CASE DataOrReset
    <2>1. PICK p \in Plcis, cmd \in {"DATA_B3_IND", "RESET_B3_IND"} :
             toApp' = Tell(toApp, Ind(cmd, p, 1))
      BY <1>12 DEF DataOrReset
    <2>2. b' = b /\ unconf' = unconf /\ cmd \in Cmds /\ cmd # "CONNECT_IND" /\ 1 \in {0, 1}
      BY <1>12 DEF DataOrReset, Controller
    <2> HIDE DEF Cmds
    <2>3. QED
      BY <1>4, <1>5, <2>1, <2>2
  <1>13. ASSUME NEW p \in Plcis, Hangup(p) PROVE Goal
    <2>1. Release(p, toApp) /\ unconf' = unconf
      BY <1>13 DEF Hangup
    <2>2. Datas(card.conns, toCapi, toApp', b', unconf)
      BY <1>1, <1>4, <2>1, ReleaseDatas
    <2>3. QED
      BY <2>1, <2>2
  <1>14. ASSUME NEW p \in Plcis, LinkDown(p) PROVE Goal
    <2> DEFINE w == Ind("DISCONNECT_B3_IND", p, 1)
    <2>1. w \in Up /\ w.cmd = "DISCONNECT_B3_IND" /\ w.plci = p
      BY <1>2, IndUp
    <2>2. b' = [b EXCEPT ![p] = "clearing"] /\ toApp' = Tell(toApp, w) /\ unconf' = unconf
      BY <1>14 DEF LinkDown
    <2> HIDE DEF w
    <2>3. b'[p] = "clearing" /\ \A q \in Plcis : q # p => b'[q] = b[q]
      BY <1>1, <2>2, SetAt
    <2>4. /\ w \in Message /\ w.plci \in Plcis /\ w.cmd = "DISCONNECT_B3_IND"
          /\ toApp' = Tell(toApp, w) /\ b'[w.plci] = "clearing"
          /\ \A q \in Plcis : q # w.plci => b'[q] = b[q]
      BY <2>1, <2>2, <2>3, UpMessage
    <2>5. Datas(card.conns, toCapi, toApp', b', unconf)
      BY <1>4, <2>4, ClearDatas
    <2>6. QED
      BY <2>2, <2>5
  <1>15. QED
    BY <1>6, <1>7, <1>8, <1>9, <1>10, <1>11, <1>12, <1>13, <1>14

LEMMA TakenDatas ==
  ASSUME TypeInv, LineInv, LinkInv, DataInv, Take PROVE DataInv'
  <1> DEFINE m == Head(toCapi)
             s == Tail(toCapi)
             p == m.plci
             C == card.conns
  <1>1. b \in [Plcis -> BStates] /\ unconf \in [Plcis -> Seq(Nat)]
    BY DEF TypeInv
  <1>2. toCapi # <<>> /\ toCapi' = s /\ card' = card
    BY DEF Take, Serve
  <1>3. \/ TakeConnectReq(m) \/ RefuseConnectReq(m) \/ TakeConnectResp(m)
        \/ TakeB3Req(m) \/ TakeB3Resp(m) \/ TakeDisconnectB3Req(m)
        \/ TakeDisconnectB3Resp(m) \/ TakeDisconnectReq(m)
        \/ TakeDisconnectResp(m) \/ TakeData(m)
    BY DEF Take
  <1>4. Datas(C, toCapi, toApp, b, unconf) /\ Links(C, toCapi, toApp, b)
    BY DEF DataInv, LinkInv
  <1>5. /\ m.n \in {0, 1} /\ m.num \in 0 .. MsgMod - 1
        /\ m.cmd # "CONNECT_REQ" => p \in Plcis
    BY <1>2, HeadDown DEF LineInv
  <1> SUFFICES Datas(C, s, toApp', b', unconf')
    BY <1>2 DEF DataInv
  <1>6. m.cmd # "DATA_B3_REQ" => Datas(C, s, toApp, b, unconf)
    BY <1>2, <1>4, ServedDatas
  <1> DEFINE Cmds == {"CONNECT_CONF", "CONNECT_B3_CONF", "DISCONNECT_B3_CONF", "DISCONNECT_CONF"}
  <1>7. ASSUME NEW bb, Datas(C, s, toApp, bb, unconf), NEW cmd \in Cmds, NEW o \in Plcis,
               NEW x \in {0, 1}, NEW a \in {0, 1}, cmd = "CONNECT_CONF" => x = 0
        PROVE  Datas(C, s, Tell(toApp, Say(cmd, o, x, m.num, a)), bb, unconf)
    <2> DEFINE w == Say(cmd, o, x, m.num, a)
    <2>1. cmd \in Commands /\ a \in Nat /\ cmd \notin {"DISCONNECT_B3_IND", "DATA_B3_CONF",
            "CONNECT_IND", "DISCONNECT_IND", "CONNECT_B3_ACTIVE_IND"}
      BY DEF Commands
    <2>2. w \in Up /\ w.cmd = cmd
      BY <1>5, <1>7, <2>1, SayUp
    <2> HIDE DEF w, m, Cmds
    <2>3. w \in Message /\ w.cmd \notin {"CONNECT_B3_ACTIVE_IND", "DATA_B3_CONF"}
      BY <2>1, <2>2, UpMessage
    <2>4. Datas(C, s, Tell(toApp, w), bb, unconf)
      BY <1>7, <2>3, TellDatas
    <2>5. QED
      BY <2>4 DEF w
  <1>8. m = Head(toCapi) /\ s = Tail(toCapi) /\ p = m.plci
        /\ {"DISCONNECT_IND", "DISCONNECT_B3_IND"} \subseteq Commands
    BY DEF Commands
  <1>9. "CONNECT_CONF" \in Cmds /\ "CONNECT_B3_CONF" \in Cmds /\ "DISCONNECT_B3_CONF" \in Cmds
        /\ "DISCONNECT_CONF" \in Cmds /\ 0 \in {0, 1} /\ 1 \in {0, 1}
    OBVIOUS
  <1> HIDE DEF m, s, p, C, Cmds
  <1>10. CASE TakeConnectReq(m)
    <2>1. PICK o \in Plcis, ok \in BOOLEAN :
            toApp' = Tell(toApp, Say("CONNECT_CONF", o, 0, m.num, IF ok THEN 0 ELSE 1)) /\ b' = b
      BY <1>10 DEF TakeConnectReq
    <2>2. PICK a \in {0, 1} : toApp' = Tell(toApp, Say("CONNECT_CONF", o, 0, m.num, a))
      <3>1. CASE ok
        BY <2>1, <3>1
      <3>2. CASE ~ok
        BY <2>1, <3>2
      <3>3. QED
        BY <3>1, <3>2
    <2>3. unconf' = unconf /\ Datas(C, s, toApp, b, unconf)
      BY <1>6, <1>10 DEF TakeConnectReq
    <2>4. Datas(C, s, Tell(toApp, Say("CONNECT_CONF", o, 0, m.num, a)), b, unconf)
      BY <1>7, <1>9, <2>3
    <2>5. QED
      BY <2>1, <2>2, <2>3, <2>4, Zenon
  <1>11. CASE RefuseConnectReq(m)
    <2>1. PICK o \in Plcis : toApp' = Tell(toApp, Say("CONNECT_CONF", o, 0, m.num, 1))
      BY <1>11 DEF RefuseConnectReq
    <2>2. b' = b /\ unconf' = unconf
      BY <1>11 DEF RefuseConnectReq, Controller
    <2>3. Datas(C, s, toApp, b, unconf)
      BY <1>6, <1>11 DEF RefuseConnectReq
    <2>4. Datas(C, s, Tell(toApp, Say("CONNECT_CONF", o, 0, m.num, 1)), b, unconf)
      BY <1>7, <1>9, <2>3
    <2>5. QED
      BY <2>1, <2>2, <2>4, Zenon
  <1>12. CASE TakeConnectResp(m)
    <2>1. p \in Plcis /\ unconf' = unconf /\ Datas(C, s, toApp, b, unconf)
      BY <1>5, <1>6, <1>12 DEF TakeConnectResp
    <2>2. (toApp' = toApp /\ b' = b) \/ Release(p, toApp)
      BY <1>12 DEF TakeConnectResp, p
    <2>3. CASE toApp' = toApp /\ b' = b
      BY <2>1, <2>3
    <2>4. CASE Release(p, toApp)
      <3>1. Datas(C, s, toApp', b', unconf)
        BY <1>1, <2>1, <2>4, ReleaseDatas
      <3>2. QED
        BY <2>1, <3>1
    <2>5. QED
      BY <2>2, <2>3, <2>4
  <1>13. CASE TakeB3Req(m)
    <2>1. p \in Plcis /\ Datas(C, s, toApp, b, unconf)
      BY <1>5, <1>6, <1>13 DEF TakeB3Req
    <2>2. unconf' = unconf
      BY <1>13 DEF TakeB3Req
    <2>3. CASE d[p] = "active" /\ b[p] = "none"
      <3>1. /\ b' = [b EXCEPT ![p] = "out"]
            /\ toApp' = Tell(toApp, Say("CONNECT_B3_CONF", p, 1, m.num, 0))
        BY <1>13, <2>3 DEF TakeB3Req, p
      <3>2. b[p] \in Early /\ b'[p] \in Early /\ \A q \in Plcis : q # p => b'[q] = b[q]
        BY <1>1, <2>1, <2>3, <3>1, SetAt DEF Early
      <3>3. Datas(C, s, toApp, b', unconf)
        BY <2>1, <3>2, SetDatas
      <3>4. Datas(C, s, Tell(toApp, Say("CONNECT_B3_CONF", p, 1, m.num, 0)), b', unconf)
        BY <1>7, <1>9, <2>1, <3>3
      <3>5. QED
        BY <2>2, <3>1, <3>4, Zenon
    <2>4. CASE ~(d[p] = "active" /\ b[p] = "none")
      <3>1. b' = b /\ \E x \in {0, 1} :
              toApp' = Tell(toApp, Say("CONNECT_B3_CONF", p, x, m.num, 1))
        BY <1>13, <2>4 DEF TakeB3Req, p
      <3>2. \A x \in {0, 1} :
              Datas(C, s, Tell(toApp, Say("CONNECT_B3_CONF", p, x, m.num, 1)), b, unconf)
        BY <1>7, <1>9, <2>1
      <3>3. QED
        BY <2>2, <3>1, <3>2, Zenon
    <2>5. QED
      BY <2>3, <2>4
  <1>14. CASE TakeB3Resp(m)
    <2>1. p \in Plcis /\ Datas(C, s, toApp, b, unconf)
      BY <1>5, <1>6, <1>14 DEF TakeB3Resp
    <2>2. toApp' = toApp /\ unconf' = unconf
      BY <1>14 DEF TakeB3Resp
    <2>3. b' = [b EXCEPT ![p] = IF @ = "in" THEN "agreed" ELSE @]
      BY <1>14 DEF TakeB3Resp, p
    <2>4. CASE b[p] = "in"
      <3>1. b' = [b EXCEPT ![p] = "agreed"]
        BY <2>3, <2>4
      <3>2. b[p] \in Early /\ b'[p] \in Early /\ \A q \in Plcis : q # p => b'[q] = b[q]
        BY <1>1, <2>1, <2>4, <3>1, SetAt DEF Early
      <3>3. Datas(C, s, toApp, b', unconf)
        BY <2>1, <3>2, SetDatas
      <3>4. QED
        BY <2>2, <3>3
    <2>5. CASE b[p] # "in"
      <3>1. b' = b
        BY <1>1, <2>3, <2>5
      <3>2. QED
        BY <2>1, <2>2, <3>1
    <2>6. QED
      BY <2>4, <2>5
  <1>15. CASE TakeDisconnectB3Req(m)
    <2>1. p \in Plcis /\ Datas(C, s, toApp, b, unconf)
      BY <1>5, <1>6, <1>15 DEF TakeDisconnectB3Req
    <2>2. unconf' = unconf
      BY <1>15 DEF TakeDisconnectB3Req
    <2>3. CASE m.n = 1 /\ b[p] \notin {"none", "clearing"}
      <3> DEFINE w == Ind("DISCONNECT_B3_IND", p, 1)
                 q == Tell(toApp, Say("DISCONNECT_B3_CONF", p, 1, m.num, 0))
      <3>1. b' = [b EXCEPT ![p] = "clearing"] /\ toApp' = Tell(q, w)
        BY <1>15, <2>3 DEF TakeDisconnectB3Req, p
      <3>2. Datas(C, s, q, b, unconf)
        BY <1>7, <1>9, <2>1
      <3>3. w \in Up /\ w.cmd = "DISCONNECT_B3_IND" /\ w.plci = p
        BY <1>8, <2>1, IndUp
      <3> HIDE DEF w, q
      <3>4. b'[p] = "clearing" /\ \A o \in Plcis : o # p => b'[o] = b[o]
        BY <1>1, <2>1, <3>1, SetAt
      <3>5. /\ w \in Message /\ w.plci \in Plcis /\ w.cmd = "DISCONNECT_B3_IND"
            /\ toApp' = Tell(q, w) /\ b'[w.plci] = "clearing"
            /\ \A o \in Plcis : o # w.plci => b'[o] = b[o]
        BY <3>1, <3>3, <3>4, UpMessage
      <3>6. Datas(C, s, toApp', b', unconf)
        BY <3>2, <3>5, ClearDatas
      <3>7. QED
        BY <2>2, <3>6
    <2>4. CASE ~(m.n = 1 /\ b[p] \notin {"none", "clearing"})
      <3>1. b' = b /\ toApp' = Tell(toApp, Say("DISCONNECT_B3_CONF", p, m.n, m.num, 1))
        BY <1>15, <2>4 DEF TakeDisconnectB3Req, p
      <3>2. Datas(C, s, Tell(toApp, Say("DISCONNECT_B3_CONF", p, m.n, m.num, 1)), b, unconf)
        BY <1>5, <1>7, <1>9, <2>1
      <3>3. QED
        BY <2>2, <3>1, <3>2, Zenon
    <2>5. QED
      BY <2>3, <2>4
  <1>16. CASE TakeDisconnectB3Resp(m)
    <2>1. m.cmd = "DISCONNECT_B3_RESP" /\ p \in Plcis
      BY <1>5, <1>16 DEF TakeDisconnectB3Resp
    <2>2. b' = [b EXCEPT ![p] = "none"] /\ unconf' = [unconf EXCEPT ![p] = <<>>]
      BY <1>16 DEF TakeDisconnectB3Resp, p
    <2>3. /\ b'[p] = "none" /\ \A q \in Plcis : q # p => b'[q] = b[q]
          /\ unconf'[p] = <<>> /\ \A q \in Plcis : q # p => unconf'[q] = unconf[q]
      BY <1>1, <2>1, <2>2, SetAt
    <2>4. Head(toCapi).cmd = "DISCONNECT_B3_RESP" /\ p = Head(toCapi).plci /\ s = Tail(toCapi)
      BY <1>8, <2>1
    <2>5. Datas(C, s, toApp, b', unconf')
      <3> DEFINE bb == b'
                 uu == unconf'
      <3>1. bb[p] = "none" /\ Elsewhere(b, bb, p) /\ uu[p] = <<>> /\ Elsewhere(unconf, uu, p)
        BY <2>3 DEF Elsewhere
      <3>2. p \in Plcis
        BY <2>1
      <3> HIDE DEF bb, uu
      <3>3. Datas(C, s, toApp, bb, uu)
        BY <1>2, <1>4, <2>4, <3>1, <3>2, BackDatas
      <3>4. QED
        BY <3>3 DEF bb, uu
    <2>6. CASE d[p] = "releasing"
      <3> DEFINE w == Ind("DISCONNECT_IND", p, 0)
      <3>1. toApp' = Tell(toApp, w)
        BY <1>16, <2>6 DEF TakeDisconnectB3Resp, p
      <3>2. w \in Up /\ w.cmd = "DISCONNECT_IND"
        BY <1>8, <2>1, IndUp
      <3> HIDE DEF w
      <3>3. w \in Message /\ w.cmd \notin {"CONNECT_B3_ACTIVE_IND", "DATA_B3_CONF"}
        BY <3>2, UpMessage
      <3>4. QED
        BY <2>5, <3>1, <3>3, TellDatas
    <2>7. CASE d[p] # "releasing"
      <3>1. toApp' = toApp
        BY <1>16, <2>7 DEF TakeDisconnectB3Resp, p
      <3>2. QED
        BY <2>5, <3>1
    <2>8. QED
      BY <2>6, <2>7
  <1>17. CASE TakeDisconnectReq(m)
    <2>1. p \in Plcis /\ unconf' = unconf /\ Datas(C, s, toApp, b, unconf)
      BY <1>5, <1>6, <1>17 DEF TakeDisconnectReq
    <2>2. PICK a \in {0, 1} :
            \/ Release(p, Tell(toApp, Say("DISCONNECT_CONF", p, 0, m.num, a)))
            \/ toApp' = Tell(toApp, Say("DISCONNECT_CONF", p, 0, m.num, a)) /\ b' = b
      <3>1. CASE InUse(p)
        BY <1>17, <3>1 DEF TakeDisconnectReq, p
      <3>2. CASE ~InUse(p)
        BY <1>17, <3>2 DEF TakeDisconnectReq, p
      <3>3. QED
        BY <3>1, <3>2
    <2> DEFINE q == Tell(toApp, Say("DISCONNECT_CONF", p, 0, m.num, a))
    <2>3. Datas(C, s, q, b, unconf)
      BY <1>7, <1>9, <2>1
    <2>4. Release(p, q) \/ (toApp' = q /\ b' = b)
      BY <2>2
    <2> HIDE DEF q
    <2>5. CASE Release(p, q)
      <3>1. Datas(C, s, toApp', b', unconf)
        BY <1>1, <2>1, <2>3, <2>5, ReleaseDatas
      <3>2. QED
        BY <2>1, <3>1
    <2>6. CASE toApp' = q /\ b' = b
      BY <2>1, <2>3, <2>6
    <2>7. QED
      BY <2>4, <2>5, <2>6
  <1>18. CASE TakeDisconnectResp(m)
    <2>1. toApp' = toApp /\ b' = b /\ unconf' = unconf /\ m.cmd # "DATA_B3_REQ"
      BY <1>18 DEF TakeDisconnectResp
    <2>2. QED
      BY <1>6, <2>1
  <1>19. CASE TakeData(m)
    <2>1. m.cmd = "DATA_B3_REQ" /\ p \in Plcis /\ toApp' = toApp /\ b' = b
      BY <1>5, <1>19 DEF TakeData
    <2>2. unconf' = [unconf EXCEPT ![p] = IF b[p] = "up" THEN Append(@, m.arg) ELSE @]
      BY <1>19 DEF TakeData, p
    <2>3. \A q \in Plcis : q # p => unconf'[q] = unconf[q]
      BY <1>1, <2>1, <2>2
    <2>4. b[p] = "up" => unconf'[p] = Append(unconf[p], m.arg)
      BY <1>1, <2>1, <2>2
    <2>5. b[p] # "up" => unconf'[p] = unconf[p]
      BY <1>1, <2>1, <2>2
    <2>6. Datas(C, s, toApp, b, unconf')
      <3> DEFINE uu == unconf'
      <3>1. (b[p] # "up" => uu[p] = unconf[p]) /\ Elsewhere(unconf, uu, p)
        BY <2>3, <2>5 DEF Elsewhere
      <3>2. b[p] = "up" => uu[p] = Append(unconf[p], m.arg)
        BY <2>4, Zenon
      <3>3. /\ m = Head(toCapi) /\ s = Tail(toCapi) /\ p = m.plci /\ p \in Plcis
            /\ m.cmd = "DATA_B3_REQ"
        BY <1>8, <2>1
      <3> HIDE DEF uu
      <3>4. Datas(C, s, toApp, b, uu)
        BY <1>2, <1>4, <3>1, <3>2, <3>3, TakeDatas
      <3>5. QED
        BY <3>4 DEF uu
    <2>7. QED
      BY <2>1, <2>6
  <1>20. QED
    BY <1>3, <1>10, <1>11, <1>12, <1>13, <1>14, <1>15, <1>16, <1>17, <1>18, <1>19

LEMMA NextDatas ==
  ASSUME TypeInv, LineInv, LinkInv, DataInv, [Next]_vars PROVE DataInv'
  <1>1. CASE Connect \/ Decide \/ Disconnect \/ Send
    BY <1>1, LibraryDatas
  <1>2. CASE Inject
    BY <1>2, InjectDatas
  <1>3. CASE Take
    BY <1>3, TakenDatas
  <1>4. CASE Ring \/ Digits \/ Answered \/ LinkAsked \/ LinkUp \/ ConfirmData \/ DataOrReset
             \/ (\E p \in Plcis : Hangup(p) \/ LinkDown(p))
    BY <1>4, NetworkDatas
  <1>5. CASE UNCHANGED vars
    BY <1>5 DEF vars, DataInv
  <1>6. QED
    BY <1>1, <1>2, <1>3, <1>4, <1>5 DEF Next

LEMMA DatasAlways == Spec /\ []InRound => [](TypeInv /\ LineInv /\ LinkInv /\ DataInv)
  <1>1. Init => DataInv
    BY InitDatas
  <1>2. TypeInv /\ LineInv /\ LinkInv /\ DataInv /\ [Next]_vars => DataInv'
    BY NextDatas
  <1>3. QED
    BY <1>1, <1>2, LinksAlways, PTL DEF Spec

(* A confirmation finds its block, for any window that is not larger than  *)
(* the number of handles: capiconn_send never gives two unconfirmed blocks *)
(* of a link the same handle, although the handles wrap around and a link  *)
(* may be cleared and set up again with data under way, and the controller *)
(* has nothing to confirm that capi_del_ack would not find in the queue.   *)
THEOREM ConfirmsFound == Spec /\ []InRound => []ConfirmsFindData
  <1>1. ASSUME LineInv, DataInv PROVE ConfirmsFindData
    <2>1. ASSUME NEW i \in DOMAIN card.conns, card.conns[i].nccip # NoNcci,
                 card.conns[i].nccip.state = "ACTIVE"
          PROVE  /\ Len(card.conns[i].nccip.ackqueue) <= Window
                 /\ IsInjective(card.conns[i].nccip.ackqueue)
                 /\ Range(unconf[card.conns[i].plci]) \subseteq
                      Range(card.conns[i].nccip.ackqueue)
      <3> DEFINE c == card.conns[i]
      <3>1. Fit(card.conns, card.msgid) /\ card.conns \in Seq(Connection)
        BY <1>1, LineSeq DEF LineInv
      <3>2. c.plci # 0 /\ c \in Connection
        BY <2>1, <3>1 DEF Fit, ConnFits
      <3>3. c.plci \in Plcis
        BY <3>2 DEF Connection
      <3>4. ~Fresh(c) /\ c.nccip # NoNcci
        BY <2>1 DEF Fresh, Live
      <3>5. Holds(c, toCapi, toApp, b, unconf)
        BY <1>1, <2>1 DEF DataInv, Datas
      <3> HIDE DEF c
      <3>6. Carries(c.nccip.ackqueue, c.nccip.datahandle, c.plci, toCapi, toApp, b[c.plci],
                    unconf[c.plci])
        BY <3>3, <3>4, <3>5 DEF Holds
      <3>7. /\ Len(c.nccip.ackqueue) <= Window /\ IsInjective(c.nccip.ackqueue)
            /\ Range(unconf[c.plci]) \subseteq Range(c.nccip.ackqueue)
        BY <3>6, CarriesSound
      <3>8. QED
        BY <3>7 DEF c
    <2>2. QED
      BY <2>1 DEF ConfirmsFindData, Conns
  <1>2. LineInv /\ DataInv => ConfirmsFindData
    BY <1>1
  <1>3. QED
    BY <1>2, DatasAlways, PTL
=============================================================================
