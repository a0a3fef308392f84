--------------------------- MODULE Callout_proofs ---------------------------
(***************************************************************************)
(* The callout list stays in the order of its seconds, and so the loop     *)
(* oversleeps no callout by a full second, for every set of timers, every  *)
(* resolution of the clock and every length of the list.                   *)
(***************************************************************************)
EXTENDS Callout, SequenceTheorems, TLAPS

Sorted(s) == \A i, j \in 1 .. Len(s) :
                i <= j => tv_sec(s[i].due) <= tv_sec(s[j].due)

(* While the loop sleeps, the limit is the time of the head or is over.    *)
Asleep == pc = "select" => IF callout = <<>> THEN limit = Never
                           ELSE limit # Never /\ (limit <= now \/ limit = callout[1].due)

IInv == /\ callout \in Seq(Entry) /\ now \in Nat /\ limit \in Nat /\ now > 0
        /\ \A i \in 1 .. Len(callout) : callout[i].due > 0
        /\ Sorted(callout) /\ Asleep

-----------------------------------------------------------------------------
(* Well-founded relations, as an instance of their own: the bags of Callout *)
(* bring in the same module along another way.                             *)
WF == INSTANCE WellFoundedInduction

(* Every non-empty set of natural numbers has a least element (used for    *)
(* the first entry that is not due before a new one).                      *)
LEMMA LeastElement ==
  ASSUME NEW T, T \subseteq Nat, T # {}
  PROVE  \E x \in T : \A y \in T : x <= y
  <1> DEFINE R == WF!OpToRel(<, Nat)
  <1>1. WF!IsWellFoundedOn(R, Nat)
    BY WF!NatLessThanWellFounded, Zenon
  <1> HIDE DEF R
  <1>2. PICK x \in T : \A y \in T : ~(<<y, x>> \in R)
    BY <1>1, WF!WFMin, ZenonT(30)
  <1>3. \A y \in T : y \in Nat /\ x \in Nat => ~(y < x)
    BY <1>2, ZenonT(30) DEF R, WF!OpToRel
  <1>4. QED
    BY <1>3

(* Seconds are numbers, and a time is less than a second after the start   *)
(* of its own second (tv_sec and tv_usec split it).                        *)
LEMMA SecFacts ==
  ASSUME NEW t \in Nat
  PROVE  /\ tv_sec(t) \in Nat
         /\ tv_sec(t) * USEC <= t
         /\ t < tv_sec(t) * USEC + USEC
  BY ClockAssumption DEF tv_sec

(* A non-empty set of positions has a least one.                           *)
LEMMA LeastPosition ==
  ASSUME NEW T, T \subseteq Nat, T # {}
  PROVE  /\ Min(T) \in T
         /\ \A y \in T : Min(T) <= y
  BY LeastElement DEF Min

(* The list with one entry linked in at position k.                        *)
LEMMA InsertAtFacts ==
  ASSUME NEW s \in Seq(Entry), NEW e \in Entry, NEW k \in 1 .. Len(s) + 1
  PROVE  /\ InsertAt(s, k, e) \in Seq(Entry)
         /\ Len(InsertAt(s, k, e)) = Len(s) + 1
         /\ \A i \in 1 .. Len(s) + 1 :
              InsertAt(s, k, e)[i] = IF i < k THEN s[i] ELSE IF i = k THEN e ELSE s[i - 1]
<1> DEFINE a == SubSeq(s, 1, k - 1)
           b == SubSeq(s, k, Len(s))
           ae == a \o <<e>>
<1>1. /\ a \in Seq(Entry) /\ Len(a) = k - 1
      /\ \A i \in 1 .. k - 1 : a[i] = s[i]
  <2>1. \A i \in 1 .. k - 1 : s[i] \in Entry
    OBVIOUS
  <2> QED
    BY <2>1, SubSeqProperties
<1>2. /\ b \in Seq(Entry) /\ Len(b) = Len(s) - k + 1
      /\ \A i \in 1 .. Len(s) - k + 1 : b[i] = s[k + i - 1]
  <2>1. \A i \in k .. Len(s) : s[i] \in Entry
    OBVIOUS
  <2>2. k \in Int /\ Len(s) \in Int
    OBVIOUS
  <2> QED
    BY <2>1, <2>2, SubSeqProperties
<1>3. <<e>> \in Seq(Entry) /\ Len(<<e>>) = 1 /\ <<e>>[1] = e
  OBVIOUS
<1> HIDE DEF a, b
<1>4. /\ ae \in Seq(Entry) /\ Len(ae) = k
      /\ \A i \in 1 .. k : ae[i] = IF i < k THEN s[i] ELSE e
  BY <1>1, <1>3, ConcatProperties
<1> HIDE DEF ae
<1>5. /\ ae \o b \in Seq(Entry) /\ Len(ae \o b) = Len(s) + 1
      /\ \A i \in 1 .. Len(s) + 1 :
           (ae \o b)[i] = IF i <= k THEN ae[i] ELSE b[i - k]
  BY <1>2, <1>4, ConcatProperties
<1>6. InsertAt(s, k, e) = ae \o b
  BY DEF InsertAt, ae, a, b
<1>7. \A i \in 1 .. Len(s) + 1 : i > k => b[i - k] = s[i - 1]
  BY <1>2
<1> QED
  BY <1>4, <1>5, <1>6, <1>7

(* timeout: the list stays in order, although the microseconds of the new  *)
(* entry are compared with the seconds of the old one.                     *)
LEMMA InsertSorted ==
  ASSUME NEW s \in Seq(Entry), Sorted(s), NEW e \in Entry, e.due > 0,
         \A i \in 1 .. Len(s) : s[i].due > 0
  PROVE  /\ Insert(s, e) \in Seq(Entry)
         /\ \A i \in 1 .. Len(Insert(s, e)) : Insert(s, e)[i].due > 0
         /\ Sorted(Insert(s, e))
<1> DEFINE I == {i \in 1 .. Len(s) : Before(e, s[i])}
           k == IF I # {} THEN Min(I) ELSE Len(s) + 1
           t == InsertAt(s, k, e)
<1>1. /\ k \in 1 .. Len(s) + 1
      /\ \A i \in 1 .. k - 1 : ~ Before(e, s[i])
      /\ k <= Len(s) => Before(e, s[k])
  <2>1. CASE I = {}
    BY <2>1
  <2>2. CASE I # {}
    <3>1. I \subseteq Nat
      OBVIOUS
    <3>2. Min(I) \in I /\ \A y \in I : Min(I) <= y
      BY <2>2, <3>1, LeastPosition
    <3>3. k = Min(I)
      BY <2>2
    <3> HIDE DEF k
    <3>4. k \in 1 .. Len(s) /\ Before(e, s[k])
      BY <3>2, <3>3
    <3>5. ASSUME NEW i \in 1 .. k - 1, Before(e, s[i]) PROVE FALSE
      <4>1. i \in I
        BY <3>4, <3>5
      <4> QED
        BY <3>2, <3>3, <3>4, <4>1
    <3> QED
      BY <3>4, <3>5
  <2> QED
    BY <2>1, <2>2
<1>2. Insert(s, e) = t
  BY <1>1 DEF Insert, SelectInSeq
<1> HIDE DEF k
<1>3. /\ t \in Seq(Entry) /\ Len(t) = Len(s) + 1
      /\ \A i \in 1 .. Len(s) + 1 :
           t[i] = IF i < k THEN s[i] ELSE IF i = k THEN e ELSE s[i - 1]
  BY <1>1, InsertAtFacts
<1> HIDE DEF t
<1>4. /\ e.due \in Nat /\ tv_sec(e.due) \in Nat
      /\ \A i \in 1 .. Len(s) : s[i].due \in Nat /\ tv_sec(s[i].due) \in Nat
  <2>1. \A x \in Entry : x.due \in Nat
    BY DEF Entry
  <2>2. \A i \in 1 .. Len(s) : s[i] \in Entry
    OBVIOUS
  <2> QED
    BY <2>1, <2>2, SecFacts
<1>5. \A i \in 1 .. k - 1 : tv_sec(s[i].due) <= tv_sec(e.due)
  BY <1>1, <1>4 DEF Before
<1>6. \A j \in k .. Len(s) : tv_sec(e.due) <= tv_sec(s[j].due)
  <2>1. SUFFICES ASSUME NEW j \in k .. Len(s) PROVE tv_sec(e.due) <= tv_sec(s[j].due)
    OBVIOUS
  <2>2. k \in 1 .. Len(s) /\ j \in 1 .. Len(s) /\ k <= j
    BY <1>1
  <2>3. tv_sec(e.due) <= tv_sec(s[k].due)
    BY <1>1, <1>4, <2>2 DEF Before
  <2>4. tv_sec(s[k].due) <= tv_sec(s[j].due)
    BY <2>2 DEF Sorted
  <2> QED
    BY <1>4, <2>2, <2>3, <2>4
<1>7. Sorted(t)
  <2>1. SUFFICES ASSUME NEW i \in 1 .. Len(s) + 1, NEW j \in 1 .. Len(s) + 1, i <= j
                 PROVE  tv_sec(t[i].due) <= tv_sec(t[j].due)
    BY <1>3 DEF Sorted
  <2>2. CASE j < k
    BY <2>1, <2>2, <1>1, <1>3 DEF Sorted
  <2>3. CASE i > k
    <3>1. i - 1 \in 1 .. Len(s) /\ j - 1 \in 1 .. Len(s) /\ i - 1 <= j - 1
      BY <2>1, <2>3, <1>1
    <3>2. t[i] = s[i - 1] /\ t[j] = s[j - 1]
      BY <2>1, <2>3, <1>1, <1>3
    <3> QED
      BY <3>1, <3>2 DEF Sorted
  <2>4. CASE i < k /\ j = k
    BY <2>4, <1>1, <1>3, <1>5
  <2>5. CASE i = k /\ j > k
    <3>1. j - 1 \in k .. Len(s)
      BY <2>5, <1>1
    <3> QED
      BY <2>5, <3>1, <1>1, <1>3, <1>6
  <2>6. CASE i = k /\ j = k
    BY <2>6, <1>1, <1>3, <1>4
  <2>7. CASE i < k /\ j > k
    <3>1. j - 1 \in 1 .. Len(s) /\ i \in 1 .. Len(s) /\ i <= j - 1
      BY <2>7, <1>1
    <3> QED
      BY <2>7, <3>1, <1>1, <1>3 DEF Sorted
  <2> QED
    BY <2>2, <2>3, <2>4, <2>5, <2>6, <2>7, <1>1
<1>8. \A i \in 1 .. Len(t) : t[i].due > 0
  <2>1. SUFFICES ASSUME NEW i \in 1 .. Len(s) + 1 PROVE t[i].due > 0
    BY <1>3
  <2>2. CASE i > k
    <3>1. i - 1 \in 1 .. Len(s)
      BY <2>2, <1>1
    <3> QED
      BY <2>2, <3>1, <1>1, <1>3
  <2> QED
    BY <2>2, <1>1, <1>3
<1> QED
  BY <1>2, <1>3, <1>7, <1>8

(* untimeout and calltimeout: removing one entry keeps the order.          *)
LEMMA RemoveAtSorted ==
  ASSUME NEW s \in Seq(Entry), Sorted(s), NEW k \in 1 .. Len(s),
         \A i \in 1 .. Len(s) : s[i].due > 0
  PROVE  /\ RemoveAt(s, k) \in Seq(Entry)
         /\ \A i \in 1 .. Len(RemoveAt(s, k)) : RemoveAt(s, k)[i].due > 0
         /\ Sorted(RemoveAt(s, k))
<1> DEFINE a == SubSeq(s, 1, k - 1)
           b == SubSeq(s, k + 1, Len(s))
           t == a \o b
<1>0. Len(s) \in Nat /\ \A i \in 1 .. Len(s) : s[i] \in Entry
  OBVIOUS
<1>1. /\ a \in Seq(Entry) /\ Len(a) = k - 1
      /\ \A i \in 1 .. k - 1 : a[i] = s[i]
  <2>1. \A i \in 1 .. k - 1 : s[i] \in Entry
    BY <1>0
  <2> QED
    BY <2>1, SubSeqProperties
<1>2. /\ b \in Seq(Entry) /\ Len(b) = Len(s) - k
      /\ \A i \in 1 .. Len(s) - k : b[i] = s[k + i]
  <2>1. \A i \in k + 1 .. Len(s) : s[i] \in Entry
    BY <1>0
  <2>2. k + 1 \in Int /\ Len(s) \in Int
    BY <1>0
  <2> QED
    BY <2>1, <2>2, SubSeqProperties
<1> HIDE DEF a, b
<1>3. /\ t \in Seq(Entry) /\ Len(t) = Len(s) - 1
      /\ \A i \in 1 .. Len(s) - 1 : t[i] = IF i < k THEN a[i] ELSE b[i - (k - 1)]
  <2>1. /\ t \in Seq(Entry) /\ Len(t) = Len(a) + Len(b)
        /\ \A i \in 1 .. Len(a) + Len(b) :
             t[i] = IF i <= Len(a) THEN a[i] ELSE b[i - Len(a)]
    BY <1>1, <1>2, ConcatProperties
  <2> QED
    BY <1>0, <1>1, <1>2, <2>1
<1>4. \A i \in 1 .. Len(s) - 1 : t[i] = IF i < k THEN s[i] ELSE s[i + 1]
  BY <1>0, <1>1, <1>2, <1>3
<1>5. RemoveAt(s, k) = t
  BY DEF RemoveAt, a, b
<1> HIDE DEF t
<1>6. Sorted(t)
  <2>1. SUFFICES ASSUME NEW i \in 1 .. Len(s) - 1, NEW j \in 1 .. Len(s) - 1, i <= j
                 PROVE  tv_sec(t[i].due) <= tv_sec(t[j].due)
    BY <1>3 DEF Sorted
  <2>2. PICK i1 \in 1 .. Len(s) : t[i] = s[i1] /\ i1 = IF i < k THEN i ELSE i + 1
    BY <1>0, <1>4
  <2>3. PICK j1 \in 1 .. Len(s) : t[j] = s[j1] /\ j1 = IF j < k THEN j ELSE j + 1
    BY <1>0, <1>4
  <2>4. i1 <= j1
    BY <2>1, <2>2, <2>3
  <2> QED
    BY <2>2, <2>3, <2>4 DEF Sorted
<1>7. \A i \in 1 .. Len(t) : t[i].due > 0
  BY <1>0, <1>3, <1>4
<1> QED
  BY <1>3, <1>5, <1>6, <1>7

(* The first match, when there is one, is a position of the list.          *)
LEMMA UntimeoutSorted ==
  ASSUME NEW s \in Seq(Entry), Sorted(s), NEW w,
         \A i \in 1 .. Len(s) : s[i].due > 0
  PROVE  /\ Without(s, w) \in Seq(Entry)
         /\ \A i \in 1 .. Len(Without(s, w)) : Without(s, w)[i].due > 0
         /\ Sorted(Without(s, w))
<1> DEFINE I == {i \in 1 .. Len(s) : s[i].who = w}
           r == Without(s, w)
<1>1. CASE I = {}
  <2>1. r = s
    BY <1>1 DEF Without, RemoveFirstMatch
  <2> QED
    BY <2>1
<1>2. CASE I # {}
  <2>1. r = RemoveAt(s, Min(I))
    BY <1>2 DEF Without, RemoveFirstMatch, SelectInSeq
  <2>2. I \subseteq Nat
    OBVIOUS
  <2>3. Min(I) \in 1 .. Len(s)
    BY <1>2, <2>2, LeastPosition
  <2> HIDE DEF r
  <2>4. /\ r \in Seq(Entry)
        /\ \A i \in 1 .. Len(r) : r[i].due > 0
        /\ Sorted(r)
    BY <2>1, <2>3, RemoveAtSorted
  <2> QED
    BY <2>4 DEF r
<1> QED
  BY <1>1, <1>2

(* calltimeout takes the head off the list.                                *)
LEMMA TailSorted ==
  ASSUME NEW s \in Seq(Entry), Sorted(s), s # <<>>,
         \A i \in 1 .. Len(s) : s[i].due > 0
  PROVE  /\ Tail(s) \in Seq(Entry)
         /\ \A i \in 1 .. Len(Tail(s)) : Tail(s)[i].due > 0
         /\ Sorted(Tail(s))
<1>1. /\ Tail(s) \in Seq(Entry) /\ Len(Tail(s)) = Len(s) - 1
      /\ \A i \in 1 .. Len(Tail(s)) : Tail(s)[i] = s[i + 1]
  BY HeadTailProperties
<1>2. Len(s) \in Nat
  OBVIOUS
<1> DEFINE t == Tail(s)
<1> HIDE DEF t
<1>3. \A i \in 1 .. Len(t) : i + 1 \in 1 .. Len(s) /\ t[i] = s[i + 1]
  BY <1>1, <1>2 DEF t
<1>4. Len(t) \in Nat
  BY <1>1, <1>2 DEF t
<1>5. Sorted(t)
  <2>1. SUFFICES ASSUME NEW i \in 1 .. Len(t), NEW j \in 1 .. Len(t), i <= j
                 PROVE  tv_sec(t[i].due) <= tv_sec(t[j].due)
    BY DEF Sorted
  <2>2. i + 1 <= j + 1
    BY <2>1, <1>4
  <2> QED
    BY <1>3, <2>2 DEF Sorted
<1> QED
  BY <1>1, <1>3, <1>5 DEF t

-----------------------------------------------------------------------------
(* The start of the program, before anything is scheduled.                 *)
LEMMA InitIInv == Init => IInv
<1> SUFFICES ASSUME Init PROVE IInv
  OBVIOUS
<1>1. callout = <<>> /\ now = Start /\ pc = "input" /\ limit = 0
  BY DEF Init, Never
<1>2. Start > 0
  BY ClockAssumption
<1>3. callout \in Seq(Entry) /\ Len(callout) = 0
  BY <1>1
<1> QED
  BY <1>1, <1>2, <1>3, ClockAssumption DEF IInv, Sorted, Asleep

(* One step of the loop, of a handler or of the clock keeps the invariant. *)
LEMMA StepIInv == IInv /\ [Next]_vars => IInv'
<1> SUFFICES ASSUME IInv, [Next]_vars PROVE IInv'
  OBVIOUS
<1>0. /\ callout \in Seq(Entry) /\ now \in Nat /\ limit \in Nat /\ now > 0
      /\ \A i \in 1 .. Len(callout) : callout[i].due > 0
      /\ Sorted(callout) /\ Asleep
  BY DEF IInv
<1>1. CASE \E w \in Who, d \in Delays : timeout(w, d)
  <2>1. PICK w \in Who, d \in Delays : timeout(w, d)
    BY <1>1
  <2> DEFINE e == [who |-> w, due |-> now + d * USEC]
  <2>2. e \in Entry /\ e.due > 0
    BY <1>0, ClockAssumption DEF Entry
  <2>3. callout' = Insert(callout, e) /\ now' = now /\ limit' = limit /\ pc' # "select"
    BY <2>1 DEF timeout, Running
  <2> HIDE DEF e
  <2>4. /\ callout' \in Seq(Entry) /\ Sorted(callout')
        /\ \A i \in 1 .. Len(callout') : callout'[i].due > 0
    BY <1>0, <2>2, <2>3, InsertSorted
  <2> QED
    BY <1>0, <2>3, <2>4 DEF IInv, Asleep, Sorted
<1>2. CASE \E w \in Who : untimeout(w)
  <2>1. PICK w \in Who : untimeout(w)
    BY <1>2
  <2>2. /\ callout' = Without(callout, w)
        /\ now' = now /\ limit' = limit /\ pc' # "select"
    BY <2>1 DEF untimeout, Running
  <2>3. /\ callout' \in Seq(Entry) /\ Sorted(callout')
        /\ \A i \in 1 .. Len(callout') : callout'[i].due > 0
    BY <1>0, <2>2, UntimeoutSorted
  <2> QED
    BY <1>0, <2>2, <2>3 DEF IInv, Asleep, Sorted
<1>3. CASE calltimeout
  <2>1. now' = now /\ limit' = limit /\ pc' # "select"
    BY <1>3 DEF calltimeout
  <2>2. /\ callout' \in Seq(Entry) /\ Sorted(callout')
        /\ \A i \in 1 .. Len(callout') : callout'[i].due > 0
    <3>1. CASE callout' = callout
      BY <1>0, <3>1
    <3>2. CASE callout # <<>> /\ callout' = Tail(callout)
      BY <1>0, <3>2, TailSorted
    <3> QED
      BY <1>3, <3>1, <3>2 DEF calltimeout
  <2> QED
    BY <1>0, <2>1, <2>2 DEF IInv, Asleep, Sorted
<1>4. CASE Select
  <2>1. callout' = callout /\ now' = now /\ limit' = timeleft
    BY <1>4 DEF Select
  <2>2. CASE callout = <<>>
    BY <1>0, <2>1, <2>2 DEF IInv, Asleep, Sorted, timeleft, Never
  <2>3. CASE callout # <<>>
    <3>1. Head(callout) = callout[1] /\ callout[1] \in Entry /\ callout[1].due > 0
      BY <1>0, <2>3
    <3>2. callout[1].due \in Nat
      BY <3>1 DEF Entry
    <3>3. limit' = IF callout[1].due > now THEN callout[1].due ELSE now
      BY <2>1, <2>3, <3>1 DEF timeleft
    <3> QED
      BY <1>0, <2>1, <2>3, <3>1, <3>2, <3>3 DEF IInv, Asleep, Sorted, Never
  <2> QED
    BY <2>2, <2>3
<1>5. CASE Return \/ Expire \/ Input
  <2>1. callout' = callout /\ now' = now /\ limit' = limit /\ pc' # "select"
    BY <1>5 DEF Return, Expire, Input
  <2> QED
    BY <1>0, <2>1 DEF IInv, Asleep, Sorted
<1>6. CASE Tick
  <2>1. callout' = callout /\ now' = now + 1 /\ limit' = limit /\ pc' = pc
    BY <1>6 DEF Tick
  <2> QED
    BY <1>0, <2>1 DEF IInv, Asleep, Sorted
<1>7. CASE UNCHANGED vars
  BY <1>0, <1>7 DEF IInv, Asleep, Sorted, vars
<1> QED
  BY <1>1, <1>2, <1>3, <1>4, <1>5, <1>6, <1>7 DEF Next

(* A sorted list and a limit taken from its head bound the oversleep.      *)
LEMMA SortedWakes == IInv => NeverOversleeps
<1> SUFFICES ASSUME IInv, pc = "select", NEW i \in 1 .. Len(callout),
                    now >= callout[i].due + USEC
             PROVE  TimeOver
  BY DEF NeverOversleeps
<1>1. callout \in Seq(Entry) /\ now \in Nat /\ limit \in Nat
  BY DEF IInv
<1>2. callout # <<>> /\ 1 \in 1 .. Len(callout) /\ 1 <= i
  BY <1>1
<1>3. limit # Never /\ (limit <= now \/ limit = callout[1].due)
  BY <1>2 DEF IInv, Asleep
<1>4. tv_sec(callout[1].due) <= tv_sec(callout[i].due)
  BY <1>1, <1>2 DEF IInv, Sorted
<1> DEFINE h == callout[1].due
           c == callout[i].due
<1>5. h \in Nat /\ c \in Nat
  <2>1. callout[1] \in Entry /\ callout[i] \in Entry
    BY <1>1, <1>2
  <2> QED
    BY <2>1 DEF Entry
<1>6. now >= c + USEC
  OBVIOUS
<1>7. h < c + USEC
  <2> HIDE DEF h, c
  <2>1. /\ tv_sec(h) \in Nat /\ tv_sec(c) \in Nat
        /\ h < tv_sec(h) * USEC + USEC /\ tv_sec(c) * USEC <= c
    BY <1>5, SecFacts
  <2>2. tv_sec(h) <= tv_sec(c)
    BY <1>4 DEF h, c
  <2>3. tv_sec(h) * USEC <= tv_sec(c) * USEC
    BY <2>1, <2>2, ClockAssumption
  <2>4. tv_sec(h) * USEC \in Nat /\ tv_sec(c) * USEC \in Nat /\ USEC \in Nat
    BY <2>1, ClockAssumption
  <2> QED
    BY <1>5, <2>1, <2>3, <2>4
<1>8. limit <= now
  BY <1>1, <1>3, <1>5, <1>6, <1>7, ClockAssumption
<1> QED
  BY <1>1, <1>3, <1>8 DEF TimeOver

(* The list is always in the order of its seconds.                         *)
THEOREM ListSorted == Spec => []SecondsSorted
<1>1. IInv => SecondsSorted
  BY DEF IInv, Sorted, SecondsSorted
<1> QED
  BY <1>1, InitIInv, StepIInv, PTL DEF Spec

(* select never sleeps on a callout that is a full second overdue: the     *)
(* wrong comparison in timeout costs less than a second, however long the  *)
(* list is and whatever the handlers schedule and cancel.                  *)
THEOREM NoOversleep == Spec => []NeverOversleeps
<1> QED
  BY SortedWakes, InitIInv, StepIInv, PTL DEF Spec

=============================================================================
