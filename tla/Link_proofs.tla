----------------------------- MODULE Link_proofs -----------------------------
(***************************************************************************)
(* The invariants of Link, proved for every number of links, every set of  *)
(* network protocols and endpoints, every limit and all ways ipppd can     *)
(* have been started.                                                      *)
(***************************************************************************)
EXTENDS Link, WellFoundedInduction, FiniteSetTheorems, TLAPS

(* What one link may be like between two calls.                            *)
LinkFits(t, i) ==
    LET l == t.lns[i]
        c == LcpOf(t, i)
    IN  /\ l.fd # "off" => l.openfails < MaxOpenFails
        /\ l.fd # "open" => l.phase = "WAIT" /\ ~l.auth /\ l.bundle_next = i
        /\ l.fd = "open" =>
             /\ i \in Devices(t) /\ l.lcp_unit \in Slots /\ c.inuse /\ c.unit = i
             /\ l.phase = "WAIT" => c.state = "CLOSED"
             /\ l.phase \in {"AUTHENTICATE", "CALLBACK", "NETWORK"} => c.upper
             /\ l.auth => c.upper
             /\ l.bundle_next # i => c.upper /\ l.phase \in {"NETWORK", "DEAD"}

(* ... and one LCP unit.                                                   *)
UnitFits(t, u) ==
    LET c == t.lcp[u]
    IN  /\ IF c.inuse
           THEN /\ c.unit \in Links
                /\ t.lns[c.unit].fd = "open" /\ t.lns[c.unit].lcp_unit = u
           ELSE c.state = "INITIAL"
        /\ c.upper => c.state = "OPENED"

(* No two links are followed by the same one.                              *)
Rings(t) == \A i, j \in Links : t.lns[i].bundle_next = t.lns[j].bundle_next => i = j

(* Without MP there are no bundles; a link that has a unit of a network    *)
(* protocol is up, and the unit is its own.                                *)
Unbundled(t) == /\ \A u \in Slots : t.lcp[u].disc = NoMp
                /\ \A i \in Links : t.lns[i].bundle_next = i
LinkOwns(t, i, p) ==
    t.lns[i].unit[p] # None =>
      /\ t.lns[i].fd = "open" /\ LcpOf(t, i).upper
      /\ t.lns[i].phase \in {"NETWORK", "DEAD"}
      /\ t.ncp[p][t.lns[i].unit[p]] = [inuse |-> TRUE, unit |-> i]
UnitOwned(t, p, u) ==
    t.ncp[p][u].inuse =>
      t.ncp[p][u].unit \in Links /\ t.lns[t.ncp[p][u].unit].unit[p] = u
OwnUnits(t) ==
    ~t.opt.mp => /\ Unbundled(t)
                 /\ \A i \in Links, p \in Protocols : LinkOwns(t, i, p)
                 /\ \A p \in Protocols, u \in Slots : UnitOwned(t, p, u)

(* As long as no device failed to open: links and LCP units have the same  *)
(* numbers, and neighbours in a ring lead to the same endpoint.            *)
SameNumbers(t) == \A i \in Links : t.lns[i].fd = "open" => t.lns[i].lcp_unit = i
SamePeers(t) ==
    \A i \in Links : t.lns[i].bundle_next # i =>
      LcpOf(t, i).disc # NoMp /\ LcpOf(t, t.lns[i].bundle_next).disc = LcpOf(t, i).disc

(* The tables between two calls; o: a device has failed to open.           *)
Fit(t, o) ==
    /\ t \in Tables /\ Rings(t) /\ OwnUnits(t)
    /\ \A i \in Links : LinkFits(t, i)
    /\ \A u \in Slots : UnitFits(t, u)
    /\ ~o => SameNumbers(t) /\ SamePeers(t)

(* A link marked as terminating has left LCP.                              *)
Ending(t, i) ==
    t.lns[i].fd = "open" /\ t.lns[i].phase = "TERMINATE" /\ LcpOf(t, i).upper
      => t.opt.cb = "rfc1570"

(* With one link, its unit is the first one and the only one with callouts *)
(* of lcp.c.                                                               *)
Alone(t) ==
    t.opt.numdev = 1 =>
      /\ ~t.failed
      /\ \A u \in Slots \ {0} : ~t.lcp[u].inuse /\ t.echo[u] = 0 /\ t.idle[u] = 0

(* ... and the flags of the two timers say what is pending.               *)
EchoFits(t) ==
    t.opt.numdev = 1 => /\ t.echo_running => t.echo[0] > 0
                        /\ t.opt.echo /\ t.lcp[0].upper => t.echo_running
IdleFits(t) ==
    t.opt.numdev = 1 => /\ t.idle_running => t.idle[0] > 0 /\ t.lcp[0].upper
                        /\ t.opt.idle /\ t.lcp[0].upper => t.idle_running

(* As long as no device failed to open, a device is closed only between    *)
(* the place of the loop that takes it down and the one that opens it.     *)
InTurn ==
    ~openfailed => \A i \in Devices(d) :
      /\ d.lns[i].fd # "off"
      /\ d.lns[i].fd = "shut" => at \in Sweeping + i + 1 .. Opening + i

LinkInv == /\ Fit(d, openfailed) /\ (\A i \in Links : Ending(d, i))
           /\ Alone(d) /\ EchoFits(d) /\ IdleFits(d)
           /\ openfailed \in BOOLEAN /\ at \in 0 .. 3 * d.opt.numdev - 1 /\ InTurn

-----------------------------------------------------------------------------
(* Every non-empty set of natural numbers has a least element (used for    *)
(* the first free unit and the first partner of a link).                   *)
LEMMA LeastElement ==
  ASSUME NEW T, T \subseteq Nat, T # {}
  PROVE  \E x \in T : \A y \in T : x <= y
  <1> DEFINE R == OpToRel(<, Nat)
  <1>1. IsWellFoundedOn(R, Nat)
    BY NatLessThanWellFounded, Zenon
  <1> HIDE DEF R
  <1>2. PICK x \in T : \A y \in T : ~(<<y, x>> \in R)
    BY <1>1, WFMin, ZenonT(30)
  <1>3. \A y \in T : y \in Nat /\ x \in Nat => ~(y < x)
    BY <1>2, ZenonT(30) DEF R, OpToRel
  <1>4. QED
    BY <1>3

(* The fields of the tables                                                *)

SameTimers(t, e) ==
    /\ e.echo = t.echo /\ e.idle = t.idle /\ e.conn = t.conn
    /\ e.echo_running = t.echo_running /\ e.idle_running = t.idle_running
    /\ e.echos_pending = t.echos_pending /\ e.failed = t.failed

LEMMA TableTypes ==
  ASSUME NEW t \in Tables
  PROVE  /\ t.opt \in OptionRecord /\ t.lns \in [Links -> LinkRecord]
         /\ t.lcp \in [Slots -> LcpRecord] /\ t.ncp \in [Protocols -> [Slots -> NcpRecord]]
         /\ t.echo \in [Slots -> Nat] /\ t.idle \in [Slots -> Nat] /\ t.conn \in [Links -> Nat]
         /\ t.echo_running \in BOOLEAN /\ t.idle_running \in BOOLEAN
         /\ t.echos_pending \in Nat /\ t.failed \in BOOLEAN
  BY DEF Tables

LEMMA SetLns ==
  ASSUME NEW t \in Tables, NEW L \in [Links -> LinkRecord]
  PROVE  LET e == [t EXCEPT !.lns = L]
         IN  /\ e \in Tables /\ e.lns = L /\ e.opt = t.opt /\ e.lcp = t.lcp /\ e.ncp = t.ncp
             /\ SameTimers(t, e)
  BY DEF Tables, SameTimers

LEMMA SetLcp ==
  ASSUME NEW t \in Tables, NEW C \in [Slots -> LcpRecord]
  PROVE  LET e == [t EXCEPT !.lcp = C]
         IN  /\ e \in Tables /\ e.lcp = C /\ e.opt = t.opt /\ e.lns = t.lns /\ e.ncp = t.ncp
             /\ SameTimers(t, e)
  BY DEF Tables, SameTimers

LEMMA SetNcp ==
  ASSUME NEW t \in Tables, NEW N \in [Protocols -> [Slots -> NcpRecord]]
  PROVE  LET e == [t EXCEPT !.ncp = N]
         IN  /\ e \in Tables /\ e.ncp = N /\ e.opt = t.opt /\ e.lns = t.lns /\ e.lcp = t.lcp
             /\ SameTimers(t, e)
  BY DEF Tables, SameTimers

LEMMA LinkTypes ==
  ASSUME NEW l \in LinkRecord
  PROVE  /\ l.phase \in Phases /\ l.fd \in {"shut", "off", "open"}
         /\ l.openfails \in 0 .. MaxOpenFails /\ l.bundle_next \in Links
         /\ l.lcp_unit \in Slots \cup {None} /\ l.auth \in BOOLEAN
         /\ l.unit \in [Protocols -> Slots \cup {None}]
  BY DEF LinkRecord

LEMMA UnitTypes ==
  ASSUME NEW c \in LcpRecord
  PROVE  /\ c.inuse \in BOOLEAN /\ c.unit \in Links \cup {None} /\ c.state \in LayerStates
         /\ c.upper \in BOOLEAN /\ c.disc \in Discs \cup {NoMp}
  BY DEF LcpRecord

(* -1 is no entry of a table.                                              *)
LEMMA NoneFacts == None \notin Slots /\ None \notin Links /\ Slots = Links
  BY DEF None, Slots, Links

(* Two links have different LCP units.                                     *)
LEMMA UnitsApart ==
  ASSUME NEW t, NEW i \in Links, NEW j \in Links, i # j, LinkFits(t, i), LinkFits(t, j),
         t.lns[i].fd = "open", t.lns[j].fd = "open"
  PROVE  t.lns[i].lcp_unit # t.lns[j].lcp_unit
  BY DEF LinkFits, LcpOf

(* Timers do not matter to links and units.                                *)
LEMMA FitOn ==
  ASSUME NEW o, NEW t, Fit(t, o), NEW e \in Tables, e.opt = t.opt, e.lns = t.lns,
         e.lcp = t.lcp, e.ncp = t.ncp
  PROVE  Fit(e, o) /\ \A i \in Links : Ending(e, i) = Ending(t, i)
  <1>1. Rings(e) = Rings(t)
    BY Zenon DEF Rings
  <1>2. \A i \in Links : LcpOf(e, i) = LcpOf(t, i)
    BY Zenon DEF LcpOf
  <1>3. OwnUnits(e) = OwnUnits(t)
    BY DEF OwnUnits, Unbundled, LinkOwns, UnitOwned, LcpOf
  <1>4. \A i \in Links : LinkFits(e, i) = LinkFits(t, i)
    BY DEF LinkFits, Devices, LcpOf
  <1>5. \A u \in Slots : UnitFits(e, u) = UnitFits(t, u)
    BY Zenon DEF UnitFits
  <1>6. SameNumbers(e) = SameNumbers(t) /\ SamePeers(e) = SamePeers(t)
    BY <1>2, Zenon DEF SameNumbers, SamePeers, LcpOf
  <1>7. \A i \in Links : Ending(e, i) = Ending(t, i)
    BY <1>2, Zenon DEF Ending
  <1>8. QED
    BY <1>1, <1>3, <1>4, <1>5, <1>6, <1>7, Zenon DEF Fit

(* What keeps units, rings and endpoints keeps who owns what.              *)
LEMMA OwnDiscs ==
  ASSUME NEW t, OwnUnits(t), ~t.opt.mp
  PROVE  \A v \in Slots : t.lcp[v].disc = NoMp
  BY DEF OwnUnits, Unbundled

LEMMA OwnKept ==
  ASSUME NEW t, NEW e, OwnUnits(t), e.opt = t.opt, e.ncp = t.ncp,
         ~t.opt.mp => \A v \in Slots : e.lcp[v].disc = NoMp,
         \A j \in Links : /\ e.lns[j].bundle_next = t.lns[j].bundle_next
                          /\ e.lns[j].unit = t.lns[j].unit,
         ~t.opt.mp => \A j \in Links, p \in Protocols :
           t.lns[j].unit[p] # None /\ t.lns[j].fd = "open" /\ LcpOf(t, j).upper =>
             /\ e.lns[j].fd = "open" /\ e.lns[j].phase = t.lns[j].phase
             /\ LcpOf(e, j).upper
  PROVE  OwnUnits(e)
  <1> SUFFICES ASSUME ~t.opt.mp
               PROVE  /\ Unbundled(e)
                      /\ \A j \in Links, p \in Protocols : LinkOwns(e, j, p)
                      /\ \A p \in Protocols, v \in Slots : UnitOwned(e, p, v)
    BY DEF OwnUnits
  <1>1. Unbundled(e)
    BY DEF OwnUnits, Unbundled
  <1>2. ASSUME NEW j \in Links, NEW p \in Protocols PROVE LinkOwns(e, j, p)
    <2>1. LinkOwns(t, j, p)
      BY DEF OwnUnits
    <2>2. QED
      BY <2>1 DEF LinkOwns
  <1>3. ASSUME NEW p \in Protocols, NEW v \in Slots PROVE UnitOwned(e, p, v)
    <2>1. UnitOwned(t, p, v)
      BY DEF OwnUnits
    <2>2. QED
      BY <2>1 DEF UnitOwned
  <1>4. QED
    BY <1>1, <1>2, <1>3

(* Only the phase of link i changes.                                       *)
Marks(t, e, i, ph) ==
    /\ e \in Tables /\ e.opt = t.opt /\ e.lcp = t.lcp /\ e.ncp = t.ncp /\ SameTimers(t, e)
    /\ e.lns[i].phase = ph
    /\ \A j \in Links :
         /\ e.lns[j].fd = t.lns[j].fd /\ e.lns[j].openfails = t.lns[j].openfails
         /\ e.lns[j].bundle_next = t.lns[j].bundle_next
         /\ e.lns[j].lcp_unit = t.lns[j].lcp_unit /\ e.lns[j].auth = t.lns[j].auth
         /\ e.lns[j].unit = t.lns[j].unit
         /\ j # i => e.lns[j].phase = t.lns[j].phase

LEMMA PhaseFacts ==
  ASSUME NEW t \in Tables, NEW i \in Links, NEW ph \in Phases
  PROVE  Marks(t, SetPhase(t, i, ph), i, ph)
  <1> DEFINE l == [t.lns[i] EXCEPT !.phase = ph]
             L == [t.lns EXCEPT ![i] = l]
             e == [t EXCEPT !.lns = L]
  <1>1. SetPhase(t, i, ph) = e
    BY DEF SetPhase
  <1>2. t.lns \in [Links -> LinkRecord]
    BY TableTypes
  <1>3. /\ l \in LinkRecord /\ l.phase = ph /\ l.fd = t.lns[i].fd
        /\ l.openfails = t.lns[i].openfails /\ l.bundle_next = t.lns[i].bundle_next
        /\ l.lcp_unit = t.lns[i].lcp_unit /\ l.auth = t.lns[i].auth
        /\ l.unit = t.lns[i].unit
    BY <1>2 DEF LinkRecord
  <1> HIDE DEF l
  <1>4. /\ L \in [Links -> LinkRecord] /\ L[i] = l
        /\ \A j \in Links : j # i => L[j] = t.lns[j]
    BY <1>2, <1>3
  <1> HIDE DEF L
  <1>5. /\ e \in Tables /\ e.lns = L /\ e.opt = t.opt /\ e.lcp = t.lcp /\ e.ncp = t.ncp
        /\ SameTimers(t, e)
    BY <1>4, SetLns
  <1> HIDE DEF e
  <1>6. Marks(t, e, i, ph)
    BY <1>3, <1>4, <1>5 DEF Marks
  <1>7. QED
    BY <1>1, <1>6

LEMMA MarkFits ==
  ASSUME NEW o, NEW t, Fit(t, o), NEW i \in Links, NEW ph \in Phases, NEW e,
         Marks(t, e, i, ph), t.lns[i].fd = "open", ph # "WAIT",
         ph \in {"AUTHENTICATE", "CALLBACK", "NETWORK"} => LcpOf(t, i).upper,
         t.lns[i].bundle_next # i => ph \in {"NETWORK", "DEAD"},
         ~t.opt.mp => \A p \in Protocols :
           t.lns[i].unit[p] # None => ph \in {"NETWORK", "DEAD"}
  PROVE  Fit(e, o)
  <1>1. Rings(e)
    BY DEF Fit, Rings, Marks
  <1>2. \A j \in Links : LcpOf(e, j) = LcpOf(t, j)
    BY DEF LcpOf, Marks
  <1>3. ASSUME NEW j \in Links PROVE LinkFits(e, j)
    <2>1. LinkFits(t, j)
      BY DEF Fit
    <2>2. CASE j = i
      BY <1>2, <2>1, <2>2 DEF LinkFits, Marks, Devices
    <2>3. CASE j # i
      BY <1>2, <2>1, <2>3 DEF LinkFits, Marks, Devices
    <2>4. QED
      BY <2>2, <2>3
  <1>4. \A u \in Slots : UnitFits(e, u)
    <2>1. /\ e.lcp = t.lcp
          /\ \A k \in Links : e.lns[k].fd = t.lns[k].fd /\ e.lns[k].lcp_unit = t.lns[k].lcp_unit
      BY DEF Marks
    <2>2. ASSUME NEW u \in Slots PROVE UnitFits(e, u)
      <3>1. UnitFits(t, u)
        BY DEF Fit
      <3>2. QED
        BY <2>1, <3>1 DEF UnitFits
    <2>3. QED
      BY <2>2
  <1>5. OwnUnits(e)
    <2> SUFFICES ASSUME ~e.opt.mp
                 PROVE  /\ Unbundled(e)
                        /\ \A j \in Links, p \in Protocols : LinkOwns(e, j, p)
                        /\ \A p \in Protocols, u \in Slots : UnitOwned(e, p, u)
      BY DEF OwnUnits
    <2>1. ~t.opt.mp /\ OwnUnits(t)
      BY DEF Fit, Marks
    <2>2. /\ \A u \in Slots : e.lcp[u].disc = NoMp
          /\ \A j \in Links : e.lns[j].bundle_next = j
      BY <2>1 DEF OwnUnits, Unbundled, Marks
    <2>3. ASSUME NEW j \in Links, NEW p \in Protocols, e.lns[j].unit[p] # None
          PROVE  /\ e.lns[j].fd = "open" /\ LcpOf(e, j).upper
                 /\ e.lns[j].phase \in {"NETWORK", "DEAD"}
                 /\ e.ncp[p][e.lns[j].unit[p]] = [inuse |-> TRUE, unit |-> j]
      <3>1. e.lns[j].unit = t.lns[j].unit /\ e.ncp = t.ncp /\ e.lns[j].fd = t.lns[j].fd
        BY DEF Marks
      <3>2. /\ t.lns[j].fd = "open" /\ LcpOf(t, j).upper
            /\ t.lns[j].phase \in {"NETWORK", "DEAD"}
            /\ t.ncp[p][t.lns[j].unit[p]] = [inuse |-> TRUE, unit |-> j]
        BY <2>1, <2>3, <3>1 DEF OwnUnits, LinkOwns
      <3>3. e.lns[j].phase \in {"NETWORK", "DEAD"}
        BY <2>1, <2>3, <3>1, <3>2 DEF Marks
      <3>4. QED
        BY <1>2, <3>1, <3>2, <3>3
    <2>4. ASSUME NEW p \in Protocols, NEW u \in Slots, e.ncp[p][u].inuse
          PROVE  e.ncp[p][u].unit \in Links /\ e.lns[e.ncp[p][u].unit].unit[p] = u
      BY <2>1, <2>4 DEF OwnUnits, UnitOwned, Marks
    <2>5. QED
      BY <2>2, <2>3, <2>4 DEF Unbundled, LinkOwns, UnitOwned
  <1>6. ~o => SameNumbers(e) /\ SamePeers(e)
    <2>1. \A j \in Links : t.lns[j].bundle_next \in Links
      BY TableTypes, LinkTypes DEF Fit
    <2>2. QED
      BY <1>2, <2>1 DEF Fit, SameNumbers, SamePeers, Marks
  <1>7. QED
    BY <1>1, <1>3, <1>4, <1>5, <1>6 DEF Fit, Marks

-----------------------------------------------------------------------------
(* A link goes down                                                        *)

(* In a ring every link follows one.                                       *)
LEMMA Follows ==
  ASSUME NEW t \in Tables, Rings(t), NEW i \in Links, t.lns[i].bundle_next # i
  PROVE  \E q \in Links \ {i} : t.lns[q].bundle_next = i
  <1> DEFINE f == [j \in Links |-> t.lns[j].bundle_next]
  <1>1. t.lns \in [Links -> LinkRecord] /\ \A j \in Links : t.lns[j].bundle_next \in Links
    BY TableTypes, LinkTypes
  <1>2. f \in Injection(Links, Links)
    BY <1>1 DEF Rings, Injection, IsInjective
  <1>3. IsFiniteSet(Links)
    BY FS_Interval, DaemonAssumption DEF Links
  <1>4. f \in Surjection(Links, Links)
    BY <1>2, <1>3, FS_Injection
  <1>5. \E q \in Links : f[q] = i
    BY <1>4 DEF Surjection
  <1>6. QED
    BY <1>5

(* The links j other than i keep everything but their place in a ring.     *)
OthersKept(t, e, i) ==
    \A j \in Links :
      /\ e.lns[j].fd = t.lns[j].fd /\ e.lns[j].openfails = t.lns[j].openfails
      /\ e.lns[j].lcp_unit = t.lns[j].lcp_unit
      /\ j # i => /\ e.lns[j].phase = t.lns[j].phase /\ e.lns[j].auth = t.lns[j].auth
                  /\ e.lns[j].unit = t.lns[j].unit
                  /\ e.lns[j].bundle_next = IF t.lns[j].bundle_next = i
                                            THEN t.lns[i].bundle_next
                                            ELSE t.lns[j].bundle_next

(* Link i has left its ring and, when it was the last one, given back its  *)
(* units.                                                                  *)
Leaves(t, e, i) ==
    /\ e \in Tables /\ e.opt = t.opt /\ e.lcp = t.lcp /\ SameTimers(t, e)
    /\ OthersKept(t, e, i)
    /\ e.lns[i].bundle_next = i /\ e.lns[i].phase = t.lns[i].phase
    /\ e.lns[i].auth = t.lns[i].auth
    /\ t.lns[i].bundle_next = i =>
         /\ e.lns[i].unit = NoUnits
         /\ \A p \in Protocols, v \in Slots :
              e.ncp[p][v] = IF v = t.lns[i].unit[p] THEN Free ELSE t.ncp[p][v]

LEMMA FreeType == Free \in NcpRecord /\ NoUnits \in [Protocols -> Slots \cup {None}]
  BY DEF Free, NcpRecord, NoUnits

LEMMA FreeUnitsLeaves ==
  ASSUME NEW t \in Tables, Rings(t), NEW i \in Links, t.lns[i].bundle_next = i
  PROVE  Leaves(t, FreeUnits(t, i), i)
  <1> DEFINE l == [t.lns[i] EXCEPT !.unit = NoUnits]
             L == [t.lns EXCEPT ![i] = l]
             N == [p \in Protocols |-> IF t.lns[i].unit[p] # None
                                       THEN [t.ncp[p] EXCEPT ![t.lns[i].unit[p]] = Free]
                                       ELSE t.ncp[p]]
             e == [[t EXCEPT !.lns = L] EXCEPT !.ncp = N]
  <1>1. FreeUnits(t, i) = e
    BY DEF FreeUnits
  <1>2. /\ t.lns \in [Links -> LinkRecord] /\ t.ncp \in [Protocols -> [Slots -> NcpRecord]]
        /\ t.lns[i].unit \in [Protocols -> Slots \cup {None}]
    BY TableTypes, LinkTypes
  <1>3. /\ l \in LinkRecord /\ l.phase = t.lns[i].phase /\ l.fd = t.lns[i].fd
        /\ l.openfails = t.lns[i].openfails /\ l.bundle_next = t.lns[i].bundle_next
        /\ l.lcp_unit = t.lns[i].lcp_unit /\ l.auth = t.lns[i].auth /\ l.unit = NoUnits
    BY <1>2, FreeType DEF LinkRecord
  <1> HIDE DEF l
  <1>4. /\ L \in [Links -> LinkRecord] /\ L[i] = l
        /\ \A j \in Links : j # i => L[j] = t.lns[j]
    BY <1>2, <1>3
  <1>5. N \in [Protocols -> [Slots -> NcpRecord]]
    BY <1>2, FreeType
  <1>6. \A p \in Protocols, v \in Slots :
          N[p][v] = IF v = t.lns[i].unit[p] THEN Free ELSE t.ncp[p][v]
    BY <1>2, NoneFacts
  <1> HIDE DEF L, N
  <1>7. /\ e \in Tables /\ e.lns = L /\ e.ncp = N /\ e.opt = t.opt /\ e.lcp = t.lcp
        /\ SameTimers(t, e)
    <2> DEFINE w == [t EXCEPT !.lns = L]
    <2>1. /\ w \in Tables /\ w.lns = L /\ w.opt = t.opt /\ w.lcp = t.lcp /\ SameTimers(t, w)
      BY <1>4, SetLns
    <2> HIDE DEF w
    <2>2. LET y == [w EXCEPT !.ncp = N]
          IN  /\ y \in Tables /\ y.ncp = N /\ y.opt = w.opt /\ y.lns = w.lns /\ y.lcp = w.lcp
              /\ SameTimers(w, y)
      BY <1>5, <2>1, SetNcp
    <2>3. QED
      BY <2>1, <2>2 DEF SameTimers, w
  <1> HIDE DEF e
  <1>8. OthersKept(t, e, i)
    <2>1. \A j \in Links : j # i => t.lns[j].bundle_next # i
      BY DEF Rings
    <2>2. QED
      BY <1>3, <1>4, <1>7, <2>1 DEF OthersKept
  <1>9. Leaves(t, e, i)
    BY <1>3, <1>4, <1>6, <1>7, <1>8 DEF Leaves
  <1>10. QED
    BY <1>1, <1>9

LEMMA UnbundleLeaves ==
  ASSUME NEW t \in Tables, Rings(t), NEW i \in Links, t.lns[i].bundle_next # i
  PROVE  Leaves(t, Unbundle(t, i), i)
  <1> DEFINE q == CHOOSE q \in Links \ {i} : t.lns[q].bundle_next = i
             k == t.lns[i].bundle_next
             lq == [t.lns[q] EXCEPT !.bundle_next = k]
             li == [t.lns[i] EXCEPT !.bundle_next = i]
             L == [[t.lns EXCEPT ![q] = lq] EXCEPT ![i] = li]
             N == [p \in Protocols |-> IF t.lns[i].unit[p] # None
                                       THEN [t.ncp[p] EXCEPT ![t.lns[i].unit[p]].unit = q]
                                       ELSE t.ncp[p]]
             e == [[t EXCEPT !.ncp = N] EXCEPT !.lns = L]
  <1>1. q \in Links /\ q # i /\ t.lns[q].bundle_next = i
    BY Follows
  <1>2. /\ t.lns \in [Links -> LinkRecord] /\ t.ncp \in [Protocols -> [Slots -> NcpRecord]]
        /\ t.lns[i].unit \in [Protocols -> Slots \cup {None}] /\ k \in Links
    BY TableTypes, LinkTypes
  <1>3. Unbundle(t, i) = e
    BY <1>1, <1>2 DEF Unbundle
  <1> HIDE DEF q, k
  <1>4. /\ lq \in LinkRecord /\ lq.phase = t.lns[q].phase /\ lq.fd = t.lns[q].fd
        /\ lq.openfails = t.lns[q].openfails /\ lq.bundle_next = k
        /\ lq.lcp_unit = t.lns[q].lcp_unit /\ lq.auth = t.lns[q].auth
        /\ lq.unit = t.lns[q].unit
    BY <1>1, <1>2 DEF LinkRecord
  <1>5. /\ li \in LinkRecord /\ li.phase = t.lns[i].phase /\ li.fd = t.lns[i].fd
        /\ li.openfails = t.lns[i].openfails /\ li.bundle_next = i
        /\ li.lcp_unit = t.lns[i].lcp_unit /\ li.auth = t.lns[i].auth
        /\ li.unit = t.lns[i].unit
    BY <1>2 DEF LinkRecord
  <1> HIDE DEF lq, li
  <1>6. /\ L \in [Links -> LinkRecord] /\ L[i] = li /\ L[q] = lq
        /\ \A j \in Links : j # i /\ j # q => L[j] = t.lns[j]
    BY <1>1, <1>2, <1>4, <1>5
  <1>7. N \in [Protocols -> [Slots -> NcpRecord]]
    <2> SUFFICES ASSUME NEW p \in Protocols, t.lns[i].unit[p] # None
                 PROVE  [t.ncp[p] EXCEPT ![t.lns[i].unit[p]].unit = q] \in [Slots -> NcpRecord]
      BY <1>2
    <2> DEFINE v == t.lns[i].unit[p]
               m == [t.ncp[p][v] EXCEPT !.unit = q]
    <2>1. v \in Slots /\ t.ncp[p] \in [Slots -> NcpRecord]
      BY <1>2
    <2>2. m \in NcpRecord
      BY <1>1, <2>1 DEF NcpRecord
    <2>3. [t.ncp[p] EXCEPT ![v] = m] \in [Slots -> NcpRecord]
      BY <2>1, <2>2
    <2>4. QED
      BY <2>3
  <1> HIDE DEF L, N
  <1>8. /\ e \in Tables /\ e.lns = L /\ e.opt = t.opt /\ e.lcp = t.lcp
        /\ SameTimers(t, e)
    <2> DEFINE w == [t EXCEPT !.ncp = N]
    <2>1. /\ w \in Tables /\ w.opt = t.opt /\ w.lcp = t.lcp /\ SameTimers(t, w)
      BY <1>7, SetNcp
    <2> HIDE DEF w
    <2>2. LET y == [w EXCEPT !.lns = L]
          IN  /\ y \in Tables /\ y.lns = L /\ y.opt = w.opt /\ y.lcp = w.lcp
              /\ SameTimers(w, y)
      BY <1>6, <2>1, SetLns
    <2>3. QED
      BY <2>1, <2>2 DEF SameTimers, w
  <1> HIDE DEF e
  <1>9. OthersKept(t, e, i)
    <2>1. \A j \in Links : j # q => t.lns[j].bundle_next # i
      BY <1>1 DEF Rings
    <2>2. QED
      BY <1>1, <1>4, <1>5, <1>6, <1>8, <2>1 DEF OthersKept, k
  <1>10. Leaves(t, e, i)
    BY <1>5, <1>6, <1>8, <1>9 DEF Leaves
  <1>11. QED
    BY <1>3, <1>10

(* The automaton u of link i leaves OPENED for the state st: lcp_down.     *)
Dropped(t, e, u, i, st) ==
    /\ e \in Tables /\ e.opt = t.opt /\ e.conn = t.conn /\ e.failed = t.failed
    /\ e.echos_pending = t.echos_pending
    /\ e.lcp[u].state = st /\ e.lcp[u].upper = FALSE /\ e.lcp[u].disc = t.lcp[u].disc
    /\ e.lcp[u].inuse = t.lcp[u].inuse /\ e.lcp[u].unit = t.lcp[u].unit
    /\ \A v \in Slots \ {u} : /\ e.lcp[v] = t.lcp[v] /\ e.echo[v] = t.echo[v]
                              /\ e.idle[v] = t.idle[v]
    /\ e.echo_running = FALSE /\ e.idle_running = FALSE
    /\ OthersKept(t, e, i)
    /\ e.lns[i].bundle_next = i /\ e.lns[i].phase = "TERMINATE" /\ e.lns[i].auth = FALSE
    /\ t.lns[i].bundle_next = i =>
         /\ e.lns[i].unit = NoUnits
         /\ \A p \in Protocols, v \in Slots :
              e.ncp[p][v] = IF v = t.lns[i].unit[p] THEN Free ELSE t.ncp[p][v]

LEMMA LowerdownFacts ==
  ASSUME NEW t \in Tables, NEW u \in Slots
  PROVE  LET e == lcp_echo_lowerdown(t, u)
         IN  /\ e \in Tables /\ e.opt = t.opt /\ e.lns = t.lns /\ e.lcp = t.lcp
             /\ e.ncp = t.ncp /\ e.conn = t.conn /\ e.failed = t.failed
             /\ e.echos_pending = t.echos_pending
             /\ \A v \in Slots \ {u} : e.echo[v] = t.echo[v] /\ e.idle[v] = t.idle[v]
             /\ e.echo_running = FALSE /\ e.idle_running = FALSE
  <1> DEFINE a == IF t.echo_running THEN Less(t.echo[u]) ELSE t.echo[u]
             b == IF t.idle_running THEN Less(t.idle[u]) ELSE t.idle[u]
             A == [t.echo EXCEPT ![u] = a]
             B == [t.idle EXCEPT ![u] = b]
             e == [t EXCEPT !.echo = A, !.idle = B, !.echo_running = FALSE,
                            !.idle_running = FALSE]
  <1>1. t.echo \in [Slots -> Nat] /\ t.idle \in [Slots -> Nat]
    BY TableTypes
  <1>2. lcp_echo_lowerdown(t, u) = e
    BY DEF lcp_echo_lowerdown
  <1>3. a \in Nat /\ b \in Nat
    BY <1>1 DEF Less
  <1> HIDE DEF a, b
  <1>4. /\ A \in [Slots -> Nat] /\ B \in [Slots -> Nat]
        /\ \A v \in Slots \ {u} : A[v] = t.echo[v] /\ B[v] = t.idle[v]
    BY <1>1, <1>3
  <1> HIDE DEF A, B
  <1>5. /\ e \in Tables /\ e.opt = t.opt /\ e.lns = t.lns /\ e.lcp = t.lcp
        /\ e.ncp = t.ncp /\ e.conn = t.conn /\ e.failed = t.failed
        /\ e.echos_pending = t.echos_pending /\ e.echo = A /\ e.idle = B
        /\ e.echo_running = FALSE /\ e.idle_running = FALSE
    BY <1>4 DEF Tables
  <1>6. QED
    BY <1>2, <1>4, <1>5

LEMMA DownFacts ==
  ASSUME NEW t \in Tables, Rings(t), NEW u \in Slots, NEW i \in Links, NEW st \in LayerStates,
         t.lcp[u].unit = i, t.lns[i].lcp_unit = u
  PROVE  Dropped(t, lcp_down([t EXCEPT !.lcp[u].state = st], u), u, i, st)
  <1> DEFINE c == [t.lcp[u] EXCEPT !.state = st]
             C == [t.lcp EXCEPT ![u] = c]
             w == [t EXCEPT !.lcp = C]
             b == [w.lcp[u] EXCEPT !.upper = FALSE]
             B == [w.lcp EXCEPT ![u] = b]
             x == [w EXCEPT !.lcp = B]
             l == [x.lns[i] EXCEPT !.auth = FALSE]
             L == [x.lns EXCEPT ![i] = l]
             y == [x EXCEPT !.lns = L]
             z == IF link_lastlink(y, i) THEN FreeUnits(y, i) ELSE Unbundle(y, i)
             h == SetPhase(z, i, "TERMINATE")
             e == lcp_echo_lowerdown(h, h.lns[i].lcp_unit)
  <1>1. t.lcp \in [Slots -> LcpRecord] /\ t.lns \in [Links -> LinkRecord]
    BY TableTypes
  <1>2. /\ c \in LcpRecord /\ c.state = st /\ c.upper = t.lcp[u].upper
        /\ c.disc = t.lcp[u].disc /\ c.inuse = t.lcp[u].inuse /\ c.unit = t.lcp[u].unit
    BY <1>1 DEF LcpRecord
  <1>3. w = [t EXCEPT !.lcp[u].state = st]
    OBVIOUS
  <1> HIDE DEF c
  <1>4. C \in [Slots -> LcpRecord] /\ C[u] = c /\ \A v \in Slots \ {u} : C[v] = t.lcp[v]
    BY <1>1, <1>2
  <1> HIDE DEF C
  <1>5. /\ w \in Tables /\ w.lcp = C /\ w.opt = t.opt /\ w.lns = t.lns /\ w.ncp = t.ncp
        /\ SameTimers(t, w)
    BY <1>4, SetLcp
  <1>6. w.lcp[u].unit = i
    BY <1>2, <1>4, <1>5
  <1> SUFFICES Dropped(t, lcp_down(w, u), u, i, st)
    BY <1>3
  <1> HIDE DEF w
  <1>7. lcp_down(w, u) = e
    BY <1>6 DEF lcp_down, link_down
  <1>8. /\ b \in LcpRecord /\ b.state = st /\ b.upper = FALSE
        /\ b.disc = t.lcp[u].disc /\ b.inuse = t.lcp[u].inuse /\ b.unit = t.lcp[u].unit
    BY <1>2, <1>4, <1>5 DEF LcpRecord
  <1> HIDE DEF b
  <1>9. B \in [Slots -> LcpRecord] /\ B[u] = b /\ \A v \in Slots \ {u} : B[v] = t.lcp[v]
    BY <1>4, <1>5, <1>8
  <1> HIDE DEF B
  <1>10. /\ x \in Tables /\ x.lcp = B /\ x.opt = t.opt /\ x.lns = t.lns /\ x.ncp = t.ncp
         /\ SameTimers(t, x)
    BY <1>5, <1>9, SetLcp DEF SameTimers
  <1> HIDE DEF x
  <1>11. /\ l \in LinkRecord /\ l.phase = t.lns[i].phase /\ l.fd = t.lns[i].fd
         /\ l.openfails = t.lns[i].openfails /\ l.bundle_next = t.lns[i].bundle_next
         /\ l.lcp_unit = t.lns[i].lcp_unit /\ l.auth = FALSE
         /\ l.unit = t.lns[i].unit
    <2>1. x.lns[i] = t.lns[i] /\ t.lns[i] \in LinkRecord
      BY <1>1, <1>10
    <2>2. l = [t.lns[i] EXCEPT !.auth = FALSE]
      BY <2>1
    <2> HIDE DEF l
    <2>3. QED
      BY <2>1, <2>2 DEF LinkRecord
  <1> HIDE DEF l
  <1>12. /\ L \in [Links -> LinkRecord] /\ L[i] = l
         /\ \A j \in Links : j # i => L[j] = t.lns[j]
    BY <1>1, <1>10, <1>11
  <1> HIDE DEF L
  <1>13. /\ y \in Tables /\ y.lns = L /\ y.opt = t.opt /\ y.lcp = B /\ y.ncp = t.ncp
         /\ SameTimers(t, y)
    BY <1>10, <1>12, SetLns DEF SameTimers
  <1> HIDE DEF y
  <1>14. Rings(y)
    BY <1>11, <1>12, <1>13 DEF Rings
  <1>15. Leaves(y, z, i)
    <2>1. CASE y.lns[i].bundle_next = i
      BY <1>13, <1>14, <2>1, FreeUnitsLeaves DEF link_lastlink
    <2>2. CASE y.lns[i].bundle_next # i
      BY <1>13, <1>14, <2>2, UnbundleLeaves DEF link_lastlink
    <2>3. QED
      BY <2>1, <2>2
  <1> HIDE DEF z
  <1>16. OthersKept(t, z, i)
    BY <1>11, <1>12, <1>13, <1>15 DEF Leaves, OthersKept
  <1>17. Marks(z, h, i, "TERMINATE")
    BY <1>15, PhaseFacts DEF Leaves, Phases
  <1> HIDE DEF h
  <1>18. h.lns[i].lcp_unit = u /\ h \in Tables
    BY <1>16, <1>17 DEF OthersKept, Marks
  <1>19. /\ e \in Tables /\ e.opt = h.opt /\ e.lns = h.lns /\ e.lcp = h.lcp
         /\ e.ncp = h.ncp /\ e.conn = h.conn /\ e.failed = h.failed
         /\ e.echos_pending = h.echos_pending
         /\ \A v \in Slots \ {u} : e.echo[v] = h.echo[v] /\ e.idle[v] = h.idle[v]
         /\ e.echo_running = FALSE /\ e.idle_running = FALSE
    <2>1. e = lcp_echo_lowerdown(h, u)
      BY <1>18
    <2> HIDE DEF e
    <2>2. QED
      BY <1>18, <2>1, LowerdownFacts
  <1> HIDE DEF e
  <1>20. /\ h.opt = t.opt /\ h.conn = t.conn /\ h.failed = t.failed /\ h.echo = t.echo
         /\ h.idle = t.idle /\ h.echos_pending = t.echos_pending /\ h.lcp = B /\ h.ncp = z.ncp
    BY <1>13, <1>15, <1>17 DEF Leaves, Marks, SameTimers
  <1>21. OthersKept(t, e, i)
    BY <1>16, <1>17, <1>19 DEF OthersKept, Marks
  <1>22. /\ e.lns[i].bundle_next = i /\ e.lns[i].phase = "TERMINATE" /\ e.lns[i].auth = FALSE
         /\ e.lns[i].unit = z.lns[i].unit
    BY <1>11, <1>12, <1>13, <1>15, <1>17, <1>19 DEF Leaves, Marks
  <1>23. t.lns[i].bundle_next = i =>
           /\ e.lns[i].unit = NoUnits
           /\ \A p \in Protocols, v \in Slots :
                e.ncp[p][v] = IF v = t.lns[i].unit[p] THEN Free ELSE t.ncp[p][v]
    BY <1>11, <1>12, <1>13, <1>15, <1>19, <1>20, <1>22 DEF Leaves
  <1>24. Dropped(t, e, u, i, st)
    BY <1>8, <1>9, <1>19, <1>20, <1>21, <1>22, <1>23 DEF Dropped
  <1>25. QED
    BY <1>7, <1>24

(* The tables after lcp_down are fit again.                                *)
LEMMA DropFits ==
  ASSUME NEW o, NEW t, Fit(t, o), NEW u \in Slots, NEW i \in Links, NEW st \in LayerStates,
         t.lns[i].fd = "open", t.lns[i].lcp_unit = u, NEW e, Dropped(t, e, u, i, st)
  PROVE  Fit(e, o) /\ \A j \in Links : Ending(t, j) => Ending(e, j)
  <1>1. /\ t \in Tables /\ Rings(t) /\ OwnUnits(t) /\ LinkFits(t, i)
        /\ \A j \in Links : t.lns[j].bundle_next \in Links
    BY TableTypes, LinkTypes DEF Fit
  <1>2. \A j \in Links \ {i} : t.lns[j].fd = "open" =>
          t.lns[j].lcp_unit \in Slots \ {u} /\ LcpOf(e, j) = LcpOf(t, j)
    <2> SUFFICES ASSUME NEW j \in Links \ {i}, t.lns[j].fd = "open"
                 PROVE  t.lns[j].lcp_unit \in Slots \ {u} /\ LcpOf(e, j) = LcpOf(t, j)
      OBVIOUS
    <2>1. LinkFits(t, j)
      BY DEF Fit
    <2>2. t.lns[j].lcp_unit \in Slots /\ t.lns[j].lcp_unit # u
      BY <1>1, <2>1, UnitsApart DEF LinkFits
    <2>3. QED
      BY <2>2 DEF LcpOf, Dropped, OthersKept
  <1>3. LcpOf(e, i) = e.lcp[u] /\ LcpOf(t, i) = t.lcp[u]
    BY DEF LcpOf, Dropped, OthersKept
  <1>4. Rings(e)
    BY <1>1 DEF Rings, Dropped, OthersKept
  <1>5. ASSUME NEW j \in Links PROVE LinkFits(e, j)
    <2>1. LinkFits(t, j) /\ e.opt = t.opt
      BY DEF Fit, Dropped
    <2>2. CASE j = i
      BY <1>1, <1>3, <2>2 DEF LinkFits, Dropped, OthersKept, Devices
    <2>3. CASE j # i
      <3>1. /\ e.lns[j].fd = t.lns[j].fd /\ e.lns[j].openfails = t.lns[j].openfails
            /\ e.lns[j].lcp_unit = t.lns[j].lcp_unit
            /\ e.lns[j].phase = t.lns[j].phase /\ e.lns[j].auth = t.lns[j].auth
        BY <2>3 DEF Dropped, OthersKept
      <3>2. t.lns[j].bundle_next = j => e.lns[j].bundle_next = j
        BY <2>3 DEF Dropped, OthersKept
      <3>3. QED
        BY <1>2, <2>1, <2>3, <3>1, <3>2 DEF LinkFits, Devices
    <2>4. QED
      BY <2>2, <2>3
  <1>6. ASSUME NEW v \in Slots PROVE UnitFits(e, v)
    <2>1. UnitFits(t, v) /\ \A j \in Links : /\ e.lns[j].fd = t.lns[j].fd
                                             /\ e.lns[j].lcp_unit = t.lns[j].lcp_unit
      BY DEF Fit, Dropped, OthersKept
    <2>2. CASE v = u
      BY <1>1, <1>3, <2>1, <2>2 DEF UnitFits, LinkFits, Dropped
    <2>3. CASE v # u
      BY <2>1, <2>3 DEF UnitFits, Dropped
    <2>4. QED
      BY <2>2, <2>3
  <1>7. OwnUnits(e)
    <2> SUFFICES ASSUME ~e.opt.mp
                 PROVE  /\ Unbundled(e)
                        /\ \A j \in Links, p \in Protocols : LinkOwns(e, j, p)
                        /\ \A p \in Protocols, v \in Slots : UnitOwned(e, p, v)
      BY DEF OwnUnits
    <2>1. ~t.opt.mp /\ \A j \in Links : t.lns[j].bundle_next = j
      BY <1>1 DEF OwnUnits, Unbundled, Dropped
    <2>2. /\ \A v \in Slots : e.lcp[v].disc = NoMp
          /\ \A j \in Links : e.lns[j].bundle_next = j
      BY <1>1, <2>1 DEF OwnUnits, Unbundled, Dropped, OthersKept
    <2>3. /\ e.lns[i].unit = NoUnits
          /\ \A p \in Protocols, v \in Slots :
               e.ncp[p][v] = IF v = t.lns[i].unit[p] THEN Free ELSE t.ncp[p][v]
      BY <2>1 DEF Dropped
    <2>4. ASSUME NEW j \in Links, NEW p \in Protocols, e.lns[j].unit[p] # None
          PROVE  /\ e.lns[j].fd = "open" /\ LcpOf(e, j).upper
                 /\ e.lns[j].phase \in {"NETWORK", "DEAD"}
                 /\ e.ncp[p][e.lns[j].unit[p]] = [inuse |-> TRUE, unit |-> j]
      <3>1. j # i
        BY <2>3, <2>4 DEF NoUnits
      <3>2. /\ e.lns[j].fd = t.lns[j].fd /\ e.lns[j].phase = t.lns[j].phase
            /\ e.lns[j].unit = t.lns[j].unit
        BY <3>1 DEF Dropped, OthersKept
      <3>3. /\ t.lns[j].fd = "open" /\ LcpOf(t, j).upper
            /\ t.lns[j].phase \in {"NETWORK", "DEAD"}
            /\ t.ncp[p][t.lns[j].unit[p]] = [inuse |-> TRUE, unit |-> j]
        BY <1>1, <2>1, <2>4, <3>2 DEF OwnUnits, LinkOwns
      <3>4. t.lns[j].unit[p] \in Slots
        BY <1>1, <2>4, <3>2, TableTypes, LinkTypes
      <3>5. t.lns[j].unit[p] # t.lns[i].unit[p]
        <4> SUFFICES ASSUME t.lns[j].unit[p] = t.lns[i].unit[p] PROVE FALSE
          OBVIOUS
        <4>1. t.ncp[p][t.lns[i].unit[p]] = [inuse |-> TRUE, unit |-> i]
          BY <1>1, <2>1, <2>4, <3>2 DEF OwnUnits, LinkOwns
        <4>2. QED
          BY <3>1, <3>3, <4>1
      <3>6. QED
        BY <1>2, <2>3, <3>1, <3>2, <3>3, <3>4, <3>5
    <2>5. ASSUME NEW p \in Protocols, NEW v \in Slots, e.ncp[p][v].inuse
          PROVE  e.ncp[p][v].unit \in Links /\ e.lns[e.ncp[p][v].unit].unit[p] = v
      <3>1. v # t.lns[i].unit[p] /\ e.ncp[p][v] = t.ncp[p][v]
        BY <2>3, <2>5 DEF Free
      <3>2. t.ncp[p][v].unit \in Links /\ t.lns[t.ncp[p][v].unit].unit[p] = v
        BY <1>1, <2>1, <2>5, <3>1 DEF OwnUnits, UnitOwned
      <3>3. t.ncp[p][v].unit # i
        BY <3>1, <3>2
      <3>4. QED
        BY <3>1, <3>2, <3>3 DEF Dropped, OthersKept
    <2>6. QED
      BY <2>2, <2>4, <2>5 DEF Unbundled, LinkOwns, UnitOwned
  <1>8. ASSUME ~o PROVE SameNumbers(e) /\ SamePeers(e)
    <2>1. SameNumbers(e)
      BY <1>8 DEF Fit, SameNumbers, Dropped, OthersKept
    <2>2. ASSUME NEW j \in Links, e.lns[j].bundle_next # j
          PROVE  /\ LcpOf(e, j).disc # NoMp
                 /\ LcpOf(e, e.lns[j].bundle_next).disc = LcpOf(e, j).disc
      <3> DEFINE k == t.lns[j].bundle_next
                 m == t.lns[i].bundle_next
      <3>1. j # i /\ k \in Links /\ m \in Links
        BY <1>1, <2>2 DEF Dropped
      <3>2. e.lns[j].bundle_next = IF k = i THEN m ELSE k
        BY <3>1 DEF Dropped, OthersKept
      <3>3. k # j /\ SamePeers(t)
        BY <1>8, <2>2, <3>1, <3>2 DEF Fit
      <3>4. LcpOf(t, j).disc # NoMp /\ LcpOf(t, k).disc = LcpOf(t, j).disc
        BY <3>3 DEF SamePeers
      <3>5. t.lns[j].fd = "open" /\ LcpOf(e, j) = LcpOf(t, j)
        BY <1>2, <3>1, <3>3 DEF Fit, LinkFits
      <3>6. CASE k = i
        <4>1. m # i
          BY <1>1, <3>1, <3>6 DEF Rings
        <4>2. LcpOf(t, m).disc = LcpOf(t, i).disc
          BY <3>3, <4>1 DEF SamePeers
        <4>3. m = j \/ t.lns[m].fd = "open"
          <5>1. t.lns[m].bundle_next # m
            BY <1>1, <3>1, <4>1 DEF Rings
          <5>2. QED
            BY <3>1, <5>1 DEF Fit, LinkFits
        <4>4. LcpOf(e, m) = LcpOf(t, m)
          BY <1>2, <3>1, <3>5, <4>1, <4>3
        <4>5. QED
          BY <3>2, <3>4, <3>5, <3>6, <4>2, <4>4
      <3>7. CASE k # i
        <4>1. t.lns[k].bundle_next # k
          BY <1>1, <3>1, <3>3 DEF Rings
        <4>2. t.lns[k].fd = "open"
          BY <3>1, <4>1 DEF Fit, LinkFits
        <4>3. LcpOf(e, k) = LcpOf(t, k)
          BY <1>2, <3>1, <3>7, <4>2
        <4>4. QED
          BY <3>2, <3>4, <3>5, <3>7, <4>3
      <3>8. QED
        BY <3>6, <3>7
    <2>3. QED
      BY <2>1, <2>2 DEF SamePeers
  <1>9. \A j \in Links : Ending(t, j) => Ending(e, j)
    <2> SUFFICES ASSUME NEW j \in Links, Ending(t, j) PROVE Ending(e, j)
      OBVIOUS
    <2>1. CASE j = i
      BY <1>3, <2>1 DEF Ending, Dropped
    <2>2. CASE j # i
      BY <1>2, <2>2 DEF Ending, Dropped, OthersKept
    <2>3. QED
      BY <2>1, <2>2
  <1>10. QED
    BY <1>4, <1>5, <1>6, <1>7, <1>8, <1>9 DEF Fit, Dropped

-----------------------------------------------------------------------------
(* The automaton of LCP                                                    *)

(* The automaton u changes its state, and nobody is told.                  *)
Turns(t, e, u, st) ==
    /\ e \in Tables /\ e.opt = t.opt /\ e.lns = t.lns /\ e.ncp = t.ncp /\ SameTimers(t, e)
    /\ e.lcp[u].state = st /\ e.lcp[u].upper = t.lcp[u].upper
    /\ e.lcp[u].disc = t.lcp[u].disc
    /\ e.lcp[u].inuse = t.lcp[u].inuse /\ e.lcp[u].unit = t.lcp[u].unit
    /\ \A v \in Slots \ {u} : e.lcp[v] = t.lcp[v]

LEMMA TurnFacts ==
  ASSUME NEW t \in Tables, NEW u \in Slots, NEW st \in LayerStates
  PROVE  Turns(t, [t EXCEPT !.lcp[u].state = st], u, st)
  <1> DEFINE c == [t.lcp[u] EXCEPT !.state = st]
             C == [t.lcp EXCEPT ![u] = c]
             e == [t EXCEPT !.lcp = C]
  <1>1. t.lcp \in [Slots -> LcpRecord]
    BY TableTypes
  <1>2. /\ c \in LcpRecord /\ c.state = st /\ c.upper = t.lcp[u].upper
        /\ c.disc = t.lcp[u].disc /\ c.inuse = t.lcp[u].inuse /\ c.unit = t.lcp[u].unit
    BY <1>1 DEF LcpRecord
  <1>3. e = [t EXCEPT !.lcp[u].state = st]
    OBVIOUS
  <1> HIDE DEF c
  <1>4. C \in [Slots -> LcpRecord] /\ C[u] = c /\ \A v \in Slots \ {u} : C[v] = t.lcp[v]
    BY <1>1, <1>2
  <1> HIDE DEF C
  <1>5. /\ e \in Tables /\ e.lcp = C /\ e.opt = t.opt /\ e.lns = t.lns /\ e.ncp = t.ncp
        /\ SameTimers(t, e)
    BY <1>4, SetLcp
  <1> SUFFICES Turns(t, e, u, st)
    BY <1>3
  <1> HIDE DEF e
  <1>6. QED
    BY <1>2, <1>4, <1>5 DEF Turns

LEMMA TurnFits ==
  ASSUME NEW o, NEW t, Fit(t, o), NEW u \in Slots, NEW st, NEW e, Turns(t, e, u, st),
         t.lcp[u].inuse, ~t.lcp[u].upper,
         t.lns[t.lcp[u].unit].phase # "WAIT" \/ st = "CLOSED"
  PROVE  Fit(e, o) /\ \A j \in Links : Ending(t, j) => Ending(e, j)
  <1>1. t \in Tables /\ e.lns = t.lns /\ e.ncp = t.ncp /\ e.opt = t.opt
    BY DEF Fit, Turns
  <1>2. \A v \in Slots : /\ e.lcp[v].upper = t.lcp[v].upper /\ e.lcp[v].disc = t.lcp[v].disc
                         /\ e.lcp[v].inuse = t.lcp[v].inuse /\ e.lcp[v].unit = t.lcp[v].unit
    BY DEF Turns
  <1>3. \A j \in Links : LinkFits(e, j)
    <2> SUFFICES ASSUME NEW j \in Links PROVE LinkFits(e, j)
      OBVIOUS
    <2>1. LinkFits(t, j)
      BY DEF Fit
    <2>2. t.lns[j].fd = "open" /\ t.lns[j].lcp_unit = u => t.lcp[u].unit = j
      BY <2>1 DEF LinkFits, LcpOf
    <2>3. t.lns[j].lcp_unit # u /\ t.lns[j].lcp_unit \in Slots => LcpOf(e, j) = LcpOf(t, j)
      BY <1>1 DEF Turns, LcpOf
    <2>4. Devices(e) = Devices(t)
      BY <1>1 DEF Devices
    <2>5. CASE t.lns[j].fd # "open"
      BY <1>1, <2>1, <2>5 DEF LinkFits
    <2>6. CASE t.lns[j].fd = "open" /\ t.lns[j].lcp_unit # u
      <3>1. t.lns[j].lcp_unit \in Slots
        BY <2>1, <2>6 DEF LinkFits
      <3>2. LcpOf(e, j) = LcpOf(t, j)
        BY <2>3, <2>6, <3>1
      <3>3. QED
        BY <1>1, <2>1, <2>4, <3>2 DEF LinkFits
    <2>7. CASE t.lns[j].fd = "open" /\ t.lns[j].lcp_unit = u
      <3>1. /\ LcpOf(t, j) = t.lcp[u] /\ LcpOf(e, j) = e.lcp[u]
            /\ e.lcp[u].state = st /\ t.lcp[u].unit = j
        BY <1>1, <2>2, <2>7 DEF LcpOf, Turns
      <3>2. t.lns[j].phase = "WAIT" => st = "CLOSED"
        BY <3>1
      <3>3. QED
        BY <1>1, <1>2, <2>1, <2>4, <3>1, <3>2 DEF LinkFits
    <2>8. QED
      BY <2>5, <2>6, <2>7
  <1>4. \A v \in Slots : UnitFits(e, v)
    <2> SUFFICES ASSUME NEW v \in Slots PROVE UnitFits(e, v)
      OBVIOUS
    <2>1. UnitFits(t, v)
      BY DEF Fit
    <2>2. CASE v = u
      BY <1>1, <1>2, <2>1, <2>2 DEF UnitFits
    <2>3. CASE v # u
      BY <1>1, <2>1, <2>3 DEF UnitFits, Turns
    <2>4. QED
      BY <2>2, <2>3
  <1>5. \A j \in Links : t.lns[j].fd = "open" =>
          LcpOf(e, j).upper = LcpOf(t, j).upper /\ LcpOf(e, j).disc = LcpOf(t, j).disc
    <2>1. \A j \in Links : LinkFits(t, j)
      BY DEF Fit
    <2>2. \A j \in Links : t.lns[j].fd = "open" => t.lns[j].lcp_unit \in Slots
      BY <2>1 DEF LinkFits
    <2>3. QED
      BY <1>1, <1>2, <2>2 DEF LcpOf
  <1>6. Rings(e) /\ OwnUnits(e)
    <2>1. Rings(e)
      BY <1>1 DEF Fit, Rings
    <2>2. OwnUnits(e)
      BY <1>1, <1>2, <1>5, OwnDiscs, OwnKept DEF Fit
    <2>3. QED
      BY <2>1, <2>2
  <1>7. ASSUME ~o PROVE SameNumbers(e) /\ SamePeers(e)
    <2>1. SameNumbers(e)
      BY <1>1, <1>7 DEF Fit, SameNumbers
    <2>2. ASSUME NEW j \in Links, e.lns[j].bundle_next # j
          PROVE  /\ LcpOf(e, j).disc # NoMp
                 /\ LcpOf(e, e.lns[j].bundle_next).disc = LcpOf(e, j).disc
      <3> DEFINE k == t.lns[j].bundle_next
      <3>1. k \in Links /\ k # j
        BY <1>1, <2>2, TableTypes, LinkTypes
      <3>2. LcpOf(t, j).disc # NoMp /\ LcpOf(t, k).disc = LcpOf(t, j).disc
        BY <1>7, <3>1 DEF Fit, SamePeers
      <3>3. t.lns[k].bundle_next # k
        BY <3>1 DEF Fit, Rings
      <3>4. t.lns[j].fd = "open" /\ t.lns[k].fd = "open"
        BY <3>1, <3>3 DEF Fit, LinkFits
      <3>5. QED
        BY <1>1, <1>5, <3>1, <3>2, <3>4
    <2>3. QED
      BY <2>1, <2>2 DEF SamePeers
  <1>8. \A j \in Links : Ending(t, j) => Ending(e, j)
    BY <1>1, <1>5 DEF Ending
  <1>9. QED
    BY <1>3, <1>4, <1>6, <1>7, <1>8 DEF Fit, Turns

(* What an operation on the unit u may do to the timers of lcp.c: nothing, *)
(* or LCP goes down on u and the timers are stopped.                       *)
Lowers(t, e, u) ==
    /\ e.opt = t.opt /\ e.failed = t.failed
    /\ \A j \in Links : e.lns[j].fd = t.lns[j].fd /\ e.lns[j].lcp_unit = t.lns[j].lcp_unit
    /\ \A v \in Slots : e.lcp[v].inuse = t.lcp[v].inuse /\ e.lcp[v].unit = t.lcp[v].unit
    /\ \A v \in Slots \ {u} : /\ e.echo[v] = t.echo[v] /\ e.idle[v] = t.idle[v]
                              /\ e.lcp[v].upper = t.lcp[v].upper
    /\ \/ /\ e.echo_running = FALSE /\ e.idle_running = FALSE /\ e.lcp[u].upper = FALSE
       \/ /\ e.echo_running = t.echo_running /\ e.idle_running = t.idle_running
          /\ e.echo[u] = t.echo[u] /\ e.idle[u] = t.idle[u]
          /\ e.lcp[u].upper = t.lcp[u].upper

LEMMA SlotZero == 0 \in Slots
  BY DaemonAssumption DEF Slots

LEMMA LowersFits ==
  ASSUME NEW t, NEW e, NEW u \in Slots, Lowers(t, e, u), t.lcp[u].inuse, Alone(t)
  PROVE  Alone(e) /\ (EchoFits(t) => EchoFits(e)) /\ (IdleFits(t) => IdleFits(e))
  <1>1. Alone(e)
    BY DEF Alone, Lowers
  <1>2. t.opt.numdev = 1 => u = 0
    BY DEF Alone
  <1>3. EchoFits(t) => EchoFits(e)
    BY <1>2, SlotZero DEF Lowers, EchoFits
  <1>4. IdleFits(t) => IdleFits(e)
    BY <1>2, SlotZero DEF Lowers, IdleFits
  <1>5. QED
    BY <1>1, <1>3, <1>4

LEMMA TurnLowers ==
  ASSUME NEW t, NEW e, NEW u \in Slots, NEW st, Turns(t, e, u, st) PROVE Lowers(t, e, u)
  BY DEF Turns, Lowers, SameTimers

LEMMA DropLowers ==
  ASSUME NEW t, NEW e, NEW u \in Slots, NEW i, NEW st, Dropped(t, e, u, i, st)
  PROVE  Lowers(t, e, u)
  BY DEF Dropped, Lowers, OthersKept

LEMMA MarkLowers ==
  ASSUME NEW t, NEW e, NEW u \in Slots, NEW i, NEW ph, Marks(t, e, i, ph)
  PROVE  Lowers(t, e, u)
  BY DEF Marks, Lowers, SameTimers

LEMMA LowersTwice ==
  ASSUME NEW t, NEW w, NEW e, NEW u \in Slots, Lowers(t, w, u), Lowers(w, e, u)
  PROVE  Lowers(t, e, u)
  <1>1. /\ e.opt = t.opt /\ e.failed = t.failed
        /\ \A j \in Links : e.lns[j].fd = t.lns[j].fd /\ e.lns[j].lcp_unit = t.lns[j].lcp_unit
        /\ \A v \in Slots : e.lcp[v].inuse = t.lcp[v].inuse /\ e.lcp[v].unit = t.lcp[v].unit
    BY DEF Lowers
  <1>2. \A v \in Slots \ {u} : /\ e.echo[v] = t.echo[v] /\ e.idle[v] = t.idle[v]
                               /\ e.lcp[v].upper = t.lcp[v].upper
    BY DEF Lowers
  <1>3. QED
    BY <1>1, <1>2 DEF Lowers

LEMMA CloseRow ==
  ASSUME NEW r \in CloseRows
  PROVE  /\ r[1] \in {"STARTING", "STOPPED", "STOPPING", "NEGOTIATING", "OPENED"}
         /\ r[2] \in {"INITIAL", "CLOSED", "CLOSING"} /\ r[2] \in LayerStates
         /\ r[3] = IF r[1] = "OPENED" THEN "down" ELSE "none"
  BY DEF CloseRows, LayerStates

LEMMA LowerDownRow ==
  ASSUME NEW r \in LowerDownRows
  PROVE  r[1] \in {"CLOSED", "CLOSING"} => r[2] = "INITIAL" /\ r[3] = "none"
  BY DEF LowerDownRows

(* The rows of the timers and the packets, up left aside.                  *)
LEMMA EventRow ==
  ASSUME NEW r \in TimerRows \cup PacketRows, r[3] # "up"
  PROVE  /\ r[1] \in {"CLOSING", "STOPPING", "NEGOTIATING", "STOPPED", "OPENED"}
         /\ r[2] \in LayerStates /\ r[3] \in {"none", "down", "finished"}
         /\ r[1] = "OPENED" <=> r[3] = "down"
  BY DEF TimerRows, PacketRows, LayerStates

(* The link of a unit that is in use.                                      *)
LEMMA OwnerFacts ==
  ASSUME NEW o, NEW t, Fit(t, o), NEW u \in Slots, t.lcp[u].inuse
  PROVE  LET i == t.lcp[u].unit
         IN  /\ i \in Links /\ t.lns[i].fd = "open" /\ t.lns[i].lcp_unit = u
             /\ LcpOf(t, i) = t.lcp[u] /\ LinkFits(t, i) /\ t \in Tables /\ Rings(t)
  <1>1. UnitFits(t, u)
    BY DEF Fit
  <1>2. QED
    BY <1>1 DEF Fit, UnitFits, LcpOf

LEMMA StepDown ==
  ASSUME NEW o, NEW t, Fit(t, o), NEW u \in Slots, t.lcp[u].inuse, NEW r,
         r[2] \in LayerStates, r[3] = "down"
  PROVE  LET e == Step(t, u, r)
         IN  /\ Dropped(t, e, u, t.lcp[u].unit, r[2]) /\ Fit(e, o) /\ Lowers(t, e, u)
             /\ \A j \in Links : Ending(t, j) => Ending(e, j)
  <1> DEFINE i == t.lcp[u].unit
             e == Step(t, u, r)
  <1>1. /\ i \in Links /\ t.lns[i].fd = "open" /\ t.lns[i].lcp_unit = u /\ t \in Tables
        /\ Rings(t)
    BY OwnerFacts
  <1>2. e = lcp_down([t EXCEPT !.lcp[u].state = r[2]], u)
    BY DEF Step
  <1>3. Dropped(t, e, u, i, r[2])
    BY <1>1, <1>2, DownFacts
  <1> HIDE DEF e
  <1>4. Fit(e, o) /\ \A j \in Links : Ending(t, j) => Ending(e, j)
    BY <1>1, <1>3, DropFits
  <1>5. Lowers(t, e, u)
    BY <1>3, DropLowers
  <1>6. QED
    BY <1>3, <1>4, <1>5 DEF e

LEMMA StepQuiet ==
  ASSUME NEW o, NEW t, Fit(t, o), NEW u \in Slots, t.lcp[u].inuse, ~t.lcp[u].upper, NEW r,
         r[2] \in LayerStates, r[3] = "none",
         t.lns[t.lcp[u].unit].phase # "WAIT" \/ r[2] = "CLOSED"
  PROVE  LET e == Step(t, u, r)
         IN  /\ Turns(t, e, u, r[2]) /\ Fit(e, o) /\ Lowers(t, e, u)
             /\ \A j \in Links : Ending(t, j) => Ending(e, j)
  <1> DEFINE e == Step(t, u, r)
  <1>1. e = [t EXCEPT !.lcp[u].state = r[2]]
    BY DEF Step
  <1>2. Turns(t, e, u, r[2])
    BY <1>1, TurnFacts DEF Fit
  <1> HIDE DEF e
  <1>3. Fit(e, o) /\ \A j \in Links : Ending(t, j) => Ending(e, j)
    BY <1>2, TurnFits
  <1>4. QED
    BY <1>2, <1>3, TurnLowers DEF e

(* The states of a unit that is not in use, and of one whose link waits.   *)
LEMMA AtRest ==
  ASSUME NEW o, NEW t, Fit(t, o), NEW u \in Slots
  PROVE  /\ ~t.lcp[u].inuse => t.lcp[u].state = "INITIAL"
         /\ t.lcp[u].inuse /\ t.lns[t.lcp[u].unit].phase = "WAIT" => t.lcp[u].state = "CLOSED"
         /\ t.lcp[u].upper => t.lcp[u].state = "OPENED" /\ t.lcp[u].inuse
         /\ t.lcp[u].upper \in BOOLEAN /\ t.lcp[u].state \in LayerStates
  <1>1. UnitFits(t, u)
    BY DEF Fit
  <1>2. t.lcp[u].inuse => LinkFits(t, t.lcp[u].unit) /\ t.lns[t.lcp[u].unit].fd = "open"
                          /\ LcpOf(t, t.lcp[u].unit) = t.lcp[u]
    BY OwnerFacts
  <1>3. t.lcp[u].upper \in BOOLEAN /\ t.lcp[u].state \in LayerStates
    BY TableTypes, UnitTypes DEF Fit
  <1>4. QED
    BY <1>1, <1>2, <1>3 DEF UnitFits, LinkFits

LEMMA CloseFacts ==
  ASSUME NEW o, NEW t, Fit(t, o), NEW u \in Slots
  PROVE  LET e == lcp_close(t, u)
         IN  /\ Fit(e, o) /\ Lowers(t, e, u) /\ e.lcp[u].upper = FALSE
             /\ \A j \in Links : Ending(t, j) => Ending(e, j)
             /\ e.lcp[u].state \in {"INITIAL", "CLOSED", "CLOSING"}
             /\ e.conn = t.conn /\ e.echos_pending = t.echos_pending
             /\ t.lcp[u].state # "OPENED" =>
                  SameTimers(t, e) /\ e.lns = t.lns /\ e.lcp[u].upper = t.lcp[u].upper
             /\ t.lcp[u].state = "OPENED" => e.echo_running = FALSE /\ e.idle_running = FALSE
  <1> DEFINE rs == {r \in CloseRows : r[1] = t.lcp[u].state}
             r == CHOOSE r \in rs : TRUE
             e == lcp_close(t, u)
  <1>1. e = IF rs = {} THEN t ELSE Step(t, u, r)
    BY NoneFacts DEF lcp_close, By
  <1>2. CASE rs = {}
    <2>1. t.lcp[u].state \notin {"STARTING", "STOPPED", "STOPPING", "NEGOTIATING", "OPENED"}
      <3>1. \A s \in {"STARTING", "STOPPED", "STOPPING", "NEGOTIATING", "OPENED"} :
              \E q \in CloseRows : q[1] = s
        BY DEF CloseRows
      <3>2. QED
        BY <1>2, <3>1
    <2>2. t.lcp[u].state \in {"INITIAL", "CLOSED", "CLOSING"} /\ t.lcp[u].upper = FALSE
      BY <2>1, AtRest DEF LayerStates
    <2>3. Lowers(t, t, u) /\ SameTimers(t, t)
      BY DEF Lowers, SameTimers
    <2>4. QED
      BY <1>1, <1>2, <2>2, <2>3
  <1>3. CASE rs # {}
    <2>1. r \in CloseRows /\ r[1] = t.lcp[u].state
      BY <1>3
    <2> HIDE DEF r
    <2>2. /\ r[1] \in {"STARTING", "STOPPED", "STOPPING", "NEGOTIATING", "OPENED"}
          /\ r[2] \in {"INITIAL", "CLOSED", "CLOSING"} /\ r[2] \in LayerStates
          /\ r[3] = IF r[1] = "OPENED" THEN "down" ELSE "none"
      BY <2>1, CloseRow
    <2>3. t.lcp[u].inuse /\ t.lns[t.lcp[u].unit].phase # "WAIT"
      BY <2>1, <2>2, AtRest
    <2>4. e = Step(t, u, r)
      BY <1>1, <1>3
    <2> HIDE DEF e, rs
    <2>5. CASE t.lcp[u].state = "OPENED"
      <3>1. /\ Dropped(t, e, u, t.lcp[u].unit, r[2]) /\ Fit(e, o) /\ Lowers(t, e, u)
            /\ \A j \in Links : Ending(t, j) => Ending(e, j)
        BY <2>1, <2>2, <2>3, <2>4, <2>5, StepDown
      <3>2. QED
        BY <2>2, <2>5, <3>1 DEF Dropped, e
    <2>6. CASE t.lcp[u].state # "OPENED"
      <3>1. ~t.lcp[u].upper
        BY <2>6, AtRest
      <3>2. /\ Turns(t, e, u, r[2]) /\ Fit(e, o) /\ Lowers(t, e, u)
            /\ \A j \in Links : Ending(t, j) => Ending(e, j)
        BY <2>1, <2>2, <2>3, <2>4, <2>6, <3>1, StepQuiet
      <3>3. t.lcp[u].upper = FALSE
        BY <3>1, AtRest
      <3>4. QED
        BY <2>2, <2>6, <3>2, <3>3 DEF Turns, SameTimers, e
    <2>7. QED
      BY <2>5, <2>6
  <1>4. QED
    BY <1>2, <1>3

(* A link that is not up is in no ring and, without MP, has no units.      *)
LEMMA NotUp ==
  ASSUME NEW o, NEW t, Fit(t, o), NEW i \in Links, t.lns[i].fd = "open", ~LcpOf(t, i).upper
  PROVE  /\ t.lns[i].bundle_next = i /\ ~t.lns[i].auth
         /\ ~t.opt.mp => \A p \in Protocols : t.lns[i].unit[p] = None
  <1>1. LinkFits(t, i) /\ OwnUnits(t)
    BY DEF Fit
  <1>2. t.lns[i].bundle_next = i /\ ~t.lns[i].auth
    BY <1>1 DEF LinkFits
  <1>3. ~t.opt.mp => \A p \in Protocols : t.lns[i].unit[p] = None
    BY <1>1 DEF OwnUnits, LinkOwns
  <1>4. QED
    BY <1>2, <1>3

LEMMA CloseLinkFacts ==
  ASSUME NEW o, NEW t, Fit(t, o), NEW i \in Links, t.lns[i].fd = "open"
  PROVE  LET e == CloseLink(t, i)
             u == t.lns[i].lcp_unit
         IN  /\ Fit(e, o) /\ Lowers(t, e, u) /\ e.lcp[u].upper = FALSE
             /\ \A j \in Links \ {i} : Ending(t, j) => Ending(e, j)
             /\ Ending(e, i) /\ e.conn = t.conn
             /\ t.lcp[u].state = "OPENED" => e.echo_running = FALSE /\ e.idle_running = FALSE
  <1> DEFINE u == t.lns[i].lcp_unit
             w == lcp_close(t, u)
             e == SetPhase(w, i, "TERMINATE")
  <1>1. u \in Slots
    BY DEF Fit, LinkFits
  <1>2. e = CloseLink(t, i)
    BY DEF CloseLink
  <1> HIDE DEF u
  <1>3. /\ Fit(w, o) /\ Lowers(t, w, u) /\ w.lcp[u].upper = FALSE
        /\ \A j \in Links : Ending(t, j) => Ending(w, j)
        /\ w.conn = t.conn
        /\ t.lcp[u].state = "OPENED" => w.echo_running = FALSE /\ w.idle_running = FALSE
    BY <1>1, CloseFacts, ZenonT(60)
  <1> HIDE DEF w
  <1>4. w.lns[i].fd = "open" /\ w.lns[i].lcp_unit = u
    BY <1>3 DEF Lowers, u
  <1>5. ~LcpOf(w, i).upper
    BY <1>3, <1>4 DEF LcpOf
  <1>6. /\ w.lns[i].bundle_next = i
        /\ ~w.opt.mp => \A p \in Protocols : w.lns[i].unit[p] = None
    BY <1>3, <1>4, <1>5, NotUp
  <1>7. Marks(w, e, i, "TERMINATE")
    BY <1>3, PhaseFacts DEF Fit, Phases
  <1> HIDE DEF e
  <1>8. Fit(e, o)
    BY <1>3, <1>4, <1>6, <1>7, MarkFits DEF Phases
  <1>9. Lowers(t, e, u)
    BY <1>1, <1>3, <1>7, MarkLowers, LowersTwice
  <1>10. /\ e.lcp = w.lcp /\ e.opt = w.opt /\ e.conn = w.conn
         /\ e.echo_running = w.echo_running /\ e.idle_running = w.idle_running
         /\ \A j \in Links : /\ e.lns[j].fd = w.lns[j].fd
                             /\ e.lns[j].lcp_unit = w.lns[j].lcp_unit
                             /\ j # i => e.lns[j].phase = w.lns[j].phase
    BY <1>7 DEF Marks, SameTimers
  <1>11. \A j \in Links \ {i} : Ending(t, j) => Ending(e, j)
    BY <1>3, <1>10 DEF Ending, LcpOf
  <1>12. Ending(e, i)
    BY <1>5, <1>10 DEF Ending, LcpOf
  <1>13. QED
    BY <1>3, <1>2, <1>8, <1>9, <1>10, <1>11, <1>12 DEF u

-----------------------------------------------------------------------------
(* All that the tables are to satisfy between two calls.                   *)
Good(t, o) == /\ Fit(t, o) /\ (\A i \in Links : Ending(t, i))
              /\ Alone(t) /\ EchoFits(t) /\ IdleFits(t)

SameDevices(t, e) == e.opt = t.opt /\ \A j \in Links : e.lns[j].fd = t.lns[j].fd

LEMMA LowersGood ==
  ASSUME NEW o, NEW t, Good(t, o), NEW u \in Slots, t.lcp[u].inuse, NEW e, Lowers(t, e, u),
         Fit(e, o), \A j \in Links : Ending(e, j)
  PROVE  Good(e, o) /\ SameDevices(t, e)
  <1>1. Alone(e) /\ EchoFits(e) /\ IdleFits(e)
    BY LowersFits DEF Good
  <1>2. QED
    BY <1>1 DEF Good, Lowers, SameDevices

(* The number of callouts of connect_time_expired.                         *)
LEMMA ConnGood ==
  ASSUME NEW o, NEW t, Good(t, o), NEW i \in Links, NEW k \in Nat
  PROVE  LET e == [t EXCEPT !.conn[i] = k]
         IN  Good(e, o) /\ SameDevices(t, e) /\ e.lns = t.lns /\ e.lcp = t.lcp
  <1> DEFINE K == [t.conn EXCEPT ![i] = k]
             e == [t EXCEPT !.conn = K]
  <1>1. t \in Tables /\ t.conn \in [Links -> Nat]
    BY TableTypes DEF Good, Fit
  <1>2. K \in [Links -> Nat]
    BY <1>1
  <1>3. e = [t EXCEPT !.conn[i] = k]
    OBVIOUS
  <1> HIDE DEF K
  <1>4. /\ e \in Tables /\ e.opt = t.opt /\ e.lns = t.lns /\ e.lcp = t.lcp /\ e.ncp = t.ncp
        /\ e.echo = t.echo /\ e.idle = t.idle /\ e.echo_running = t.echo_running
        /\ e.idle_running = t.idle_running /\ e.failed = t.failed
    BY <1>1, <1>2 DEF Tables
  <1> SUFFICES Good(e, o) /\ SameDevices(t, e) /\ e.lns = t.lns /\ e.lcp = t.lcp
    BY <1>3
  <1> HIDE DEF e
  <1>5. Fit(e, o) /\ \A j \in Links : Ending(e, j)
    BY <1>4, FitOn DEF Good
  <1>6. Alone(e) /\ EchoFits(e) /\ IdleFits(e)
    BY <1>4 DEF Good, Alone, EchoFits, IdleFits
  <1>7. QED
    BY <1>4, <1>5, <1>6 DEF Good, SameDevices

LEMMA CloseGood ==
  ASSUME NEW o, NEW t, Good(t, o), NEW u \in Slots
  PROVE  Good(lcp_close(t, u), o) /\ SameDevices(t, lcp_close(t, u))
  <1> DEFINE e == lcp_close(t, u)
  <1>1. /\ Fit(e, o) /\ Lowers(t, e, u)
        /\ \A j \in Links : Ending(t, j) => Ending(e, j)
        /\ t.lcp[u].state # "OPENED" =>
             SameTimers(t, e) /\ e.lns = t.lns /\ e.lcp[u].upper = t.lcp[u].upper
    BY CloseFacts DEF Good
  <1> HIDE DEF e
  <1>2. \A j \in Links : Ending(e, j)
    BY <1>1 DEF Good
  <1>3. CASE t.lcp[u].inuse
    BY <1>1, <1>2, <1>3, LowersGood DEF e
  <1>4. CASE ~t.lcp[u].inuse
    <2>1. t.lcp[u].state # "OPENED"
      BY <1>4, AtRest DEF Good
    <2>2. /\ e.opt = t.opt /\ SameTimers(t, e)
          /\ \A v \in Slots : e.lcp[v].upper = t.lcp[v].upper /\ e.lcp[v].inuse = t.lcp[v].inuse
      BY <1>1, <2>1 DEF Lowers
    <2>3. Alone(e) /\ EchoFits(e) /\ IdleFits(e)
      BY <2>2, SlotZero DEF Good, Alone, EchoFits, IdleFits, SameTimers
    <2>4. QED
      BY <1>1, <1>2, <2>3 DEF Good, SameDevices, Lowers, e
  <1>5. QED
    BY <1>3, <1>4

(* connect_time_expired.                                                   *)
LEMMA ConnectGood ==
  ASSUME NEW o, NEW t, Good(t, o), NEW i \in Links, t.conn[i] > 0
  PROVE  LET e == connect_time_expired(t, i) IN Good(e, o) /\ SameDevices(t, e)
  <1> DEFINE k == t.conn[i] - 1
             w == [t EXCEPT !.conn[i] = k]
             e == lcp_close(w, i)
  <1>1. k \in Nat
    BY TableTypes DEF Good, Fit
  <1>2. connect_time_expired(t, i) = e
    BY DEF connect_time_expired
  <1> HIDE DEF k
  <1>3. Good(w, o) /\ SameDevices(t, w)
    BY <1>1, ConnGood
  <1> HIDE DEF w
  <1>4. Good(e, o) /\ SameDevices(w, e)
    BY <1>3, NoneFacts, CloseGood
  <1>5. QED
    BY <1>2, <1>3, <1>4 DEF SameDevices

LEMMA CloseLinkGood ==
  ASSUME NEW o, NEW t, Good(t, o), NEW i \in Links, t.lns[i].fd = "open"
  PROVE  LET e == CloseLink(t, i) IN Good(e, o) /\ SameDevices(t, e)
  <1> DEFINE u == t.lns[i].lcp_unit
             e == CloseLink(t, i)
  <1>1. u \in Slots /\ t.lcp[u].inuse
    BY DEF Good, Fit, LinkFits, LcpOf
  <1>2. /\ Fit(e, o) /\ Lowers(t, e, u) /\ Ending(e, i)
        /\ \A j \in Links \ {i} : Ending(t, j) => Ending(e, j)
    BY CloseLinkFacts DEF Good
  <1> HIDE DEF e, u
  <1>3. \A j \in Links : Ending(e, j)
    BY <1>2 DEF Good
  <1>4. QED
    BY <1>1, <1>2, <1>3, LowersGood DEF e

LEMMA TerminatedGood ==
  ASSUME NEW o, NEW t, Good(t, o), NEW i \in Links, t.lns[i].fd = "open"
  PROVE  LET e == link_terminated(t, i) IN Good(e, o) /\ SameDevices(t, e)
  <1> DEFINE u == t.lns[i].lcp_unit
             e == SetPhase(t, i, "DEAD")
  <1>1. u \in Slots /\ t.lcp[u].inuse
    BY DEF Good, Fit, LinkFits, LcpOf
  <1>2. Marks(t, e, i, "DEAD") /\ e = link_terminated(t, i)
    BY PhaseFacts DEF Good, Fit, Phases, link_terminated
  <1> HIDE DEF e, u
  <1>3. Fit(e, o)
    BY <1>2, MarkFits DEF Good, Phases
  <1>4. \A j \in Links : Ending(e, j)
    BY <1>2 DEF Good, Ending, Marks, LcpOf
  <1>5. QED
    BY <1>1, <1>2, <1>3, <1>4, MarkLowers, LowersGood

(* The change r of the automaton u, by a timer or a packet; up is RiseGood. *)
LEMMA EventGood ==
  ASSUME NEW o, NEW t, Good(t, o), NEW u \in Slots, t.lcp[u].inuse,
         NEW r \in TimerRows \cup PacketRows, r[3] # "up", r[1] = t.lcp[u].state
  PROVE  LET e == Step(t, u, r) IN Good(e, o) /\ SameDevices(t, e)
  <1> DEFINE i == t.lcp[u].unit
             e == Step(t, u, r)
  <1>1. /\ r[1] \in {"CLOSING", "STOPPING", "NEGOTIATING", "STOPPED", "OPENED"}
        /\ r[2] \in LayerStates /\ r[3] \in {"none", "down", "finished"}
        /\ r[1] = "OPENED" <=> r[3] = "down"
    BY EventRow
  <1>2. Fit(t, o) /\ \A j \in Links : Ending(t, j)
    BY DEF Good
  <1>3. t.lns[i].phase # "WAIT" /\ (r[3] # "down" => ~t.lcp[u].upper)
    BY <1>1, <1>2, AtRest
  <1>4. i \in Links /\ t.lns[i].fd = "open" /\ t.lns[i].lcp_unit = u /\ t \in Tables
    BY <1>2, OwnerFacts
  <1>5. CASE r[3] = "down"
    <2>1. Fit(e, o) /\ Lowers(t, e, u) /\ \A j \in Links : Ending(t, j) => Ending(e, j)
      BY <1>1, <1>2, <1>5, StepDown
    <2> HIDE DEF e
    <2>2. QED
      BY <1>2, <2>1, LowersGood DEF e
  <1>6. CASE r[3] = "none"
    <2>1. Fit(e, o) /\ Lowers(t, e, u) /\ \A j \in Links : Ending(t, j) => Ending(e, j)
      BY <1>1, <1>2, <1>3, <1>6, StepQuiet
    <2> HIDE DEF e
    <2>2. QED
      BY <1>2, <2>1, LowersGood DEF e
  <1>7. CASE r[3] = "finished"
    <2> DEFINE w == [t EXCEPT !.lcp[u].state = r[2]]
    <2>1. e = link_terminated(w, w.lcp[u].unit)
      BY <1>7 DEF Step
    <2>2. Turns(t, w, u, r[2])
      BY <1>1, <1>4, TurnFacts
    <2> HIDE DEF w, e
    <2>3. Fit(w, o) /\ \A j \in Links : Ending(t, j) => Ending(w, j)
      BY <1>2, <1>3, <1>7, <2>2, TurnFits
    <2>4. Good(w, o) /\ SameDevices(t, w)
      BY <1>2, <2>2, <2>3, TurnLowers, LowersGood
    <2>5. w.lcp[u].unit = i /\ w.lns[i].fd = "open"
      BY <1>4, <2>2 DEF Turns
    <2>6. Good(e, o) /\ SameDevices(w, e)
      BY <1>4, <2>1, <2>4, <2>5, TerminatedGood
    <2>7. QED
      BY <2>4, <2>6 DEF SameDevices, e
  <1>8. QED
    BY <1>1, <1>5, <1>6, <1>7

-----------------------------------------------------------------------------
(* The timers of lcp.c                                                     *)

SameLinks(t, e) == e.opt = t.opt /\ e.lns = t.lns /\ e.lcp = t.lcp /\ e.ncp = t.ncp

(* The echo timer of u gets other values.                               *)
EchoSet(t, e, u, k, run, bad) ==
    /\ e \in Tables /\ SameLinks(t, e) /\ e.idle = t.idle /\ e.conn = t.conn
    /\ e.idle_running = t.idle_running /\ e.failed = bad /\ e.echo_running = run
    /\ e.echo[u] = k /\ \A v \in Slots \ {u} : e.echo[v] = t.echo[v]

LEMMA EchoFields ==
  ASSUME NEW t \in Tables, NEW u \in Slots, NEW k \in Nat, NEW run \in BOOLEAN,
         NEW bad \in BOOLEAN
  PROVE  EchoSet(t, [t EXCEPT !.failed = bad, !.echo[u] = k, !.echo_running = run], u, k, run, bad)
  <1> DEFINE A == [t.echo EXCEPT ![u] = k]
             e == [t EXCEPT !.failed = bad, !.echo = A, !.echo_running = run]
  <1>1. t.echo \in [Slots -> Nat]
    BY TableTypes
  <1>2. A \in [Slots -> Nat] /\ A[u] = k /\ \A v \in Slots \ {u} : A[v] = t.echo[v]
    BY <1>1
  <1>3. e = [t EXCEPT !.failed = bad, !.echo[u] = k, !.echo_running = run]
    OBVIOUS
  <1> HIDE DEF A
  <1>4. /\ e \in Tables /\ SameLinks(t, e) /\ e.idle = t.idle /\ e.conn = t.conn
        /\ e.idle_running = t.idle_running /\ e.failed = bad /\ e.echo_running = run
        /\ e.echo = A
    BY <1>2 DEF Tables, SameLinks
  <1> SUFFICES EchoSet(t, e, u, k, run, bad)
    BY <1>3
  <1> HIDE DEF e
  <1>5. QED
    BY <1>2, <1>4 DEF EchoSet

(* The idle timer of u gets other values.                               *)
IdleSet(t, e, u, k, run, bad) ==
    /\ e \in Tables /\ SameLinks(t, e) /\ e.echo = t.echo /\ e.conn = t.conn
    /\ e.echo_running = t.echo_running /\ e.failed = bad /\ e.idle_running = run
    /\ e.idle[u] = k /\ \A v \in Slots \ {u} : e.idle[v] = t.idle[v]

LEMMA IdleFields ==
  ASSUME NEW t \in Tables, NEW u \in Slots, NEW k \in Nat, NEW run \in BOOLEAN,
         NEW bad \in BOOLEAN
  PROVE  IdleSet(t, [t EXCEPT !.failed = bad, !.idle[u] = k, !.idle_running = run], u, k, run, bad)
  <1> DEFINE A == [t.idle EXCEPT ![u] = k]
             e == [t EXCEPT !.failed = bad, !.idle = A, !.idle_running = run]
  <1>1. t.idle \in [Slots -> Nat]
    BY TableTypes
  <1>2. A \in [Slots -> Nat] /\ A[u] = k /\ \A v \in Slots \ {u} : A[v] = t.idle[v]
    BY <1>1
  <1>3. e = [t EXCEPT !.failed = bad, !.idle[u] = k, !.idle_running = run]
    OBVIOUS
  <1> HIDE DEF A
  <1>4. /\ e \in Tables /\ SameLinks(t, e) /\ e.echo = t.echo /\ e.conn = t.conn
        /\ e.echo_running = t.echo_running /\ e.failed = bad /\ e.idle_running = run
        /\ e.idle = A
    BY <1>2 DEF Tables, SameLinks
  <1> SUFFICES IdleSet(t, e, u, k, run, bad)
    BY <1>3
  <1> HIDE DEF e
  <1>5. QED
    BY <1>2, <1>4 DEF IdleSet

(* The tables while LcpEchoTimeout runs: no echo timer.                    *)
Waiting(t, o) ==
    /\ Fit(t, o) /\ (\A i \in Links : Ending(t, i)) /\ Alone(t) /\ IdleFits(t)
    /\ t.echo_running = FALSE

LEMMA PendingWaits ==
  ASSUME NEW o, NEW t, Waiting(t, o), NEW k \in Nat
  PROVE  LET e == [t EXCEPT !.echos_pending = k]
         IN  Waiting(e, o) /\ SameLinks(t, e)
  <1> DEFINE e == [t EXCEPT !.echos_pending = k]
  <1>1. t \in Tables
    BY DEF Waiting, Fit
  <1>2. /\ e \in Tables /\ SameLinks(t, e) /\ e.idle = t.idle /\ e.echo = t.echo
        /\ e.idle_running = t.idle_running /\ e.failed = t.failed
        /\ e.echo_running = t.echo_running
    BY <1>1 DEF Tables, SameLinks
  <1> HIDE DEF e
  <1>3. Fit(e, o) /\ \A i \in Links : Ending(e, i)
    BY <1>2, FitOn DEF Waiting, SameLinks
  <1>4. Alone(e) /\ IdleFits(e)
    BY <1>2 DEF Waiting, Alone, IdleFits, SameLinks
  <1>5. QED
    BY <1>2, <1>3, <1>4 DEF Waiting, e

LEMMA SendEchoWaits ==
  ASSUME NEW o, NEW t, Waiting(t, o), NEW u \in Slots
  PROVE  LET e == LcpSendEchoRequest(t, u) IN Waiting(e, o) /\ SameDevices(t, e)
  <1> DEFINE w == LcpLinkFailure(t, u)
             k == t.echos_pending + 1
  <1>1. k \in Nat
    BY TableTypes DEF Waiting, Fit
  <1>2. Waiting(w, o) /\ SameDevices(t, w)
    <2>1. CASE t.lcp[u].state # "OPENED"
      BY <2>1 DEF LcpLinkFailure, SameDevices
    <2>2. CASE t.lcp[u].state = "OPENED"
      <3>1. w = lcp_close(t, u) /\ t.lcp[u].inuse
        BY <2>2, AtRest DEF LcpLinkFailure, Waiting
      <3> HIDE DEF w
      <3>2. /\ Fit(w, o) /\ Lowers(t, w, u) /\ w.echo_running = FALSE
            /\ \A j \in Links : Ending(t, j) => Ending(w, j)
        BY <2>2, <3>1, CloseFacts DEF Waiting
      <3>3. Alone(w) /\ IdleFits(w)
        BY <3>1, <3>2, LowersFits DEF Waiting
      <3>4. QED
        BY <3>2, <3>3 DEF Waiting, Lowers, SameDevices
    <2>3. QED
      BY <2>1, <2>2
  <1> HIDE DEF w, k
  <1>3. CASE EchoFails = 0
    BY <1>3 DEF LcpSendEchoRequest, SameDevices
  <1>4. CASE EchoFails # 0 /\ t.echos_pending >= EchoFails
    <2>1. LcpSendEchoRequest(t, u) = [w EXCEPT !.echos_pending = 0]
      BY <1>4 DEF LcpSendEchoRequest, w
    <2>2. LET e == [w EXCEPT !.echos_pending = 0] IN Waiting(e, o) /\ SameLinks(w, e)
      BY <1>2, PendingWaits
    <2>3. QED
      BY <1>2, <2>1, <2>2 DEF SameDevices, SameLinks
  <1>5. CASE EchoFails # 0 /\ ~(t.echos_pending >= EchoFails)
    <2>1. LcpSendEchoRequest(t, u) = [t EXCEPT !.echos_pending = k]
      BY <1>5 DEF LcpSendEchoRequest, k
    <2>2. LET e == [t EXCEPT !.echos_pending = k] IN Waiting(e, o) /\ SameLinks(t, e)
      BY <1>1, PendingWaits
    <2>3. QED
      BY <2>1, <2>2 DEF SameDevices, SameLinks
  <1>6. QED
    BY <1>3, <1>4, <1>5

(* LcpEchoCheck starts the timer again.                                    *)
LEMMA EchoCheckGood ==
  ASSUME NEW o, NEW t, Waiting(t, o), NEW u \in Slots, t.opt.numdev = 1 => u = 0,
         NEW quiet \in BOOLEAN
  PROVE  LET e == LcpEchoCheck(t, u, quiet) IN Good(e, o) /\ SameDevices(t, e)
  <1> DEFINE w == IF quiet THEN LcpSendEchoRequest(t, u) ELSE t
             bad == w.failed \/ w.echo_running
             k == w.echo[u] + 1
             e == [w EXCEPT !.failed = bad, !.echo[u] = k, !.echo_running = TRUE]
  <1>1. Waiting(w, o) /\ SameDevices(t, w)
    BY SendEchoWaits DEF SameDevices
  <1>2. e = LcpEchoCheck(t, u, quiet)
    BY DEF LcpEchoCheck
  <1> HIDE DEF w
  <1>3. w \in Tables /\ w.echo[u] \in Nat /\ w.failed \in BOOLEAN
    BY <1>1, TableTypes DEF Waiting, Fit
  <1>4. bad \in BOOLEAN /\ bad = w.failed /\ k \in Nat /\ k > 0
    BY <1>1, <1>3 DEF Waiting
  <1> HIDE DEF bad, k
  <1>5. EchoSet(w, e, u, k, TRUE, bad)
    BY <1>3, <1>4, EchoFields
  <1> HIDE DEF e
  <1>6. Fit(e, o) /\ \A i \in Links : Ending(e, i)
    BY <1>1, <1>5, FitOn DEF Waiting, SameLinks, EchoSet
  <1>7. w.opt = t.opt
    BY <1>1 DEF SameDevices
  <1>8. Alone(e) /\ IdleFits(e)
    BY <1>1, <1>4, <1>5, <1>7 DEF Waiting, SameLinks, Alone, IdleFits, EchoSet
  <1>9. EchoFits(e)
    BY <1>4, <1>5, <1>7 DEF SameLinks, EchoFits, EchoSet
  <1>10. QED
    BY <1>1, <1>2, <1>5, <1>6, <1>8, <1>9 DEF Good, SameDevices, SameLinks, EchoSet

(* A callout of the echo timer fires; its flag may be reset.                *)
LEMMA EchoFires ==
  ASSUME NEW t \in Tables, NEW u \in Slots, NEW k \in Nat
  PROVE  LET w == [t EXCEPT !.echo[u] = k]
         IN  /\ EchoSet(t, w, u, k, t.echo_running, t.failed)
             /\ EchoSet(t, [w EXCEPT !.echo_running = FALSE], u, k, FALSE, t.failed)
  <1> DEFINE A == [t.echo EXCEPT ![u] = k]
             w == [t EXCEPT !.echo = A]
             e == [w EXCEPT !.echo_running = FALSE]
  <1>1. t.echo \in [Slots -> Nat]
    BY TableTypes
  <1>2. A \in [Slots -> Nat] /\ A[u] = k /\ \A v \in Slots \ {u} : A[v] = t.echo[v]
    BY <1>1
  <1>3. w = [t EXCEPT !.echo[u] = k]
    OBVIOUS
  <1> HIDE DEF A
  <1>4. /\ w \in Tables /\ SameLinks(t, w) /\ w.idle = t.idle /\ w.conn = t.conn
        /\ w.idle_running = t.idle_running /\ w.failed = t.failed
        /\ w.echo_running = t.echo_running /\ w.echo = A
    BY <1>2 DEF Tables, SameLinks
  <1> SUFFICES /\ EchoSet(t, w, u, k, t.echo_running, t.failed)
               /\ EchoSet(t, e, u, k, FALSE, t.failed)
    BY <1>3
  <1> HIDE DEF w
  <1>5. /\ e \in Tables /\ SameLinks(w, e) /\ e.idle = w.idle /\ e.conn = w.conn
        /\ e.idle_running = w.idle_running /\ e.failed = w.failed
        /\ e.echo_running = FALSE /\ e.echo = w.echo
    BY <1>4 DEF Tables, SameLinks
  <1> HIDE DEF e
  <1>6. EchoSet(t, w, u, k, t.echo_running, t.failed)
    BY <1>2, <1>4 DEF EchoSet
  <1>7. EchoSet(t, e, u, k, FALSE, t.failed)
    BY <1>2, <1>4, <1>5 DEF EchoSet, SameLinks
  <1>8. QED
    BY <1>6, <1>7

(* A callout of the idle timer fires; its flag may be reset.                *)
LEMMA IdleFires ==
  ASSUME NEW t \in Tables, NEW u \in Slots, NEW k \in Nat
  PROVE  LET w == [t EXCEPT !.idle[u] = k]
         IN  /\ IdleSet(t, w, u, k, t.idle_running, t.failed)
             /\ IdleSet(t, [w EXCEPT !.idle_running = FALSE], u, k, FALSE, t.failed)
  <1> DEFINE A == [t.idle EXCEPT ![u] = k]
             w == [t EXCEPT !.idle = A]
             e == [w EXCEPT !.idle_running = FALSE]
  <1>1. t.idle \in [Slots -> Nat]
    BY TableTypes
  <1>2. A \in [Slots -> Nat] /\ A[u] = k /\ \A v \in Slots \ {u} : A[v] = t.idle[v]
    BY <1>1
  <1>3. w = [t EXCEPT !.idle[u] = k]
    OBVIOUS
  <1> HIDE DEF A
  <1>4. /\ w \in Tables /\ SameLinks(t, w) /\ w.echo = t.echo /\ w.conn = t.conn
        /\ w.echo_running = t.echo_running /\ w.failed = t.failed
        /\ w.idle_running = t.idle_running /\ w.idle = A
    BY <1>2 DEF Tables, SameLinks
  <1> SUFFICES /\ IdleSet(t, w, u, k, t.idle_running, t.failed)
               /\ IdleSet(t, e, u, k, FALSE, t.failed)
    BY <1>3
  <1> HIDE DEF w
  <1>5. /\ e \in Tables /\ SameLinks(w, e) /\ e.echo = w.echo /\ e.conn = w.conn
        /\ e.echo_running = w.echo_running /\ e.failed = w.failed
        /\ e.idle_running = FALSE /\ e.idle = w.idle
    BY <1>4 DEF Tables, SameLinks
  <1> HIDE DEF e
  <1>6. IdleSet(t, w, u, k, t.idle_running, t.failed)
    BY <1>2, <1>4 DEF IdleSet
  <1>7. IdleSet(t, e, u, k, FALSE, t.failed)
    BY <1>2, <1>4, <1>5 DEF IdleSet, SameLinks
  <1>8. QED
    BY <1>6, <1>7

LEMMA EchoTimeoutGood ==
  ASSUME NEW o, NEW t, Good(t, o), NEW u \in Slots, t.echo[u] > 0,
         NEW quiet \in BOOLEAN, NEW ioctl \in BOOLEAN
  PROVE  LET e == LcpEchoTimeout([t EXCEPT !.echo[u] = @ - 1], u, quiet, ioctl)
         IN  Good(e, o) /\ SameDevices(t, e)
  <1> DEFINE k == t.echo[u] - 1
             w == [t EXCEPT !.echo[u] = k]
             z == [w EXCEPT !.echo_running = FALSE]
             e == LcpEchoTimeout(w, u, quiet, ioctl)
  <1>1. t \in Tables /\ k \in Nat /\ t.echo_running \in BOOLEAN
    BY TableTypes DEF Good, Fit
  <1> SUFFICES Good(e, o) /\ SameDevices(t, e)
    OBVIOUS
  <1> HIDE DEF k
  <1>2. EchoSet(t, w, u, k, t.echo_running, t.failed) /\ EchoSet(t, z, u, k, FALSE, t.failed)
    BY <1>1, EchoFires
  <1>3. /\ ~w.echo_running => e = w
        /\ w.echo_running /\ (w.lcp[u].unit # None \/ ioctl) => e = LcpEchoCheck(z, u, quiet)
        /\ w.echo_running /\ ~(w.lcp[u].unit # None \/ ioctl) => e = z
    BY DEF LcpEchoTimeout
  <1> HIDE DEF w, z, e
  <1>4. t.opt.numdev = 1 => u = 0
    BY DEF Good, Alone
  <1>5. Waiting(z, o) /\ SameDevices(t, z)
    <2>1. Fit(z, o) /\ \A i \in Links : Ending(z, i)
      BY <1>2, FitOn DEF Good, EchoSet, SameLinks
    <2>2. Alone(z) /\ IdleFits(z)
      BY <1>2, <1>4 DEF Good, Alone, IdleFits, EchoSet, SameLinks
    <2>3. QED
      BY <1>2, <2>1, <2>2 DEF Waiting, SameDevices, EchoSet, SameLinks
  <1>6. CASE ~w.echo_running
    <2>1. t.echo_running = FALSE
      BY <1>1, <1>2, <1>6 DEF EchoSet
    <2>2. Fit(w, o) /\ \A i \in Links : Ending(w, i)
      BY <1>2, FitOn DEF Good, EchoSet, SameLinks
    <2>3. Alone(w) /\ IdleFits(w)
      BY <1>2, <1>4 DEF Good, Alone, IdleFits, EchoSet, SameLinks
    <2>4. EchoFits(w)
      BY <1>2, <2>1 DEF Good, EchoFits, EchoSet, SameLinks
    <2>5. QED
      BY <1>2, <1>3, <1>6, <2>2, <2>3, <2>4 DEF Good, SameDevices, EchoSet, SameLinks
  <1>7. CASE w.echo_running /\ (w.lcp[u].unit # None \/ ioctl)
    <2>1. z.opt.numdev = 1 => u = 0
      BY <1>2, <1>4 DEF EchoSet, SameLinks
    <2>2. LET f == LcpEchoCheck(z, u, quiet) IN Good(f, o) /\ SameDevices(z, f)
      BY <1>5, <2>1, EchoCheckGood
    <2>3. QED
      BY <1>3, <1>5, <1>7, <2>2 DEF SameDevices
  <1>8. CASE w.echo_running /\ ~(w.lcp[u].unit # None \/ ioctl)
    <2>1. t.lcp[u].unit = None
      BY <1>2, <1>8 DEF EchoSet, SameLinks
    <2>2. ~t.lcp[u].upper
      BY <2>1, AtRest, OwnerFacts, NoneFacts DEF Good
    <2>3. EchoFits(z)
      BY <1>2, <1>4, <2>2 DEF EchoFits, EchoSet, SameLinks
    <2>4. QED
      BY <1>3, <1>5, <1>8, <2>3 DEF Waiting, Good
  <1>9. QED
    BY <1>6, <1>7, <1>8

(* The tables while IdleTimeCheck runs or LCP comes up: no idle timer.     *)
Idling(t, o) ==
    /\ Fit(t, o) /\ (\A i \in Links : Ending(t, i)) /\ Alone(t) /\ EchoFits(t)
    /\ t.idle_running = FALSE

LEMMA RestartIdleGood ==
  ASSUME NEW o, NEW t, Idling(t, o), NEW u \in Slots,
         t.opt.numdev = 1 => u = 0 /\ t.lcp[u].upper,
         NEW quiet \in BOOLEAN
  PROVE  LET e == RestartIdleTimer(t, u, quiet)
         IN  /\ Good(e, o) /\ SameDevices(t, e)
             /\ ~quiet => e.lns = t.lns /\ e.lcp = t.lcp /\ e.ncp = t.ncp
  <1> DEFINE e == RestartIdleTimer(t, u, quiet)
             bad == t.failed \/ t.idle_running
             k == t.idle[u] + 1
             z == [t EXCEPT !.failed = bad, !.idle[u] = k, !.idle_running = TRUE]
             i == t.lcp[u].unit
  <1>1. t \in Tables /\ t.idle[u] \in Nat /\ t.failed \in BOOLEAN
    BY TableTypes DEF Idling, Fit
  <1>2. bad \in BOOLEAN /\ bad = t.failed /\ k \in Nat /\ k > 0
    BY <1>1 DEF Idling
  <1>3. e = IF quiet /\ t.lcp[u].state = "OPENED" THEN CloseLink(t, i) ELSE z
    BY DEF RestartIdleTimer
  <1> HIDE DEF e, bad, k
  <1>4. CASE quiet /\ t.lcp[u].state = "OPENED"
    <2>1. t.lcp[u].inuse
      BY <1>4, AtRest DEF Idling
    <2>2. i \in Links /\ t.lns[i].fd = "open" /\ t.lns[i].lcp_unit = u
      BY <2>1, OwnerFacts DEF Idling
    <2>3. e = CloseLink(t, i)
      BY <1>3, <1>4
    <2> HIDE DEF i
    <2>4. /\ Fit(e, o) /\ Lowers(t, e, u) /\ Ending(e, i) /\ e.lcp[u].upper = FALSE
          /\ \A j \in Links \ {i} : Ending(t, j) => Ending(e, j)
          /\ e.echo_running = FALSE /\ e.idle_running = FALSE
      BY <1>4, <2>2, <2>3, CloseLinkFacts DEF Idling
    <2>5. \A j \in Links : Ending(e, j)
      BY <2>4 DEF Idling
    <2>6. Alone(e) /\ EchoFits(e)
      BY <2>1, <2>4, LowersFits DEF Idling
    <2>7. IdleFits(e)
      BY <2>4 DEF IdleFits, Lowers
    <2>8. QED
      BY <1>4, <2>4, <2>5, <2>6, <2>7 DEF Good, SameDevices, Lowers, e
  <1>5. CASE ~(quiet /\ t.lcp[u].state = "OPENED")
    <2>1. IdleSet(t, z, u, k, TRUE, bad)
      BY <1>1, <1>2, IdleFields
    <2>2. e = z
      BY <1>3, <1>5
    <2> HIDE DEF z
    <2>3. Fit(z, o) /\ \A j \in Links : Ending(z, j)
      BY <2>1, FitOn DEF Idling, IdleSet, SameLinks
    <2>4. Alone(z) /\ EchoFits(z)
      BY <1>2, <2>1 DEF Idling, Alone, EchoFits, IdleSet, SameLinks
    <2>5. IdleFits(z)
      BY <1>2, <2>1 DEF IdleFits, IdleSet, SameLinks
    <2>6. QED
      BY <2>1, <2>2, <2>3, <2>4, <2>5 DEF Good, SameDevices, IdleSet, SameLinks, e
  <1>6. QED
    BY <1>4, <1>5

LEMMA IdleTimeGood ==
  ASSUME NEW o, NEW t, Good(t, o), NEW u \in Slots, t.idle[u] > 0,
         NEW quiet \in BOOLEAN, NEW ioctl \in BOOLEAN
  PROVE  LET e == IdleTimeCheck([t EXCEPT !.idle[u] = @ - 1], u, quiet, ioctl)
         IN  Good(e, o) /\ SameDevices(t, e)
  <1> DEFINE k == t.idle[u] - 1
             w == [t EXCEPT !.idle[u] = k]
             z == [w EXCEPT !.idle_running = FALSE]
             e == IdleTimeCheck(w, u, quiet, ioctl)
  <1>1. t \in Tables /\ k \in Nat /\ t.idle_running \in BOOLEAN
    BY TableTypes DEF Good, Fit
  <1> SUFFICES Good(e, o) /\ SameDevices(t, e)
    OBVIOUS
  <1> HIDE DEF k
  <1>2. IdleSet(t, w, u, k, t.idle_running, t.failed) /\ IdleSet(t, z, u, k, FALSE, t.failed)
    BY <1>1, IdleFires
  <1>3. /\ ~w.idle_running => e = w
        /\ w.idle_running /\ (w.lcp[u].unit # None \/ ioctl) => e = RestartIdleTimer(z, u, quiet)
        /\ w.idle_running /\ ~(w.lcp[u].unit # None \/ ioctl) => e = z
    BY DEF IdleTimeCheck
  <1> HIDE DEF w, z, e
  <1>4. t.opt.numdev = 1 => u = 0
    BY DEF Good, Alone
  <1>5. Idling(z, o) /\ SameDevices(t, z)
    <2>1. Fit(z, o) /\ \A i \in Links : Ending(z, i)
      BY <1>2, FitOn DEF Good, IdleSet, SameLinks
    <2>2. Alone(z) /\ EchoFits(z)
      BY <1>2, <1>4 DEF Good, Alone, EchoFits, IdleSet, SameLinks
    <2>3. QED
      BY <1>2, <2>1, <2>2 DEF Idling, SameDevices, IdleSet, SameLinks
  <1>6. CASE ~w.idle_running
    <2>1. t.idle_running = FALSE
      BY <1>1, <1>2, <1>6 DEF IdleSet
    <2>2. Fit(w, o) /\ \A i \in Links : Ending(w, i)
      BY <1>2, FitOn DEF Good, IdleSet, SameLinks
    <2>3. Alone(w) /\ EchoFits(w)
      BY <1>2, <1>4 DEF Good, Alone, EchoFits, IdleSet, SameLinks
    <2>4. IdleFits(w)
      BY <1>2, <2>1 DEF Good, IdleFits, IdleSet, SameLinks
    <2>5. QED
      BY <1>2, <1>3, <1>6, <2>2, <2>3, <2>4 DEF Good, SameDevices, IdleSet, SameLinks
  <1>7. CASE w.idle_running /\ (w.lcp[u].unit # None \/ ioctl)
    <2>1. z.opt.numdev = 1 => u = 0 /\ z.lcp[u].upper
      BY <1>2, <1>4, <1>7 DEF IdleSet, SameLinks, Good, IdleFits
    <2>2. LET f == RestartIdleTimer(z, u, quiet) IN Good(f, o) /\ SameDevices(z, f)
      BY <1>5, <2>1, RestartIdleGood
    <2>3. QED
      BY <1>3, <1>5, <1>7, <2>2 DEF SameDevices
  <1>8. CASE w.idle_running /\ ~(w.lcp[u].unit # None \/ ioctl)
    <2>1. t.lcp[u].unit = None
      BY <1>2, <1>8 DEF IdleSet, SameLinks
    <2>2. ~t.lcp[u].upper
      BY <2>1, AtRest, OwnerFacts, NoneFacts DEF Good
    <2>3. IdleFits(z)
      BY <1>2, <1>4, <2>2 DEF IdleFits, IdleSet, SameLinks
    <2>4. QED
      BY <1>3, <1>5, <1>8, <2>3 DEF Idling, Good
  <1>9. QED
    BY <1>6, <1>7, <1>8

-----------------------------------------------------------------------------
(* A link comes up                                                         *)

LEMMA EstablishGood ==
  ASSUME NEW o, NEW t, Good(t, o), NEW i \in Links, t.lns[i].fd = "open"
  PROVE  LET e == Establish(t, i)
         IN  /\ Good(e, o) /\ SameDevices(t, e) /\ e.lns[i].phase # "WAIT"
             /\ e.lns[i].lcp_unit = t.lns[i].lcp_unit
  <1> DEFINE u == t.lns[i].lcp_unit
             w == SetPhase(t, i, "ESTABLISH")
             x == [w EXCEPT !.lcp[u].state = "NEGOTIATING"]
             k == IF t.opt.maxconnect THEN x.conn[i] + 1 ELSE x.conn[i]
             y == [x EXCEPT !.conn[i] = k]
             e == Establish(t, i)
  <1>1. CASE t.lns[i].phase # "WAIT"
    BY <1>1 DEF Establish, SameDevices
  <1>2. CASE t.lns[i].phase = "WAIT"
    <2>1. t \in Tables /\ Fit(t, o) /\ LinkFits(t, i)
      BY DEF Good, Fit
    <2>2. u \in Slots /\ t.lcp[u].inuse /\ t.lcp[u].unit = i /\ t.lcp[u].state = "CLOSED"
      BY <1>2, <2>1 DEF LinkFits, LcpOf
    <2>3. ~t.lcp[u].upper /\ ~LcpOf(t, i).upper
      BY <2>1, <2>2, AtRest DEF LcpOf
    <2>4. Marks(t, w, i, "ESTABLISH")
      BY <2>1, PhaseFacts DEF Phases
    <2>5. e = y
      <3>1. e = [w EXCEPT !.lcp[u].state = "NEGOTIATING",
                          !.conn[i] = IF t.opt.maxconnect THEN @ + 1 ELSE @]
        BY <1>2 DEF Establish
      <3>2. x.conn = w.conn
        OBVIOUS
      <3> HIDE DEF w, e
      <3>3. QED
        BY <3>1, <3>2
    <2> HIDE DEF w, e
    <2>6. Fit(w, o)
      BY <2>1, <2>3, <2>4, NotUp, MarkFits DEF Phases
    <2>7. \A j \in Links : Ending(w, j)
      BY <2>4 DEF Good, Ending, Marks, LcpOf
    <2>8. Good(w, o) /\ SameDevices(t, w)
      BY <2>2, <2>4, <2>6, <2>7, MarkLowers, LowersGood
    <2>9. Turns(w, x, u, "NEGOTIATING")
      BY <2>2, <2>6, TurnFacts DEF Fit, LayerStates
    <2> HIDE DEF x
    <2>10. w.lcp[u].inuse /\ ~w.lcp[u].upper /\ w.lns[w.lcp[u].unit].phase # "WAIT"
      BY <2>2, <2>3, <2>4 DEF Marks
    <2>11. Fit(x, o) /\ \A j \in Links : Ending(x, j)
      BY <2>2, <2>6, <2>7, <2>9, <2>10, TurnFits
    <2>12. Good(x, o) /\ SameDevices(w, x)
      BY <2>2, <2>8, <2>9, <2>10, <2>11, TurnLowers, LowersGood
    <2>13. k \in Nat
      BY <2>11, TableTypes DEF Fit
    <2> HIDE DEF k
    <2>14. Good(y, o) /\ SameDevices(x, y) /\ y.lns = x.lns
      BY <2>12, <2>13, ConnGood
    <2> HIDE DEF y
    <2>15. y.lns[i].phase = "ESTABLISH" /\ y.lns[i].lcp_unit = u
      BY <2>4, <2>9, <2>14 DEF Marks, Turns
    <2>16. Good(e, o) /\ SameDevices(t, e) /\ e.lns[i].phase # "WAIT" /\ e.lns[i].lcp_unit = u
      BY <2>5, <2>8, <2>12, <2>14, <2>15 DEF SameDevices
    <2>17. QED
      BY <2>16 DEF e, u
  <1>3. QED
    BY <1>1, <1>2

(* LCP is up on u, and nothing else is different.                          *)
Raised(t, e, u, disc) ==
    /\ e \in Tables /\ e.opt = t.opt /\ e.lns = t.lns /\ e.ncp = t.ncp /\ SameTimers(t, e)
    /\ e.lcp[u].state = "OPENED" /\ e.lcp[u].upper = TRUE /\ e.lcp[u].disc = disc
    /\ e.lcp[u].inuse = t.lcp[u].inuse /\ e.lcp[u].unit = t.lcp[u].unit
    /\ \A v \in Slots \ {u} : e.lcp[v] = t.lcp[v]

LEMMA RaiseFacts ==
  ASSUME NEW t \in Tables, NEW u \in Slots, NEW disc \in Discs \cup {NoMp}
  PROVE  Raised(t, [t EXCEPT !.lcp[u].state = "OPENED", !.lcp[u].upper = TRUE,
                             !.lcp[u].disc = disc], u, disc)
  <1> DEFINE c == [t.lcp[u] EXCEPT !.state = "OPENED", !.upper = TRUE, !.disc = disc]
             C == [t.lcp EXCEPT ![u] = c]
             e == [t EXCEPT !.lcp = C]
  <1>1. t.lcp \in [Slots -> LcpRecord] /\ "OPENED" \in LayerStates
    BY TableTypes DEF LayerStates
  <1>2. /\ c \in LcpRecord /\ c.state = "OPENED" /\ c.upper = TRUE
        /\ c.disc = disc /\ c.inuse = t.lcp[u].inuse /\ c.unit = t.lcp[u].unit
    BY <1>1 DEF LcpRecord
  <1>3. e = [t EXCEPT !.lcp[u].state = "OPENED", !.lcp[u].upper = TRUE, !.lcp[u].disc = disc]
    BY <1>1 DEF Tables
  <1> HIDE DEF c
  <1>4. C \in [Slots -> LcpRecord] /\ C[u] = c /\ \A v \in Slots \ {u} : C[v] = t.lcp[v]
    BY <1>1, <1>2
  <1> HIDE DEF C
  <1>5. /\ e \in Tables /\ e.lcp = C /\ e.opt = t.opt /\ e.lns = t.lns /\ e.ncp = t.ncp
        /\ SameTimers(t, e)
    BY <1>4, SetLcp
  <1> SUFFICES Raised(t, e, u, disc)
    BY <1>3
  <1> HIDE DEF e
  <1>6. QED
    BY <1>2, <1>4, <1>5 DEF Raised

(* The link that comes up is in no ring, so that what it agreed on with    *)
(* its peer concerns no other.                                             *)
LEMMA RaiseFits ==
  ASSUME NEW o, NEW t, Fit(t, o), NEW u \in Slots, t.lcp[u].inuse, ~t.lcp[u].upper,
         t.lns[t.lcp[u].unit].phase # "WAIT",
         NEW disc, t.opt.mp \/ disc = NoMp, NEW e, Raised(t, e, u, disc)
  PROVE  /\ Fit(e, o)
         /\ \A j \in Links : j # t.lcp[u].unit /\ Ending(t, j) => Ending(e, j)
  <1> DEFINE i == t.lcp[u].unit
  <1>1. t \in Tables /\ e.lns = t.lns /\ e.ncp = t.ncp /\ e.opt = t.opt
    BY DEF Fit, Raised
  <1>2. i \in Links /\ t.lns[i].fd = "open" /\ t.lns[i].lcp_unit = u /\ LinkFits(t, i)
        /\ LcpOf(t, i) = t.lcp[u]
    BY OwnerFacts
  <1> HIDE DEF i
  <1>3. t.lns[i].bundle_next = i /\ (~t.opt.mp => \A p \in Protocols : t.lns[i].unit[p] = None)
    BY <1>2, NotUp
  <1>4. \A j \in Links \ {i} : t.lns[j].fd = "open" => LcpOf(e, j) = LcpOf(t, j)
    <2> SUFFICES ASSUME NEW j \in Links \ {i}, t.lns[j].fd = "open"
                 PROVE  LcpOf(e, j) = LcpOf(t, j)
      OBVIOUS
    <2>1. LinkFits(t, j)
      BY DEF Fit
    <2>2. t.lns[j].lcp_unit \in Slots /\ t.lns[j].lcp_unit # u
      BY <1>2, <2>1, UnitsApart DEF LinkFits
    <2>3. QED
      BY <1>1, <2>2 DEF LcpOf, Raised
  <1>5. \A j \in Links : LinkFits(e, j)
    <2> SUFFICES ASSUME NEW j \in Links PROVE LinkFits(e, j)
      OBVIOUS
    <2>1. LinkFits(t, j)
      BY DEF Fit
    <2>2. Devices(e) = Devices(t)
      BY <1>1 DEF Devices
    <2>3. CASE j = i
      <3>1. /\ LcpOf(e, i) = e.lcp[u] /\ e.lcp[u].upper
            /\ e.lcp[u].inuse = t.lcp[u].inuse /\ e.lcp[u].unit = t.lcp[u].unit
        BY <1>1, <1>2 DEF LcpOf, Raised
      <3>2. t.lns[i].phase # "WAIT"
        BY <1>2 DEF i
      <3>3. QED
        BY <1>1, <1>2, <1>3, <2>2, <2>3, <3>1, <3>2 DEF LinkFits
    <2>4. CASE j # i
      BY <1>1, <1>4, <2>1, <2>2, <2>4 DEF LinkFits
    <2>5. QED
      BY <2>3, <2>4
  <1>6. \A v \in Slots : UnitFits(e, v)
    <2> SUFFICES ASSUME NEW v \in Slots PROVE UnitFits(e, v)
      OBVIOUS
    <2>1. UnitFits(t, v)
      BY DEF Fit
    <2>2. CASE v = u
      BY <1>1, <2>1, <2>2 DEF UnitFits, Raised
    <2>3. CASE v # u
      BY <1>1, <2>1, <2>3 DEF UnitFits, Raised
    <2>4. QED
      BY <2>2, <2>3
  <1>7. Rings(e)
    BY <1>1 DEF Fit, Rings
  <1>8. OwnUnits(e)
    <2>1. OwnUnits(t)
      BY DEF Fit
    <2>2. QED
      BY <1>1, <1>3, <1>4, <2>1, OwnDiscs, OwnKept DEF Raised
  <1>9. ASSUME ~o PROVE SameNumbers(e) /\ SamePeers(e)
    <2>1. SameNumbers(e)
      BY <1>1, <1>9 DEF Fit, SameNumbers
    <2>2. ASSUME NEW j \in Links, e.lns[j].bundle_next # j
          PROVE  /\ LcpOf(e, j).disc # NoMp
                 /\ LcpOf(e, e.lns[j].bundle_next).disc = LcpOf(e, j).disc
      <3> DEFINE k == t.lns[j].bundle_next
      <3>1. k \in Links /\ k # j
        BY <1>1, <2>2, TableTypes, LinkTypes
      <3>2. LcpOf(t, j).disc # NoMp /\ LcpOf(t, k).disc = LcpOf(t, j).disc
        BY <1>9, <3>1 DEF Fit, SamePeers
      <3>3. t.lns[k].bundle_next # k
        BY <3>1 DEF Fit, Rings
      <3>4. t.lns[j].fd = "open" /\ t.lns[k].fd = "open"
        BY <3>1, <3>3 DEF Fit, LinkFits
      <3>5. j # i /\ k # i
        BY <1>3, <3>1, <3>3
      <3>6. QED
        BY <1>1, <1>4, <3>1, <3>2, <3>4, <3>5
    <2>3. QED
      BY <2>1, <2>2 DEF SamePeers
  <1>10. \A j \in Links : j # i /\ Ending(t, j) => Ending(e, j)
    BY <1>1, <1>4 DEF Ending
  <1>11. QED
    BY <1>5, <1>6, <1>7, <1>8, <1>9, <1>10 DEF Fit, Raised, i

(* The timers of lcp.c are started for u.                                  *)
Watched(t, e, u) ==
    /\ e \in Tables /\ SameLinks(t, e)
    /\ \A v \in Slots \ {u} : e.echo[v] = t.echo[v] /\ e.idle[v] = t.idle[v]
    /\ IF t.opt.echo THEN e.echo_running = TRUE /\ e.echo[u] > 0 ELSE e.echo_running = FALSE
    /\ IF t.opt.idle THEN e.idle_running = TRUE /\ e.idle[u] > 0
                     ELSE e.idle_running = t.idle_running
    /\ t.idle_running = FALSE => e.failed = t.failed

LEMMA LowerupFacts ==
  ASSUME NEW t \in Tables, NEW u \in Slots
  PROVE  Watched(t, lcp_echo_lowerup(t, u), u)
  <1> DEFINE w == [t EXCEPT !.echos_pending = 0, !.echo_running = FALSE]
             k == w.echo[u] + 1
             b == w.failed \/ w.echo_running
             x == [w EXCEPT !.failed = b, !.echo[u] = k, !.echo_running = TRUE]
             f == IF t.opt.echo THEN x ELSE w
             m == f.idle[u] + 1
             c == f.failed \/ f.idle_running
             y == [f EXCEPT !.failed = c, !.idle[u] = m, !.idle_running = TRUE]
             e == IF t.opt.idle THEN y ELSE f
  <1>1. lcp_echo_lowerup(t, u) = e
    BY DEF lcp_echo_lowerup, LcpEchoCheck, RestartIdleTimer
  <1>2. /\ w \in Tables /\ SameLinks(t, w) /\ w.echo = t.echo /\ w.idle = t.idle
        /\ w.echo_running = FALSE /\ w.idle_running = t.idle_running /\ w.failed = t.failed
    BY DEF Tables, SameLinks
  <1> HIDE DEF w
  <1>3. k \in Nat /\ k > 0 /\ b \in BOOLEAN /\ b = t.failed
    BY <1>2, TableTypes
  <1> HIDE DEF k, b
  <1>4. EchoSet(w, x, u, k, TRUE, b)
    BY <1>2, <1>3, EchoFields
  <1> HIDE DEF x
  <1>5. /\ f \in Tables /\ SameLinks(t, f) /\ f.idle = t.idle
        /\ \A v \in Slots \ {u} : f.echo[v] = t.echo[v]
        /\ f.idle_running = t.idle_running /\ f.failed = t.failed
        /\ IF t.opt.echo THEN f.echo_running = TRUE /\ f.echo[u] > 0
                         ELSE f.echo_running = FALSE
    BY <1>2, <1>3, <1>4 DEF EchoSet, SameLinks
  <1> HIDE DEF f
  <1>6. /\ m \in Nat /\ m > 0 /\ c \in BOOLEAN
        /\ t.idle_running = FALSE => c = t.failed
    BY <1>5, TableTypes
  <1> HIDE DEF m, c
  <1>7. IdleSet(f, y, u, m, TRUE, c)
    BY <1>5, <1>6, IdleFields
  <1> HIDE DEF y
  <1>8. Watched(t, e, u)
    BY <1>5, <1>6, <1>7 DEF IdleSet, SameLinks, Watched
  <1>9. QED
    BY <1>1, <1>8

LEMMA GetunitFacts ==
  ASSUME NEW tab
  PROVE  \/ getunit(tab) = None /\ \A v \in Slots : tab[v].inuse
         \/ /\ getunit(tab) \in Slots /\ ~tab[getunit(tab)].inuse
            /\ \A v \in Slots : v < getunit(tab) => tab[v].inuse
  <1> DEFINE free == {u \in Slots : ~tab[u].inuse}
  <1>1. CASE free = {}
    BY <1>1 DEF getunit
  <1>2. CASE free # {}
    <2>1. free \subseteq Nat
      BY DEF Slots
    <2>2. \E x \in free : \A y \in free : x <= y
      BY <1>2, <2>1, LeastElement
    <2>3. Min(free) \in free /\ \A y \in free : Min(free) <= y
      BY <2>2 DEF Min
    <2>4. getunit(tab) = Min(free)
      BY <1>2 DEF getunit
    <2>5. \A v \in Slots : v < Min(free) => v \notin free
      BY <2>1, <2>3
    <2>6. QED
      BY <2>3, <2>4, <2>5
  <1>3. QED
    BY <1>1, <1>2

(* A link gets other units and another phase.                              *)
GetsUnits(r, l, U, ph) ==
    /\ l \in LinkRecord /\ l.phase = ph /\ l.fd = r.fd /\ l.openfails = r.openfails
    /\ l.bundle_next = r.bundle_next /\ l.lcp_unit = r.lcp_unit /\ l.auth = r.auth
    /\ l.unit = U

LEMMA LinkUnits ==
  ASSUME NEW r \in LinkRecord, NEW U \in [Protocols -> Slots \cup {None}],
         NEW ph \in Phases
  PROVE  GetsUnits(r, [r EXCEPT !.unit = U, !.phase = ph], U, ph)
  <1> DEFINE F == [Protocols -> Slots \cup {None}]
  <1>1. LinkRecord = [phase : Phases, fd : {"shut", "off", "open"},
                      openfails : 0 .. MaxOpenFails, bundle_next : Links,
                      lcp_unit : Slots \cup {None}, auth : BOOLEAN, unit : F]
    BY DEF LinkRecord
  <1>2. U \in F
    OBVIOUS
  <1> HIDE DEF F
  <1>3. QED
    BY <1>1, <1>2 DEF GetsUnits

(* Link i becomes the neighbour of j in its ring.                          *)
Joins(t, e, i, j) ==
    /\ e \in Tables /\ e.opt = t.opt /\ e.lcp = t.lcp /\ e.ncp = t.ncp /\ SameTimers(t, e)
    /\ \A k \in Links :
         /\ e.lns[k].fd = t.lns[k].fd /\ e.lns[k].openfails = t.lns[k].openfails
         /\ e.lns[k].lcp_unit = t.lns[k].lcp_unit /\ e.lns[k].auth = t.lns[k].auth
         /\ k # i => e.lns[k].phase = t.lns[k].phase
         /\ k # i /\ k # j => e.lns[k].bundle_next = t.lns[k].bundle_next
    /\ e.lns[i].phase = "NETWORK" /\ e.lns[i].bundle_next = t.lns[j].bundle_next
    /\ e.lns[j].bundle_next = i

LEMMA BundleJoins ==
  ASSUME NEW t \in Tables, NEW i \in Links, NEW j \in Links, i # j
  PROVE  Joins(t, Bundle(t, i, j), i, j)
  <1> DEFINE n == t.lns[j].bundle_next
             li == [t.lns[i] EXCEPT !.bundle_next = n, !.unit = t.lns[j].unit,
                                    !.phase = "NETWORK"]
             lj == [t.lns[j] EXCEPT !.bundle_next = i]
             L == [[t.lns EXCEPT ![i] = li] EXCEPT ![j] = lj]
             e == [t EXCEPT !.lns = L]
  <1>1. /\ t.lns \in [Links -> LinkRecord] /\ n \in Links /\ "NETWORK" \in Phases
        /\ t.lns[j].unit \in [Protocols -> Slots \cup {None}]
    BY TableTypes, LinkTypes DEF Phases
  <1>2. Bundle(t, i, j) = e
    BY <1>1 DEF Bundle
  <1> HIDE DEF n
  <1>3. /\ li \in LinkRecord /\ li.phase = "NETWORK" /\ li.fd = t.lns[i].fd
        /\ li.openfails = t.lns[i].openfails /\ li.bundle_next = n
        /\ li.lcp_unit = t.lns[i].lcp_unit /\ li.auth = t.lns[i].auth
    <2> DEFINE y == [t.lns[i] EXCEPT !.unit = t.lns[j].unit, !.phase = "NETWORK"]
    <2>1. li = [y EXCEPT !.bundle_next = n]
      BY <1>1 DEF LinkRecord
    <2>2. t.lns[i] \in LinkRecord
      BY <1>1
    <2>3. GetsUnits(t.lns[i], y, t.lns[j].unit, "NETWORK")
      BY <1>1, <2>2, LinkUnits
    <2> HIDE DEF y, li
    <2>4. QED
      BY <1>1, <2>1, <2>3 DEF LinkRecord, GetsUnits
  <1>4. /\ lj \in LinkRecord /\ lj.phase = t.lns[j].phase /\ lj.fd = t.lns[j].fd
        /\ lj.openfails = t.lns[j].openfails /\ lj.bundle_next = i
        /\ lj.lcp_unit = t.lns[j].lcp_unit /\ lj.auth = t.lns[j].auth
    BY <1>1 DEF LinkRecord
  <1> HIDE DEF li, lj
  <1>5. /\ L \in [Links -> LinkRecord] /\ L[i] = li /\ L[j] = lj
        /\ \A k \in Links : k # i /\ k # j => L[k] = t.lns[k]
    BY <1>1, <1>3, <1>4
  <1> HIDE DEF L
  <1>6. /\ e \in Tables /\ e.lns = L /\ e.opt = t.opt /\ e.lcp = t.lcp /\ e.ncp = t.ncp
        /\ SameTimers(t, e)
    BY <1>5, SetLns
  <1> HIDE DEF e
  <1>7. Joins(t, e, i, j)
    BY <1>3, <1>4, <1>5, <1>6 DEF Joins, n
  <1>8. QED
    BY <1>2, <1>7

LEMMA JoinFits ==
  ASSUME NEW o, NEW t, Fit(t, o), NEW i \in Links, NEW j \in Links, i # j,
         t.lns[i].fd = "open", LcpOf(t, i).upper, t.lns[i].bundle_next = i,
         t.lns[j].phase = "NETWORK", LcpOf(t, i).disc # NoMp,
         t.lcp[j].disc = LcpOf(t, i).disc, NEW e, Joins(t, e, i, j)
  PROVE  Fit(e, o)
  <1>1. /\ t \in Tables /\ Rings(t) /\ LinkFits(t, i) /\ LinkFits(t, j)
        /\ e.lcp = t.lcp /\ e.opt = t.opt
        /\ \A k \in Links : t.lns[k].bundle_next \in Links
    BY TableTypes, LinkTypes DEF Fit, Joins
  <1>2. t.lns[j].fd = "open" /\ LcpOf(t, j).upper
    BY <1>1 DEF LinkFits
  <1>3. t.opt.mp
    BY <1>1, NoneFacts DEF Fit, OwnUnits, Unbundled, LinkFits, LcpOf
  <1>4. \A k \in Links : LcpOf(e, k) = LcpOf(t, k)
    BY DEF LcpOf, Joins
  <1>5. Rings(e)
    <2> DEFINE b(k) == IF k = i THEN t.lns[j].bundle_next
                       ELSE IF k = j THEN t.lns[i].bundle_next ELSE t.lns[k].bundle_next
    <2>1. \A k \in Links : e.lns[k].bundle_next = b(k)
      BY DEF Joins
    <2>2. \A k, m \in Links : b(k) = b(m) => k = m
      BY <1>1 DEF Rings
    <2> HIDE DEF b
    <2>3. QED
      BY <2>1, <2>2 DEF Rings
  <1>6. \A k \in Links : LinkFits(e, k)
    <2> SUFFICES ASSUME NEW k \in Links PROVE LinkFits(e, k)
      OBVIOUS
    <2>1. LinkFits(t, k)
      BY DEF Fit
    <2>2. CASE k = i
      BY <1>1, <1>4, <2>2 DEF LinkFits, Joins, Devices
    <2>3. CASE k = j
      BY <1>1, <1>2, <1>4, <2>3 DEF LinkFits, Joins, Devices
    <2>4. CASE k # i /\ k # j
      BY <1>1, <1>4, <2>1, <2>4 DEF LinkFits, Joins, Devices
    <2>5. QED
      BY <2>2, <2>3, <2>4
  <1>7. \A u \in Slots : UnitFits(e, u)
    <2>1. /\ e.lcp = t.lcp
          /\ \A k \in Links : e.lns[k].fd = t.lns[k].fd /\ e.lns[k].lcp_unit = t.lns[k].lcp_unit
      BY DEF Joins
    <2>2. ASSUME NEW u \in Slots PROVE UnitFits(e, u)
      <3>1. UnitFits(t, u)
        BY DEF Fit
      <3>2. QED
        BY <2>1, <3>1 DEF UnitFits
    <2>3. QED
      BY <2>2
  <1>8. OwnUnits(e)
    BY <1>1, <1>3 DEF OwnUnits, Unbundled
  <1>9. ASSUME ~o PROVE SameNumbers(e) /\ SamePeers(e)
    <2>1. SameNumbers(e) /\ t.lns[j].lcp_unit = j /\ SamePeers(t)
      BY <1>2, <1>9 DEF Fit, SameNumbers, Joins
    <2>2. LcpOf(t, j).disc = LcpOf(t, i).disc
      BY <2>1 DEF LcpOf
    <2>3. ASSUME NEW k \in Links, e.lns[k].bundle_next # k
          PROVE  /\ LcpOf(e, k).disc # NoMp
                 /\ LcpOf(e, e.lns[k].bundle_next).disc = LcpOf(e, k).disc
      <3>1. CASE k = i
        <4> DEFINE n == t.lns[j].bundle_next
        <4>1. n \in Links /\ e.lns[i].bundle_next = n
          BY <1>1 DEF Joins
        <4>2. LcpOf(t, n).disc = LcpOf(t, j).disc
          BY <2>1 DEF SamePeers
        <4>3. QED
          BY <1>4, <2>2, <3>1, <4>1, <4>2
      <3>2. CASE k = j
        BY <1>4, <2>2, <3>2 DEF Joins
      <3>3. CASE k # i /\ k # j
        BY <1>1, <1>4, <2>1, <2>3, <3>3 DEF Joins, SamePeers
      <3>4. QED
        BY <3>1, <3>2, <3>3
    <2>4. QED
      BY <2>1, <2>3 DEF SamePeers
  <1>10. QED
    BY <1>5, <1>6, <1>7, <1>8, <1>9 DEF Fit, Joins

(* Link i starts the network protocols, each with the first free unit.     *)
Starts(t, e, i) ==
    /\ e \in Tables /\ e.opt = t.opt /\ e.lcp = t.lcp /\ SameTimers(t, e)
    /\ \A k \in Links :
         /\ e.lns[k].fd = t.lns[k].fd /\ e.lns[k].openfails = t.lns[k].openfails
         /\ e.lns[k].lcp_unit = t.lns[k].lcp_unit /\ e.lns[k].auth = t.lns[k].auth
         /\ e.lns[k].bundle_next = t.lns[k].bundle_next
         /\ k # i => e.lns[k].phase = t.lns[k].phase /\ e.lns[k].unit = t.lns[k].unit
    /\ e.lns[i].phase = "NETWORK"
    /\ \A p \in Protocols :
         LET g == e.lns[i].unit[p]
         IN  /\ g # None => g \in Slots /\ ~t.ncp[p][g].inuse
                            /\ e.ncp[p][g] = [inuse |-> TRUE, unit |-> i]
             /\ \A v \in Slots : v # g => e.ncp[p][v] = t.ncp[p][v]

LEMMA ProtocolsStart ==
  ASSUME NEW t \in Tables, NEW i \in Links
  PROVE  Starts(t, StartProtocols(t, i), i)
  <1> DEFINE G == [p \in Protocols |-> getunit(t.ncp[p])]
             m == [inuse |-> TRUE, unit |-> i]
             l == [t.lns[i] EXCEPT !.unit = G, !.phase = "NETWORK"]
             L == [t.lns EXCEPT ![i] = l]
             N == [p \in Protocols |-> IF G[p] = None THEN t.ncp[p]
                                       ELSE [t.ncp[p] EXCEPT ![G[p]] = m]]
             e == [[t EXCEPT !.lns = L] EXCEPT !.ncp = N]
  <1>1. StartProtocols(t, i) = e
    BY DEF StartProtocols
  <1>2. /\ t.lns \in [Links -> LinkRecord] /\ t.ncp \in [Protocols -> [Slots -> NcpRecord]]
        /\ m \in NcpRecord /\ "NETWORK" \in Phases
    BY TableTypes DEF NcpRecord, Phases
  <1>3. \A p \in Protocols : G[p] = None \/ (G[p] \in Slots /\ ~t.ncp[p][G[p]].inuse)
    BY GetunitFacts
  <1>4. G \in [Protocols -> Slots \cup {None}]
    BY <1>3
  <1> HIDE DEF G, m
  <1>5. /\ l \in LinkRecord /\ l.phase = "NETWORK" /\ l.fd = t.lns[i].fd
        /\ l.openfails = t.lns[i].openfails /\ l.bundle_next = t.lns[i].bundle_next
        /\ l.lcp_unit = t.lns[i].lcp_unit /\ l.auth = t.lns[i].auth /\ l.unit = G
    <2>1. t.lns[i] \in LinkRecord
      BY <1>2
    <2>2. GetsUnits(t.lns[i], l, G, "NETWORK")
      BY <1>2, <1>4, <2>1, LinkUnits
    <2> HIDE DEF l
    <2>3. QED
      BY <2>2 DEF GetsUnits
  <1> HIDE DEF l
  <1>6. /\ L \in [Links -> LinkRecord] /\ L[i] = l
        /\ \A k \in Links : k # i => L[k] = t.lns[k]
    BY <1>2, <1>5
  <1>7. N \in [Protocols -> [Slots -> NcpRecord]]
    BY <1>2
  <1>8. \A p \in Protocols : /\ G[p] # None => N[p][G[p]] = m
                             /\ \A v \in Slots : v # G[p] => N[p][v] = t.ncp[p][v]
    BY <1>2, <1>3
  <1> HIDE DEF L, N
  <1>9. /\ e \in Tables /\ e.lns = L /\ e.ncp = N /\ e.opt = t.opt /\ e.lcp = t.lcp
        /\ SameTimers(t, e)
    <2> DEFINE w == [t EXCEPT !.lns = L]
    <2>1. /\ w \in Tables /\ w.lns = L /\ w.opt = t.opt /\ w.lcp = t.lcp /\ SameTimers(t, w)
      BY <1>6, SetLns
    <2> HIDE DEF w
    <2>2. LET y == [w EXCEPT !.ncp = N]
          IN  /\ y \in Tables /\ y.ncp = N /\ y.opt = w.opt /\ y.lns = w.lns /\ y.lcp = w.lcp
              /\ SameTimers(w, y)
      BY <1>7, <2>1, SetNcp
    <2>3. QED
      BY <2>1, <2>2 DEF SameTimers, w
  <1> HIDE DEF e
  <1>10. e.lns[i].unit = G /\ e.lns[i].phase = "NETWORK"
    BY <1>5, <1>6, <1>9
  <1>11. \A k \in Links :
           /\ e.lns[k].fd = t.lns[k].fd /\ e.lns[k].openfails = t.lns[k].openfails
           /\ e.lns[k].lcp_unit = t.lns[k].lcp_unit /\ e.lns[k].auth = t.lns[k].auth
           /\ e.lns[k].bundle_next = t.lns[k].bundle_next
           /\ k # i => e.lns[k].phase = t.lns[k].phase /\ e.lns[k].unit = t.lns[k].unit
    BY <1>5, <1>6, <1>9
  <1>12. Starts(t, e, i)
    BY <1>3, <1>8, <1>9, <1>10, <1>11 DEF Starts, m
  <1>13. QED
    BY <1>1, <1>12

(* What it leaves alone.                                                   *)
LEMMA StartParts ==
  ASSUME NEW t, NEW e, NEW i \in Links, Starts(t, e, i)
  PROVE  /\ e \in Tables /\ e.opt = t.opt /\ e.lcp = t.lcp /\ SameTimers(t, e)
         /\ e.lns[i].phase = "NETWORK"
         /\ \A k \in Links :
              /\ e.lns[k].fd = t.lns[k].fd /\ e.lns[k].openfails = t.lns[k].openfails
              /\ e.lns[k].lcp_unit = t.lns[k].lcp_unit /\ e.lns[k].auth = t.lns[k].auth
              /\ e.lns[k].bundle_next = t.lns[k].bundle_next
              /\ k # i => e.lns[k].phase = t.lns[k].phase /\ e.lns[k].unit = t.lns[k].unit
  BY DEF Starts

LEMMA StartFits ==
  ASSUME NEW o, NEW t, Fit(t, o), NEW i \in Links, t.lns[i].fd = "open", LcpOf(t, i).upper,
         t.lns[i].bundle_next = i, ~t.opt.mp => \A p \in Protocols : t.lns[i].unit[p] = None,
         NEW e, Starts(t, e, i)
  PROVE  Fit(e, o)
  <1>1. /\ t \in Tables /\ OwnUnits(t) /\ Rings(t)
        /\ \A k \in Links : t.lns[k].bundle_next \in Links
    BY TableTypes, LinkTypes DEF Fit
  <1>2. /\ e \in Tables /\ e.lcp = t.lcp /\ e.opt = t.opt /\ e.lns[i].phase = "NETWORK"
        /\ \A k \in Links :
             /\ e.lns[k].fd = t.lns[k].fd /\ e.lns[k].openfails = t.lns[k].openfails
             /\ e.lns[k].lcp_unit = t.lns[k].lcp_unit /\ e.lns[k].auth = t.lns[k].auth
             /\ e.lns[k].bundle_next = t.lns[k].bundle_next
             /\ k # i => e.lns[k].phase = t.lns[k].phase /\ e.lns[k].unit = t.lns[k].unit
    BY StartParts
  <1>3. \A k \in Links : LcpOf(e, k) = LcpOf(t, k)
    BY <1>2 DEF LcpOf
  <1> DEFINE g(p) == e.lns[i].unit[p]
  <1>4. ASSUME NEW p \in Protocols
        PROVE  g(p) # None => /\ g(p) \in Slots /\ ~t.ncp[p][g(p)].inuse
                              /\ e.ncp[p][g(p)] = [inuse |-> TRUE, unit |-> i]
    BY DEF Starts
  <1>5. ASSUME NEW p \in Protocols, NEW v \in Slots, v # g(p)
        PROVE  e.ncp[p][v] = t.ncp[p][v]
    BY <1>5 DEF Starts
  <1>6. Rings(e)
    BY <1>1, <1>2 DEF Rings
  <1>7. \A k \in Links : LinkFits(e, k)
    <2> SUFFICES ASSUME NEW k \in Links PROVE LinkFits(e, k)
      OBVIOUS
    <2>1. LinkFits(t, k) /\ LcpOf(e, k) = LcpOf(t, k)
      BY <1>3 DEF Fit
    <2>2. Devices(e) = Devices(t)
      BY <1>2 DEF Devices
    <2>3. CASE k = i
      BY <1>2, <2>1, <2>2, <2>3 DEF LinkFits
    <2>4. CASE k # i
      BY <1>2, <2>1, <2>2, <2>4 DEF LinkFits
    <2>5. QED
      BY <2>3, <2>4
  <1>8. ASSUME NEW u \in Slots PROVE UnitFits(e, u)
    <2>1. UnitFits(t, u)
      BY DEF Fit
    <2>2. QED
      BY <1>2, <2>1 DEF UnitFits
  <1>9. OwnUnits(e)
    <2> SUFFICES ASSUME ~t.opt.mp
                 PROVE  /\ Unbundled(e)
                        /\ \A k \in Links, p \in Protocols : LinkOwns(e, k, p)
                        /\ \A p \in Protocols, u \in Slots : UnitOwned(e, p, u)
      BY <1>2 DEF OwnUnits
    <2>1. Unbundled(e)
      BY <1>1, <1>2 DEF OwnUnits, Unbundled
    <2>2. ASSUME NEW k \in Links, NEW p \in Protocols PROVE LinkOwns(e, k, p)
      <3> SUFFICES ASSUME e.lns[k].unit[p] # None
                   PROVE  /\ e.lns[k].fd = "open" /\ LcpOf(e, k).upper
                          /\ e.lns[k].phase \in {"NETWORK", "DEAD"}
                          /\ e.ncp[p][e.lns[k].unit[p]] = [inuse |-> TRUE, unit |-> k]
        BY DEF LinkOwns
      <3>1. CASE k = i
        BY <1>2, <1>3, <1>4, <3>1
      <3>2. CASE k # i
        <4> DEFINE v == t.lns[k].unit[p]
        <4>1. /\ e.lns[k].fd = t.lns[k].fd /\ e.lns[k].phase = t.lns[k].phase
              /\ e.lns[k].unit[p] = v
          BY <1>2, <3>2
        <4>2. LinkOwns(t, k, p)
          BY <1>1 DEF OwnUnits
        <4>3. /\ t.lns[k].fd = "open" /\ LcpOf(t, k).upper
              /\ t.lns[k].phase \in {"NETWORK", "DEAD"}
              /\ t.ncp[p][v] = [inuse |-> TRUE, unit |-> k]
          BY <4>1, <4>2 DEF LinkOwns
        <4>4. v \in Slots
          BY <1>1, <4>1, TableTypes, LinkTypes
        <4> HIDE DEF v
        <4>5. v # e.lns[i].unit[p]
          <5>1. v # None /\ t.ncp[p][v].inuse
            BY <4>1, <4>3
          <5>2. QED
            BY <1>4, <5>1
        <4>6. e.ncp[p][v] = t.ncp[p][v]
          BY <1>5, <4>4, <4>5
        <4>7. QED
          BY <1>3, <4>1, <4>3, <4>6
      <3>3. QED
        BY <3>1, <3>2
    <2>3. ASSUME NEW p \in Protocols, NEW u \in Slots PROVE UnitOwned(e, p, u)
      <3> SUFFICES ASSUME e.ncp[p][u].inuse
                   PROVE  e.ncp[p][u].unit \in Links /\ e.lns[e.ncp[p][u].unit].unit[p] = u
        BY DEF UnitOwned
      <3>1. CASE u = e.lns[i].unit[p]
        <4>1. u # None
          BY NoneFacts
        <4>2. e.ncp[p][u] = [inuse |-> TRUE, unit |-> i]
          BY <1>4, <3>1, <4>1
        <4>3. QED
          BY <3>1, <4>2
      <3>2. CASE u # e.lns[i].unit[p]
        <4>1. e.ncp[p][u] = t.ncp[p][u]
          BY <1>5, <3>2
        <4>2. t.ncp[p][u].unit \in Links /\ t.lns[t.ncp[p][u].unit].unit[p] = u
          BY <1>1, <4>1 DEF OwnUnits, UnitOwned
        <4>3. t.ncp[p][u].unit # i
          BY <4>2, NoneFacts
        <4>4. QED
          BY <1>2, <4>1, <4>2, <4>3
      <3>3. QED
        BY <3>1, <3>2
    <2>4. QED
      BY <2>1, <2>2, <2>3
  <1>10. ASSUME ~o PROVE SameNumbers(e)
    BY <1>2, <1>10 DEF Fit, SameNumbers
  <1>11. ASSUME ~o PROVE SamePeers(e)
    <2>1. SamePeers(t)
      BY <1>11 DEF Fit
    <2>2. QED
      BY <1>1, <1>2, <1>3, <2>1 DEF SamePeers
  <1>12. QED
    BY <1>2, <1>6, <1>7, <1>8, <1>9, <1>10, <1>11 DEF Fit

(* What changes only links leaves the timers alone.                        *)
LEMMA LinksGood ==
  ASSUME NEW o, NEW t, Alone(t), EchoFits(t), IdleFits(t), NEW e, Fit(e, o),
         e.opt = t.opt, e.lcp = t.lcp, SameTimers(t, e),
         \A j \in Links : e.lns[j].fd = t.lns[j].fd, \A j \in Links : Ending(e, j)
  PROVE  Good(e, o) /\ SameDevices(t, e)
  <1>1. Alone(e) /\ EchoFits(e) /\ IdleFits(e)
    BY DEF Alone, EchoFits, IdleFits, SameTimers
  <1>2. QED
    BY <1>1 DEF Good, SameDevices

(* A link in its authentication phase is up, in no ring and without units. *)
LEMMA AuthPhase ==
  ASSUME NEW o, NEW t, Fit(t, o), NEW i \in Links, t.lns[i].phase = "AUTHENTICATE"
  PROVE  /\ t.lns[i].fd = "open" /\ LcpOf(t, i).upper /\ t.lns[i].bundle_next = i
         /\ ~t.opt.mp => \A p \in Protocols : t.lns[i].unit[p] = None
  <1>1. LinkFits(t, i) /\ OwnUnits(t) /\ t.lns[i].fd \in {"shut", "off", "open"}
    BY TableTypes, LinkTypes DEF Fit
  <1>2. t.lns[i].fd = "open"
    BY <1>1 DEF LinkFits
  <1>3. LcpOf(t, i).upper /\ t.lns[i].bundle_next = i
    BY <1>1, <1>2 DEF LinkFits
  <1>4. ~t.opt.mp => \A p \in Protocols : t.lns[i].unit[p] = None
    BY <1>1 DEF OwnUnits, LinkOwns
  <1>5. QED
    BY <1>2, <1>3, <1>4

LEMMA NetworkGood ==
  ASSUME NEW o, NEW t, Good(t, o), NEW i \in Links, t.lns[i].phase = "AUTHENTICATE"
  PROVE  LET e == network_phase(t, i) IN Good(e, o) /\ SameDevices(t, e)
  <1> DEFINE e == network_phase(t, i)
             P == Partners(t, i)
             j == Min(P)
  <1>1. /\ Fit(t, o) /\ t \in Tables /\ Alone(t) /\ EchoFits(t) /\ IdleFits(t)
        /\ \A k \in Links : Ending(t, k)
    BY DEF Good, Fit
  <1>2. /\ t.lns[i].fd = "open" /\ LcpOf(t, i).upper /\ t.lns[i].bundle_next = i
        /\ ~t.opt.mp => \A p \in Protocols : t.lns[i].unit[p] = None
    BY <1>1, AuthPhase
  <1>3. CASE P # {}
    <2>1. P \subseteq Nat /\ Devices(t) \subseteq Links
      BY <1>1, TableTypes, DaemonAssumption DEF Partners, Devices, OptionRecord, Links
    <2>2. \E x \in P : \A y \in P : x <= y
      BY <1>3, <2>1, LeastElement
    <2>3. j \in P
      BY <2>2 DEF Min
    <2>4. e = Bundle(t, i, j)
      BY <1>3 DEF network_phase
    <2>5. /\ j \in Links /\ i # j /\ t.lns[j].phase = "NETWORK" /\ LcpOf(t, i).disc # NoMp
          /\ t.lcp[j].disc = LcpOf(t, i).disc
      BY <2>1, <2>3 DEF Partners
    <2> HIDE DEF j, e
    <2>6. Joins(t, e, i, j)
      BY <1>1, <2>4, <2>5, BundleJoins
    <2>7. Fit(e, o)
      BY <1>1, <1>2, <2>5, <2>6, JoinFits
    <2>8. \A k \in Links : Ending(e, k)
      BY <1>1, <2>6 DEF Ending, Joins, LcpOf
    <2>9. e.opt = t.opt /\ e.lcp = t.lcp /\ SameTimers(t, e) /\ \A k \in Links : e.lns[k].fd = t.lns[k].fd
      BY <2>6 DEF Joins
    <2>10. QED
      BY <1>1, <2>7, <2>8, <2>9, LinksGood DEF e
  <1>4. CASE P = {}
    <2>1. e = StartProtocols(t, i)
      BY <1>4 DEF network_phase
    <2> HIDE DEF e
    <2>2. Starts(t, e, i)
      BY <1>1, <2>1, ProtocolsStart
    <2>3. Fit(e, o)
      BY <1>1, <1>2, <2>2, StartFits
    <2>4. \A k \in Links : Ending(e, k)
      <3> SUFFICES ASSUME NEW k \in Links PROVE Ending(e, k)
        OBVIOUS
      <3>1. Ending(t, k) /\ LcpOf(e, k) = LcpOf(t, k)
        BY <1>1, <2>2, StartParts DEF LcpOf
      <3>2. e.lns[k].phase = "TERMINATE" => e.lns[k].phase = t.lns[k].phase
        BY <2>2, StartParts
      <3>3. QED
        BY <2>2, <3>1, <3>2, StartParts DEF Ending
    <2>5. e.opt = t.opt /\ e.lcp = t.lcp /\ SameTimers(t, e) /\ \A k \in Links : e.lns[k].fd = t.lns[k].fd
      BY <2>2, StartParts
    <2>6. QED
      BY <1>1, <2>3, <2>4, <2>5, LinksGood DEF e
  <1>5. QED
    BY <1>3, <1>4

LEMMA CallbackGood ==
  ASSUME NEW o, NEW t, Good(t, o), NEW i \in Links, t.lns[i].phase = "AUTHENTICATE"
  PROVE  LET e == callback_phase(t, i) IN Good(e, o) /\ SameDevices(t, e)
  <1> DEFINE e == callback_phase(t, i)
  <1>1. /\ Fit(t, o) /\ t \in Tables /\ Alone(t) /\ EchoFits(t) /\ IdleFits(t)
        /\ \A k \in Links : Ending(t, k)
    BY DEF Good, Fit
  <1>2. /\ t.lns[i].fd = "open" /\ LcpOf(t, i).upper /\ t.lns[i].bundle_next = i
        /\ ~t.opt.mp => \A p \in Protocols : t.lns[i].unit[p] = None
    BY <1>1, AuthPhase
  <1>3. ASSUME NEW ph \in {"CALLBACK", "TERMINATE"}, ph = "TERMINATE" => t.opt.cb = "rfc1570"
        PROVE  LET w == SetPhase(t, i, ph) IN Good(w, o) /\ SameDevices(t, w)
    <2> DEFINE w == SetPhase(t, i, ph)
    <2>1. Marks(t, w, i, ph) /\ ph \in Phases
      BY <1>1, PhaseFacts DEF Phases
    <2> HIDE DEF w
    <2>2. Fit(w, o)
      BY <1>1, <1>2, <2>1, MarkFits
    <2>3. \A k \in Links : Ending(w, k)
      BY <1>1, <1>3, <2>1 DEF Ending, Marks, LcpOf
    <2>4. w.opt = t.opt /\ w.lcp = t.lcp /\ SameTimers(t, w) /\ \A k \in Links : w.lns[k].fd = t.lns[k].fd
      BY <2>1 DEF Marks
    <2>5. QED
      BY <1>1, <2>2, <2>3, <2>4, LinksGood DEF w
  <1>4. CASE t.opt.cb = "cbcp"
    BY <1>3, <1>4 DEF callback_phase
  <1>5. CASE t.opt.cb = "rfc1570"
    BY <1>3, <1>5 DEF callback_phase
  <1>6. CASE t.opt.cb # "cbcp" /\ t.opt.cb # "rfc1570"
    BY <1>6, NetworkGood DEF callback_phase
  <1>7. QED
    BY <1>4, <1>5, <1>6

LEMMA AuthSuccessGood ==
  ASSUME NEW o, NEW t, Good(t, o), NEW i \in Links
  PROVE  LET e == auth_success(t, i) IN Good(e, o) /\ SameDevices(t, e)
  BY CallbackGood DEF auth_success, SameDevices

(* CHAP or PAP begins to check the peer of a link that is up.              *)
LEMMA AuthFlagGood ==
  ASSUME NEW o, NEW t, Good(t, o), NEW i \in Links, t.lns[i].phase = "AUTHENTICATE"
  PROVE  LET e == [t EXCEPT !.lns[i].auth = TRUE] IN Good(e, o) /\ SameDevices(t, e)
  <1> DEFINE l == [t.lns[i] EXCEPT !.auth = TRUE]
             L == [t.lns EXCEPT ![i] = l]
             e == [t EXCEPT !.lns = L]
  <1>1. /\ Fit(t, o) /\ t \in Tables /\ Alone(t) /\ EchoFits(t) /\ IdleFits(t)
        /\ (\A k \in Links : Ending(t, k)) /\ t.lns \in [Links -> LinkRecord]
        /\ \A k \in Links : t.lns[k].bundle_next \in Links
    BY TableTypes, LinkTypes DEF Good, Fit
  <1>2. t.lns[i].fd = "open" /\ LcpOf(t, i).upper
    BY <1>1, AuthPhase
  <1>3. /\ l \in LinkRecord /\ l.phase = t.lns[i].phase /\ l.fd = t.lns[i].fd
        /\ l.openfails = t.lns[i].openfails /\ l.bundle_next = t.lns[i].bundle_next
        /\ l.lcp_unit = t.lns[i].lcp_unit /\ l.auth = TRUE /\ l.unit = t.lns[i].unit
    <2>1. t.lns[i] \in LinkRecord
      BY <1>1
    <2>2. QED
      BY <2>1 DEF LinkRecord
  <1>4. e = [t EXCEPT !.lns[i].auth = TRUE]
    OBVIOUS
  <1> HIDE DEF l
  <1>5. /\ L \in [Links -> LinkRecord] /\ L[i] = l
        /\ \A k \in Links : k # i => L[k] = t.lns[k]
    BY <1>1, <1>3
  <1> HIDE DEF L
  <1>6. /\ e \in Tables /\ e.lns = L /\ e.opt = t.opt /\ e.lcp = t.lcp /\ e.ncp = t.ncp
        /\ SameTimers(t, e)
    BY <1>1, <1>5, SetLns
  <1> SUFFICES Good(e, o) /\ SameDevices(t, e)
    BY <1>4
  <1> HIDE DEF e
  <1>7. \A k \in Links :
          /\ e.lns[k].phase = t.lns[k].phase /\ e.lns[k].fd = t.lns[k].fd
          /\ e.lns[k].openfails = t.lns[k].openfails
          /\ e.lns[k].bundle_next = t.lns[k].bundle_next
          /\ e.lns[k].lcp_unit = t.lns[k].lcp_unit /\ e.lns[k].unit = t.lns[k].unit
          /\ k # i => e.lns[k].auth = t.lns[k].auth
    BY <1>3, <1>5, <1>6
  <1>8. \A k \in Links : LcpOf(e, k) = LcpOf(t, k)
    BY <1>6, <1>7 DEF LcpOf
  <1>9. \A k \in Links : LinkFits(e, k)
    <2> SUFFICES ASSUME NEW k \in Links PROVE LinkFits(e, k)
      OBVIOUS
    <2>1. LinkFits(t, k)
      BY <1>1 DEF Fit
    <2>2. CASE k = i
      BY <1>2, <1>6, <1>7, <1>8, <2>1, <2>2 DEF LinkFits, Devices
    <2>3. CASE k # i
      BY <1>6, <1>7, <1>8, <2>1, <2>3 DEF LinkFits, Devices
    <2>4. QED
      BY <2>2, <2>3
  <1>10. \A u \in Slots : UnitFits(e, u)
    BY <1>1, <1>6, <1>7 DEF Fit, UnitFits
  <1>11. Rings(e)
    BY <1>1, <1>7 DEF Fit, Rings
  <1>12. OwnUnits(e)
    BY <1>1, <1>6, <1>7, <1>8, OwnDiscs, OwnKept DEF Fit
  <1>13. ~o => SameNumbers(e) /\ SamePeers(e)
    BY <1>1, <1>7, <1>8 DEF Fit, SameNumbers, SamePeers
  <1>14. Fit(e, o)
    BY <1>6, <1>9, <1>10, <1>11, <1>12, <1>13 DEF Fit
  <1>15. \A k \in Links : Ending(e, k)
    BY <1>1, <1>6, <1>7, <1>8 DEF Ending
  <1>16. QED
    BY <1>1, <1>6, <1>7, <1>14, <1>15, LinksGood

LEMMA EstablishedGood ==
  ASSUME NEW o, NEW t, Fit(t, o), Alone(t), EchoFits(t), IdleFits(t), NEW i \in Links,
         \A j \in Links : j # i => Ending(t, j), t.lns[i].fd = "open", LcpOf(t, i).upper,
         t.lns[i].bundle_next = i, ~t.opt.mp => \A p \in Protocols : t.lns[i].unit[p] = None,
         NEW refuses \in BOOLEAN
  PROVE  LET e == link_established(t, i, refuses) IN Good(e, o) /\ SameDevices(t, e)
  <1> DEFINE e == link_established(t, i, refuses)
             w == SetPhase(t, i, "AUTHENTICATE")
  <1>1. CASE t.opt.auth /\ refuses
    <2> DEFINE u == t.lns[i].lcp_unit
    <2>1. e = CloseLink(t, i)
      BY <1>1 DEF link_established
    <2>2. u \in Slots /\ t.lcp[u].inuse
      BY DEF Fit, LinkFits, LcpOf
    <2> HIDE DEF e
    <2>3. /\ Fit(e, o) /\ Lowers(t, e, u) /\ Ending(e, i)
          /\ \A j \in Links \ {i} : Ending(t, j) => Ending(e, j)
      BY <2>1, CloseLinkFacts
    <2> HIDE DEF u
    <2>4. \A j \in Links : Ending(e, j)
      BY <2>3
    <2>5. Alone(e) /\ EchoFits(e) /\ IdleFits(e)
      BY <2>2, <2>3, LowersFits
    <2>6. QED
      BY <2>3, <2>4, <2>5 DEF Good, SameDevices, Lowers, e
  <1>2. CASE ~(t.opt.auth /\ refuses)
    <2>1. e = IF t.opt.auth THEN [w EXCEPT !.lns[i].auth = TRUE] ELSE callback_phase(w, i)
      BY <1>2 DEF link_established
    <2>2. Marks(t, w, i, "AUTHENTICATE")
      BY PhaseFacts DEF Phases, Fit
    <2> HIDE DEF w
    <2>3. Fit(w, o)
      BY <2>2, MarkFits DEF Phases
    <2>4. \A k \in Links : Ending(w, k)
      BY <2>2 DEF Ending, Marks, LcpOf
    <2>5. /\ w.opt = t.opt /\ w.lcp = t.lcp /\ SameTimers(t, w) /\ w.lns[i].phase = "AUTHENTICATE"
          /\ \A k \in Links : w.lns[k].fd = t.lns[k].fd
      BY <2>2 DEF Marks
    <2>6. Good(w, o) /\ SameDevices(t, w)
      BY <2>3, <2>4, <2>5, LinksGood
    <2> HIDE DEF e
    <2>7. Good(e, o) /\ SameDevices(w, e)
      BY <2>1, <2>5, <2>6, AuthFlagGood, CallbackGood
    <2>8. QED
      BY <2>6, <2>7 DEF SameDevices, e
  <1>3. QED
    BY <1>1, <1>2

(* lcp_up.  With one link the idle timer cannot be running yet, so the     *)
(* assertion of RestartIdleTimer holds.                                    *)
LEMMA RiseGood ==
  ASSUME NEW o, NEW t, Good(t, o), NEW u \in Slots, t.lcp[u].state = "NEGOTIATING",
         NEW disc \in Discs \cup {NoMp}, t.opt.mp \/ disc = NoMp, NEW refuses \in BOOLEAN
  PROVE  LET e == Rise(t, u, disc, refuses) IN Good(e, o) /\ SameDevices(t, e)
  <1> DEFINE i == t.lcp[u].unit
             w == [t EXCEPT !.lcp[u].state = "OPENED", !.lcp[u].upper = TRUE,
                            !.lcp[u].disc = disc]
             x == lcp_echo_lowerup(w, u)
             e == link_established(x, i, refuses)
  <1>1. Rise(t, u, disc, refuses) = e
    BY DEF Rise
  <1>2. /\ Fit(t, o) /\ t \in Tables /\ Alone(t) /\ EchoFits(t) /\ IdleFits(t)
        /\ \A k \in Links : Ending(t, k)
    BY DEF Good, Fit
  <1>3. t.lcp[u].inuse /\ ~t.lcp[u].upper /\ t.lns[i].phase # "WAIT"
    BY <1>2, AtRest
  <1>4. i \in Links /\ t.lns[i].fd = "open" /\ t.lns[i].lcp_unit = u /\ LcpOf(t, i) = t.lcp[u]
    BY <1>2, <1>3, OwnerFacts
  <1>5. t.lns[i].bundle_next = i /\ (~t.opt.mp => \A p \in Protocols : t.lns[i].unit[p] = None)
    BY <1>2, <1>3, <1>4, NotUp
  <1>6. Raised(t, w, u, disc)
    BY <1>2, RaiseFacts
  <1> HIDE DEF w
  <1>7. Fit(w, o) /\ \A j \in Links : j # i => Ending(w, j)
    BY <1>2, <1>3, <1>6, RaiseFits
  <1>8. Watched(w, x, u)
    BY <1>6, LowerupFacts DEF Raised
  <1> HIDE DEF x, i
  <1>9. Fit(x, o) /\ \A j \in Links : j # i => Ending(x, j)
    BY <1>7, <1>8, FitOn DEF Watched, SameLinks
  <1>10. /\ x.opt = t.opt /\ x.lns = t.lns /\ LcpOf(x, i).upper
    BY <1>4, <1>6, <1>8 DEF Raised, Watched, SameLinks, LcpOf
  <1>11. t.opt.numdev = 1 => u = 0 /\ t.idle_running = FALSE
    <2>1. t.idle_running \in BOOLEAN
      BY <1>2, TableTypes
    <2>2. t.opt.numdev = 1 => u = 0
      BY <1>2, <1>3 DEF Alone
    <2>3. QED
      BY <1>2, <1>3, <2>1, <2>2 DEF IdleFits
  <1>12. /\ w.opt = t.opt /\ w.failed = t.failed /\ w.idle_running = t.idle_running
         /\ w.echo = t.echo /\ w.idle = t.idle /\ w.lcp[u].upper
         /\ \A v \in Slots : w.lcp[v].inuse = t.lcp[v].inuse
    BY <1>6 DEF Raised, SameTimers
  <1>13. Alone(x)
    BY <1>2, <1>8, <1>11, <1>12 DEF Alone, Watched, SameLinks
  <1>14. EchoFits(x)
    BY <1>8, <1>11, <1>12 DEF EchoFits, Watched, SameLinks
  <1>15. IdleFits(x)
    BY <1>8, <1>11, <1>12 DEF IdleFits, Watched, SameLinks
  <1>16. Good(e, o) /\ SameDevices(x, e)
    BY <1>4, <1>5, <1>9, <1>10, <1>13, <1>14, <1>15, EstablishedGood
  <1> HIDE DEF e
  <1>17. QED
    BY <1>1, <1>10, <1>16 DEF SameDevices

-----------------------------------------------------------------------------
(* A device is opened                                                      *)

(* There are as many units as links, so a link that has none finds one.    *)
LEMMA UnitFree ==
  ASSUME NEW o, NEW t, Fit(t, o), NEW i \in Links, t.lns[i].fd # "open"
  PROVE  getunit(t.lcp) \in Slots /\ ~t.lcp[getunit(t.lcp)].inuse
  <1> SUFFICES ASSUME \A v \in Slots : t.lcp[v].inuse PROVE FALSE
    BY GetunitFacts
  <1> DEFINE f == [v \in Slots |-> t.lcp[v].unit]
  <1>1. \A v \in Slots : /\ t.lcp[v].unit \in Links /\ t.lns[t.lcp[v].unit].lcp_unit = v
                         /\ t.lns[t.lcp[v].unit].fd = "open"
    BY OwnerFacts
  <1>2. f \in Injection(Links, Links)
    BY <1>1, NoneFacts DEF Injection, IsInjective
  <1>3. IsFiniteSet(Links)
    BY FS_Interval, DaemonAssumption DEF Links
  <1>4. f \in Surjection(Links, Links)
    BY <1>2, <1>3, FS_Injection
  <1>5. PICK v \in Links : f[v] = i
    BY <1>4 DEF Surjection
  <1>6. QED
    BY <1>1, <1>5, NoneFacts

(* As long as links and units have the same numbers and the devices are    *)
(* opened in turn, the first free unit has the number of the link.         *)
LEMMA UnitInTurn ==
  ASSUME NEW o, NEW t, Fit(t, o), SameNumbers(t), NEW i \in Links, t.lns[i].fd # "open",
         \A j \in Links : j < i => t.lns[j].fd = "open"
  PROVE  getunit(t.lcp) = i
  <1> DEFINE u == getunit(t.lcp)
  <1>1. u \in Slots /\ ~t.lcp[u].inuse /\ \A v \in Slots : v < u => t.lcp[v].inuse
    BY GetunitFacts, UnitFree, NoneFacts
  <1>2. ~t.lcp[i].inuse
    <2> SUFFICES ASSUME t.lcp[i].inuse PROVE FALSE
      OBVIOUS
    <2>1. LET k == t.lcp[i].unit IN k \in Links /\ t.lns[k].fd = "open" /\ t.lns[k].lcp_unit = i
      BY OwnerFacts, NoneFacts
    <2>2. QED
      BY <2>1 DEF SameNumbers
  <1> HIDE DEF u
  <1>3. \A j \in Links : j < i => t.lcp[j].inuse
    <2> SUFFICES ASSUME NEW j \in Links, j < i PROVE t.lcp[j].inuse
      OBVIOUS
    <2>1. t.lns[j].fd = "open" /\ t.lns[j].lcp_unit = j /\ LinkFits(t, j)
      BY DEF SameNumbers, Fit
    <2>2. QED
      BY <2>1 DEF LinkFits, LcpOf
  <1>4. u = i
    BY <1>1, <1>2, <1>3, NoneFacts DEF Slots, Links
  <1>5. QED
    BY <1>4 DEF u

LEMMA UnitAlone ==
  ASSUME NEW o, NEW t, Fit(t, o), Alone(t), t.opt.numdev = 1, NEW i \in Devices(t),
         t.lns[i].fd # "open"
  PROVE  getunit(t.lcp) = 0 /\ ~t.lcp[0].inuse
  <1>1. i = 0 /\ 0 \in Links /\ 0 \in Slots
    BY SlotZero, NoneFacts DEF Devices
  <1>2. ~t.lcp[0].inuse
    <2> SUFFICES ASSUME t.lcp[0].inuse PROVE FALSE
      OBVIOUS
    <2>1. LET k == t.lcp[0].unit IN k \in Links /\ t.lns[k].fd = "open" /\ LinkFits(t, k)
      BY <1>1, OwnerFacts
    <2>2. t.lcp[0].unit = 0
      BY <2>1 DEF LinkFits, Devices
    <2>3. QED
      BY <1>1, <2>1, <2>2
  <1>3. QED
    BY <1>1, <1>2, GetunitFacts DEF Slots

(* Link i, which was shut, has the unit u.                                 *)
Opens(t, e, i, u) ==
    /\ e \in Tables /\ e.opt = t.opt /\ e.ncp = t.ncp /\ SameTimers(t, e)
    /\ \A j \in Links \ {i} : e.lns[j] = t.lns[j]
    /\ e.lns[i].fd = "open" /\ e.lns[i].openfails = 0 /\ e.lns[i].lcp_unit = u
    /\ e.lns[i].phase = t.lns[i].phase /\ e.lns[i].auth = t.lns[i].auth
    /\ e.lns[i].bundle_next = t.lns[i].bundle_next /\ e.lns[i].unit = t.lns[i].unit
    /\ \A v \in Slots \ {u} : e.lcp[v] = t.lcp[v]
    /\ e.lcp[u].inuse = TRUE /\ e.lcp[u].unit = i /\ e.lcp[u].state = "CLOSED"
    /\ e.lcp[u].upper = FALSE /\ e.lcp[u].disc = t.lcp[u].disc

LEMMA InitOpens ==
  ASSUME NEW t \in Tables, NEW i \in Links, getunit(t.lcp) \in Slots
  PROVE  Opens(t, init_unit(t, i, "open"), i, getunit(t.lcp))
  <1> DEFINE u == getunit(t.lcp)
             l == [t.lns[i] EXCEPT !.fd = "open", !.openfails = 0, !.lcp_unit = u]
             L == [t.lns EXCEPT ![i] = l]
             c == [t.lcp[u] EXCEPT !.inuse = TRUE, !.unit = i, !.state = "CLOSED",
                                   !.upper = FALSE]
             C == [t.lcp EXCEPT ![u] = c]
             w == [t EXCEPT !.lns = L]
             e == [w EXCEPT !.lcp = C]
  <1>1. /\ t.lns \in [Links -> LinkRecord] /\ t.lcp \in [Slots -> LcpRecord]
        /\ "CLOSED" \in LayerStates
    BY TableTypes DEF LayerStates
  <1>2. init_unit(t, i, "open") = e
    BY <1>1, ZenonT(60) DEF init_unit, Tables
  <1> HIDE DEF u
  <1>3. /\ l \in LinkRecord /\ l.fd = "open" /\ l.openfails = 0 /\ l.lcp_unit = u
        /\ l.phase = t.lns[i].phase /\ l.auth = t.lns[i].auth
        /\ l.bundle_next = t.lns[i].bundle_next /\ l.unit = t.lns[i].unit
    <2>1. t.lns[i] \in LinkRecord /\ u \in Slots \cup {None} /\ 0 \in 0 .. MaxOpenFails
      BY <1>1, DaemonAssumption DEF u
    <2>2. QED
      BY <2>1 DEF LinkRecord
  <1>4. /\ c \in LcpRecord /\ c.inuse = TRUE /\ c.unit = i /\ c.state = "CLOSED"
        /\ c.upper = FALSE /\ c.disc = t.lcp[u].disc
    <2>1. t.lcp[u] \in LcpRecord
      BY <1>1 DEF u
    <2>2. QED
      BY <1>1, <2>1 DEF LcpRecord
  <1> HIDE DEF l, c
  <1>5. L \in [Links -> LinkRecord] /\ L[i] = l /\ \A j \in Links \ {i} : L[j] = t.lns[j]
    BY <1>1, <1>3
  <1>6. C \in [Slots -> LcpRecord] /\ C[u] = c /\ \A v \in Slots \ {u} : C[v] = t.lcp[v]
    BY <1>1, <1>4 DEF u
  <1> HIDE DEF L, C
  <1>7. /\ w \in Tables /\ w.lns = L /\ w.opt = t.opt /\ w.ncp = t.ncp /\ SameTimers(t, w)
    BY <1>5, SetLns
  <1> HIDE DEF w
  <1>8. /\ e \in Tables /\ e.lcp = C /\ e.opt = w.opt /\ e.lns = w.lns /\ e.ncp = w.ncp
        /\ SameTimers(w, e)
    BY <1>6, <1>7, SetLcp
  <1> HIDE DEF e
  <1>9. SameTimers(t, e)
    BY <1>7, <1>8 DEF SameTimers
  <1>10. Opens(t, e, i, u)
    BY <1>3, <1>4, <1>5, <1>6, <1>7, <1>8, <1>9 DEF Opens
  <1>11. QED
    BY <1>2, <1>10 DEF u

LEMMA OpenFits ==
  ASSUME NEW o, NEW t, Fit(t, o), NEW i \in Links, i \in Devices(t), t.lns[i].fd # "open",
         NEW u \in Slots, ~t.lcp[u].inuse, ~o => u = i, NEW e, Opens(t, e, i, u)
  PROVE  Fit(e, o) /\ \A j \in Links : Ending(t, j) => Ending(e, j)
  <1>1. /\ t \in Tables /\ Rings(t) /\ OwnUnits(t) /\ LinkFits(t, i) /\ e.opt = t.opt
        /\ \A j \in Links : t.lns[j].bundle_next \in Links
    BY TableTypes, LinkTypes DEF Fit, Opens
  <1>2. t.lns[i].phase = "WAIT" /\ ~t.lns[i].auth /\ t.lns[i].bundle_next = i
    BY <1>1 DEF LinkFits
  <1>3. \A j \in Links \ {i} : t.lns[j].fd = "open" => LcpOf(e, j) = LcpOf(t, j)
    <2> SUFFICES ASSUME NEW j \in Links \ {i}, t.lns[j].fd = "open"
                 PROVE  LcpOf(e, j) = LcpOf(t, j)
      OBVIOUS
    <2>1. LinkFits(t, j)
      BY DEF Fit
    <2>2. t.lns[j].lcp_unit \in Slots /\ t.lns[j].lcp_unit # u
      BY <2>1 DEF LinkFits, LcpOf
    <2>3. QED
      BY <2>2 DEF LcpOf, Opens
  <1>4. LcpOf(e, i) = e.lcp[u]
    BY DEF LcpOf, Opens
  <1>5. \A j \in Links : e.lns[j].bundle_next = t.lns[j].bundle_next /\ e.lns[j].unit = t.lns[j].unit
                         /\ e.lns[j].phase = t.lns[j].phase
    BY DEF Opens
  <1>6. Rings(e)
    BY <1>1, <1>5 DEF Rings
  <1>7. \A j \in Links : LinkFits(e, j)
    <2> SUFFICES ASSUME NEW j \in Links PROVE LinkFits(e, j)
      OBVIOUS
    <2>1. LinkFits(t, j)
      BY DEF Fit
    <2>2. CASE j = i
      <3>1. 0 < MaxOpenFails
        BY DaemonAssumption
      <3>2. QED
        BY <1>1, <1>2, <1>4, <2>2, <3>1 DEF LinkFits, Opens, Devices
    <2>3. CASE j # i
      BY <1>1, <1>3, <2>1, <2>3 DEF LinkFits, Opens, Devices
    <2>4. QED
      BY <2>2, <2>3
  <1>8. \A v \in Slots : UnitFits(e, v)
    <2> SUFFICES ASSUME NEW v \in Slots PROVE UnitFits(e, v)
      OBVIOUS
    <2>1. UnitFits(t, v)
      BY DEF Fit
    <2>2. CASE v = u
      BY <2>2 DEF UnitFits, Opens
    <2>3. CASE v # u
      BY <2>1, <2>3 DEF UnitFits, Opens
    <2>4. QED
      BY <2>2, <2>3
  <1>9. OwnUnits(e)
    <2>1. ~t.opt.mp => \A p \in Protocols : t.lns[i].unit[p] = None
      BY <1>1 DEF OwnUnits, LinkOwns
    <2>2. ~t.opt.mp => \A v \in Slots : e.lcp[v].disc = NoMp
      BY <1>1 DEF OwnUnits, Unbundled, Opens
    <2>3. \A j \in Links \ {i} : e.lns[j] = t.lns[j]
      BY DEF Opens
    <2>4. e.ncp = t.ncp
      BY DEF Opens
    <2>5. QED
      BY <1>1, <1>3, <1>5, <2>1, <2>2, <2>3, <2>4, OwnKept
  <1>10. ASSUME ~o PROVE SameNumbers(e) /\ SamePeers(e)
    <2>1. SameNumbers(e)
      BY <1>10 DEF Fit, SameNumbers, Opens
    <2>2. ASSUME NEW j \in Links, e.lns[j].bundle_next # j
          PROVE  /\ LcpOf(e, j).disc # NoMp
                 /\ LcpOf(e, e.lns[j].bundle_next).disc = LcpOf(e, j).disc
      <3> DEFINE k == t.lns[j].bundle_next
      <3>1. k \in Links /\ k # j /\ e.lns[j].bundle_next = k
        BY <1>1, <1>5, <2>2
      <3>2. LcpOf(t, j).disc # NoMp /\ LcpOf(t, k).disc = LcpOf(t, j).disc
        BY <1>10, <3>1 DEF Fit, SamePeers
      <3>3. t.lns[k].bundle_next # k
        BY <3>1 DEF Fit, Rings
      <3>4. t.lns[j].fd = "open" /\ t.lns[k].fd = "open"
        BY <3>1, <3>3 DEF Fit, LinkFits
      <3>5. j # i /\ k # i
        BY <1>2, <3>1, <3>3
      <3>6. QED
        BY <1>3, <3>1, <3>2, <3>4, <3>5
    <2>3. QED
      BY <2>1, <2>2 DEF SamePeers
  <1>11. \A j \in Links : Ending(t, j) => Ending(e, j)
    BY <1>1, <1>2, <1>3 DEF Ending, Opens
  <1>12. QED
    BY <1>6, <1>7, <1>8, <1>9, <1>10, <1>11 DEF Fit, Opens

LEMMA OpenGood ==
  ASSUME NEW o, NEW t, Good(t, o), NEW i \in Devices(t), t.lns[i].fd = "shut",
         ~o => \A j \in Links : j < i => t.lns[j].fd = "open"
  PROVE  LET e == init_unit(t, i, "open")
         IN  /\ Good(e, o) /\ e.opt = t.opt /\ e.lns[i].fd = "open"
             /\ \A j \in Links \ {i} : e.lns[j].fd = t.lns[j].fd
  <1> DEFINE u == getunit(t.lcp)
             e == init_unit(t, i, "open")
  <1>1. /\ Fit(t, o) /\ t \in Tables /\ Alone(t) /\ EchoFits(t) /\ IdleFits(t)
        /\ \A k \in Links : Ending(t, k)
    BY DEF Good, Fit
  <1>2. i \in Links
    BY <1>1, TableTypes, DaemonAssumption DEF Devices, OptionRecord, Links
  <1>3. u \in Slots /\ ~t.lcp[u].inuse
    BY <1>1, <1>2, UnitFree
  <1>4. ~o => u = i
    BY <1>1, <1>2, UnitInTurn DEF Fit
  <1>5. t.opt.numdev = 1 => u = 0
    BY <1>1, UnitAlone
  <1>6. Opens(t, e, i, u)
    BY <1>1, <1>2, <1>3, InitOpens
  <1> HIDE DEF e, u
  <1>7. Fit(e, o) /\ \A k \in Links : Ending(e, k)
    BY <1>1, <1>2, <1>3, <1>4, <1>6, OpenFits
  <1>8. Alone(e)
    BY <1>1, <1>5, <1>6 DEF Alone, Opens, SameTimers
  <1>9. EchoFits(e)
    BY <1>1, <1>5, <1>6 DEF EchoFits, Opens, SameTimers
  <1>10. IdleFits(e)
    <2>1. t.opt.numdev = 1 => ~t.lcp[0].upper
      BY <1>1, <1>3, <1>5, SlotZero, AtRest
    <2>2. QED
      BY <1>1, <1>5, <1>6, <2>1 DEF IdleFits, Opens, SameTimers
  <1>11. QED
    BY <1>6, <1>7, <1>8, <1>9, <1>10 DEF Good, Opens, e

(* The device does not open.                                               *)
LEMMA OpenFailsGood ==
  ASSUME NEW o, NEW t, Good(t, o), NEW i \in Devices(t), t.lns[i].fd = "shut",
         NEW result \in {"shut", "off"}
  PROVE  LET e == init_unit(t, i, result) IN Good(e, TRUE) /\ e.opt = t.opt
  <1> DEFINE n == t.lns[i].openfails + 1
             f == IF n >= MaxOpenFails THEN "off" ELSE result
             l == [t.lns[i] EXCEPT !.openfails = n, !.fd = f]
             L == [t.lns EXCEPT ![i] = l]
             e == [t EXCEPT !.lns = L]
  <1>1. /\ Fit(t, o) /\ t \in Tables /\ Alone(t) /\ EchoFits(t) /\ IdleFits(t)
        /\ (\A k \in Links : Ending(t, k)) /\ t.lns \in [Links -> LinkRecord]
    BY TableTypes DEF Good, Fit
  <1>2. i \in Links
    BY <1>1, TableTypes, DaemonAssumption DEF Devices, OptionRecord, Links
  <1>3. LinkFits(t, i) /\ OwnUnits(t) /\ t.lns[i] \in LinkRecord
    BY <1>1, <1>2 DEF Fit
  <1>4. t.lns[i].openfails \in 0 .. MaxOpenFails /\ t.lns[i].openfails < MaxOpenFails
    BY <1>3, LinkTypes DEF LinkFits
  <1>5. /\ n \in 0 .. MaxOpenFails /\ f \in {"shut", "off"} /\ (f # "off" => n < MaxOpenFails)
    BY <1>4, DaemonAssumption
  <1>6. init_unit(t, i, result) = e
    BY DEF init_unit
  <1> HIDE DEF n, f
  <1>7. /\ l \in LinkRecord /\ l.openfails = n /\ l.fd = f /\ l.phase = t.lns[i].phase
        /\ l.bundle_next = t.lns[i].bundle_next /\ l.lcp_unit = t.lns[i].lcp_unit
        /\ l.auth = t.lns[i].auth /\ l.unit = t.lns[i].unit
    BY <1>3, <1>5 DEF LinkRecord
  <1> HIDE DEF l
  <1>8. L \in [Links -> LinkRecord] /\ L[i] = l /\ \A j \in Links \ {i} : L[j] = t.lns[j]
    BY <1>1, <1>2, <1>7
  <1> HIDE DEF L
  <1>9. /\ e \in Tables /\ e.lns = L /\ e.opt = t.opt /\ e.lcp = t.lcp /\ e.ncp = t.ncp
        /\ SameTimers(t, e)
    BY <1>1, <1>8, SetLns
  <1> SUFFICES Good(e, TRUE) /\ e.opt = t.opt
    BY <1>6
  <1> HIDE DEF e
  <1>10. Rings(e)
    BY <1>1, <1>2, <1>7, <1>8, <1>9 DEF Fit, Rings
  <1>11. \A k \in Links : LinkFits(e, k)
    <2> SUFFICES ASSUME NEW k \in Links PROVE LinkFits(e, k)
      OBVIOUS
    <2>1. LinkFits(t, k)
      BY <1>1 DEF Fit
    <2>2. CASE k = i
      BY <1>5, <1>7, <1>8, <1>9, <2>1, <2>2 DEF LinkFits
    <2>3. CASE k # i
      BY <1>8, <1>9, <2>1, <2>3 DEF LinkFits, LcpOf, Devices
    <2>4. QED
      BY <2>2, <2>3
  <1>12. \A v \in Slots : UnitFits(e, v)
    <2> SUFFICES ASSUME NEW v \in Slots PROVE UnitFits(e, v)
      OBVIOUS
    <2>1. UnitFits(t, v)
      BY <1>1 DEF Fit
    <2>2. t.lcp[v].inuse => t.lcp[v].unit # i
      BY <2>1 DEF UnitFits
    <2>3. QED
      BY <1>8, <1>9, <2>1, <2>2 DEF UnitFits
  <1>13. OwnUnits(e)
    <2>1. ~t.opt.mp => \A p \in Protocols : t.lns[i].unit[p] = None
      BY <1>2, <1>3, ZenonT(60) DEF OwnUnits, LinkOwns
    <2>2. \A j \in Links : e.lns[j].unit = t.lns[j].unit /\ e.lns[j].bundle_next = t.lns[j].bundle_next
      BY <1>7, <1>8, <1>9
    <2>3. \A j \in Links \ {i} : e.lns[j] = t.lns[j] /\ LcpOf(e, j) = LcpOf(t, j)
      BY <1>8, <1>9 DEF LcpOf
    <2>4. QED
      BY <1>3, <1>9, <2>1, <2>2, <2>3, OwnDiscs, OwnKept
  <1>14. Fit(e, TRUE)
    BY <1>9, <1>10, <1>11, <1>12, <1>13 DEF Fit
  <1>15. \A k \in Links : Ending(e, k)
    <2> SUFFICES ASSUME NEW k \in Links PROVE Ending(e, k)
      OBVIOUS
    <2>1. CASE k = i
      BY <1>5, <1>7, <1>8, <1>9, <2>1 DEF Ending
    <2>2. CASE k # i
      BY <1>1, <1>8, <1>9, <2>2 DEF Ending, LcpOf
    <2>3. QED
      BY <2>1, <2>2
  <1>16. Alone(e) /\ EchoFits(e) /\ IdleFits(e)
    BY <1>1, <1>9 DEF Alone, EchoFits, IdleFits, SameTimers
  <1>17. QED
    BY <1>9, <1>14, <1>15, <1>16 DEF Good

-----------------------------------------------------------------------------
(* A dead link is taken down                                               *)

(* lcp_lowerdown after lcp_close brings the automaton back to INITIAL.     *)
LEMMA LowerdownRests ==
  ASSUME NEW t \in Tables, NEW u \in Slots, t.lcp[u].state \in {"INITIAL", "CLOSED", "CLOSING"}
  PROVE  Turns(t, lcp_lowerdown(t, u), u, "INITIAL")
  <1> DEFINE rs == {r \in LowerDownRows : r[1] = t.lcp[u].state}
             r == CHOOSE r \in rs : TRUE
             e == lcp_lowerdown(t, u)
  <1>1. e = IF rs = {} THEN t ELSE Step(t, u, r)
    BY DEF lcp_lowerdown, By
  <1>2. CASE t.lcp[u].state = "INITIAL"
    <2>1. rs = {}
      BY <1>2 DEF LowerDownRows
    <2>2. Turns(t, t, u, "INITIAL")
      BY <1>2 DEF Turns, SameTimers
    <2>3. QED
      BY <1>1, <2>1, <2>2
  <1>3. CASE t.lcp[u].state \in {"CLOSED", "CLOSING"}
    <2>1. \E q \in LowerDownRows : q[1] = t.lcp[u].state
      BY <1>3 DEF LowerDownRows
    <2>2. r \in LowerDownRows /\ r[1] = t.lcp[u].state /\ rs # {}
      BY <2>1
    <2> HIDE DEF r, rs
    <2>3. r[2] = "INITIAL" /\ r[3] = "none"
      BY <1>3, <2>2, LowerDownRow
    <2>4. e = [t EXCEPT !.lcp[u].state = "INITIAL"]
      BY <1>1, <2>2, <2>3 DEF Step
    <2>5. QED
      BY <2>4, TurnFacts DEF LayerStates
  <1>4. QED
    BY <1>2, <1>3

(* The entry u and the device of link i are given back.                    *)
Shuts(t, e, i, u) ==
    /\ e \in Tables /\ e.opt = t.opt /\ e.ncp = t.ncp /\ SameTimers(t, e)
    /\ \A j \in Links \ {i} : e.lns[j] = t.lns[j]
    /\ e.lns[i].fd = "shut" /\ e.lns[i].phase = "WAIT"
    /\ e.lns[i].openfails = t.lns[i].openfails /\ e.lns[i].lcp_unit = t.lns[i].lcp_unit
    /\ e.lns[i].auth = t.lns[i].auth /\ e.lns[i].unit = t.lns[i].unit
    /\ e.lns[i].bundle_next = t.lns[i].bundle_next
    /\ \A v \in Slots \ {u} : e.lcp[v] = t.lcp[v]
    /\ e.lcp[u].inuse = FALSE /\ e.lcp[u].unit = None /\ e.lcp[u].state = t.lcp[u].state
    /\ e.lcp[u].upper = t.lcp[u].upper /\ e.lcp[u].disc = t.lcp[u].disc

LEMMA ShutFacts ==
  ASSUME NEW t \in Tables, NEW i \in Links, NEW u \in Slots
  PROVE  Shuts(t, [SetPhase(t, i, "WAIT") EXCEPT !.lcp[u].inuse = FALSE,
                                !.lcp[u].unit = None, !.lns[i].fd = "shut"], i, u)
  <1> DEFINE l == [t.lns[i] EXCEPT !.phase = "WAIT", !.fd = "shut"]
             L == [t.lns EXCEPT ![i] = l]
             c == [t.lcp[u] EXCEPT !.inuse = FALSE, !.unit = None]
             C == [t.lcp EXCEPT ![u] = c]
             w == [t EXCEPT !.lns = L]
             e == [w EXCEPT !.lcp = C]
  <1>1. /\ t.lns \in [Links -> LinkRecord] /\ t.lcp \in [Slots -> LcpRecord]
    BY TableTypes
  <1>2. e = [SetPhase(t, i, "WAIT") EXCEPT !.lcp[u].inuse = FALSE,
                                !.lcp[u].unit = None, !.lns[i].fd = "shut"]
    BY <1>1, ZenonT(60) DEF SetPhase, Tables
  <1>3. /\ l \in LinkRecord /\ l.fd = "shut" /\ l.phase = "WAIT"
        /\ l.openfails = t.lns[i].openfails /\ l.lcp_unit = t.lns[i].lcp_unit
        /\ l.auth = t.lns[i].auth /\ l.unit = t.lns[i].unit
        /\ l.bundle_next = t.lns[i].bundle_next
    <2>1. t.lns[i] \in LinkRecord /\ "WAIT" \in Phases
      BY <1>1 DEF Phases
    <2>2. QED
      BY <2>1 DEF LinkRecord
  <1>4. /\ c \in LcpRecord /\ c.inuse = FALSE /\ c.unit = None /\ c.state = t.lcp[u].state
        /\ c.upper = t.lcp[u].upper /\ c.disc = t.lcp[u].disc
    <2>1. t.lcp[u] \in LcpRecord
      BY <1>1
    <2>2. QED
      BY <2>1 DEF LcpRecord
  <1> HIDE DEF l, c
  <1>5. L \in [Links -> LinkRecord] /\ L[i] = l /\ \A j \in Links \ {i} : L[j] = t.lns[j]
    BY <1>1, <1>3
  <1>6. C \in [Slots -> LcpRecord] /\ C[u] = c /\ \A v \in Slots \ {u} : C[v] = t.lcp[v]
    BY <1>1, <1>4
  <1> HIDE DEF L, C
  <1>7. /\ w \in Tables /\ w.lns = L /\ w.opt = t.opt /\ w.ncp = t.ncp /\ SameTimers(t, w)
    BY <1>5, SetLns
  <1> HIDE DEF w
  <1>8. /\ e \in Tables /\ e.lcp = C /\ e.opt = w.opt /\ e.lns = w.lns /\ e.ncp = w.ncp
        /\ SameTimers(w, e)
    BY <1>6, <1>7, SetLcp
  <1> SUFFICES Shuts(t, e, i, u)
    BY <1>2
  <1> HIDE DEF e
  <1>9. SameTimers(t, e)
    BY <1>7, <1>8 DEF SameTimers
  <1>10. QED
    BY <1>3, <1>4, <1>5, <1>6, <1>7, <1>8, <1>9 DEF Shuts

(* ... with the automaton at rest.                                         *)
Gone(t, e, i, u) ==
    /\ e \in Tables /\ e.opt = t.opt /\ e.ncp = t.ncp /\ SameTimers(t, e)
    /\ \A j \in Links \ {i} : e.lns[j] = t.lns[j]
    /\ e.lns[i].fd = "shut" /\ e.lns[i].phase = "WAIT"
    /\ e.lns[i].openfails = t.lns[i].openfails /\ e.lns[i].auth = t.lns[i].auth
    /\ \A j \in Links : /\ e.lns[j].bundle_next = t.lns[j].bundle_next
                        /\ e.lns[j].unit = t.lns[j].unit
    /\ \A v \in Slots \ {u} : e.lcp[v] = t.lcp[v]
    /\ e.lcp[u].inuse = FALSE /\ e.lcp[u].state = "INITIAL"
    /\ e.lcp[u].upper = t.lcp[u].upper /\ e.lcp[u].disc = t.lcp[u].disc

LEMMA GoneFits ==
  ASSUME NEW o, NEW t, Fit(t, o), NEW i \in Links, NEW u \in Slots, t.lns[i].fd = "open",
         t.lns[i].lcp_unit = u, ~t.lcp[u].upper, NEW e, Gone(t, e, i, u)
  PROVE  Fit(e, o) /\ \A j \in Links : Ending(t, j) => Ending(e, j)
  <1>1. /\ t \in Tables /\ Rings(t) /\ OwnUnits(t) /\ LinkFits(t, i)
        /\ \A j \in Links : t.lns[j].bundle_next \in Links
    BY TableTypes, LinkTypes DEF Fit
  <1>2. /\ e \in Tables /\ e.opt = t.opt /\ e.ncp = t.ncp
        /\ \A j \in Links \ {i} : e.lns[j] = t.lns[j]
        /\ e.lns[i].fd = "shut" /\ e.lns[i].phase = "WAIT"
        /\ e.lns[i].openfails = t.lns[i].openfails /\ e.lns[i].auth = t.lns[i].auth
        /\ \A j \in Links : /\ e.lns[j].bundle_next = t.lns[j].bundle_next
                            /\ e.lns[j].unit = t.lns[j].unit
    BY DEF Gone
  <1>3. /\ \A v \in Slots \ {u} : e.lcp[v] = t.lcp[v]
        /\ e.lcp[u].inuse = FALSE /\ e.lcp[u].state = "INITIAL" /\ ~e.lcp[u].upper
        /\ \A v \in Slots : e.lcp[v].disc = t.lcp[v].disc
    BY DEF Gone
  <1>4. ~LcpOf(t, i).upper
    BY DEF LcpOf
  <1>5. /\ t.lns[i].bundle_next = i /\ ~t.lns[i].auth
        /\ ~t.opt.mp => \A p \in Protocols : t.lns[i].unit[p] = None
    BY <1>4, NotUp
  <1>6. \A j \in Links \ {i} : t.lns[j].fd = "open" => LcpOf(e, j) = LcpOf(t, j)
    <2> SUFFICES ASSUME NEW j \in Links \ {i}, t.lns[j].fd = "open"
                 PROVE  LcpOf(e, j) = LcpOf(t, j)
      OBVIOUS
    <2>1. LinkFits(t, j)
      BY DEF Fit
    <2>2. t.lns[j].lcp_unit \in Slots /\ t.lns[j].lcp_unit # u
      BY <1>1, <2>1, UnitsApart DEF LinkFits
    <2>3. QED
      BY <1>2, <1>3, <2>2 DEF LcpOf
  <1>7. Rings(e)
    BY <1>1, <1>2 DEF Rings
  <1>8. \A j \in Links : LinkFits(e, j)
    <2> SUFFICES ASSUME NEW j \in Links PROVE LinkFits(e, j)
      OBVIOUS
    <2>1. LinkFits(t, j)
      BY DEF Fit
    <2>2. CASE j = i
      BY <1>2, <1>5, <2>1, <2>2 DEF LinkFits
    <2>3. CASE j # i
      BY <1>2, <1>6, <2>1, <2>3 DEF LinkFits, Devices
    <2>4. QED
      BY <2>2, <2>3
  <1>9. \A v \in Slots : UnitFits(e, v)
    <2> SUFFICES ASSUME NEW v \in Slots PROVE UnitFits(e, v)
      OBVIOUS
    <2>1. UnitFits(t, v)
      BY DEF Fit
    <2>2. CASE v = u
      BY <1>3, <2>2 DEF UnitFits
    <2>3. CASE v # u
      BY <1>2, <1>3, <2>1, <2>3 DEF UnitFits
    <2>4. QED
      BY <2>2, <2>3
  <1>10. OwnUnits(e)
    BY <1>1, <1>2, <1>3, <1>5, <1>6, OwnDiscs, OwnKept
  <1>11. ASSUME ~o PROVE SameNumbers(e) /\ SamePeers(e)
    <2>1. SameNumbers(e)
      BY <1>2, <1>11 DEF Fit, SameNumbers
    <2>2. ASSUME NEW j \in Links, e.lns[j].bundle_next # j
          PROVE  /\ LcpOf(e, j).disc # NoMp
                 /\ LcpOf(e, e.lns[j].bundle_next).disc = LcpOf(e, j).disc
      <3> DEFINE k == t.lns[j].bundle_next
      <3>1. k \in Links /\ k # j /\ e.lns[j].bundle_next = k
        BY <1>1, <1>2, <2>2
      <3>2. LcpOf(t, j).disc # NoMp /\ LcpOf(t, k).disc = LcpOf(t, j).disc
        BY <1>11, <3>1 DEF Fit, SamePeers
      <3>3. t.lns[k].bundle_next # k
        BY <3>1 DEF Fit, Rings
      <3>4. t.lns[j].fd = "open" /\ t.lns[k].fd = "open"
        BY <3>1, <3>3 DEF Fit, LinkFits
      <3>5. j # i /\ k # i
        BY <1>5, <3>1, <3>3
      <3>6. QED
        BY <1>6, <3>1, <3>2, <3>4, <3>5
    <2>3. QED
      BY <2>1, <2>2 DEF SamePeers
  <1>12. \A j \in Links : Ending(t, j) => Ending(e, j)
    BY <1>2, <1>6 DEF Ending
  <1>13. QED
    BY <1>2, <1>7, <1>8, <1>9, <1>10, <1>11, <1>12 DEF Fit

LEMMA TakeDownGood ==
  ASSUME NEW o, NEW t, Good(t, o), NEW i \in Links, t.lns[i].phase = "DEAD"
  PROVE  LET e == TakeDown(t, i)
         IN  /\ Good(e, o) /\ e.opt = t.opt /\ e.lns[i].fd = "shut"
             /\ \A j \in Links \ {i} : e.lns[j].fd = t.lns[j].fd
  <1> DEFINE u == t.lns[i].lcp_unit
             k == Less(t.conn[i])
             w == [t EXCEPT !.conn[i] = k]
             x == lcp_close(w, u)
             y == lcp_lowerdown(x, u)
             e == [SetPhase(y, i, "WAIT") EXCEPT !.lcp[u].inuse = FALSE,
                                !.lcp[u].unit = None, !.lns[i].fd = "shut"]
  <1>1. TakeDown(t, i) = e
    BY DEF TakeDown
  <1>2. t \in Tables /\ Fit(t, o) /\ LinkFits(t, i) /\ t.lns[i].fd \in {"shut", "off", "open"}
    BY TableTypes, LinkTypes DEF Good, Fit
  <1>3. t.lns[i].fd = "open" /\ u \in Slots
    BY <1>2 DEF LinkFits
  <1>4. k \in Nat
    BY <1>2, TableTypes DEF Less
  <1> HIDE DEF k
  <1>5. Good(w, o) /\ SameDevices(t, w) /\ w.lns = t.lns
    BY <1>4, ConnGood
  <1> HIDE DEF w, u
  <1>6. Good(x, o) /\ SameDevices(w, x)
    BY <1>3, <1>5, CloseGood
  <1>7. /\ x.lcp[u].upper = FALSE /\ x.lcp[u].state \in {"INITIAL", "CLOSED", "CLOSING"}
        /\ Lowers(w, x, u)
    BY <1>3, <1>5, CloseFacts DEF Good
  <1> HIDE DEF x
  <1>8. /\ Fit(x, o) /\ x \in Tables /\ Alone(x) /\ EchoFits(x) /\ IdleFits(x)
        /\ \A j \in Links : Ending(x, j)
    BY <1>6 DEF Good, Fit
  <1>9. x.lns[i].fd = "open" /\ x.lns[i].lcp_unit = u
    BY <1>3, <1>5, <1>7 DEF Lowers, u
  <1>10. Turns(x, y, u, "INITIAL")
    BY <1>3, <1>7, <1>8, LowerdownRests
  <1> HIDE DEF y
  <1>11. Shuts(y, e, i, u)
    BY <1>3, <1>10, ShutFacts DEF Turns
  <1> HIDE DEF e
  <1>12. Gone(x, e, i, u)
    BY <1>10, <1>11 DEF Turns, Shuts, SameTimers, Gone
  <1>13. ~x.lcp[u].upper
    BY <1>7
  <1>14. Fit(e, o) /\ \A j \in Links : Ending(x, j) => Ending(e, j)
    BY <1>3, <1>8, <1>9, <1>12, <1>13, GoneFits
  <1>15. /\ e.opt = x.opt /\ SameTimers(x, e)
         /\ \A v \in Slots : /\ e.lcp[v].upper = x.lcp[v].upper
                             /\ e.lcp[v].inuse => x.lcp[v].inuse
    BY <1>12 DEF Gone
  <1>16. Alone(e) /\ EchoFits(e) /\ IdleFits(e)
    BY <1>8, <1>15, SlotZero DEF Alone, EchoFits, IdleFits, SameTimers
  <1>17. e.lns[i].fd = "shut" /\ \A j \in Links \ {i} : e.lns[j].fd = x.lns[j].fd
    BY <1>12 DEF Gone
  <1>18. QED
    BY <1>1, <1>5, <1>6, <1>8, <1>14, <1>15, <1>16, <1>17 DEF Good, SameDevices

-----------------------------------------------------------------------------
(* The steps of the loop                                                   *)

LEMMA InvGood == LinkInv = (/\ Good(d, openfailed) /\ openfailed \in BOOLEAN
                            /\ at \in 0 .. 3 * d.opt.numdev - 1 /\ InTurn)
  BY DEF LinkInv, Good

LEMMA NumdevType ==
  ASSUME NEW o, NEW t, Good(t, o)
  PROVE  /\ t \in Tables /\ t.opt.numdev \in Nat /\ t.opt.numdev >= 1
         /\ t.opt.numdev <= NUM_PPP /\ Devices(t) \subseteq Links
  <1>1. t \in Tables /\ t.opt \in OptionRecord
    BY TableTypes DEF Good, Fit
  <1>2. t.opt.numdev \in 1 .. NUM_PPP
    BY <1>1 DEF OptionRecord
  <1>3. QED
    BY <1>1, <1>2, DaemonAssumption DEF Devices, Links

LEMMA InitInv == Init => LinkInv
  <1> SUFFICES ASSUME Init PROVE LinkInv
    OBVIOUS
  <1>1. PICK q \in Options : d = Fresh(q)
    BY DEF Init
  <1>2. q \in OptionRecord /\ at = Opening /\ openfailed = FALSE
    BY <1>1, LinkAssumption DEF Init
  <1> DEFINE l(i) == [phase |-> "WAIT", fd |-> "shut", openfails |-> 0, bundle_next |-> i,
                      lcp_unit |-> None, auth |-> FALSE, unit |-> NoUnits]
             c(u) == [inuse |-> FALSE, unit |-> u, state |-> "INITIAL",
                      upper |-> FALSE, disc |-> NoMp]
  <1>3. /\ d.opt = q /\ d.lns = [i \in Links |-> l(i)] /\ d.lcp = [u \in Slots |-> c(u)]
        /\ d.ncp = [p \in Protocols |-> [u \in Slots |-> Free]]
        /\ d.echo = [u \in Slots |-> 0] /\ d.idle = [u \in Slots |-> 0]
        /\ d.conn = [i \in Links |-> 0] /\ d.echo_running = FALSE /\ d.idle_running = FALSE
        /\ d.echos_pending = 0 /\ d.failed = FALSE
    BY <1>1 DEF Fresh
  <1>4. \A i \in Links : /\ d.lns[i].phase = "WAIT" /\ d.lns[i].fd = "shut"
                         /\ d.lns[i].openfails = 0 /\ d.lns[i].bundle_next = i
                         /\ d.lns[i].auth = FALSE /\ d.lns[i].unit = NoUnits
    BY <1>3
  <1>5. \A u \in Slots : /\ d.lcp[u].inuse = FALSE /\ d.lcp[u].state = "INITIAL"
                         /\ d.lcp[u].upper = FALSE /\ d.lcp[u].disc = NoMp
    BY <1>3
  <1>6. \A p \in Protocols, u \in Slots : d.ncp[p][u] = Free
    BY <1>3
  <1>7. d \in Tables
    <2>1. \A i \in Links : l(i) \in LinkRecord
      <3>1. 0 \in 0 .. MaxOpenFails
        BY DaemonAssumption
      <3>2. QED
        BY <3>1, FreeType DEF LinkRecord, Phases
    <2>2. \A u \in Slots : c(u) \in LcpRecord
      BY NoneFacts DEF LcpRecord, LayerStates
    <2> DEFINE L == [i \in Links |-> l(i)]
               C == [u \in Slots |-> c(u)]
               N == [p \in Protocols |-> [u \in Slots |-> Free]]
               A == [u \in Slots |-> 0]
               K == [i \in Links |-> 0]
    <2> HIDE DEF l, c
    <2>3. /\ L \in [Links -> LinkRecord] /\ C \in [Slots -> LcpRecord]
          /\ A \in [Slots -> Nat] /\ K \in [Links -> Nat]
      BY <2>1, <2>2
    <2>4. N \in [Protocols -> [Slots -> NcpRecord]]
      BY FreeType
    <2>5. d = [opt |-> q, lns |-> L, lcp |-> C, ncp |-> N, echo |-> A, idle |-> A, conn |-> K,
               echo_running |-> FALSE, idle_running |-> FALSE,
               echos_pending |-> 0, failed |-> FALSE]
      BY <1>1 DEF Fresh, l, c
    <2> HIDE DEF L, C, N, A, K
    <2>6. QED
      BY <1>2, <2>3, <2>4, <2>5 DEF Tables
  <1> HIDE DEF l, c
  <1>8. \A i \in Links, p \in Protocols : d.lns[i].unit[p] = None
    BY <1>4 DEF NoUnits
  <1>9. Fit(d, openfailed)
    <2>1. Rings(d)
      BY <1>4 DEF Rings
    <2>2. OwnUnits(d)
      BY <1>4, <1>5, <1>6, <1>8 DEF OwnUnits, Unbundled, LinkOwns, UnitOwned, Free
    <2>3. \A i \in Links : LinkFits(d, i)
      BY <1>4, DaemonAssumption DEF LinkFits
    <2>4. \A u \in Slots : UnitFits(d, u)
      BY <1>5 DEF UnitFits
    <2>5. SameNumbers(d) /\ SamePeers(d)
      BY <1>4 DEF SameNumbers, SamePeers
    <2>6. QED
      BY <1>7, <2>1, <2>2, <2>3, <2>4, <2>5 DEF Fit
  <1>10. \A i \in Links : Ending(d, i)
    BY <1>4 DEF Ending
  <1>11. Alone(d) /\ EchoFits(d) /\ IdleFits(d)
    BY <1>3, <1>5, SlotZero DEF Alone, EchoFits, IdleFits
  <1>12. Good(d, openfailed)
    BY <1>9, <1>10, <1>11 DEF Good
  <1>13. /\ d.opt.numdev \in Nat /\ d.opt.numdev >= 1 /\ Devices(d) \subseteq Links
    BY <1>12, NumdevType
  <1>14. at \in 0 .. 3 * d.opt.numdev - 1
    BY <1>2, <1>13 DEF Opening
  <1>15. InTurn
    BY <1>2, <1>4, <1>13 DEF InTurn, Opening, Sweeping, Devices
  <1>16. QED
    BY <1>2, <1>12, <1>14, <1>15, InvGood

LEMMA TickInv ==
  ASSUME LinkInv, NEW e, Tick(e), Good(e, openfailed), SameDevices(d, e)
  PROVE  LinkInv'
  <1>1. d' = e /\ at' = at /\ openfailed' = openfailed
    BY DEF Tick
  <1>2. Good(d', openfailed') /\ d'.opt = d.opt /\ \A j \in Links : d'.lns[j].fd = d.lns[j].fd
    BY <1>1 DEF SameDevices
  <1>3. Devices(d) \subseteq Links /\ openfailed \in BOOLEAN
        /\ at \in 0 .. 3 * d.opt.numdev - 1 /\ InTurn
    BY InvGood, NumdevType
  <1>4. InTurn'
    BY <1>1, <1>2, <1>3 DEF InTurn, Devices, Opening, Sweeping
  <1>5. QED
    BY <1>1, <1>2, <1>3, <1>4 DEF LinkInv, Good

(* Before the sweep no device is shut, unless one failed to open.          *)
LEMMA NoneShut ==
  ASSUME LinkInv, at < Sweeping, ~openfailed, NEW j \in Devices(d)
  PROVE  d.lns[j].fd # "shut" /\ d.lns[j].fd # "off"
  <1>1. d.opt.numdev \in Nat /\ at \in 0 .. 3 * d.opt.numdev - 1 /\ InTurn
    BY InvGood, NumdevType
  <1>2. j \in Nat /\ at \in Int
    BY <1>1 DEF Devices
  <1>3. QED
    BY <1>1, <1>2 DEF InTurn, Sweeping, Opening

LEMMA InputInv ==
  ASSUME LinkInv, NEW i \in Links, NEW e, Input(i, e), Good(e, openfailed), SameDevices(d, e)
  PROVE  LinkInv'
  <1>1. d' = e /\ at' = i + 1 /\ openfailed' = openfailed /\ at <= i /\ i \in Devices(d)
    BY DEF Input
  <1>2. Good(d', openfailed') /\ d'.opt = d.opt /\ \A j \in Links : d'.lns[j].fd = d.lns[j].fd
    BY <1>1 DEF SameDevices
  <1>3. /\ Devices(d) \subseteq Links /\ openfailed \in BOOLEAN /\ d.opt.numdev \in Nat
        /\ d.opt.numdev >= 1 /\ at \in 0 .. 3 * d.opt.numdev - 1
    BY InvGood, NumdevType
  <1>4. at < Sweeping /\ at' \in 0 .. 3 * d'.opt.numdev - 1
    BY <1>1, <1>2, <1>3 DEF Devices, Sweeping
  <1>5. InTurn'
    BY <1>1, <1>2, <1>3, <1>4, NoneShut DEF InTurn, Devices
  <1>6. QED
    BY <1>1, <1>2, <1>3, <1>4, <1>5 DEF LinkInv, Good

LEMMA TimerInv ==
  ASSUME LinkInv, NEW u \in Slots, LcpTimer(u) \/ EchoTimer(u) \/ IdleTimer(u)
  PROVE  LinkInv'
  <1>1. Good(d, openfailed)
    BY InvGood
  <1>2. CASE LcpTimer(u)
    <2>1. PICK r \in TimerRows : d.lcp[u].state = r[1] /\ Tick(Step(d, u, r))
      BY <1>2 DEF LcpTimer
    <2>2. r[3] # "up" /\ d.lcp[u].inuse
      BY <1>2 DEF TimerRows, LcpTimer
    <2>3. Good(Step(d, u, r), openfailed) /\ SameDevices(d, Step(d, u, r))
      BY <1>1, <2>1, <2>2, EventGood
    <2>4. QED
      BY <2>1, <2>3, TickInv
  <1>3. CASE EchoTimer(u)
    <2>1. PICK quiet \in BOOLEAN, ioctl \in BOOLEAN :
            Tick(LcpEchoTimeout([d EXCEPT !.echo[u] = @ - 1], u, quiet, ioctl))
      BY <1>3 DEF EchoTimer
    <2> DEFINE e == LcpEchoTimeout([d EXCEPT !.echo[u] = @ - 1], u, quiet, ioctl)
    <2>2. Good(e, openfailed) /\ SameDevices(d, e)
      BY <1>1, <1>3, EchoTimeoutGood DEF EchoTimer
    <2> HIDE DEF e
    <2>3. QED
      BY <2>1, <2>2, TickInv DEF e
  <1>4. CASE IdleTimer(u)
    <2>1. PICK quiet \in BOOLEAN, ioctl \in BOOLEAN :
            Tick(IdleTimeCheck([d EXCEPT !.idle[u] = @ - 1], u, quiet, ioctl))
      BY <1>4 DEF IdleTimer
    <2> DEFINE e == IdleTimeCheck([d EXCEPT !.idle[u] = @ - 1], u, quiet, ioctl)
    <2>2. Good(e, openfailed) /\ SameDevices(d, e)
      BY <1>1, <1>4, IdleTimeGood DEF IdleTimer
    <2> HIDE DEF e
    <2>3. QED
      BY <2>1, <2>2, TickInv DEF e
  <1>5. QED
    BY <1>2, <1>3, <1>4

LEMMA PendingGood ==
  ASSUME NEW o, NEW t, Good(t, o)
  PROVE  LET e == [t EXCEPT !.echos_pending = 0] IN Good(e, o) /\ SameDevices(t, e)
  <1> DEFINE e == [t EXCEPT !.echos_pending = 0]
  <1>1. t \in Tables
    BY DEF Good, Fit
  <1>2. /\ e \in Tables /\ e.opt = t.opt /\ e.lns = t.lns /\ e.lcp = t.lcp /\ e.ncp = t.ncp
        /\ e.idle = t.idle /\ e.echo = t.echo /\ e.idle_running = t.idle_running
        /\ e.failed = t.failed /\ e.echo_running = t.echo_running
    BY <1>1 DEF Tables
  <1> HIDE DEF e
  <1>3. Fit(e, o) /\ \A i \in Links : Ending(e, i)
    BY <1>2, FitOn DEF Good
  <1>4. Alone(e) /\ EchoFits(e) /\ IdleFits(e)
    BY <1>2 DEF Good, Alone, EchoFits, IdleFits
  <1>5. QED
    BY <1>2, <1>3, <1>4 DEF Good, SameDevices, e

LEMMA PacketInv ==
  ASSUME LinkInv, NEW i \in Links, LcpPacket(i)
  PROVE  LinkInv'
  <1> DEFINE e == Establish(d, i)
             u == e.lns[i].lcp_unit
  <1>1. Good(d, openfailed) /\ d.lns[i].fd = "open"
    BY InvGood DEF LcpPacket
  <1>2. PICK r \in PacketRows :
          /\ r[1] = e.lcp[u].state
          /\ IF r[3] = "up"
             THEN \E disc \in (IF d.opt.mp THEN Discs ELSE {}) \cup {NoMp},
                     refuses \in BOOLEAN : Input(i, Rise(e, u, disc, refuses))
             ELSE Input(i, Step(e, u, r))
    BY DEF LcpPacket
  <1>3. Good(e, openfailed) /\ SameDevices(d, e)
    BY <1>1, EstablishGood
  <1> HIDE DEF e
  <1>4. u \in Slots /\ e.lcp[u].inuse
    <2>1. LinkFits(e, i)
      BY <1>3 DEF Good, Fit
    <2>2. e.lns[i].fd = "open"
      BY <1>1, <1>3 DEF SameDevices
    <2>3. QED
      BY <2>1, <2>2 DEF LinkFits, LcpOf
  <1> HIDE DEF u
  <1>5. CASE r[3] = "up"
    <2>1. r[1] = "NEGOTIATING"
      BY <1>5 DEF PacketRows
    <2>2. PICK disc \in (IF d.opt.mp THEN Discs ELSE {}) \cup {NoMp}, refuses \in BOOLEAN :
            Input(i, Rise(e, u, disc, refuses))
      BY <1>2, <1>5
    <2>3. disc \in Discs \cup {NoMp} /\ (e.opt.mp \/ disc = NoMp)
      BY <1>3, <2>2 DEF SameDevices
    <2> DEFINE f == Rise(e, u, disc, refuses)
    <2>4. Good(f, openfailed) /\ SameDevices(e, f)
      BY <1>2, <1>3, <1>4, <2>1, <2>3, RiseGood
    <2> HIDE DEF f
    <2>5. SameDevices(d, f)
      BY <1>3, <2>4 DEF SameDevices
    <2>6. QED
      BY <2>2, <2>4, <2>5, InputInv DEF f
  <1>6. CASE r[3] # "up"
    <2> DEFINE f == Step(e, u, r)
    <2>1. Good(f, openfailed) /\ SameDevices(e, f)
      BY <1>2, <1>3, <1>4, <1>6, EventGood
    <2>2. Input(i, f)
      BY <1>2, <1>6
    <2> HIDE DEF f
    <2>3. SameDevices(d, f)
      BY <1>3, <2>1 DEF SameDevices
    <2>4. QED
      BY <2>1, <2>2, <2>3, InputInv
  <1>7. QED
    BY <1>5, <1>6

LEMMA LinkStepInv ==
  ASSUME LinkInv, NEW i \in Links,
         \/ ConnectTimer(i) \/ AuthTimer(i) \/ Hangup(i) \/ LoopedBack(i) \/ EchoReply(i)
         \/ AuthPacket(i) \/ CbcpAck(i) \/ OtherPacket(i)
  PROVE  LinkInv'
  <1>1. Good(d, openfailed) /\ LinkFits(d, i) /\ d.lns[i].auth \in BOOLEAN
    BY InvGood, TableTypes, LinkTypes DEF Good, Fit
  <1>2. CASE ConnectTimer(i)
    <2> DEFINE e == connect_time_expired(d, i)
    <2>1. Good(e, openfailed) /\ SameDevices(d, e) /\ Tick(e)
      BY <1>1, <1>2, ConnectGood DEF ConnectTimer
    <2> HIDE DEF e
    <2>2. QED
      BY <2>1, TickInv
  <1>3. CASE AuthTimer(i)
    <2> DEFINE e == CloseLink(d, i)
    <2>1. d.lns[i].fd = "open" /\ Tick(e)
      BY <1>1, <1>3 DEF AuthTimer, LinkFits
    <2>2. Good(e, openfailed) /\ SameDevices(d, e)
      BY <1>1, <2>1, CloseLinkGood
    <2> HIDE DEF e
    <2>3. QED
      BY <2>1, <2>2, TickInv
  <1>4. CASE Hangup(i)
    <2> DEFINE w == Establish(d, i)
               e == link_terminated(w, i)
    <2>1. Input(i, e) /\ d.lns[i].fd = "open"
      BY <1>4 DEF Hangup, Input
    <2>2. Good(w, openfailed) /\ SameDevices(d, w)
      BY <1>1, <2>1, EstablishGood
    <2> HIDE DEF w
    <2>3. w.lns[i].fd = "open"
      BY <2>1, <2>2 DEF SameDevices
    <2>4. Good(e, openfailed) /\ SameDevices(w, e)
      BY <2>2, <2>3, TerminatedGood
    <2> HIDE DEF e
    <2>5. SameDevices(d, e)
      BY <2>2, <2>4 DEF SameDevices
    <2>6. QED
      BY <2>1, <2>4, <2>5, InputInv
  <1>5. CASE LoopedBack(i)
    <2> DEFINE u == d.lns[i].lcp_unit
               e == lcp_close(d, u)
    <2>1. Input(i, e) /\ d.lns[i].fd = "open"
      BY <1>5 DEF LoopedBack
    <2>2. u \in Slots
      BY <1>1, <2>1 DEF LinkFits
    <2>3. Good(e, openfailed) /\ SameDevices(d, e)
      BY <1>1, <2>2, CloseGood
    <2> HIDE DEF e
    <2>4. QED
      BY <2>1, <2>3, InputInv
  <1>6. CASE EchoReply(i)
    <2> DEFINE e == [d EXCEPT !.echos_pending = 0]
    <2>1. Input(i, e)
      BY <1>6 DEF EchoReply
    <2>2. Good(e, openfailed) /\ SameDevices(d, e)
      BY <1>1, PendingGood
    <2> HIDE DEF e
    <2>3. QED
      BY <2>1, <2>2, InputInv
  <1>7. CASE AuthPacket(i)
    <2> DEFINE e == auth_success(d, i)
               f == CloseLink(d, i)
    <2>1. Input(i, e) \/ Input(i, f)
      BY <1>7 DEF AuthPacket
    <2>2. d.lns[i].fd = "open"
      BY <2>1 DEF Input
    <2>3. Good(e, openfailed) /\ SameDevices(d, e) /\ Good(f, openfailed) /\ SameDevices(d, f)
      BY <1>1, <2>2, AuthSuccessGood, CloseLinkGood
    <2> HIDE DEF e, f
    <2>4. QED
      BY <2>1, <2>3, InputInv
  <1>8. CASE CbcpAck(i)
    <2> DEFINE f == CloseLink(d, i)
    <2>1. Input(i, f) /\ d.lns[i].fd = "open"
      BY <1>8 DEF CbcpAck, Input
    <2>2. Good(f, openfailed) /\ SameDevices(d, f)
      BY <1>1, <2>1, CloseLinkGood
    <2> HIDE DEF f
    <2>3. QED
      BY <2>1, <2>2, InputInv
  <1>9. CASE OtherPacket(i)
    <2> DEFINE w == Establish(d, i)
    <2>1. Input(i, w) /\ d.lns[i].fd = "open"
      BY <1>9 DEF OtherPacket, Input
    <2>2. Good(w, openfailed) /\ SameDevices(d, w)
      BY <1>1, <2>1, EstablishGood
    <2> HIDE DEF w
    <2>3. QED
      BY <2>1, <2>2, InputInv
  <1>10. QED
    BY <1>2, <1>3, <1>4, <1>5, <1>6, <1>7, <1>8, <1>9

LEMMA EndInputInv ==
  ASSUME LinkInv, EndInput
  PROVE  LinkInv'
  <1>1. d' = d /\ openfailed' = openfailed /\ at < Sweeping /\ at' = d.opt.numdev
    BY DEF EndInput, Sweeping
  <1>2. /\ Good(d, openfailed) /\ openfailed \in BOOLEAN /\ d.opt.numdev \in Nat
        /\ d.opt.numdev >= 1
    BY InvGood, NumdevType
  <1>3. at' \in 0 .. 3 * d'.opt.numdev - 1
    BY <1>1, <1>2
  <1>4. InTurn'
    BY <1>1, NoneShut DEF InTurn, Devices
  <1>5. QED
    BY <1>1, <1>2, <1>3, <1>4 DEF LinkInv, Good

LEMMA SweepInv ==
  ASSUME LinkInv, SweepLink
  PROVE  LinkInv'
  <1> DEFINE n == d.opt.numdev
             i == at - n
  <1>1. /\ at \in n .. 2 * n - 1 /\ at' = at + 1 /\ openfailed' = openfailed
        /\ d' = IF d.lns[i].phase = "DEAD" THEN TakeDown(d, i) ELSE d
    BY DEF SweepLink, Sweeping, Opening
  <1>2. /\ Good(d, openfailed) /\ openfailed \in BOOLEAN /\ n \in Nat /\ n >= 1
        /\ Devices(d) \subseteq Links /\ InTurn
    BY InvGood, NumdevType
  <1>3. i \in Devices(d) /\ i \in Nat /\ at = n + i
    BY <1>1, <1>2 DEF Devices
  <1>4. /\ Good(d', openfailed) /\ d'.opt = d.opt
        /\ \A j \in Links \ {i} : d'.lns[j].fd = d.lns[j].fd
        /\ d'.lns[i].fd = "shut" \/ d'.lns[i].fd = d.lns[i].fd
    <2>1. CASE d.lns[i].phase = "DEAD"
      <3>1. d' = TakeDown(d, i)
        BY <1>1, <2>1
      <3>2. i \in Links
        BY <1>2, <1>3
      <3> HIDE DEF i
      <3>3. QED
        BY <1>2, <2>1, <3>1, <3>2, TakeDownGood
    <2>2. CASE d.lns[i].phase # "DEAD"
      BY <1>1, <1>2, <2>2
    <2>3. QED
      BY <2>1, <2>2
  <1>5. at' \in 0 .. 3 * d'.opt.numdev - 1
    <2>1. d'.opt.numdev = n
      BY <1>4
    <2> HIDE DEF i
    <2>2. at + 1 \in 0 .. 3 * n - 1
      BY <1>1, <1>2
    <2>3. QED
      BY <1>1, <2>1, <2>2
  <1>6. InTurn'
    <2> SUFFICES ASSUME ~openfailed, NEW j \in Devices(d)
                 PROVE  /\ d'.lns[j].fd # "off"
                        /\ d'.lns[j].fd = "shut" => at + 1 \in n + j + 1 .. 2 * n + j
      BY <1>1, <1>4 DEF InTurn, Devices, Sweeping, Opening
    <2>1. /\ d.lns[j].fd # "off"
          /\ d.lns[j].fd = "shut" => at \in n + j + 1 .. 2 * n + j
      BY <1>2 DEF InTurn, Sweeping, Opening
    <2>2. j \in Nat /\ j < n /\ j \in Links
      BY <1>2 DEF Devices
    <2>3. CASE j = i
      <3>1. d'.lns[j].fd # "off"
        BY <1>4, <2>1, <2>3
      <3>2. at + 1 \in n + j + 1 .. 2 * n + j
        BY <1>1, <1>2, <1>3, <2>2, <2>3
      <3>3. QED
        BY <3>1, <3>2
    <2>4. CASE j # i
      <3>1. d'.lns[j].fd = d.lns[j].fd
        BY <1>4, <2>2, <2>4
      <3>2. at \in n + j + 1 .. 2 * n + j => at + 1 \in n + j + 1 .. 2 * n + j
        BY <1>1, <1>2, <2>2
      <3>3. QED
        BY <2>1, <3>1, <3>2
    <2>5. QED
      BY <2>3, <2>4
  <1>7. QED
    BY <1>1, <1>2, <1>4, <1>5, <1>6 DEF LinkInv, Good

LEMMA OpenInv ==
  ASSUME LinkInv, OpenDevice
  PROVE  LinkInv'
  <1> DEFINE n == d.opt.numdev
             i == at - 2 * n
  <1>1. /\ at >= 2 * n /\ at' = (at + 1) % (3 * n)
        /\ IF d.lns[i].fd = "shut"
           THEN \E result \in {"open", "shut", "off"} :
                  /\ d' = init_unit(d, i, result)
                  /\ openfailed' = (openfailed \/ result # "open")
           ELSE d' = d /\ openfailed' = openfailed
    BY DEF OpenDevice, Opening
  <1>2. /\ Good(d, openfailed) /\ openfailed \in BOOLEAN /\ n \in Nat /\ n >= 1
        /\ Devices(d) \subseteq Links /\ InTurn /\ at \in 0 .. 3 * n - 1
    BY InvGood, NumdevType
  <1>3. i \in Devices(d) /\ i \in Nat /\ at = 2 * n + i /\ i < n
    BY <1>1, <1>2 DEF Devices
  <1>4. at' \in 0 .. 3 * n - 1 /\ (at + 1 < 3 * n => at' = at + 1)
    BY <1>1, <1>2
  <1>5. ~openfailed => \A j \in Devices(d) :
          /\ d.lns[j].fd # "off" /\ (d.lns[j].fd = "shut" => at \in n + j + 1 .. 2 * n + j)
    BY <1>2 DEF InTurn, Sweeping, Opening
  <1>6. \A j \in Links : j < i => j \in Devices(d)
    BY <1>2, <1>3 DEF Devices, Links
  <1>7. ~openfailed => \A j \in Links : j < i => d.lns[j].fd = "open"
    <2> SUFFICES ASSUME ~openfailed, NEW j \in Links, j < i PROVE d.lns[j].fd = "open"
      OBVIOUS
    <2>1. d.lns[j].fd # "off" /\ (d.lns[j].fd = "shut" => at \in n + j + 1 .. 2 * n + j)
      BY <1>5, <1>6
    <2>2. at \notin n + j + 1 .. 2 * n + j
      BY <1>2, <1>3 DEF Links
    <2>3. d.lns[j].fd \in {"shut", "off", "open"}
      BY <1>2, TableTypes, LinkTypes DEF Good, Fit
    <2>4. QED
      BY <2>1, <2>2, <2>3
  <1>8. /\ Good(d', openfailed') /\ d'.opt = d.opt /\ openfailed' \in BOOLEAN
        /\ ~openfailed' => /\ ~openfailed /\ d'.lns[i].fd # "shut" /\ d'.lns[i].fd # "off"
                           /\ \A j \in Links \ {i} : d'.lns[j].fd = d.lns[j].fd
    <2>1. CASE d.lns[i].fd = "shut"
      <3>1. PICK result \in {"open", "shut", "off"} :
              d' = init_unit(d, i, result) /\ openfailed' = (openfailed \/ result # "open")
        BY <1>1, <2>1
      <3> HIDE DEF i
      <3>2. CASE result = "open"
        <4>1. openfailed' = openfailed /\ d' = init_unit(d, i, "open")
          BY <1>2, <3>1, <3>2
        <4>2. LET e == init_unit(d, i, "open")
              IN  /\ Good(e, openfailed) /\ e.opt = d.opt /\ e.lns[i].fd = "open"
                  /\ \A j \in Links \ {i} : e.lns[j].fd = d.lns[j].fd
          BY <1>2, <1>3, <1>7, <2>1, OpenGood
        <4>3. QED
          BY <1>2, <4>1, <4>2
      <3>3. CASE result # "open"
        <4>1. openfailed' = TRUE /\ result \in {"shut", "off"}
          BY <1>2, <3>1, <3>3
        <4>2. Good(d', TRUE) /\ d'.opt = d.opt
          BY <1>2, <1>3, <2>1, <3>1, <4>1, OpenFailsGood
        <4>3. QED
          BY <4>1, <4>2
      <3>4. QED
        BY <3>2, <3>3
    <2>2. CASE d.lns[i].fd # "shut"
      <3>1. d' = d /\ openfailed' = openfailed
        BY <1>1, <2>2
      <3>2. QED
        BY <1>2, <1>3, <1>5, <2>2, <3>1
    <2>3. QED
      BY <2>1, <2>2
  <1>9. InTurn'
    <2> SUFFICES ASSUME ~openfailed', NEW j \in Devices(d)
                 PROVE  /\ d'.lns[j].fd # "off"
                        /\ d'.lns[j].fd = "shut" => at' \in n + j + 1 .. 2 * n + j
      BY <1>8 DEF InTurn, Devices, Sweeping, Opening
    <2>1. CASE j = i
      BY <1>8, <2>1
    <2>2. CASE j # i
      <3>1. j \in Nat /\ j < n /\ j \in Links
        BY <1>2 DEF Devices
      <3>2. d'.lns[j].fd = d.lns[j].fd /\ ~openfailed
        BY <1>8, <2>2, <3>1
      <3>3. at \in n + j + 1 .. 2 * n + j => at' \in n + j + 1 .. 2 * n + j
        <4>1. at \in n + j + 1 .. 2 * n + j => i < j
          BY <1>2, <1>3, <2>2, <3>1
        <4>2. i < j => at + 1 < 3 * n /\ at + 1 <= 2 * n + j
          BY <1>2, <1>3, <3>1
        <4>3. at \in Int /\ n \in Nat
          BY <1>2
        <4> HIDE DEF i, n
        <4>4. QED
          BY <1>4, <3>1, <4>1, <4>2, <4>3
      <3>4. QED
        BY <1>5, <3>2, <3>3
    <2>3. QED
      BY <2>1, <2>2
  <1>10. QED
    BY <1>4, <1>8, <1>9 DEF LinkInv, Good

-----------------------------------------------------------------------------
(* Theorems                                                                *)

(* LinkInv holds in every state ipppd can reach (main.c, auth.c, lcp.c):   *)
(* links, LCP units, rings, units of the network protocols and the timers  *)
(* of lcp.c fit one another between any two callbacks.                     *)
THEOREM LinkInductive == Spec => []LinkInv
  <1>1. Init => LinkInv
    BY InitInv
  <1>2. LinkInv /\ [Next]_vars => LinkInv'
    <2> SUFFICES ASSUME LinkInv, [Next]_vars PROVE LinkInv'
      OBVIOUS
    <2>1. CASE UNCHANGED vars
      BY <2>1 DEF vars, LinkInv, InTurn, Sweeping, Opening
    <2>2. ASSUME NEW u \in Slots, LcpTimer(u) \/ EchoTimer(u) \/ IdleTimer(u) PROVE LinkInv'
      BY <2>2, TimerInv
    <2>3. ASSUME NEW i \in Links, LcpPacket(i) PROVE LinkInv'
      BY <2>3, PacketInv
    <2>4. ASSUME NEW i \in Links,
                 \/ ConnectTimer(i) \/ AuthTimer(i) \/ Hangup(i) \/ LoopedBack(i)
                 \/ EchoReply(i) \/ AuthPacket(i) \/ CbcpAck(i) \/ OtherPacket(i)
          PROVE  LinkInv'
      BY <2>4, LinkStepInv
    <2>5. EndInput \/ SweepLink \/ OpenDevice => LinkInv'
      BY EndInputInv, SweepInv, OpenInv
    <2>6. QED
      BY <2>1, <2>2, <2>3, <2>4, <2>5 DEF Next
  <1>3. QED
    BY <1>1, <1>2, PTL DEF Spec

(* The tables keep their types, for every NUM_PPP and every way ipppd can  *)
(* have been started: no unit number, link number or phase leaves its      *)
(* range, whatever the peers send (ipppd.h, fsm.h, lcp.c).                 *)
THEOREM LinkTyped == Spec => []TypeOK
  <1>1. LinkInv => TypeOK
    <2> SUFFICES ASSUME LinkInv PROVE TypeOK
      OBVIOUS
    <2>1. /\ d \in Tables /\ openfailed \in BOOLEAN /\ at \in 0 .. 3 * d.opt.numdev - 1
          /\ d.opt.numdev \in Nat /\ d.opt.numdev <= NUM_PPP
      BY InvGood, NumdevType
    <2>2. at \in 0 .. 3 * NUM_PPP - 1
      BY <2>1, DaemonAssumption
    <2>3. QED
      BY <2>1, <2>2 DEF TypeOK
  <1>2. QED
    BY <1>1, LinkInductive, PTL

(* Every open link owns one LCP unit that points back at it, and no unit   *)
(* is left in use without a link (init_unit, lcp_getunit, lcp_freeunit).   *)
THEOREM LcpUnitsOwned == Spec => []LcpOwned
  <1>1. LinkInv => LcpOwned
    <2> SUFFICES ASSUME LinkInv PROVE LcpOwned
      OBVIOUS
    <2>1. Fit(d, openfailed)
      BY DEF LinkInv
    <2>2. ASSUME NEW i \in Open
          PROVE  d.lns[i].lcp_unit # None /\ LcpOf(d, i).inuse /\ LcpOf(d, i).unit = i
      <3>1. i \in Links /\ d.lns[i].fd = "open"
        BY InvGood, NumdevType DEF Open
      <3>2. QED
        BY <2>1, <3>1, NoneFacts DEF Fit, LinkFits
    <2>3. ASSUME NEW u \in Slots, d.lcp[u].inuse
          PROVE  \E i \in Open : d.lns[i].lcp_unit = u
      <3> DEFINE k == d.lcp[u].unit
      <3>1. k \in Links /\ d.lns[k].fd = "open" /\ d.lns[k].lcp_unit = u /\ LinkFits(d, k)
        BY <2>1, <2>3, OwnerFacts
      <3>2. k \in Open
        BY <3>1 DEF LinkFits, Open
      <3>3. QED
        BY <3>1, <3>2
    <2>4. ASSUME NEW u \in Slots, ~d.lcp[u].inuse
          PROVE  d.lcp[u].state = "INITIAL" /\ ~d.lcp[u].upper
      BY <2>1, <2>4, AtRest
    <2>5. QED
      BY <2>2, <2>3, <2>4 DEF LcpOwned
  <1>2. QED
    BY <1>1, LinkInductive, PTL

(* As long as every device opens at the first try, a link and its LCP unit *)
(* have the same number, which connect_time_expired and network_phase      *)
(* count on.                                                               *)
THEOREM UnitsAreLinks == Spec => []UnitIsLink
  <1>1. LinkInv => UnitIsLink
    <2> SUFFICES ASSUME LinkInv, ~openfailed, NEW i \in Open PROVE d.lns[i].lcp_unit = i
      BY DEF UnitIsLink
    <2>1. i \in Links /\ d.lns[i].fd = "open"
      BY InvGood, NumdevType DEF Open
    <2>2. QED
      BY <2>1 DEF LinkInv, Fit, SameNumbers
  <1>2. QED
    BY <1>1, LinkInductive, PTL

(* bundle_next is always a permutation of the links, and a link that       *)
(* shares its ring is in its network phase or has just been hung up        *)
(* (network_phase, link_down).                                             *)
THEOREM RingsKept == Spec => []BundleRings
  <1>1. LinkInv => BundleRings
    <2> SUFFICES ASSUME LinkInv PROVE BundleRings
      OBVIOUS
    <2>1. Rings(d)
      BY DEF LinkInv, Fit
    <2>2. ASSUME NEW i \in Links
          PROVE  link_lastlink(d, i) \/ d.lns[i].phase \in {"NETWORK", "DEAD"}
      <3>1. LinkFits(d, i)
        BY DEF LinkInv, Fit
      <3>2. QED
        BY <3>1 DEF LinkFits, link_lastlink
    <2>3. QED
      BY <2>1, <2>2 DEF BundleRings, Rings
  <1>2. QED
    BY <1>1, LinkInductive, PTL

(* As long as every device opens at the first try, all links of a bundle   *)
(* lead to one endpoint (network_phase).  A set that holds link i and the  *)
(* links with its discriminator is closed under bundle_next, so the ring   *)
(* of i is within it.                                                      *)
THEOREM RingsSamePeer == Spec => []BundleSamePeer
  <1>1. LinkInv => BundleSamePeer
    <2> SUFFICES ASSUME LinkInv, ~openfailed, NEW i \in Open, NEW j \in Ring(i), j # i
                 PROVE  LcpOf(d, i).disc # NoMp /\ LcpOf(d, i).disc = LcpOf(d, j).disc
      BY DEF BundleSamePeer
    <2> DEFINE S == {k \in Links : \/ k = i
                                   \/ /\ LcpOf(d, i).disc # NoMp
                                      /\ LcpOf(d, i).disc = LcpOf(d, k).disc}
    <2>1. /\ SamePeers(d) /\ i \in Links
          /\ \A k \in Links : d.lns[k].bundle_next \in Links
      BY InvGood, NumdevType, TableTypes, LinkTypes DEF LinkInv, Fit, Open
    <2>2. ASSUME NEW k \in S PROVE d.lns[k].bundle_next \in S
      <3>1. k \in Links /\ d.lns[k].bundle_next \in Links
        BY <2>1
      <3>2. CASE d.lns[k].bundle_next = k
        BY <3>2
      <3>3. CASE d.lns[k].bundle_next # k
        <4>1. /\ LcpOf(d, k).disc # NoMp
              /\ LcpOf(d, d.lns[k].bundle_next).disc = LcpOf(d, k).disc
          BY <2>1, <3>1, <3>3 DEF SamePeers
        <4>2. QED
          BY <3>1, <4>1
      <3>4. QED
        BY <3>2, <3>3
    <2>3. S \in SUBSET Links /\ i \in S
      BY <2>1
    <2>4. j \in S
      <3>1. \A T \in SUBSET Links :
              i \in T /\ (\A k \in T : d.lns[k].bundle_next \in T) => j \in T
        BY DEF Ring
      <3>2. \A k \in S : d.lns[k].bundle_next \in S
        BY <2>2
      <3> HIDE DEF S
      <3>3. QED
        BY <2>3, <3>1, <3>2, Zenon
    <2>5. QED
      BY <2>4
  <1>2. QED
    BY <1>1, LinkInductive, PTL

(* Without bundles a unit of a network protocol is in use only for a link  *)
(* that is up and owns it, and no two links share one (ipcp_getunit,       *)
(* link_down).                                                             *)
THEOREM NcpUnitsOwned == Spec => []NcpOwned
  <1>1. LinkInv => NcpOwned
    <2> SUFFICES ASSUME LinkInv, ~d.opt.mp, NEW p \in Protocols, NEW u \in Slots
                 PROVE  /\ d.ncp[p][u].inuse => /\ Up(d.ncp[p][u].unit)
                                                /\ d.lns[d.ncp[p][u].unit].unit[p] = u
                        /\ \A i \in Open : d.lns[i].unit[p] = u =>
                             d.ncp[p][u] = [inuse |-> TRUE, unit |-> i]
      BY DEF NcpOwned
    <2>1. OwnUnits(d) /\ u # None /\ \A k \in Links : LinkFits(d, k)
      BY NoneFacts DEF LinkInv, Fit
    <2>2. ASSUME d.ncp[p][u].inuse
          PROVE  Up(d.ncp[p][u].unit) /\ d.lns[d.ncp[p][u].unit].unit[p] = u
      <3> DEFINE k == d.ncp[p][u].unit
      <3>1. k \in Links /\ d.lns[k].unit[p] = u
        BY <2>1, <2>2 DEF OwnUnits, UnitOwned
      <3>2. d.lns[k].fd = "open" /\ LcpOf(d, k).upper
        <4>1. \A m \in Links : d.lns[m].unit[p] # None =>
                d.lns[m].fd = "open" /\ LcpOf(d, m).upper
          BY <2>1 DEF OwnUnits, LinkOwns
        <4> HIDE DEF k
        <4>2. QED
          BY <2>1, <3>1, <4>1
      <3>3. k \in Open
        BY <2>1, <3>1, <3>2 DEF LinkFits, Open
      <3>4. QED
        BY <3>1, <3>2, <3>3 DEF Up
    <2>3. ASSUME NEW i \in Open, d.lns[i].unit[p] = u
          PROVE  d.ncp[p][u] = [inuse |-> TRUE, unit |-> i]
      <3>1. i \in Links
        BY InvGood, NumdevType DEF Open
      <3>2. QED
        BY <2>1, <2>3, <3>1 DEF OwnUnits, LinkOwns
    <2>4. QED
      BY <2>2, <2>3
  <1>2. QED
    BY <1>1, LinkInductive, PTL

(* A link authenticates, waits for a callback or carries traffic only      *)
(* while LCP is up on it, and one marked as terminating has left LCP, but  *)
(* for callback by RFC 1570 (link_established, link_down, callback_phase). *)
THEOREM PhasesFit == Spec => []PhaseFitsLcp
  <1>1. LinkInv => PhaseFitsLcp
    <2> SUFFICES ASSUME LinkInv, NEW i \in Open
                 PROVE  /\ d.lns[i].phase \in {"AUTHENTICATE", "CALLBACK", "NETWORK"} => Up(i)
                        /\ d.lns[i].phase = "TERMINATE" /\ Up(i) => d.opt.cb = "rfc1570"
      BY DEF PhaseFitsLcp
    <2>1. i \in Links /\ d.lns[i].fd = "open"
      BY InvGood, NumdevType DEF Open
    <2>2. LinkFits(d, i) /\ Ending(d, i)
      BY <2>1 DEF LinkInv, Fit
    <2>3. QED
      BY <2>1, <2>2 DEF LinkFits, Ending, Up
  <1>2. QED
    BY <1>1, LinkInductive, PTL

(* With one link no assert of lcp.c fails, and while the link is up its    *)
(* echo and idle checks go on (lcp_echo_lowerup, LcpEchoTimeout,           *)
(* IdleTimeCheck, lcp_echo_lowerdown).                                     *)
THEOREM WatchGoesOn == Spec => []OneLinkWatched
  <1>1. LinkInv => OneLinkWatched
    <2> SUFFICES ASSUME LinkInv, d.opt.numdev = 1
                 PROVE  /\ Running
                        /\ d.opt.echo /\ Up(0) =>
                             d.echo_running /\ d.echo[d.lns[0].lcp_unit] > 0
                        /\ d.opt.idle /\ Up(0) =>
                             d.idle_running /\ d.idle[d.lns[0].lcp_unit] > 0
      BY DEF OneLinkWatched
    <2>1. Alone(d) /\ EchoFits(d) /\ IdleFits(d) /\ Fit(d, openfailed)
      BY DEF LinkInv
    <2>2. Running
      BY <2>1 DEF Alone, Running
    <2>3. Up(0) => d.lns[0].lcp_unit = 0 /\ d.lcp[0].upper
      <3> SUFFICES ASSUME Up(0) PROVE d.lns[0].lcp_unit = 0 /\ d.lcp[0].upper
        OBVIOUS
      <3>1. 0 \in Links /\ d.lns[0].fd = "open" /\ LcpOf(d, 0).upper
        BY SlotZero, NoneFacts DEF Up, Open
      <3>2. d.lns[0].lcp_unit \in Slots /\ LcpOf(d, 0).inuse
        BY <2>1, <3>1 DEF Fit, LinkFits
      <3>3. d.lns[0].lcp_unit = 0
        BY <2>1, <3>2 DEF Alone, LcpOf
      <3>4. QED
        BY <3>1, <3>3 DEF LcpOf
    <2>4. QED
      BY <2>1, <2>2, <2>3 DEF EchoFits, IdleFits
  <1>2. QED
    BY <1>1, LinkInductive, PTL
=============================================================================
