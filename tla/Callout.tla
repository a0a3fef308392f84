------------------------------ MODULE Callout ------------------------------
(***************************************************************************)
(* The callout list of ipppd (main.c) and the part of the main loop that   *)
(* serves it.  Everything runs in one thread: select sleeps until there is *)
(* input or the time timeleft named is over, calltimeout runs what is due, *)
(* then the input is handled.  Handlers set and remove callouts.           *)
(*                                                                         *)
(* A point in time is one number of clock ticks; tv_sec and tv_usec are    *)
(* its quotient and remainder by USEC.                                     *)
(***************************************************************************)
EXTENDS Naturals, Sequences, SequencesExt, Bags, BagsExt

CONSTANTS
    Who,            \* the pairs of c_func and c_arg
    Delays,         \* the delays handlers ask for, in seconds
    USEC,           \* ticks in a second, 1000000 in the code
    Start,          \* the clock when the program starts
    LastSet,        \* bound: nothing is scheduled after this time
    Cap             \* bound: callouts pending at once

(* The clock counts the seconds since 1970, so tv_sec exceeds any tv_usec. *)
ASSUME ClockAssumption == /\ USEC \in Nat \ {0}
                          /\ Start \in Nat /\ Start >= USEC * USEC
                          /\ LastSet \in Nat /\ Cap \in Nat
                          /\ Delays \subseteq Nat \ {0}

VARIABLES
    callout,        \* the list, first to run first
    now,            \* what gettimeofday returns
    pc,             \* where the loop is
    limit           \* when select will return for want of input

vars == <<callout, now, pc, limit>>

Entry == [who : Who, due : Nat]
tv_sec(t) == t \div USEC
tv_usec(t) == t % USEC
Never == 0          \* no timeout for select; no callout is due at 0

Init == /\ callout = <<>> /\ now = Start /\ pc = "input" /\ limit = Never

-----------------------------------------------------------------------------
(* Mutant: the new entry looks at the seconds the wrong way round.         *)
Before_Reversed(n, p) == tv_sec(n.due) > tv_sec(p.due)

(* The test that ends the search for the place of n: the microseconds of   *)
(* the new entry are compared with the seconds of the old one.             *)
Before(n, p) == \/ tv_sec(n.due) < tv_sec(p.due)
                \/ /\ tv_sec(n.due) = tv_sec(p.due)
                   /\ tv_usec(n.due) < tv_sec(p.due)

Insert(s, n) ==
    LET k == SelectInSeq(s, LAMBDA p : Before(n, p))
    IN  InsertAt(s, IF k = 0 THEN Len(s) + 1 ELSE k, n)

(* A handler is running: one that calltimeout called, or one for input.    *)
Running == pc \in {"called", "input"}

timeout(w, d) ==
    /\ Running /\ now <= LastSet /\ Len(callout) < Cap
    /\ callout' = Insert(callout, [who |-> w, due |-> now + d * USEC])
    /\ UNCHANGED <<now, pc, limit>>

(* Mutant: the callout after the match is lost with it.                    *)
untimeout_Unlinks(w) ==
    /\ Running
    /\ callout' = LET k == SelectInSeq(callout, LAMBDA p : p.who = w)
                  IN  IF k = 0 THEN callout ELSE SubSeq(callout, 1, k - 1)
    /\ UNCHANGED <<now, pc, limit>>

(* The first callout that matches is removed, no other.                    *)
Without(s, w) == RemoveFirstMatch(s, LAMBDA p : p.who = w)

untimeout(w) ==
    /\ Running
    /\ callout' = Without(callout, w)
    /\ UNCHANGED <<now, pc, limit>>

(* Mutant: only the second a callout is due in counts, not those after it. *)
calltimeout_OnTime ==
    /\ pc = "calling"
    /\ IF /\ callout # <<>> /\ Head(callout).due <= now
          /\ tv_sec(Head(callout).due) = tv_sec(now)
       THEN callout' = Tail(callout) /\ pc' = "called"
       ELSE UNCHANGED callout /\ pc' = "input"
    /\ UNCHANGED <<now, limit>>

(* calltimeout: the loop reads the clock again before each callout.        *)
calltimeout ==
    /\ pc = "calling"
    /\ IF callout # <<>> /\ Head(callout).due <= now
       THEN callout' = Tail(callout) /\ pc' = "called"
       ELSE UNCHANGED callout /\ pc' = "input"
    /\ UNCHANGED <<now, limit>>

Return == pc = "called" /\ pc' = "calling" /\ UNCHANGED <<callout, now, limit>>

(* Mutant: with an overdue callout the wait is that of an empty list.      *)
timeleft_Overdue ==
    IF callout = <<>> THEN Never
    ELSE IF Head(callout).due > now THEN Head(callout).due ELSE Never

(* The time the head of the list leaves, none when it is overdue.          *)
timeleft == IF callout = <<>> THEN Never
            ELSE IF Head(callout).due > now THEN Head(callout).due ELSE now

Select == /\ pc = "input" /\ pc' = "select" /\ limit' = timeleft
          /\ UNCHANGED <<callout, now>>

(* select returns when the time is over, or before it, for input.          *)
TimeOver == limit # Never /\ now >= limit

Expire == pc = "select" /\ TimeOver /\ pc' = "calling" /\ UNCHANGED <<callout, now, limit>>
Input == pc = "select" /\ pc' = "calling" /\ UNCHANGED <<callout, now, limit>>

(* The clock goes on while handlers run and while select sleeps.           *)
End == LastSet + 4 * USEC
Tick == /\ now < End /\ ~(pc = "select" /\ TimeOver)
        /\ now' = now + 1 /\ UNCHANGED <<callout, pc, limit>>

Next == \/ \E w \in Who, d \in Delays : timeout(w, d)
        \/ \E w \in Who : untimeout(w)
        \/ calltimeout \/ Return \/ Select \/ Expire \/ Input \/ Tick

(* Handlers return, the loop goes round and time passes.  Nothing promises *)
(* that input arrives.                                                     *)
Spec == /\ Init /\ [][Next]_vars
        /\ WF_vars(calltimeout) /\ WF_vars(Return) /\ WF_vars(Select)
        /\ WF_vars(Expire) /\ WF_vars(Tick)

-----------------------------------------------------------------------------
TypeOK == /\ callout \in Seq(Entry) /\ now \in Nat /\ limit \in Nat
          /\ pc \in {"input", "select", "calling", "called"}

(* The list is in the order of the seconds (timeout keeps it so; the order *)
(* within one second is another matter).                                   *)
SecondsSorted == \A i, j \in 1 .. Len(callout) :
                    i <= j => tv_sec(callout[i].due) <= tv_sec(callout[j].due)

(* The loop does not sleep on a callout that is a full second overdue,     *)
(* wherever in the list it is.                                             *)
NeverOversleeps ==
    pc = "select" => \A i \in 1 .. Len(callout) :
                        now >= callout[i].due + USEC => TimeOver

(* The bag of entries in the list.                                         *)
Entries == [e \in Range(callout) |->
              Cardinality({i \in 1 .. Len(callout) : callout[i] = e})]

Service == INSTANCE TimerService WITH pending <- Entries

(* The list behaves as the timers the protocols were written for: timeout, *)
(* untimeout and calltimeout set, cancel and set off alarms, and nothing   *)
(* else does (main.c).                                                     *)
ImplementsService == Service!Spec

(* When nothing is scheduled any more every callout is run in the end,     *)
(* input or no input: a sleep never outlasts the list it was computed for. *)
EveryCalloutRuns == <>[](callout = <<>>)
=============================================================================
