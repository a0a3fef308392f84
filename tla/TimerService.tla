---------------------------- MODULE TimerService ----------------------------
(***************************************************************************)
(* What ipppd expects of its timers: an alarm that has been set goes off   *)
(* at or after its time unless it is cancelled first, and alarms of        *)
(* different seconds go off in the order of their seconds.                 *)
(***************************************************************************)
EXTENDS Naturals, Bags, BagsExt

CONSTANTS
    Who,            \* what is called: a function and its argument
    Delays,         \* the delays asked for, in seconds
    USEC            \* ticks of the clock in a second, 1000000 in the code

VARIABLES
    now,            \* the clock, in ticks
    pending         \* the bag of alarms set and not yet gone off

vars == <<now, pending>>

Alarm == [who : Who, due : Nat]
Sec(t) == t \div USEC

Init == now \in Nat /\ pending = EmptyBag

Set(w, d) == /\ pending' = BagAdd(pending, [who |-> w, due |-> now + d * USEC])
             /\ UNCHANGED now

(* One alarm of w, whichever, when there is one.                           *)
Cancel(w) ==
    LET mine == {a \in BagToSet(pending) : a.who = w}
    IN  /\ \/ mine = {} /\ UNCHANGED pending
           \/ \E a \in mine : pending' = BagRemove(pending, a)
        /\ UNCHANGED now

GoesOff ==
    /\ \E a \in BagToSet(pending) :
         /\ a.due <= now
         /\ \A b \in BagToSet(pending) : Sec(a.due) <= Sec(b.due)
         /\ pending' = BagRemove(pending, a)
    /\ UNCHANGED now

Tick == now' > now /\ UNCHANGED pending

Next == \/ \E w \in Who, d \in Delays : Set(w, d)
        \/ \E w \in Who : Cancel(w)
        \/ GoesOff \/ Tick

Spec == Init /\ [][Next]_vars
=============================================================================
