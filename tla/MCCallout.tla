----------------------------- MODULE MCCallout -----------------------------
(* Two timers, seconds of two ticks, a clock that starts in second 2.      *)
EXTENDS Callout
CONSTANTS w1, w2
=============================================================================
