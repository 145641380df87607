-------------------------- MODULE MCTimerManager --------------------------
(***************************************************************************)
(* Instances of the timer queue.                                           *)
(***************************************************************************)
EXTENDS TimerManager, TLC

CONSTANTS bell, shift, watch, tide

\* A pulse whose time is kept by an object, a recurring period with an end,
\* one with a duration, and a duration that repeats.
MixedEvery  == (bell :> -1) @@ (shift :> -1) @@ (watch :> -1) @@ (tide :> 3)
MixedDuring == (bell :> 0) @@ (shift :> -1) @@ (watch :> 3) @@ (tide :> 2)
MixedUntil  == (bell :> {}) @@ (shift :> {4, 8, 12, 16}) @@ (watch :> {}) @@ (tide :> {})
MixedAt     == (bell :> {{2, 6}, {4}}) @@ (shift :> {{2, 6, 10, 14}})
               @@ (watch :> {{2, 8, 14}}) @@ (tide :> {{}})
=============================================================================
