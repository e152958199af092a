----------------------------- MODULE MCTimerDelay -----------------------------
(***************************************************************************)
(* Delays for TLC: those of the two programs, and both sides of every      *)
(* boundary of the arithmetic, up to 100 seconds.                          *)
(***************************************************************************)
EXTENDS TimerDelay

Around(d) == {d - 1, d, d + 1}

(* One second, two, the wraps of delay * 1000000 at 4294.97 and 8589.93 ms, *)
(* the 23rd wrap, and 100 seconds.                                          *)
BoundaryDelays ==
  {0, 1, 600, 3000, 4295, 8590}
    \cup UNION {Around(d) : d \in {1000, 2000, 4294, 8589, 98784, 100000}}
===============================================================================
