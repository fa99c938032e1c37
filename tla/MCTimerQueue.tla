---------------------------- MODULE MCTimerQueue -----------------------------
(* Instances of TimerQueue for TLC: one other thread, two addresses, so that  *)
(* an address is used again, and a clock of few ticks.                        *)
EXTENDS TimerQueue

CONSTANT t1

MCThreads    == {t1}
MCAddrs      == 1 .. 2
MCWhens      == {0, 3}
MCIntervals  == {0, 1}
MCClockSteps == {1}

==============================================================================
