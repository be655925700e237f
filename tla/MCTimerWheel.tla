---------------------------- MODULE MCTimerWheel -----------------------------
(****************************************************************************)
(* Instances of TimerWheel for TLC: levels of two slots, so that all        *)
(* cascades and the wrap-around of time_ are met within 32 ticks.           *)
(****************************************************************************)
EXTENDS TimerWheel

AllTimes == 1..MaxTime

=============================================================================
