------------------------------- MODULE MCTimer -------------------------------
(* Timer with no time-out and with time-outs of one, two and three ticks.   *)
EXTENDS Timer

MC_TimeOuts == {0, 1, 2, 3}
==============================================================================
