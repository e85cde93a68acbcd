---------------------------- MODULE MCCollector ----------------------------
(* Collector with intervals of one to three ticks of the clock; zero stands *)
(* for an argument that SetInterval refuses.                               *)
EXTENDS Collector

MCIntervals == {0, 1, 3}
=============================================================================
