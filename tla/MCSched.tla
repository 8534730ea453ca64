------------------------------ MODULE MCSched ------------------------------
(* Sched for TLC: three usable slots, three priority levels, sleeps of 0,  *)
(* 1 and 2 ticks.                                                         *)
EXTENDS Sched
=============================================================================
