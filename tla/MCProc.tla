------------------------------- MODULE MCProc -------------------------------
(* Proc for TLC: four entries and pids up to one that cannot exist. *)
EXTENDS Proc
=============================================================================
