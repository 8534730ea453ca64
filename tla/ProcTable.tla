----------------------------- MODULE ProcTable -----------------------------
(***************************************************************************)
(* What the process server promises: processes are numbered 1, 2, 3 ... as *)
(* they are spawned, at most MaxProcs ever; a killed one stays known and   *)
(* dead; the server reports what it was asked about.                       *)
(***************************************************************************)
EXTENDS Naturals, Sequences

CONSTANTS MaxProcs, Name
VARIABLES
  procs,   \* procs[p]: the name of process p and whether it was killed
  known,   \* the process the last request was about, 0 if there is none
  lines    \* what it listed of processes
pvars == <<procs, known, lines>>

Proc(n) == [name |-> n, killed |-> FALSE]
Line(p) == [pid |-> p, name |-> procs[p].name, killed |-> procs[p].killed]

PInit == known = 0 /\ lines = <<>> /\ \E n \in Name : procs = <<Proc(n)>>

PSpawn(n) ==
  /\ Len(procs) < MaxProcs
  /\ procs' = Append(procs, Proc(n))
  /\ known' = Len(procs) + 1 /\ lines' = <<>>

PKill(p) ==
  /\ p \in DOMAIN procs
  /\ procs' = [procs EXCEPT ![p].killed = TRUE]
  /\ known' = p /\ lines' = <<>>

PInfo(p) ==
  /\ p \in DOMAIN procs
  /\ known' = p /\ lines' = <<Line(p)>>
  /\ UNCHANGED procs

PList ==
  /\ known' = 0 /\ lines' = [p \in DOMAIN procs |-> Line(p)]
  /\ UNCHANGED procs

\* A spawn in a full table, a process that does not exist, an unknown request.
PNothing == known' = 0 /\ lines' = <<>> /\ UNCHANGED procs

PNext ==
  \/ \E n \in Name : PSpawn(n)
  \/ \E p \in 1 .. MaxProcs : PKill(p) \/ PInfo(p)
  \/ PList
  \/ PNothing
PSpec == PInit /\ [][PNext]_pvars
=============================================================================
