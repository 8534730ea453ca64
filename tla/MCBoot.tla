------------------------------- MODULE MCBoot -------------------------------
(* Boot for TLC: tables of two entries, up to three files of three sizes. *)
EXTENDS Boot, TLC
Names == {"init", "vfs", "shell"}
MCDirectories ==
  {d \in UNION {[1 .. n -> [name : Names, size : {8, 16, 24}]] : n \in 1 .. 3} :
     \A i, j \in DOMAIN d : d[i].name = d[j].name => i = j}
Segment(load, vaddr, filesz, memsz) ==
  [load |-> load, vaddr |-> vaddr, filesz |-> filesz, memsz |-> memsz]
MCElf ==
  "init" :> [valid |-> TRUE, segs |-> <<Segment(TRUE, 0, 2, 2), Segment(TRUE, 2, 1, 1)>>] @@
  "vfs" :> [valid |-> TRUE, segs |-> <<Segment(FALSE, 0, 1, 1), Segment(TRUE, 0, 1, 2)>>] @@
  "shell" :> [valid |-> FALSE, segs |-> <<Segment(TRUE, 0, 1, 1)>>]
=============================================================================
