------------------------------- MODULE MCVfs -------------------------------
(* Vfs for TLC: two entries of two bytes; "a" is an ordinary path, "long"  *)
(* one whose first 63 characters are the path "b".                         *)
EXTENDS Vfs
MCStored == [p \in Path |-> IF p = "long" THEN "b" ELSE p]
MCRamFiles == <<"a">>
=============================================================================
