------------------------------ MODULE MCShell ------------------------------
(* Shell for TLC: lines of up to five characters, two words kept.  The     *)
(* builtins have names of one and two letters.                             *)
EXTENDS Shell
MCBuiltin == [help |-> <<"h">>, echo |-> <<"e", "h">>, clear |-> <<"e">>, reboot |-> <<"h", "e">>]
=============================================================================
