------------------------------- MODULE MCIpc -------------------------------
(* Ipc for TLC: a server and a client, an endpoint for requests and one    *)
(* for replies; the server creates both.                                   *)
EXTENDS Ipc, TLC
CONSTANTS server, client
MCSender == (0 :> client) @@ (1 :> server)
MCReceiver == (0 :> server) @@ (1 :> client)
=============================================================================
