------------------------------ MODULE KeyQueue ------------------------------
(***************************************************************************)
(* What the keyboard buffer promises: a first-in first-out queue that      *)
(* drops a new character when it is full and never one it has accepted.    *)
(***************************************************************************)
EXTENDS Naturals, Sequences

CONSTANTS Capacity, Char
VARIABLES
  queue,  \* characters typed and not yet read
  got     \* the character read last
kvars == <<queue, got>>

KInit == queue = <<>> /\ got \notin Char

Type(c) ==
  /\ Len(queue) < Capacity
  /\ queue' = Append(queue, c)
  /\ UNCHANGED got

Get ==
  /\ queue # <<>>
  /\ got' = Head(queue)
  /\ queue' = Tail(queue)

\* A read of the empty queue.
GetNone ==
  /\ queue = <<>>
  /\ got' \notin Char
  /\ UNCHANGED queue

KNext == (\E c \in Char : Type(c)) \/ Get \/ GetNone
KSpec == KInit /\ [][KNext]_kvars
=============================================================================
