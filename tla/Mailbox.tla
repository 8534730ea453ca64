------------------------------ MODULE Mailbox ------------------------------
(***************************************************************************)
(* What an IPC endpoint promises one sender and one receiver: a box for    *)
(* one message.  Messages are numbered 1, 2, 3 ... by their sender; 0 is   *)
(* no message.  Every message put is taken out, once and in order.         *)
(***************************************************************************)
EXTENDS Integers

CONSTANT Box
VARIABLES
  box,   \* box[e]: the message in the box of e, 0 if it is empty
  taken  \* taken[e]: the message last taken out of the box of e
mvars == <<box, taken>>

MInit == box = [e \in Box |-> 0] /\ taken = [e \in Box |-> 0]

Put(e) ==
  /\ box[e] = 0
  /\ box' = [box EXCEPT ![e] = taken[e] + 1]
  /\ UNCHANGED taken

Take(e) ==
  /\ box[e] # 0
  /\ taken' = [taken EXCEPT ![e] = box[e]]
  /\ box' = [box EXCEPT ![e] = 0]

MNext == \E e \in Box : Put(e) \/ Take(e)
MSpec == MInit /\ [][MNext]_mvars
=============================================================================
