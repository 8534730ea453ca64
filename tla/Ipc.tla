-------------------------------- MODULE Ipc --------------------------------
(***************************************************************************)
(* Kernel IPC endpoints (kernel/src/ipc.c) used by preemptible tasks: the  *)
(* functions take no lock and leave interrupts on, so a call is a sequence *)
(* of steps and other tasks run between any two of them.  The copy of a    *)
(* message is two steps, one per half.                                     *)
(***************************************************************************)
EXTENDS Integers

CONSTANTS
  AEGIS_MAX_ENDPOINTS,
  Task,      \* the tasks that call the IPC functions
  Creator,   \* the task that creates the endpoints (init)
  Sender,    \* Sender[e]: the only task that sends to e
  Receiver,  \* Receiver[e]: the only task that receives on e (its server)
  MAX_MSGS   \* bound: messages sent to one endpoint

Endpoints == 0 .. AEGIS_MAX_ENDPOINTS - 1

ASSUME IpcConstants ==
  /\ AEGIS_MAX_ENDPOINTS \in Nat
  /\ Creator \in Task
  /\ Sender \in [Endpoints -> Task]
  /\ Receiver \in [Endpoints -> Task]
  /\ MAX_MSGS \in Nat

VARIABLES
  used, pending, has_pending,  \* the fields of endpoints[e]
  pc, ep, msg, ret,  \* per task: where it is in a call, the endpoint argument (or
                     \* the loop index), the message buffer and the last result
  created,     \* endpoints whose id ipc_endpoint_create has returned
  sent, taken  \* number of the last message sent to, and received on, e
shared == <<used, pending, has_pending>>
vars == <<used, pending, has_pending, pc, ep, msg, ret, created, sent, taken>>

\* A message, as its two halves; the sender writes its number into both.
Message(n) == [lo |-> n, hi |-> n]

Init ==  \* ipc_init
  /\ used = [e \in Endpoints |-> FALSE]
  /\ has_pending = [e \in Endpoints |-> FALSE]
  /\ pending = [e \in Endpoints |-> Message(0)]
  /\ pc = [t \in Task |-> "idle"]
  /\ ep = [t \in Task |-> 0]
  /\ msg = [t \in Task |-> Message(0)]
  /\ ret = [t \in Task |-> 0]
  /\ created = {}
  /\ sent = [e \in Endpoints |-> 0]
  /\ taken = [e \in Endpoints |-> 0]

Go(t, from, to) == pc[t] = from /\ pc' = [pc EXCEPT ![t] = to]
Return(t, from, code) == Go(t, from, "idle") /\ ret' = [ret EXCEPT ![t] = code]

-----------------------------------------------------------------------------
(* ipc_endpoint_create *)

CreateCall(t) ==
  /\ t = Creator
  /\ Go(t, "idle", "create_scan")
  /\ ep' = [ep EXCEPT ![t] = 0]
  /\ UNCHANGED <<used, pending, has_pending, msg, ret, created, sent, taken>>

\* A scan that leaves its index past the end; a scan that does not look at used.
CreateScanOvershoots(t) ==
  /\ IF ep[t] = AEGIS_MAX_ENDPOINTS
     THEN Return(t, "create_scan", -1) /\ ep' = [ep EXCEPT ![t] = @ + 1]
     ELSE IF used[ep[t]]
     THEN /\ Go(t, "create_scan", "create_scan")
          /\ ep' = [ep EXCEPT ![t] = @ + 1]
          /\ UNCHANGED ret
     ELSE Go(t, "create_scan", "create_claim") /\ UNCHANGED <<ep, ret>>
  /\ UNCHANGED <<used, pending, has_pending, msg, created, sent, taken>>
CreateScanClaimed(t) ==
  /\ IF ep[t] = AEGIS_MAX_ENDPOINTS
     THEN Return(t, "create_scan", -1) /\ UNCHANGED ep
     ELSE Go(t, "create_scan", "create_claim") /\ UNCHANGED <<ep, ret>>
  /\ UNCHANGED <<used, pending, has_pending, msg, created, sent, taken>>

CreateScan(t) ==
  /\ IF ep[t] = AEGIS_MAX_ENDPOINTS
     THEN Return(t, "create_scan", -1) /\ UNCHANGED ep
     ELSE IF used[ep[t]]
     THEN /\ Go(t, "create_scan", "create_scan")
          /\ ep' = [ep EXCEPT ![t] = @ + 1]
          /\ UNCHANGED ret
     ELSE Go(t, "create_scan", "create_claim") /\ UNCHANGED <<ep, ret>>
  /\ UNCHANGED <<used, pending, has_pending, msg, created, sent, taken>>

CreateClaim(t) ==
  /\ Go(t, "create_claim", "create_clear")
  /\ used' = [used EXCEPT ![ep[t]] = TRUE]
  /\ UNCHANGED <<pending, has_pending, ep, msg, ret, created, sent, taken>>

CreateClear(t) ==
  /\ Return(t, "create_clear", 0)
  /\ has_pending' = [has_pending EXCEPT ![ep[t]] = FALSE]
  /\ created' = created \union {ep[t]}
  /\ UNCHANGED <<used, pending, ep, msg, sent, taken>>

-----------------------------------------------------------------------------
(* ipc_send *)

SendCall(t, e) ==
  /\ e \in Endpoints => sent[e] < MAX_MSGS
  /\ Go(t, "idle", "send_check")
  /\ ep' = [ep EXCEPT ![t] = e]
  /\ msg' = [msg EXCEPT ![t] = Message(IF e \in Endpoints THEN sent[e] + 1 ELSE 0)]
  /\ UNCHANGED <<used, pending, has_pending, ret, created, sent, taken>>

\* used[e] is never reset, so the reads of used and has_pending are one step.
Valid(e) == e < AEGIS_MAX_ENDPOINTS /\ used[e]
SendCheckUsedOnly(t) ==
  /\ IF ~Valid(ep[t]) THEN Return(t, "send_check", -1)
     ELSE Go(t, "send_check", "send_lo") /\ UNCHANGED ret
  /\ UNCHANGED <<used, pending, has_pending, ep, msg, created, sent, taken>>
SendCheck(t) ==
  /\ IF ~Valid(ep[t]) THEN Return(t, "send_check", -1)
     ELSE IF has_pending[ep[t]] THEN Return(t, "send_check", -2)
     ELSE Go(t, "send_check", "send_lo") /\ UNCHANGED ret
  /\ UNCHANGED <<used, pending, has_pending, ep, msg, created, sent, taken>>

SendCopyLo(t) ==
  /\ Go(t, "send_lo", "send_hi")
  /\ pending' = [pending EXCEPT ![ep[t]].lo = msg[t].lo]
  /\ UNCHANGED <<used, has_pending, ep, msg, ret, created, sent, taken>>

\* The flag is raised before the copy is complete.
SendCopyHiFlag(t) ==
  /\ Go(t, "send_hi", "send_flag")
  /\ has_pending' = [has_pending EXCEPT ![ep[t]] = TRUE]
  /\ UNCHANGED <<used, pending, ep, msg, ret, created, sent, taken>>
SendCopyHi(t) ==
  /\ Go(t, "send_hi", "send_flag")
  /\ pending' = [pending EXCEPT ![ep[t]].hi = msg[t].hi]
  /\ UNCHANGED <<used, has_pending, ep, msg, ret, created, sent, taken>>

SendFlag(t) ==
  /\ Return(t, "send_flag", 0)
  /\ has_pending' = [has_pending EXCEPT ![ep[t]] = TRUE]
  /\ sent' = [sent EXCEPT ![ep[t]] = msg[t].lo]
  /\ UNCHANGED <<used, pending, ep, msg, created, taken>>

-----------------------------------------------------------------------------
(* ipc_recv *)

RecvCall(t, e) ==
  /\ Go(t, "idle", "recv_check")
  /\ ep' = [ep EXCEPT ![t] = e]
  /\ UNCHANGED <<used, pending, has_pending, msg, ret, created, sent, taken>>

RecvCheckUsedOnly(t) ==
  /\ IF ~Valid(ep[t]) THEN Return(t, "recv_check", -1)
     ELSE Go(t, "recv_check", "recv_lo") /\ UNCHANGED ret
  /\ UNCHANGED <<used, pending, has_pending, ep, msg, created, sent, taken>>
RecvCheck(t) ==
  /\ IF ~Valid(ep[t]) THEN Return(t, "recv_check", -1)
     ELSE IF ~has_pending[ep[t]] THEN Return(t, "recv_check", -2)
     ELSE Go(t, "recv_check", "recv_lo") /\ UNCHANGED ret
  /\ UNCHANGED <<used, pending, has_pending, ep, msg, created, sent, taken>>

RecvCopyLo(t) ==
  /\ Go(t, "recv_lo", "recv_hi")
  /\ msg' = [msg EXCEPT ![t].lo = pending[ep[t]].lo]
  /\ UNCHANGED <<used, pending, has_pending, ep, ret, created, sent, taken>>

RecvCopyHi(t) ==
  /\ Go(t, "recv_hi", "recv_flag")
  /\ msg' = [msg EXCEPT ![t].hi = pending[ep[t]].hi]
  /\ UNCHANGED <<used, pending, has_pending, ep, ret, created, sent, taken>>

RecvFlag(t) ==
  /\ Return(t, "recv_flag", 0)
  /\ has_pending' = [has_pending EXCEPT ![ep[t]] = FALSE]
  /\ taken' = [taken EXCEPT ![ep[t]] = msg[t].lo]
  /\ UNCHANGED <<used, pending, ep, msg, created, sent>>

-----------------------------------------------------------------------------
\* A step of a task inside a call.
Step(t) ==
  \/ CreateScan(t) \/ CreateClaim(t) \/ CreateClear(t)
  \/ SendCheck(t) \/ SendCopyLo(t) \/ SendCopyHi(t) \/ SendFlag(t)
  \/ RecvCheck(t) \/ RecvCopyLo(t) \/ RecvCopyHi(t) \/ RecvFlag(t)

\* What is assumed of the callers: one task at each end of an endpoint, and only
\* once its id is known.  The creator may also name an endpoint it has not created
\* yet, and anyone an id that is out of range.  The servers do not all keep to it:
\* init and proc write to the console under a fixed id (init.c:43, proc.c:93),
\* possibly both, and possibly while the endpoint is being created.
MaySend(t, e) ==
  IF e \in created THEN t = Sender[e] ELSE e \notin Endpoints \/ t = Creator
MayRecv(t, e) ==
  IF e \in created THEN t = Receiver[e] ELSE e \notin Endpoints \/ t = Creator

Next ==
  \E t \in Task :
    \/ CreateCall(t)
    \/ \E e \in 0 .. AEGIS_MAX_ENDPOINTS : MaySend(t, e) /\ SendCall(t, e)
    \/ \E e \in 0 .. AEGIS_MAX_ENDPOINTS : MayRecv(t, e) /\ RecvCall(t, e)
    \/ Step(t)

Spec == Init /\ [][Next]_vars

-----------------------------------------------------------------------------
PC == {"idle", "create_scan", "create_claim", "create_clear", "send_check", "send_lo",
       "send_hi", "send_flag", "recv_check", "recv_lo", "recv_hi", "recv_flag"}
Msgs == [lo : 0 .. MAX_MSGS, hi : 0 .. MAX_MSGS]

\* Type invariant.
TypeOK ==
  /\ used \in [Endpoints -> BOOLEAN]
  /\ has_pending \in [Endpoints -> BOOLEAN]
  /\ pending \in [Endpoints -> Msgs]
  /\ pc \in [Task -> PC]
  /\ ep \in [Task -> 0 .. AEGIS_MAX_ENDPOINTS]
  /\ msg \in [Task -> Msgs]
  /\ ret \in [Task -> {0, -1, -2}]
  /\ created \subseteq Endpoints
  /\ sent \in [Endpoints -> 0 .. MAX_MSGS]
  /\ taken \in [Endpoints -> 0 .. MAX_MSGS]

\* A message for which ipc_send returned 0 is in the endpoint, whole, until
\* ipc_recv has returned it: none is lost, repeated, overtaken or torn.
OnceAt(e) ==
  IF has_pending[e] THEN sent[e] = taken[e] + 1 /\ pending[e] = Message(sent[e])
                    ELSE sent[e] = taken[e]
ExactlyOnce == \A e \in Endpoints : OnceAt(e)

\* What ipc_recv hands out is one whole message, the oldest not yet received.
ReceivesWhole ==
  \A t \in Task : pc[t] = "recv_flag" => msg[t] = Message(taken[ep[t]] + 1)

\* While a task copies into or out of an endpoint no other task does: the flag
\* has_pending alone keeps sender and receiver apart.
CopyExclusive ==
  \A t, u \in Task :
    /\ pc[t] \in {"send_lo", "send_hi", "send_flag"}
    /\ pc[u] \in {"send_lo", "send_hi", "send_flag", "recv_lo", "recv_hi", "recv_flag"}
    /\ ep[t] = ep[u]
    => t = u

\* The inductive invariant of the proofs: which task may be where in a call,
\* and what it then knows of the endpoint it works on.
Creating == {"create_scan", "create_claim", "create_clear"}
Sending == {"send_lo", "send_hi", "send_flag"}
Receiving == {"recv_lo", "recv_hi", "recv_flag"}
CreateInv ==
  /\ \A t \in Task : pc[t] \in Creating => t = Creator
  /\ pc[Creator] = "create_claim" => ep[Creator] \in Endpoints /\ ~used[ep[Creator]]
  /\ pc[Creator] = "create_clear" => ep[Creator] \in Endpoints \ created /\ used[ep[Creator]]
EndpointAt(e) ==
  /\ e \in created => used[e]
  /\ used[e] /\ e \notin created => pc[Creator] = "create_clear" /\ ep[Creator] = e
  /\ e \notin created => ~has_pending[e] /\ sent[e] = 0
SendAt(t) ==
  /\ pc[t] = "send_check" =>
       IF ep[t] \in created THEN t = Sender[ep[t]] /\ msg[t] = Message(sent[ep[t]] + 1)
                            ELSE ep[t] \in Endpoints => t = Creator
  /\ pc[t] \in Sending =>
       /\ ep[t] \in created /\ t = Sender[ep[t]] /\ ~has_pending[ep[t]]
       /\ msg[t] = Message(sent[ep[t]] + 1)
  /\ pc[t] = "send_hi" => pending[ep[t]].lo = msg[t].lo
  /\ pc[t] = "send_flag" => pending[ep[t]] = msg[t]
RecvAt(t) ==
  /\ pc[t] = "recv_check" =>
       IF ep[t] \in created THEN t = Receiver[ep[t]] ELSE ep[t] \in Endpoints => t = Creator
  /\ pc[t] \in Receiving =>
       ep[t] \in created /\ t = Receiver[ep[t]] /\ has_pending[ep[t]]
  /\ pc[t] = "recv_hi" => pending[ep[t]].lo = msg[t].lo
  /\ pc[t] = "recv_flag" => pending[ep[t]] = msg[t]
EndpointInv == \A e \in Endpoints : EndpointAt(e)
SendInv == \A t \in Task : SendAt(t)
RecvInv == \A t \in Task : RecvAt(t)
IInv == TypeOK /\ CreateInv /\ EndpointInv /\ SendInv /\ RecvInv /\ ExactlyOnce

\* An endpoint behaves as a mailbox for one message.
MB == INSTANCE Mailbox WITH
        Box <- Endpoints,
        box <- [e \in Endpoints |-> IF has_pending[e] THEN pending[e].lo ELSE 0],
        taken <- taken
IsMailbox == MB!MSpec
=============================================================================
