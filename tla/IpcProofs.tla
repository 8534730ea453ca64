----------------------------- MODULE IpcProofs -----------------------------
(***************************************************************************)
(* Endpoints of Ipc deliver exactly once, in order and whole, for any      *)
(* number of tasks, endpoints and messages, as long as an endpoint has one *)
(* sender and one receiver.                                                *)
(***************************************************************************)
EXTENDS Ipc, TLAPS

LEMMA InitInv == Init => IInv
<1> SUFFICES ASSUME Init PROVE IInv
  OBVIOUS
<1> USE IpcConstants
<1>1. TypeOK
  <2>1. 0 \in 0 .. MAX_MSGS /\ 0 \in 0 .. AEGIS_MAX_ENDPOINTS
    OBVIOUS
  <2> QED BY <2>1 DEF Init, TypeOK, Msgs, Message, PC
<1>2. CreateInv /\ SendInv /\ RecvInv
  BY DEF Init, CreateInv, SendInv, RecvInv, SendAt, RecvAt, Creating, Sending, Receiving
<1>3. EndpointInv /\ ExactlyOnce
  BY DEF Init, EndpointInv, EndpointAt, ExactlyOnce, OnceAt
<1> QED BY <1>1, <1>2, <1>3 DEF IInv

-----------------------------------------------------------------------------
(* What a step leaves as it was: the endpoint and the buffer of another    *)
(* task's call.                                                            *)

\* A task's part of SendInv depends on its own locals and, while it is in
\* ipc_send, on the endpoint it sends to.
LEMMA SendFrame ==
  ASSUME NEW u \in Task, SendAt(u),
         pc'[u] = pc[u], ep'[u] = ep[u], msg'[u] = msg[u],
         pc[u] = "send_check" \/ pc[u] \in Sending =>
           /\ ep[u] \in created' <=> ep[u] \in created
           /\ ep[u] \in created => sent'[ep[u]] = sent[ep[u]],
         pc[u] \in Sending =>
           has_pending'[ep[u]] = has_pending[ep[u]] /\ pending'[ep[u]] = pending[ep[u]]
  PROVE  SendAt(u)'
BY DEF SendAt, Sending, Message

LEMMA RecvFrame ==
  ASSUME NEW u \in Task, RecvAt(u),
         pc'[u] = pc[u], ep'[u] = ep[u], msg'[u] = msg[u],
         pc[u] = "recv_check" \/ pc[u] \in Receiving =>
           (ep[u] \in created' <=> ep[u] \in created),
         pc[u] \in Receiving =>
           has_pending'[ep[u]] = has_pending[ep[u]] /\ pending'[ep[u]] = pending[ep[u]]
  PROVE  RecvAt(u)'
BY DEF RecvAt, Receiving

\* An endpoint's part of EndpointInv and ExactlyOnce.
LEMMA EndpointFrame ==
  ASSUME NEW e \in Endpoints, EndpointAt(e),
         used'[e] = used[e], has_pending'[e] = has_pending[e], sent'[e] = sent[e],
         created' = created, 
         pc[Creator] = "create_clear" => pc'[Creator] = "create_clear" /\ ep'[Creator] = ep[Creator]
  PROVE  EndpointAt(e)'
BY DEF EndpointAt

LEMMA OnceFrame ==
  ASSUME NEW e \in Endpoints, OnceAt(e),
         has_pending'[e] = has_pending[e], sent'[e] = sent[e], taken'[e] = taken[e],
         pending'[e] = pending[e]
  PROVE  OnceAt(e)'
BY DEF OnceAt, Message

\* What changing the pc of one task does.
LEMMA GoEffect ==
  ASSUME TypeOK, NEW t \in Task, NEW a, NEW b \in PC, Go(t, a, b)
  PROVE  /\ pc' \in [Task -> PC] /\ pc[t] = a /\ pc'[t] = b
         /\ \A u \in Task : u # t => pc'[u] = pc[u]
BY DEF TypeOK, Go

LEMMA ReturnEffect ==
  ASSUME TypeOK, NEW t \in Task, NEW a, NEW c \in {0, -1, -2}, Return(t, a, c)
  PROVE  /\ pc' \in [Task -> PC] /\ pc[t] = a /\ pc'[t] = "idle"
         /\ \A u \in Task : u # t => pc'[u] = pc[u]
         /\ ret' \in [Task -> {0, -1, -2}]
BY DEF TypeOK, Go, Return, PC

-----------------------------------------------------------------------------
(* Steps that change the locals of one task and no endpoint. *)
Local(t) ==
  /\ UNCHANGED <<used, pending, has_pending, created, sent, taken>>
  /\ \A u \in Task : u # t => pc'[u] = pc[u] /\ ep'[u] = ep[u] /\ msg'[u] = msg[u]

LEMMA LocalInv ==
  ASSUME IInv, NEW t \in Task, Local(t), TypeOK', SendAt(t)', RecvAt(t)',
         pc[t] # "create_clear", pc'[t] # "create_clear",
         pc'[t] \in Creating => t = Creator,
         pc'[t] = "create_claim" => ep'[t] \in Endpoints /\ ~used[ep'[t]]
  PROVE  IInv'
<1> USE IpcConstants
<1>1. CreateInv'
  <2>1. CreateInv BY DEF IInv
  <2>2. CASE t = Creator
    BY <2>1, <2>2 DEF CreateInv, Local, Creating
  <2>3. CASE t # Creator
    BY <2>1, <2>3 DEF CreateInv, Local, Creating
  <2> QED BY <2>2, <2>3
<1>2. EndpointInv'
  <2> SUFFICES ASSUME NEW e \in Endpoints PROVE EndpointAt(e)'
    BY DEF EndpointInv, Endpoints
  <2>1. EndpointAt(e) BY DEF IInv, EndpointInv
  <2>2. pc[Creator] = "create_clear" =>
          pc'[Creator] = "create_clear" /\ ep'[Creator] = ep[Creator]
    BY DEF Local
  <2> QED BY <2>1, <2>2, EndpointFrame DEF Local
<1>3. SendInv'
  <2> SUFFICES ASSUME NEW u \in Task, u # t PROVE SendAt(u)'
    BY DEF SendInv
  <2>1. SendAt(u) BY DEF IInv, SendInv
  <2> QED BY <2>1, SendFrame DEF Local
<1>4. RecvInv'
  <2> SUFFICES ASSUME NEW u \in Task, u # t PROVE RecvAt(u)'
    BY DEF RecvInv
  <2>1. RecvAt(u) BY DEF IInv, RecvInv
  <2> QED BY <2>1, RecvFrame DEF Local
<1>5. ExactlyOnce'
  <2> SUFFICES ASSUME NEW e \in Endpoints PROVE OnceAt(e)'
    BY DEF ExactlyOnce, Endpoints
  <2>1. OnceAt(e) BY DEF IInv, ExactlyOnce
  <2> QED BY <2>1, OnceFrame DEF Local
<1> QED BY <1>1, <1>2, <1>3, <1>4, <1>5 DEF IInv

LEMMA CreateCallInv == ASSUME IInv, NEW t \in Task, CreateCall(t) PROVE IInv'
<1> USE IpcConstants
<1>0. TypeOK /\ 0 \in 0 .. AEGIS_MAX_ENDPOINTS BY DEF IInv
<1>1. /\ pc' \in [Task -> PC] /\ pc[t] = "idle" /\ pc'[t] = "create_scan"
      /\ \A u \in Task : u # t => pc'[u] = pc[u]
  BY <1>0, GoEffect DEF CreateCall, PC
<1>2. /\ ep' \in [Task -> 0 .. AEGIS_MAX_ENDPOINTS]
      /\ \A u \in Task : u # t => ep'[u] = ep[u]
  BY <1>0 DEF TypeOK, CreateCall
<1>3. TypeOK' BY <1>0, <1>1, <1>2 DEF TypeOK, CreateCall
<1>4. Local(t) BY <1>1, <1>2 DEF Local, CreateCall
<1>5. SendAt(t)' /\ RecvAt(t)' BY <1>1 DEF SendAt, RecvAt, Sending, Receiving
<1> QED BY <1>1, <1>3, <1>4, <1>5, LocalInv DEF CreateCall

LEMMA CreateScanInv == ASSUME IInv, NEW t \in Task, CreateScan(t) PROVE IInv'
<1> USE IpcConstants
<1>0. TypeOK /\ CreateInv BY DEF IInv
<1>1. CASE ep[t] = AEGIS_MAX_ENDPOINTS
  <2>1. Return(t, "create_scan", -1) /\ UNCHANGED ep BY <1>1 DEF CreateScan
  <2>2. /\ pc' \in [Task -> PC] /\ pc[t] = "create_scan" /\ pc'[t] = "idle"
        /\ \A u \in Task : u # t => pc'[u] = pc[u]
        /\ ret' \in [Task -> {0, -1, -2}]
    BY <1>0, <2>1, ReturnEffect
  <2>3. TypeOK' BY <1>0, <2>1, <2>2 DEF TypeOK, CreateScan
  <2>4. Local(t) BY <2>1, <2>2 DEF Local, CreateScan
  <2>5. SendAt(t)' /\ RecvAt(t)' BY <2>2 DEF SendAt, RecvAt, Sending, Receiving
  <2> QED BY <2>2, <2>3, <2>4, <2>5, LocalInv DEF Creating
<1>2. CASE ep[t] # AEGIS_MAX_ENDPOINTS /\ used[ep[t]]
  <2>1. Go(t, "create_scan", "create_scan") /\ ep' = [ep EXCEPT ![t] = @ + 1] /\ UNCHANGED ret
    BY <1>2 DEF CreateScan
  <2>2. /\ pc' \in [Task -> PC] /\ pc[t] = "create_scan" /\ pc'[t] = "create_scan"
        /\ \A u \in Task : u # t => pc'[u] = pc[u]
    BY <1>0, <2>1, GoEffect DEF PC
  <2>3. ep[t] + 1 \in 0 .. AEGIS_MAX_ENDPOINTS BY <1>0, <1>2 DEF TypeOK
  <2>4. /\ ep' \in [Task -> 0 .. AEGIS_MAX_ENDPOINTS]
        /\ \A u \in Task : u # t => ep'[u] = ep[u]
    BY <1>0, <2>1, <2>3 DEF TypeOK
  <2>5. TypeOK' BY <1>0, <2>1, <2>2, <2>4 DEF TypeOK, CreateScan
  <2>6. Local(t) BY <2>2, <2>4 DEF Local, CreateScan
  <2>7. SendAt(t)' /\ RecvAt(t)' BY <2>2 DEF SendAt, RecvAt, Sending, Receiving
  <2>8. t = Creator BY <1>0, <2>2 DEF CreateInv, Creating
  <2> QED BY <2>2, <2>5, <2>6, <2>7, <2>8, LocalInv
<1>3. CASE ep[t] # AEGIS_MAX_ENDPOINTS /\ ~used[ep[t]]
  <2>1. Go(t, "create_scan", "create_claim") /\ UNCHANGED <<ep, ret>>
    BY <1>3 DEF CreateScan
  <2>2. /\ pc' \in [Task -> PC] /\ pc[t] = "create_scan" /\ pc'[t] = "create_claim"
        /\ \A u \in Task : u # t => pc'[u] = pc[u]
    BY <1>0, <2>1, GoEffect DEF PC
  <2>3. TypeOK' BY <1>0, <2>1, <2>2 DEF TypeOK, CreateScan
  <2>4. Local(t) BY <2>1, <2>2 DEF Local, CreateScan
  <2>5. SendAt(t)' /\ RecvAt(t)' BY <2>2 DEF SendAt, RecvAt, Sending, Receiving
  <2>6. t = Creator BY <1>0, <2>2 DEF CreateInv, Creating
  <2>7. ep'[t] \in Endpoints /\ ~used[ep'[t]] BY <1>0, <1>3, <2>1 DEF TypeOK, Endpoints
  <2> QED BY <2>2, <2>3, <2>4, <2>5, <2>6, <2>7, LocalInv
<1> QED BY <1>1, <1>2, <1>3

LEMMA SendCallInv ==
  ASSUME IInv, NEW t \in Task, NEW e \in 0 .. AEGIS_MAX_ENDPOINTS,
         MaySend(t, e), SendCall(t, e)
  PROVE  IInv'
<1> USE IpcConstants
<1> DEFINE n == IF e \in Endpoints THEN sent[e] + 1 ELSE 0
<1>0. TypeOK BY DEF IInv
<1>1. /\ pc' \in [Task -> PC] /\ pc[t] = "idle" /\ pc'[t] = "send_check"
      /\ \A u \in Task : u # t => pc'[u] = pc[u]
  BY <1>0, GoEffect DEF SendCall, PC
<1>2. /\ ep' \in [Task -> 0 .. AEGIS_MAX_ENDPOINTS] /\ ep'[t] = e
      /\ \A u \in Task : u # t => ep'[u] = ep[u]
  BY <1>0 DEF TypeOK, SendCall
<1>3. n \in 0 .. MAX_MSGS BY <1>0 DEF TypeOK, SendCall
<1>4. Message(n) \in Msgs BY <1>3 DEF Message, Msgs
<1>5. /\ msg' \in [Task -> Msgs] /\ msg'[t] = Message(n)
      /\ \A u \in Task : u # t => msg'[u] = msg[u]
  BY <1>0, <1>4 DEF TypeOK, SendCall
<1>6. TypeOK' BY <1>0, <1>1, <1>2, <1>5 DEF TypeOK, SendCall
<1>7. Local(t) BY <1>1, <1>2, <1>5 DEF Local, SendCall
<1>8. SendAt(t)'
  <2>1. created \subseteq Endpoints BY <1>0 DEF TypeOK
  <2> QED BY <1>1, <1>2, <1>5, <1>7, <2>1 DEF SendAt, Sending, MaySend, Local
<1>9. RecvAt(t)' BY <1>1 DEF RecvAt, Receiving
<1> QED BY <1>1, <1>6, <1>7, <1>8, <1>9, LocalInv DEF Creating

LEMMA RecvCallInv ==
  ASSUME IInv, NEW t \in Task, NEW e \in 0 .. AEGIS_MAX_ENDPOINTS,
         MayRecv(t, e), RecvCall(t, e)
  PROVE  IInv'
<1> USE IpcConstants
<1>0. TypeOK BY DEF IInv
<1>1. /\ pc' \in [Task -> PC] /\ pc[t] = "idle" /\ pc'[t] = "recv_check"
      /\ \A u \in Task : u # t => pc'[u] = pc[u]
  BY <1>0, GoEffect DEF RecvCall, PC
<1>2. /\ ep' \in [Task -> 0 .. AEGIS_MAX_ENDPOINTS] /\ ep'[t] = e
      /\ \A u \in Task : u # t => ep'[u] = ep[u]
  BY <1>0 DEF TypeOK, RecvCall
<1>3. TypeOK' BY <1>0, <1>1, <1>2 DEF TypeOK, RecvCall
<1>4. Local(t) BY <1>1, <1>2 DEF Local, RecvCall
<1>5. SendAt(t)' BY <1>1 DEF SendAt, Sending
<1>6. RecvAt(t)' BY <1>1, <1>2, <1>4 DEF RecvAt, Receiving, MayRecv, Local
<1> QED BY <1>1, <1>3, <1>4, <1>5, <1>6, LocalInv DEF Creating

LEMMA SendCheckInv == ASSUME IInv, NEW t \in Task, SendCheck(t) PROVE IInv'
<1> USE IpcConstants
<1>0. TypeOK /\ CreateInv /\ SendAt(t) BY DEF IInv, SendInv
<1>1. ASSUME NEW c \in {0, -1, -2}, Return(t, "send_check", c) PROVE IInv'
  <2>1. /\ pc' \in [Task -> PC] /\ pc[t] = "send_check" /\ pc'[t] = "idle"
        /\ \A u \in Task : u # t => pc'[u] = pc[u]
        /\ ret' \in [Task -> {0, -1, -2}]
    BY <1>0, <1>1, ReturnEffect
  <2>2. TypeOK' BY <1>0, <2>1 DEF TypeOK, SendCheck
  <2>3. Local(t) BY <2>1 DEF Local, SendCheck
  <2>4. SendAt(t)' /\ RecvAt(t)' BY <2>1 DEF SendAt, RecvAt, Sending, Receiving
  <2> QED BY <2>1, <2>2, <2>3, <2>4, LocalInv DEF Creating
<1>2. CASE ~Valid(ep[t]) \/ has_pending[ep[t]]
  <2>1. Return(t, "send_check", -1) \/ Return(t, "send_check", -2)
    BY <1>2 DEF SendCheck
  <2> QED BY <1>1, <2>1
<1>3. CASE Valid(ep[t]) /\ ~has_pending[ep[t]]
  <2>1. Go(t, "send_check", "send_lo") /\ UNCHANGED <<ep, msg, ret>>
    BY <1>3 DEF SendCheck
  <2>2. /\ pc' \in [Task -> PC] /\ pc[t] = "send_check" /\ pc'[t] = "send_lo"
        /\ \A u \in Task : u # t => pc'[u] = pc[u]
    BY <1>0, <2>1, GoEffect DEF PC
  <2>3. TypeOK' BY <1>0, <2>1, <2>2 DEF TypeOK, SendCheck
  <2>4. Local(t) BY <2>1, <2>2 DEF Local, SendCheck
  <2>5. ep[t] \in Endpoints /\ used[ep[t]]
    BY <1>0, <1>3 DEF Valid, TypeOK, Endpoints
  <2>6. ep[t] \in created  \* otherwise the creator would be in two calls
    <3>1. EndpointAt(ep[t]) BY <2>5 DEF IInv, EndpointInv
    <3> QED BY <1>0, <2>2, <2>5, <3>1 DEF EndpointAt, SendAt
  <2>7. SendAt(t)' /\ RecvAt(t)'
    BY <1>0, <1>3, <2>1, <2>2, <2>4, <2>6 DEF SendAt, RecvAt, Sending, Receiving, Local
  <2> QED BY <2>2, <2>3, <2>4, <2>7, LocalInv DEF Creating
<1> QED BY <1>2, <1>3

LEMMA RecvCheckInv == ASSUME IInv, NEW t \in Task, RecvCheck(t) PROVE IInv'
<1> USE IpcConstants
<1>0. TypeOK /\ CreateInv /\ RecvAt(t) BY DEF IInv, RecvInv
<1>1. ASSUME NEW c \in {0, -1, -2}, Return(t, "recv_check", c) PROVE IInv'
  <2>1. /\ pc' \in [Task -> PC] /\ pc[t] = "recv_check" /\ pc'[t] = "idle"
        /\ \A u \in Task : u # t => pc'[u] = pc[u]
        /\ ret' \in [Task -> {0, -1, -2}]
    BY <1>0, <1>1, ReturnEffect
  <2>2. TypeOK' BY <1>0, <2>1 DEF TypeOK, RecvCheck
  <2>3. Local(t) BY <2>1 DEF Local, RecvCheck
  <2>4. SendAt(t)' /\ RecvAt(t)' BY <2>1 DEF SendAt, RecvAt, Sending, Receiving
  <2> QED BY <2>1, <2>2, <2>3, <2>4, LocalInv DEF Creating
<1>2. CASE ~Valid(ep[t]) \/ ~has_pending[ep[t]]
  <2>1. Return(t, "recv_check", -1) \/ Return(t, "recv_check", -2)
    BY <1>2 DEF RecvCheck
  <2> QED BY <1>1, <2>1
<1>3. CASE Valid(ep[t]) /\ has_pending[ep[t]]
  <2>1. Go(t, "recv_check", "recv_lo") /\ UNCHANGED <<ep, msg, ret>>
    BY <1>3 DEF RecvCheck
  <2>2. /\ pc' \in [Task -> PC] /\ pc[t] = "recv_check" /\ pc'[t] = "recv_lo"
        /\ \A u \in Task : u # t => pc'[u] = pc[u]
    BY <1>0, <2>1, GoEffect DEF PC
  <2>3. TypeOK' BY <1>0, <2>1, <2>2 DEF TypeOK, RecvCheck
  <2>4. Local(t) BY <2>1, <2>2 DEF Local, RecvCheck
  <2>5. ep[t] \in Endpoints /\ used[ep[t]]
    BY <1>0, <1>3 DEF Valid, TypeOK, Endpoints
  <2>6. ep[t] \in created  \* otherwise the creator would be in two calls
    <3>1. EndpointAt(ep[t]) BY <2>5 DEF IInv, EndpointInv
    <3> QED BY <1>0, <2>2, <2>5, <3>1 DEF EndpointAt, RecvAt
  <2>7. SendAt(t)' /\ RecvAt(t)'
    BY <1>0, <1>3, <2>1, <2>2, <2>4, <2>6 DEF SendAt, RecvAt, Sending, Receiving, Local
  <2> QED BY <2>2, <2>3, <2>4, <2>7, LocalInv DEF Creating
<1> QED BY <1>2, <1>3

LEMMA RecvCopyLoInv == ASSUME IInv, NEW t \in Task, RecvCopyLo(t) PROVE IInv'
<1> USE IpcConstants
<1>0. TypeOK /\ RecvAt(t) BY DEF IInv, RecvInv
<1>1. /\ pc' \in [Task -> PC] /\ pc[t] = "recv_lo" /\ pc'[t] = "recv_hi"
      /\ \A u \in Task : u # t => pc'[u] = pc[u]
  BY <1>0, GoEffect DEF RecvCopyLo, PC
<1>2. ep[t] \in created /\ ep[t] \in Endpoints
  BY <1>0, <1>1 DEF RecvAt, Receiving, TypeOK
<1>3. pending[ep[t]] \in Msgs /\ msg[t] \in Msgs BY <1>0, <1>2 DEF TypeOK
<1>4. msg' = [msg EXCEPT ![t] = [lo |-> pending[ep[t]].lo, hi |-> msg[t].hi]]
  <2>1. msg \in [Task -> Msgs] BY <1>0 DEF TypeOK
  <2>2. msg' = [msg EXCEPT ![t].lo = pending[ep[t]].lo] BY DEF RecvCopyLo
  <2>3. [msg[t] EXCEPT !.lo = pending[ep[t]].lo]
          = [lo |-> pending[ep[t]].lo, hi |-> msg[t].hi]
    BY <2>1 DEF Msgs
  <2>4. msg' = [msg EXCEPT ![t] = [msg[t] EXCEPT !.lo = pending[ep[t]].lo]]
    BY <2>2, Zenon
  <2> QED BY <2>3, <2>4
<1>5. [lo |-> pending[ep[t]].lo, hi |-> msg[t].hi] \in Msgs BY <1>3 DEF Msgs
<1>6. /\ msg' \in [Task -> Msgs] /\ msg'[t] = [lo |-> pending[ep[t]].lo, hi |-> msg[t].hi]
      /\ \A u \in Task : u # t => msg'[u] = msg[u]
  BY <1>0, <1>4, <1>5 DEF TypeOK
<1>7. TypeOK' BY <1>0, <1>1, <1>6 DEF TypeOK, RecvCopyLo
<1>8. Local(t) BY <1>1, <1>6 DEF Local, RecvCopyLo
<1>9. SendAt(t)' BY <1>1 DEF SendAt, Sending
<1>10. RecvAt(t)'
  <2>1. ep[t] \in created /\ t = Receiver[ep[t]] /\ has_pending[ep[t]]
    BY <1>0, <1>1 DEF RecvAt, Receiving
  <2>2. pending[ep[t]].lo = msg'[t].lo BY <1>6
  <2> QED BY <1>1, <2>1, <2>2 DEF RecvAt, Receiving, RecvCopyLo
<1> QED BY <1>1, <1>7, <1>8, <1>9, <1>10, LocalInv DEF Creating

LEMMA RecvCopyHiInv == ASSUME IInv, NEW t \in Task, RecvCopyHi(t) PROVE IInv'
<1> USE IpcConstants
<1>0. TypeOK /\ RecvAt(t) BY DEF IInv, RecvInv
<1>1. /\ pc' \in [Task -> PC] /\ pc[t] = "recv_hi" /\ pc'[t] = "recv_flag"
      /\ \A u \in Task : u # t => pc'[u] = pc[u]
  BY <1>0, GoEffect DEF RecvCopyHi, PC
<1>2. ep[t] \in created /\ ep[t] \in Endpoints
  BY <1>0, <1>1 DEF RecvAt, Receiving, TypeOK
<1>3. pending[ep[t]] \in Msgs /\ msg[t] \in Msgs BY <1>0, <1>2 DEF TypeOK
<1>4. msg' = [msg EXCEPT ![t] = [lo |-> msg[t].lo, hi |-> pending[ep[t]].hi]]
  <2>1. msg \in [Task -> Msgs] BY <1>0 DEF TypeOK
  <2>2. msg' = [msg EXCEPT ![t].hi = pending[ep[t]].hi] BY DEF RecvCopyHi
  <2>3. [msg[t] EXCEPT !.hi = pending[ep[t]].hi]
          = [lo |-> msg[t].lo, hi |-> pending[ep[t]].hi]
    BY <2>1 DEF Msgs
  <2>4. msg' = [msg EXCEPT ![t] = [msg[t] EXCEPT !.hi = pending[ep[t]].hi]]
    BY <2>2, Zenon
  <2> QED BY <2>3, <2>4
<1>5. [lo |-> msg[t].lo, hi |-> pending[ep[t]].hi] \in Msgs BY <1>3 DEF Msgs
<1>6. /\ msg' \in [Task -> Msgs] /\ msg'[t] = [lo |-> msg[t].lo, hi |-> pending[ep[t]].hi]
      /\ \A u \in Task : u # t => msg'[u] = msg[u]
  BY <1>0, <1>4, <1>5 DEF TypeOK
<1>7. TypeOK' BY <1>0, <1>1, <1>6 DEF TypeOK, RecvCopyHi
<1>8. Local(t) BY <1>1, <1>6 DEF Local, RecvCopyHi
<1>9. SendAt(t)' BY <1>1 DEF SendAt, Sending
<1>10. RecvAt(t)'
  <2>1. ep[t] \in created /\ t = Receiver[ep[t]] /\ has_pending[ep[t]]
    BY <1>0, <1>1 DEF RecvAt, Receiving
  <2>2. pending[ep[t]] = msg'[t]
    <3>1. pending[ep[t]] = [lo |-> pending[ep[t]].lo, hi |-> pending[ep[t]].hi]
      BY <1>3 DEF Msgs
    <3>2. pending[ep[t]].lo = msg[t].lo BY <1>0, <1>1 DEF RecvAt
    <3> QED BY <1>6, <3>1, <3>2
  <2> QED BY <1>1, <2>1, <2>2 DEF RecvAt, Receiving, RecvCopyHi
<1> QED BY <1>1, <1>7, <1>8, <1>9, <1>10, LocalInv DEF Creating

-----------------------------------------------------------------------------
(* Steps that change an endpoint. *)

\* While a task copies into an endpoint, no other task sends to it or copies
\* out of it; while a task copies out, no other task copies.
LEMMA SenderAlone ==
  ASSUME IInv, NEW t \in Task, NEW u \in Task, u # t, pc[t] \in Sending
  PROVE  pc[u] = "send_check" \/ pc[u] \in Sending \/ pc[u] \in Receiving => ep[u] # ep[t]
<1>1. SendAt(t) /\ SendAt(u) /\ RecvAt(u) BY DEF IInv, SendInv, RecvInv
<1>2. ep[t] \in created /\ t = Sender[ep[t]] /\ ~has_pending[ep[t]] BY <1>1 DEF SendAt
<1>3. pc[u] = "send_check" => ep[u] # ep[t] BY <1>1, <1>2 DEF SendAt
<1>4. pc[u] \in Sending => ep[u] # ep[t] BY <1>1, <1>2 DEF SendAt
<1>5. pc[u] \in Receiving => ep[u] # ep[t] BY <1>1, <1>2 DEF RecvAt
<1> QED BY <1>3, <1>4, <1>5

LEMMA ReceiverAlone ==
  ASSUME IInv, NEW t \in Task, NEW u \in Task, u # t, pc[t] \in Receiving
  PROVE  pc[u] \in Sending \/ pc[u] \in Receiving => ep[u] # ep[t]
<1>1. RecvAt(t) /\ SendAt(u) /\ RecvAt(u) BY DEF IInv, SendInv, RecvInv
<1>2. ep[t] \in created /\ t = Receiver[ep[t]] /\ has_pending[ep[t]] BY <1>1 DEF RecvAt
<1>3. pc[u] \in Sending => ep[u] # ep[t] BY <1>1, <1>2 DEF SendAt
<1>4. pc[u] \in Receiving => ep[u] # ep[t] BY <1>1, <1>2 DEF RecvAt
<1> QED BY <1>3, <1>4

\* A task in ipc_send or ipc_recv is not creating.
LEMMA NotCreating ==
  ASSUME IInv, NEW t \in Task, UNCHANGED <<used, created, ep>>,
         \A u \in Task : u # t => pc'[u] = pc[u],
         pc[t] \notin Creating, pc'[t] \notin Creating
  PROVE  /\ CreateInv'
         /\ pc[Creator] = "create_clear" =>
              pc'[Creator] = "create_clear" /\ ep'[Creator] = ep[Creator]
<1> USE IpcConstants
<1>1. CreateInv BY DEF IInv
<1>2. CASE t = Creator BY <1>1, <1>2 DEF CreateInv, Creating
<1>3. CASE t # Creator BY <1>1, <1>3 DEF CreateInv, Creating
<1> QED BY <1>2, <1>3

LEMMA SendCopyLoInv == ASSUME IInv, NEW t \in Task, SendCopyLo(t) PROVE IInv'
<1> USE IpcConstants
<1>0. TypeOK /\ SendAt(t) BY DEF IInv, SendInv
<1>1. /\ pc' \in [Task -> PC] /\ pc[t] = "send_lo" /\ pc'[t] = "send_hi"
      /\ \A u \in Task : u # t => pc'[u] = pc[u]
  BY <1>0, GoEffect DEF SendCopyLo, PC
<1>2. ep[t] \in created /\ ep[t] \in Endpoints /\ ~has_pending[ep[t]]
  BY <1>0, <1>1 DEF SendAt, Sending, TypeOK
<1>3. pending[ep[t]] \in Msgs /\ msg[t] \in Msgs BY <1>0, <1>2 DEF TypeOK
<1>4. pending' = [pending EXCEPT ![ep[t]] = [lo |-> msg[t].lo, hi |-> pending[ep[t]].hi]]
  <2>1. pending' = [pending EXCEPT ![ep[t]].lo = msg[t].lo] BY DEF SendCopyLo
  <2>2. [pending[ep[t]] EXCEPT !.lo = msg[t].lo]
          = [lo |-> msg[t].lo, hi |-> pending[ep[t]].hi]
    BY <1>3 DEF Msgs
  <2>3. pending' = [pending EXCEPT ![ep[t]] = [pending[ep[t]] EXCEPT !.lo = msg[t].lo]]
    BY <2>1, Zenon
  <2> QED BY <2>2, <2>3
<1>5. [lo |-> msg[t].lo, hi |-> pending[ep[t]].hi] \in Msgs BY <1>3 DEF Msgs
<1>6. /\ pending' \in [Endpoints -> Msgs]
      /\ pending'[ep[t]] = [lo |-> msg[t].lo, hi |-> pending[ep[t]].hi]
      /\ \A e \in Endpoints : e # ep[t] => pending'[e] = pending[e]
  BY <1>0, <1>2, <1>4, <1>5 DEF TypeOK
<1>7. TypeOK' BY <1>0, <1>1, <1>6 DEF TypeOK, SendCopyLo
<1>8. /\ CreateInv'
      /\ pc[Creator] = "create_clear" =>
           pc'[Creator] = "create_clear" /\ ep'[Creator] = ep[Creator]
  BY <1>1, NotCreating DEF SendCopyLo, Creating
<1>9. EndpointInv'
  <2> SUFFICES ASSUME NEW e \in Endpoints PROVE EndpointAt(e)'
    BY DEF EndpointInv, Endpoints
  <2>1. EndpointAt(e) BY DEF IInv, EndpointInv
  <2> QED BY <1>8, <2>1, EndpointFrame DEF SendCopyLo
<1>10. SendAt(t)'
  <2>1. /\ ep[t] \in created /\ t = Sender[ep[t]] /\ ~has_pending[ep[t]]
        /\ msg[t] = Message(sent[ep[t]] + 1)
    BY <1>0, <1>1 DEF SendAt, Sending
  <2>2. pending'[ep[t]].lo = msg[t].lo BY <1>6
  <2> QED BY <1>1, <2>1, <2>2 DEF SendAt, Sending, SendCopyLo
<1>11. ASSUME NEW u \in Task, u # t PROVE SendAt(u)' /\ RecvAt(u)'
  <2>1. SendAt(u) /\ RecvAt(u) /\ created \subseteq Endpoints
    BY DEF IInv, SendInv, RecvInv, TypeOK
  <2>2. pc[u] \in Sending \/ pc[u] \in Receiving => ep[u] # ep[t]
    BY <1>1, <1>11, SenderAlone DEF Sending
  <2>3. pc[u] \in Sending \/ pc[u] \in Receiving => ep[u] \in Endpoints
    BY <2>1 DEF SendAt, RecvAt
  <2>4. pc[u] \in Sending \/ pc[u] \in Receiving => pending'[ep[u]] = pending[ep[u]]
    BY <1>6, <2>2, <2>3
  <2>5. SendAt(u)' BY <1>1, <1>11, <2>1, <2>4, SendFrame DEF SendCopyLo
  <2>6. RecvAt(u)' BY <1>1, <1>11, <2>1, <2>4, RecvFrame DEF SendCopyLo
  <2> QED BY <2>5, <2>6
<1>12. RecvAt(t)' BY <1>1 DEF RecvAt, Receiving
<1>13. ExactlyOnce'
  <2> SUFFICES ASSUME NEW e \in Endpoints PROVE OnceAt(e)'
    BY DEF ExactlyOnce, Endpoints
  <2>1. OnceAt(e) BY DEF IInv, ExactlyOnce
  <2>2. CASE e = ep[t] BY <1>2, <2>1, <2>2 DEF OnceAt, SendCopyLo
  <2>3. CASE e # ep[t] BY <1>6, <2>1, <2>3, OnceFrame DEF SendCopyLo
  <2> QED BY <2>2, <2>3
<1>14. SendInv' /\ RecvInv' BY <1>10, <1>11, <1>12 DEF SendInv, RecvInv
<1> QED BY <1>7, <1>8, <1>9, <1>13, <1>14 DEF IInv

LEMMA SendCopyHiInv == ASSUME IInv, NEW t \in Task, SendCopyHi(t) PROVE IInv'
<1> USE IpcConstants
<1>0. TypeOK /\ SendAt(t) BY DEF IInv, SendInv
<1>1. /\ pc' \in [Task -> PC] /\ pc[t] = "send_hi" /\ pc'[t] = "send_flag"
      /\ \A u \in Task : u # t => pc'[u] = pc[u]
  BY <1>0, GoEffect DEF SendCopyHi, PC
<1>2. ep[t] \in created /\ ep[t] \in Endpoints /\ ~has_pending[ep[t]]
  BY <1>0, <1>1 DEF SendAt, Sending, TypeOK
<1>3. pending[ep[t]] \in Msgs /\ msg[t] \in Msgs BY <1>0, <1>2 DEF TypeOK
<1>4. pending' = [pending EXCEPT ![ep[t]] = [lo |-> pending[ep[t]].lo, hi |-> msg[t].hi]]
  <2>1. pending' = [pending EXCEPT ![ep[t]].hi = msg[t].hi] BY DEF SendCopyHi
  <2>2. [pending[ep[t]] EXCEPT !.hi = msg[t].hi]
          = [lo |-> pending[ep[t]].lo, hi |-> msg[t].hi]
    BY <1>3 DEF Msgs
  <2>3. pending' = [pending EXCEPT ![ep[t]] = [pending[ep[t]] EXCEPT !.hi = msg[t].hi]]
    BY <2>1, Zenon
  <2> QED BY <2>2, <2>3
<1>5. [lo |-> pending[ep[t]].lo, hi |-> msg[t].hi] \in Msgs BY <1>3 DEF Msgs
<1>6. /\ pending' \in [Endpoints -> Msgs]
      /\ pending'[ep[t]] = [lo |-> pending[ep[t]].lo, hi |-> msg[t].hi]
      /\ \A e \in Endpoints : e # ep[t] => pending'[e] = pending[e]
  BY <1>0, <1>2, <1>4, <1>5 DEF TypeOK
<1>7. TypeOK' BY <1>0, <1>1, <1>6 DEF TypeOK, SendCopyHi
<1>8. /\ CreateInv'
      /\ pc[Creator] = "create_clear" =>
           pc'[Creator] = "create_clear" /\ ep'[Creator] = ep[Creator]
  BY <1>1, NotCreating DEF SendCopyHi, Creating
<1>9. EndpointInv'
  <2> SUFFICES ASSUME NEW e \in Endpoints PROVE EndpointAt(e)'
    BY DEF EndpointInv, Endpoints
  <2>1. EndpointAt(e) BY DEF IInv, EndpointInv
  <2> QED BY <1>8, <2>1, EndpointFrame DEF SendCopyHi
<1>10. SendAt(t)'
  <2>1. /\ ep[t] \in created /\ t = Sender[ep[t]] /\ ~has_pending[ep[t]]
        /\ msg[t] = Message(sent[ep[t]] + 1)
    BY <1>0, <1>1 DEF SendAt, Sending
  <2>2. pending'[ep[t]] = msg[t]
    <3>1. msg[t] = [lo |-> msg[t].lo, hi |-> msg[t].hi] BY <1>3 DEF Msgs
    <3>2. pending[ep[t]].lo = msg[t].lo BY <1>0, <1>1 DEF SendAt
    <3> QED BY <1>6, <3>1, <3>2
  <2> QED BY <1>1, <2>1, <2>2 DEF SendAt, Sending, SendCopyHi
<1>11. ASSUME NEW u \in Task, u # t PROVE SendAt(u)' /\ RecvAt(u)'
  <2>1. SendAt(u) /\ RecvAt(u) /\ created \subseteq Endpoints
    BY DEF IInv, SendInv, RecvInv, TypeOK
  <2>2. pc[u] \in Sending \/ pc[u] \in Receiving => ep[u] # ep[t]
    BY <1>1, <1>11, SenderAlone DEF Sending
  <2>3. pc[u] \in Sending \/ pc[u] \in Receiving => ep[u] \in Endpoints
    BY <2>1 DEF SendAt, RecvAt
  <2>4. pc[u] \in Sending \/ pc[u] \in Receiving => pending'[ep[u]] = pending[ep[u]]
    BY <1>6, <2>2, <2>3
  <2>5. SendAt(u)' BY <1>1, <1>11, <2>1, <2>4, SendFrame DEF SendCopyHi
  <2>6. RecvAt(u)' BY <1>1, <1>11, <2>1, <2>4, RecvFrame DEF SendCopyHi
  <2> QED BY <2>5, <2>6
<1>12. RecvAt(t)' BY <1>1 DEF RecvAt, Receiving
<1>13. ExactlyOnce'
  <2> SUFFICES ASSUME NEW e \in Endpoints PROVE OnceAt(e)'
    BY DEF ExactlyOnce, Endpoints
  <2>1. OnceAt(e) BY DEF IInv, ExactlyOnce
  <2>2. CASE e = ep[t] BY <1>2, <2>1, <2>2 DEF OnceAt, SendCopyHi
  <2>3. CASE e # ep[t] BY <1>6, <2>1, <2>3, OnceFrame DEF SendCopyHi
  <2> QED BY <2>2, <2>3
<1>14. SendInv' /\ RecvInv' BY <1>10, <1>11, <1>12 DEF SendInv, RecvInv
<1> QED BY <1>7, <1>8, <1>9, <1>13, <1>14 DEF IInv

LEMMA SendFlagInv == ASSUME IInv, NEW t \in Task, SendFlag(t) PROVE IInv'
<1> USE IpcConstants
<1>0. TypeOK /\ SendAt(t) BY DEF IInv, SendInv
<1>1. /\ pc' \in [Task -> PC] /\ pc[t] = "send_flag" /\ pc'[t] = "idle"
      /\ \A u \in Task : u # t => pc'[u] = pc[u]
      /\ ret' \in [Task -> {0, -1, -2}]
  BY <1>0, ReturnEffect DEF SendFlag
<1>2. /\ ep[t] \in created /\ ep[t] \in Endpoints /\ ~has_pending[ep[t]]
      /\ msg[t] = Message(sent[ep[t]] + 1) /\ pending[ep[t]] = msg[t]
  BY <1>0, <1>1 DEF SendAt, Sending, TypeOK
<1>3. msg[t].lo = sent[ep[t]] + 1 /\ msg[t].lo \in 0 .. MAX_MSGS
  <2>1. msg[t] \in Msgs BY <1>0 DEF TypeOK
  <2> QED BY <1>2, <2>1 DEF Message, Msgs
<1>4. /\ has_pending' \in [Endpoints -> BOOLEAN] /\ has_pending'[ep[t]] = TRUE
      /\ \A e \in Endpoints : e # ep[t] => has_pending'[e] = has_pending[e]
  BY <1>0, <1>2 DEF TypeOK, SendFlag
<1>5. /\ sent' \in [Endpoints -> 0 .. MAX_MSGS] /\ sent'[ep[t]] = sent[ep[t]] + 1
      /\ \A e \in Endpoints : e # ep[t] => sent'[e] = sent[e]
  BY <1>0, <1>2, <1>3 DEF TypeOK, SendFlag
<1>6. TypeOK' BY <1>0, <1>1, <1>4, <1>5 DEF TypeOK, SendFlag
<1>7. /\ CreateInv'
      /\ pc[Creator] = "create_clear" =>
           pc'[Creator] = "create_clear" /\ ep'[Creator] = ep[Creator]
  BY <1>1, NotCreating DEF SendFlag, Creating
<1>8. EndpointInv'
  <2> SUFFICES ASSUME NEW e \in Endpoints PROVE EndpointAt(e)'
    BY DEF EndpointInv, Endpoints
  <2>1. EndpointAt(e) BY DEF IInv, EndpointInv
  <2>2. CASE e = ep[t] BY <1>2, <2>1, <2>2 DEF EndpointAt, SendFlag
  <2>3. CASE e # ep[t] BY <1>4, <1>5, <1>7, <2>1, <2>3, EndpointFrame DEF SendFlag
  <2> QED BY <2>2, <2>3
<1>9. SendAt(t)' /\ RecvAt(t)' BY <1>1 DEF SendAt, RecvAt, Sending, Receiving
<1>10. ASSUME NEW u \in Task, u # t PROVE SendAt(u)' /\ RecvAt(u)'
  <2>1. SendAt(u) /\ RecvAt(u) /\ created \subseteq Endpoints
    BY DEF IInv, SendInv, RecvInv, TypeOK
  <2>2. pc[u] = "send_check" \/ pc[u] \in Sending \/ pc[u] \in Receiving => ep[u] # ep[t]
    BY <1>1, <1>10, SenderAlone DEF Sending
  <2>3. pc[u] \in Sending \/ pc[u] \in Receiving => ep[u] \in Endpoints
    BY <2>1 DEF SendAt, RecvAt
  <2>4. pc[u] \in Sending \/ pc[u] \in Receiving => has_pending'[ep[u]] = has_pending[ep[u]]
    BY <1>4, <2>2, <2>3
  <2>5. (pc[u] = "send_check" \/ pc[u] \in Sending) /\ ep[u] \in created =>
          sent'[ep[u]] = sent[ep[u]]
    BY <1>5, <2>1, <2>2
  <2>6. SendAt(u)' BY <1>1, <1>10, <2>1, <2>4, <2>5, SendFrame DEF SendFlag
  <2>7. RecvAt(u)' BY <1>1, <1>10, <2>1, <2>4, RecvFrame DEF SendFlag
  <2> QED BY <2>6, <2>7
<1>11. ExactlyOnce'
  <2> SUFFICES ASSUME NEW e \in Endpoints PROVE OnceAt(e)'
    BY DEF ExactlyOnce, Endpoints
  <2>1. OnceAt(e) BY DEF IInv, ExactlyOnce
  <2>2. CASE e = ep[t]
    <3>1. sent'[e] = taken'[e] + 1 BY <1>2, <1>5, <2>1, <2>2 DEF OnceAt, SendFlag
    <3>2. pending'[e] = Message(sent'[e]) BY <1>2, <1>5, <2>2 DEF SendFlag, Message
    <3> QED BY <1>4, <2>2, <3>1, <3>2 DEF OnceAt, Message
  <2>3. CASE e # ep[t] BY <1>4, <1>5, <2>1, <2>3, OnceFrame DEF SendFlag
  <2> QED BY <2>2, <2>3
<1>12. SendInv' /\ RecvInv' BY <1>9, <1>10 DEF SendInv, RecvInv
<1> QED BY <1>6, <1>7, <1>8, <1>11, <1>12 DEF IInv

LEMMA RecvFlagInv == ASSUME IInv, NEW t \in Task, RecvFlag(t) PROVE IInv'
<1> USE IpcConstants
<1>0. TypeOK /\ RecvAt(t) BY DEF IInv, RecvInv
<1>1. /\ pc' \in [Task -> PC] /\ pc[t] = "recv_flag" /\ pc'[t] = "idle"
      /\ \A u \in Task : u # t => pc'[u] = pc[u]
      /\ ret' \in [Task -> {0, -1, -2}]
  BY <1>0, ReturnEffect DEF RecvFlag
<1>2. /\ ep[t] \in created /\ ep[t] \in Endpoints /\ has_pending[ep[t]]
      /\ pending[ep[t]] = msg[t]
  BY <1>0, <1>1 DEF RecvAt, Receiving, TypeOK
<1>3. msg[t].lo = sent[ep[t]] /\ msg[t].lo \in 0 .. MAX_MSGS
  <2>1. msg[t] \in Msgs BY <1>0 DEF TypeOK
  <2>2. OnceAt(ep[t]) BY <1>2 DEF IInv, ExactlyOnce
  <2> QED BY <1>2, <2>1, <2>2 DEF OnceAt, Message, Msgs
<1>4. /\ has_pending' \in [Endpoints -> BOOLEAN] /\ has_pending'[ep[t]] = FALSE
      /\ \A e \in Endpoints : e # ep[t] => has_pending'[e] = has_pending[e]
  BY <1>0, <1>2 DEF TypeOK, RecvFlag
<1>5. /\ taken' \in [Endpoints -> 0 .. MAX_MSGS] /\ taken'[ep[t]] = sent[ep[t]]
      /\ \A e \in Endpoints : e # ep[t] => taken'[e] = taken[e]
  BY <1>0, <1>2, <1>3 DEF TypeOK, RecvFlag
<1>6. TypeOK' BY <1>0, <1>1, <1>4, <1>5 DEF TypeOK, RecvFlag
<1>7. /\ CreateInv'
      /\ pc[Creator] = "create_clear" =>
           pc'[Creator] = "create_clear" /\ ep'[Creator] = ep[Creator]
  BY <1>1, NotCreating DEF RecvFlag, Creating
<1>8. EndpointInv'
  <2> SUFFICES ASSUME NEW e \in Endpoints PROVE EndpointAt(e)'
    BY DEF EndpointInv, Endpoints
  <2>1. EndpointAt(e) BY DEF IInv, EndpointInv
  <2>2. CASE e = ep[t] BY <1>2, <2>1, <2>2 DEF EndpointAt, RecvFlag
  <2>3. CASE e # ep[t] BY <1>4, <1>7, <2>1, <2>3, EndpointFrame DEF RecvFlag
  <2> QED BY <2>2, <2>3
<1>9. SendAt(t)' /\ RecvAt(t)' BY <1>1 DEF SendAt, RecvAt, Sending, Receiving
<1>10. ASSUME NEW u \in Task, u # t PROVE SendAt(u)' /\ RecvAt(u)'
  <2>1. SendAt(u) /\ RecvAt(u) /\ created \subseteq Endpoints
    BY DEF IInv, SendInv, RecvInv, TypeOK
  <2>2. pc[u] \in Sending \/ pc[u] \in Receiving => ep[u] # ep[t]
    BY <1>1, <1>10, ReceiverAlone DEF Receiving
  <2>3. pc[u] \in Sending \/ pc[u] \in Receiving => ep[u] \in Endpoints
    BY <2>1 DEF SendAt, RecvAt
  <2>4. pc[u] \in Sending \/ pc[u] \in Receiving => has_pending'[ep[u]] = has_pending[ep[u]]
    BY <1>4, <2>2, <2>3
  <2>5. SendAt(u)' BY <1>1, <1>10, <2>1, <2>4, SendFrame DEF RecvFlag
  <2>6. RecvAt(u)' BY <1>1, <1>10, <2>1, <2>4, RecvFrame DEF RecvFlag
  <2> QED BY <2>5, <2>6
<1>11. ExactlyOnce'
  <2> SUFFICES ASSUME NEW e \in Endpoints PROVE OnceAt(e)'
    BY DEF ExactlyOnce, Endpoints
  <2>1. OnceAt(e) BY DEF IInv, ExactlyOnce
  <2>2. CASE e = ep[t] BY <1>4, <1>5, <2>2 DEF OnceAt, RecvFlag
  <2>3. CASE e # ep[t] BY <1>4, <1>5, <2>1, <2>3, OnceFrame DEF RecvFlag
  <2> QED BY <2>2, <2>3
<1>12. SendInv' /\ RecvInv' BY <1>9, <1>10 DEF SendInv, RecvInv
<1> QED BY <1>6, <1>7, <1>8, <1>11, <1>12 DEF IInv

LEMMA CreateClaimInv == ASSUME IInv, NEW t \in Task, CreateClaim(t) PROVE IInv'
<1> USE IpcConstants
<1>0. TypeOK /\ CreateInv BY DEF IInv
<1>1. /\ pc' \in [Task -> PC] /\ pc[t] = "create_claim" /\ pc'[t] = "create_clear"
      /\ \A u \in Task : u # t => pc'[u] = pc[u]
  BY <1>0, GoEffect DEF CreateClaim, PC
<1>2. t = Creator /\ ep[t] \in Endpoints /\ ~used[ep[t]]
  BY <1>0, <1>1 DEF CreateInv, Creating
<1>3. /\ used' \in [Endpoints -> BOOLEAN] /\ used'[ep[t]] = TRUE
      /\ \A e \in Endpoints : e # ep[t] => used'[e] = used[e]
  BY <1>0, <1>2 DEF TypeOK, CreateClaim
<1>4. ep[t] \notin created
  <2>1. EndpointAt(ep[t]) BY <1>2 DEF IInv, EndpointInv
  <2> QED BY <1>2, <2>1 DEF EndpointAt
<1>5. TypeOK' BY <1>0, <1>1, <1>3 DEF TypeOK, CreateClaim
<1>6. CreateInv'
  BY <1>0, <1>1, <1>2, <1>3, <1>4 DEF CreateInv, Creating, CreateClaim
<1>7. EndpointInv'
  <2> SUFFICES ASSUME NEW e \in Endpoints PROVE EndpointAt(e)'
    BY DEF EndpointInv, Endpoints
  <2>1. EndpointAt(e) BY DEF IInv, EndpointInv
  <2>2. CASE e = ep[t] BY <1>1, <1>2, <1>4, <2>1, <2>2 DEF EndpointAt, CreateClaim
  <2>3. CASE e # ep[t] BY <1>1, <1>2, <1>3, <2>1, <2>3 DEF EndpointAt, CreateClaim
  <2> QED BY <2>2, <2>3
<1>8. SendAt(t)' /\ RecvAt(t)' BY <1>1 DEF SendAt, RecvAt, Sending, Receiving
<1>9. ASSUME NEW u \in Task, u # t PROVE SendAt(u)' /\ RecvAt(u)'
  <2>1. SendAt(u) /\ RecvAt(u) BY DEF IInv, SendInv, RecvInv
  <2>2. SendAt(u)' BY <1>1, <1>9, <2>1, SendFrame DEF CreateClaim
  <2>3. RecvAt(u)' BY <1>1, <1>9, <2>1, RecvFrame DEF CreateClaim
  <2> QED BY <2>2, <2>3
<1>10. ExactlyOnce' BY DEF IInv, ExactlyOnce, OnceAt, CreateClaim, Endpoints, Message
<1>11. SendInv' /\ RecvInv' BY <1>8, <1>9 DEF SendInv, RecvInv
<1> QED BY <1>5, <1>6, <1>7, <1>10, <1>11 DEF IInv

LEMMA CreateClearInv == ASSUME IInv, NEW t \in Task, CreateClear(t) PROVE IInv'
<1> USE IpcConstants
<1>0. TypeOK /\ CreateInv BY DEF IInv
<1>1. /\ pc' \in [Task -> PC] /\ pc[t] = "create_clear" /\ pc'[t] = "idle"
      /\ \A u \in Task : u # t => pc'[u] = pc[u]
      /\ ret' \in [Task -> {0, -1, -2}]
  BY <1>0, ReturnEffect DEF CreateClear
<1>2. t = Creator /\ ep[t] \in Endpoints \ created /\ used[ep[t]]
  BY <1>0, <1>1 DEF CreateInv, Creating
\* Nothing was sent to the endpoint before its id was known.
<1>3. ~has_pending[ep[t]] /\ EndpointAt(ep[t])
  <2>1. EndpointAt(ep[t]) BY <1>2 DEF IInv, EndpointInv
  <2> QED BY <1>2, <2>1 DEF EndpointAt
<1>4. /\ has_pending' \in [Endpoints -> BOOLEAN] /\ has_pending'[ep[t]] = FALSE
      /\ \A e \in Endpoints : e # ep[t] => has_pending'[e] = has_pending[e]
  BY <1>0, <1>2 DEF TypeOK, CreateClear
<1>5. \A e \in Endpoints : has_pending'[e] <=> has_pending[e] BY <1>3, <1>4
<1>6. created' = created \union {ep[t]} BY DEF CreateClear
<1>7. TypeOK' BY <1>0, <1>1, <1>2, <1>4, <1>6 DEF TypeOK, CreateClear
<1>8. CreateInv' BY <1>0, <1>1, <1>2, <1>6 DEF CreateInv, Creating, CreateClear
<1>9. EndpointInv'
  <2> SUFFICES ASSUME NEW e \in Endpoints PROVE EndpointAt(e)'
    BY DEF EndpointInv, Endpoints
  <2>1. EndpointAt(e) BY DEF IInv, EndpointInv
  <2>2. CASE e = ep[t] BY <1>2, <1>6, <2>2 DEF EndpointAt, CreateClear
  <2>3. CASE e # ep[t] BY <1>1, <1>2, <1>5, <1>6, <2>1, <2>3 DEF EndpointAt, CreateClear
  <2> QED BY <2>2, <2>3
<1>10. SendAt(t)' /\ RecvAt(t)' BY <1>1 DEF SendAt, RecvAt, Sending, Receiving
\* Only the creator has a call under way on an endpoint that is not created.
<1>11. ASSUME NEW u \in Task, u # t PROVE SendAt(u)' /\ RecvAt(u)'
  <2>1. SendAt(u) /\ RecvAt(u) /\ created \subseteq Endpoints
    BY DEF IInv, SendInv, RecvInv, TypeOK
  <2>2. pc[u] \in Sending \/ pc[u] \in Receiving => ep[u] \in created
    BY <2>1 DEF SendAt, RecvAt
  <2>3. pc[u] = "send_check" \/ pc[u] = "recv_check" => ep[u] # ep[t]
    BY <1>2, <1>11, <2>1 DEF SendAt, RecvAt
  <2>4. pc[u] \in Sending \/ pc[u] \in Receiving =>
          ep[u] # ep[t] /\ has_pending'[ep[u]] = has_pending[ep[u]]
    BY <1>2, <1>4, <2>1, <2>2
  <2>5. SendAt(u)' BY <1>1, <1>6, <1>11, <2>1, <2>3, <2>4, SendFrame DEF CreateClear
  <2>6. RecvAt(u)' BY <1>1, <1>6, <1>11, <2>1, <2>3, <2>4, RecvFrame DEF CreateClear
  <2> QED BY <2>5, <2>6
<1>12. ExactlyOnce'
  <2> SUFFICES ASSUME NEW e \in Endpoints PROVE OnceAt(e)'
    BY DEF ExactlyOnce, Endpoints
  <2>1. OnceAt(e) BY DEF IInv, ExactlyOnce
  <2> QED BY <1>5, <2>1 DEF OnceAt, CreateClear, Message
<1>13. SendInv' /\ RecvInv' BY <1>10, <1>11 DEF SendInv, RecvInv
<1> QED BY <1>7, <1>8, <1>9, <1>12, <1>13 DEF IInv

-----------------------------------------------------------------------------
LEMMA NextInv == ASSUME IInv, [Next]_vars PROVE IInv'
<1>1. CASE UNCHANGED vars
  <2>1. UNCHANGED <<used, pending, has_pending, pc, ep, msg, ret, created, sent, taken>>
    BY <1>1 DEF vars
  <2>2. TypeOK' BY <2>1 DEF IInv, TypeOK
  <2>3. CreateInv' /\ EndpointInv' BY <2>1 DEF IInv, CreateInv, EndpointInv, EndpointAt
  <2>4. SendInv' /\ RecvInv' BY <2>1 DEF IInv, SendInv, SendAt, RecvInv, RecvAt
  <2>5. ExactlyOnce' BY <2>1 DEF IInv, ExactlyOnce, OnceAt
  <2> QED BY <2>2, <2>3, <2>4, <2>5 DEF IInv
<1>2. CASE Next
  <2>1. PICK t \in Task :
          \/ CreateCall(t)
          \/ \E e \in 0 .. AEGIS_MAX_ENDPOINTS : MaySend(t, e) /\ SendCall(t, e)
          \/ \E e \in 0 .. AEGIS_MAX_ENDPOINTS : MayRecv(t, e) /\ RecvCall(t, e)
          \/ Step(t)
    BY <1>2 DEF Next
  <2>2. CASE CreateCall(t) BY <2>2, CreateCallInv
  <2>3. CASE \E e \in 0 .. AEGIS_MAX_ENDPOINTS : MaySend(t, e) /\ SendCall(t, e)
    BY <2>3, SendCallInv
  <2>4. CASE \E e \in 0 .. AEGIS_MAX_ENDPOINTS : MayRecv(t, e) /\ RecvCall(t, e)
    BY <2>4, RecvCallInv
  <2>5. CASE Step(t)
    BY <2>5, CreateScanInv, CreateClaimInv, CreateClearInv,
       SendCheckInv, SendCopyLoInv, SendCopyHiInv, SendFlagInv,
       RecvCheckInv, RecvCopyLoInv, RecvCopyHiInv, RecvFlagInv DEF Step
  <2> QED BY <2>1, <2>2, <2>3, <2>4, <2>5
<1> QED BY <1>1, <1>2

\* The inductive invariant of the endpoints holds throughout: which task may be
\* where in ipc_endpoint_create, ipc_send and ipc_recv, and what the endpoint
\* it works on then holds.
THEOREM IpcInv == Spec => []IInv
<1>1. Init => IInv BY InitInv
<1>2. IInv /\ [Next]_vars => IInv' BY NextInv
<1> QED BY <1>1, <1>2, PTL DEF Spec

\* The state keeps its types.
THEOREM IpcTypeOK == Spec => []TypeOK
<1>1. IInv => TypeOK BY DEF IInv
<1> QED BY <1>1, IpcInv, PTL

\* Every message for which ipc_send returned 0 is received once, in order and
\* whole, however the calls of sender, receiver and creator interleave.
THEOREM IpcExactlyOnce == Spec => []ExactlyOnce
<1>1. IInv => ExactlyOnce BY DEF IInv
<1> QED BY <1>1, IpcInv, PTL

\* What ipc_recv hands out is one whole message, the oldest not yet received.
THEOREM IpcReceivesWhole == Spec => []ReceivesWhole
<1>1. IInv => ReceivesWhole
  <2> SUFFICES ASSUME IInv, NEW t \in Task, pc[t] = "recv_flag"
               PROVE  msg[t] = Message(taken[ep[t]] + 1)
    BY DEF ReceivesWhole
  <2>1. RecvAt(t) /\ created \subseteq Endpoints BY DEF IInv, RecvInv, TypeOK
  <2>2. ep[t] \in Endpoints /\ has_pending[ep[t]] /\ pending[ep[t]] = msg[t]
    BY <2>1 DEF RecvAt, Receiving
  <2>3. OnceAt(ep[t]) BY <2>2 DEF IInv, ExactlyOnce
  <2> QED BY <2>2, <2>3 DEF OnceAt
<1> QED BY <1>1, IpcInv, PTL

\* A task that copies a message into an endpoint has it for itself.
THEOREM IpcCopyExclusive == Spec => []CopyExclusive
<1>1. IInv => CopyExclusive
  <2> SUFFICES ASSUME IInv, NEW t \in Task, NEW u \in Task, u # t,
                      pc[t] \in Sending, pc[u] \in Sending \/ pc[u] \in Receiving
               PROVE  ep[t] # ep[u]
    BY DEF CopyExclusive, Sending, Receiving
  <2> QED BY SenderAlone
<1> QED BY <1>1, IpcInv, PTL

-----------------------------------------------------------------------------
(* Refinement: the endpoints implement Mailbox. *)
Box == [e \in Endpoints |-> IF has_pending[e] THEN pending[e].lo ELSE 0]

LEMMA BoxInit == Init => MB!MInit
<1> SUFFICES ASSUME Init PROVE MB!MInit
  OBVIOUS
<1>1. Box = [e \in Endpoints |-> 0] BY DEF Box, Init
<1> QED BY <1>1 DEF Box, MB!MInit, Init

\* A step that leaves the flags and, where a flag is up, the message, is a
\* stuttering step of the mailbox.
LEMMA BoxStutter ==
  ASSUME UNCHANGED taken,
         \A e \in Endpoints : /\ has_pending'[e] <=> has_pending[e]
                              /\ has_pending[e] => pending'[e] = pending[e]
  PROVE  UNCHANGED MB!mvars
<1>1. Box' = Box BY DEF Box, Endpoints
<1> QED BY <1>1 DEF Box, MB!mvars

LEMMA SendFlagPuts ==
  ASSUME IInv, NEW t \in Task, SendFlag(t) PROVE MB!MNext
<1>1. /\ pc[t] = "send_flag" /\ SendAt(t) /\ created \subseteq Endpoints
      /\ has_pending \in [Endpoints -> BOOLEAN]
  BY DEF IInv, SendInv, TypeOK, SendFlag, Return, Go
<1>2. /\ ep[t] \in Endpoints /\ ~has_pending[ep[t]]
      /\ pending[ep[t]] = Message(sent[ep[t]] + 1)
  BY <1>1 DEF SendAt, Sending
<1>3. OnceAt(ep[t]) BY <1>2 DEF IInv, ExactlyOnce
<1>4. pending[ep[t]].lo = taken[ep[t]] + 1 BY <1>2, <1>3 DEF OnceAt, Message
<1>5. /\ has_pending'[ep[t]] /\ pending' = pending /\ taken' = taken
      /\ \A e \in Endpoints : e # ep[t] => has_pending'[e] = has_pending[e]
  BY <1>1, <1>2 DEF SendFlag
<1>6. Box[ep[t]] = 0 BY <1>2 DEF Box
<1>7. Box' = [Box EXCEPT ![ep[t]] = taken[ep[t]] + 1]
  BY <1>2, <1>4, <1>5 DEF Box, Endpoints
<1>8. PICK e \in Endpoints : e = ep[t] BY <1>2
<1>9. MB!Put(e) BY <1>5, <1>6, <1>7, <1>8 DEF MB!Put, Box
<1> QED BY <1>9 DEF MB!MNext

LEMMA RecvFlagTakes ==
  ASSUME IInv, NEW t \in Task, RecvFlag(t) PROVE MB!MNext
<1>1. /\ pc[t] = "recv_flag" /\ RecvAt(t) /\ created \subseteq Endpoints
      /\ has_pending \in [Endpoints -> BOOLEAN]
  BY DEF IInv, RecvInv, TypeOK, RecvFlag, Return, Go
<1>2. ep[t] \in Endpoints /\ has_pending[ep[t]] /\ pending[ep[t]] = msg[t]
  BY <1>1 DEF RecvAt, Receiving
<1>3. OnceAt(ep[t]) /\ taken[ep[t]] \in 0 .. MAX_MSGS
  BY <1>2 DEF IInv, ExactlyOnce, TypeOK
<1>4. pending[ep[t]].lo = taken[ep[t]] + 1 BY <1>2, <1>3 DEF OnceAt, Message
<1>5. /\ ~has_pending'[ep[t]] /\ pending' = pending
      /\ \A e \in Endpoints : e # ep[t] => has_pending'[e] = has_pending[e]
      /\ taken' = [taken EXCEPT ![ep[t]] = msg[t].lo]
  BY <1>1, <1>2 DEF RecvFlag
<1>6. Box[ep[t]] = msg[t].lo /\ Box[ep[t]] # 0
  BY <1>2, <1>3, <1>4, IpcConstants DEF Box
<1>7. Box' = [Box EXCEPT ![ep[t]] = 0]
  BY <1>2, <1>5 DEF Box, Endpoints
<1>8. PICK e \in Endpoints : e = ep[t] BY <1>2
<1>9. MB!Take(e) BY <1>5, <1>6, <1>7, <1>8 DEF MB!Take, Box
<1> QED BY <1>9 DEF MB!MNext

LEMMA StepRefines == ASSUME IInv, [Next]_vars PROVE [MB!MNext]_(MB!mvars)
<1>1. CASE UNCHANGED vars
  <2>1. UNCHANGED <<taken, has_pending, pending>> BY <1>1 DEF vars
  <2> QED BY <2>1, BoxStutter
<1>2. CASE Next
  <2>1. PICK t \in Task :
          \/ CreateCall(t)
          \/ \E e \in 0 .. AEGIS_MAX_ENDPOINTS : MaySend(t, e) /\ SendCall(t, e)
          \/ \E e \in 0 .. AEGIS_MAX_ENDPOINTS : MayRecv(t, e) /\ RecvCall(t, e)
          \/ Step(t)
    BY <1>2 DEF Next
  <2>2. CASE UNCHANGED <<taken, has_pending, pending>> BY <2>2, BoxStutter
  <2>3. CASE CreateClear(t)  \* the flag it clears was down
    <3>1. pc[t] = "create_clear" /\ CreateInv /\ has_pending \in [Endpoints -> BOOLEAN]
      BY <2>3 DEF CreateClear, Return, Go, IInv, TypeOK
    <3>2. ep[t] \in Endpoints \ created BY <3>1 DEF CreateInv, Creating
    <3>3. EndpointAt(ep[t]) BY <3>2 DEF IInv, EndpointInv
    <3>4. ~has_pending[ep[t]] BY <3>2, <3>3 DEF EndpointAt
    <3>5. \A e \in Endpoints : has_pending'[e] <=> has_pending[e]
      BY <2>3, <3>1, <3>4 DEF CreateClear
    <3>6. UNCHANGED <<taken, pending>> BY <2>3 DEF CreateClear
    <3> QED BY <3>5, <3>6, BoxStutter
  <2>4. CASE SendCopyLo(t) \/ SendCopyHi(t)  \* the flag of the endpoint is down
    <3>1. pc[t] \in Sending /\ SendAt(t) /\ created \subseteq Endpoints
      BY <2>4 DEF SendCopyLo, SendCopyHi, Go, Sending, IInv, SendInv, TypeOK
    <3>2. ep[t] \in Endpoints /\ ~has_pending[ep[t]] BY <3>1 DEF SendAt
    <3>3. UNCHANGED <<taken, has_pending>> BY <2>4 DEF SendCopyLo, SendCopyHi
    <3>4. pending \in [Endpoints -> Msgs] BY DEF IInv, TypeOK
    <3>5. \A e \in Endpoints : e # ep[t] => pending'[e] = pending[e]
      BY <2>4, <3>2, <3>4 DEF SendCopyLo, SendCopyHi
    <3> QED BY <3>2, <3>3, <3>5, BoxStutter
  <2>5. CASE SendFlag(t) BY <2>5, SendFlagPuts
  <2>6. CASE RecvFlag(t) BY <2>6, RecvFlagTakes
  <2> QED BY <2>1, <2>2, <2>3, <2>4, <2>5, <2>6
       DEF Step, CreateCall, SendCall, RecvCall, CreateScan, CreateClaim,
           SendCheck, RecvCheck, RecvCopyLo, RecvCopyHi
<1> QED BY <1>1, <1>2

\* Every endpoint implements a mailbox for one message: raising the flag in
\* ipc_send puts the message, dropping it in ipc_recv takes it, and no other
\* step of any task shows.
THEOREM IpcIsMailbox == Spec => IsMailbox
<1>1. Init => MB!MInit BY BoxInit
<1>2. IInv /\ [Next]_vars => [MB!MNext]_(MB!mvars) BY StepRefines
<1> QED BY <1>1, <1>2, IpcInv, PTL DEF Spec, IsMailbox, MB!MSpec
=============================================================================
