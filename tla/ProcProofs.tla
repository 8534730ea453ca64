----------------------------- MODULE ProcProofs -----------------------------
(* Proofs about the process table of Proc, for every size of the table.    *)
EXTENDS Proc, FiniteSetTheorems, TLAPS

\* _start leaves the table with init in its first entry and 2 as the next pid.
LEMMA InitInv == Init => IInv
<1> SUFFICES ASSUME Init PROVE IInv  OBVIOUS
<1> USE ProcConstants DEF Init, Slots, EMPTY, READY, RUNNING, TERMINATED
<1>1. TypeOK  BY DEF TypeOK
<1>2. PidsGivenOnce  BY DEF PidsGivenOnce
<1>3. DeadHasCode  BY DEF DeadHasCode
<1> QED  BY <1>1, <1>2, <1>3 DEF IInv

\* The first free entry is the one behind the last process: only a table with
\* a pid to spare has one, and proc_spawn gives it the pid that fits its place.
LEMMA FreeIsNext ==
  ASSUME IInv, NEW i \in Slots, Finds(0, i)
  PROVE  i + 1 = next_pid
<1>1. pid[i] = 0 /\ next_pid \in 1 .. MAX_PROCESSES + 1 /\ i \in Nat /\ i < MAX_PROCESSES
  BY ProcConstants DEF Finds, IInv, TypeOK, Slots
<1>2. i + 1 >= next_pid  BY <1>1 DEF IInv, PidsGivenOnce
<1>3. CASE i + 1 > next_pid
  <2>1. next_pid - 1 \in Slots /\ next_pid - 1 < i  BY <1>1, <1>3, ProcConstants DEF Slots
  <2>2. pid[next_pid - 1] = 0  BY <1>1, <2>1 DEF IInv, PidsGivenOnce
  <2> QED  BY <1>1, <2>1, <2>2 DEF Finds, Slots
<1> QED  BY <1>1, <1>2, <1>3

\* proc_spawn: a fresh pid, and nothing of what the entry held before is seen.
LEMMA SpawnInv == ASSUME IInv, NEW n \in Name, proc_spawn(n) PROVE IInv'
<1>1. CASE NotFound(0)
  BY <1>1 DEF NotFound, table, IInv, TypeOK, PidsGivenOnce, DeadHasCode
<1>2. ASSUME NEW i \in Slots, Finds(0, i),
             pid' = [pid EXCEPT ![i] = next_pid], next_pid' = next_pid + 1,
             name' = [name EXCEPT ![i] = n], state' = [state EXCEPT ![i] = READY],
             parent_pid' = [parent_pid EXCEPT ![i] = 0],
             exit_code' = [exit_code EXCEPT ![i] = 0]
      PROVE  IInv'
  <2>1. i + 1 = next_pid /\ next_pid \in 1 .. MAX_PROCESSES
    BY <1>2, FreeIsNext, ProcConstants DEF Slots
  <2>2. TypeOK'
    BY <1>2, <2>1, ProcConstants DEF IInv, TypeOK, Slots, EMPTY, READY, RUNNING, TERMINATED
  <2>3. PidsGivenOnce'
    <3> SUFFICES ASSUME NEW j \in Slots
                 PROVE  pid'[j] = IF j + 1 < next_pid' THEN j + 1 ELSE 0
      BY DEF PidsGivenOnce
    <3>1. pid'[j] = IF j = i THEN next_pid ELSE pid[j]  BY <1>2 DEF IInv, TypeOK
    <3>2. pid[j] = IF j + 1 < next_pid THEN j + 1 ELSE 0  BY DEF IInv, PidsGivenOnce
    <3> QED  BY <1>2, <2>1, <3>1, <3>2, ProcConstants DEF Slots
  <2>4. DeadHasCode'
    BY <1>2 DEF IInv, TypeOK, DeadHasCode, READY, TERMINATED
  <2> QED  BY <2>2, <2>3, <2>4 DEF IInv
<1> QED  BY <1>1, <1>2 DEF proc_spawn

\* proc_kill: dead with its exit code, in one step.
LEMMA KillInv ==
  ASSUME IInv, NEW p \in 0 .. MAX_PROCESSES + 1, proc_kill(p) PROVE IInv'
<1>1. CASE NotFound(p)
  BY <1>1 DEF NotFound, table, IInv, TypeOK, PidsGivenOnce, DeadHasCode
<1>2. ASSUME NEW i \in Slots, state' = [state EXCEPT ![i] = TERMINATED],
             exit_code' = [exit_code EXCEPT ![i] = -1],
             UNCHANGED <<pid, name, parent_pid, next_pid>>
      PROVE  IInv'
  <2>1. TypeOK'  BY <1>2 DEF IInv, TypeOK, TERMINATED
  <2>2. PidsGivenOnce'  BY <1>2 DEF IInv, PidsGivenOnce
  <2>3. DeadHasCode'  BY <1>2 DEF IInv, TypeOK, DeadHasCode
  <2> QED  BY <2>1, <2>2, <2>3 DEF IInv
<1> QED  BY <1>1, <1>2 DEF proc_kill

\* The other requests change nothing of the table.
LEMMA ReadOnlyInv == ASSUME IInv, UNCHANGED <<table, next_pid>> PROVE IInv'
BY DEF table, IInv, TypeOK, PidsGivenOnce, DeadHasCode

\* Every request leaves the invariant: a pid is given once, to the entry in its
\* place, and a process is dead exactly if it has the exit code of a killed one.
THEOREM ProcInv == Spec => []IInv
<1>1. ASSUME IInv, [Next]_vars PROVE IInv'
  <2>1. CASE \E n \in Name : proc_spawn(n)  BY <1>1, <2>1, SpawnInv
  <2>2. CASE \E p \in 0 .. MAX_PROCESSES + 1 : proc_kill(p)  BY <1>1, <2>2, KillInv
  <2>3. CASE UNCHANGED <<table, next_pid>>  BY <1>1, <2>3, ReadOnlyInv
  <2>4. CASE \E p \in 0 .. MAX_PROCESSES + 1 : proc_get_info(p)
    BY <2>4, <2>3 DEF proc_get_info, NotFound
  <2>5. CASE proc_list  BY <2>5, <2>3 DEF proc_list
  <2>6. CASE Default  BY <2>6, <2>3 DEF Default
  <2>7. CASE UNCHANGED vars  BY <2>7, <2>3 DEF vars, table
  <2> QED  BY <1>1, <2>1, <2>2, <2>4, <2>5, <2>6, <2>7 DEF Next
<1> QED  BY <1>1, InitInv, PTL DEF Spec

\* The fields of process_table and next_pid keep their types, next_pid stops at
\* the size of the table.
THEOREM ProcTypeOK == Spec => []TypeOK
<1>1. IInv => TypeOK  BY DEF IInv
<1> QED  BY <1>1, ProcInv, PTL

\* A pid names one process: what proc_kill and proc_get_info find by it is the
\* process that proc_spawn gave it to.
THEOREM ProcPidsGivenOnce == Spec => []PidsGivenOnce
<1>1. IInv => PidsGivenOnce  BY DEF IInv
<1> QED  BY <1>1, ProcInv, PTL

\* A spawned process never shows the exit code that a kill of the pid 0 left in
\* the free entry it was given.
THEOREM ProcDeadHasCode == Spec => []DeadHasCode
<1>1. IInv => DeadHasCode  BY DEF IInv
<1> QED  BY <1>1, ProcInv, PTL

-----------------------------------------------------------------------------
(* The refinement of ProcTable *)

\* What the server's state stands for: the processes, numbered, the one the
\* last report was about and the lines it showed.
Procs ==
  [p \in 1 .. next_pid - 1 |-> [name |-> name[p - 1], killed |-> state[p - 1] = TERMINATED]]
Known == IF report.said = "not found" THEN 0 ELSE report.of
Lines ==
  IF report.said = "info" /\ report.of = 0 THEN <<>> ELSE
  [k \in DOMAIN report.lines |->
     [pid |-> report.lines[k].pid, name |-> report.lines[k].name,
      killed |-> report.lines[k].state = TERMINATED]]
ProcOf(n) == [name |-> n, killed |-> FALSE]
LineOf(p) == [pid |-> p, name |-> Procs[p].name, killed |-> Procs[p].killed]

\* A search for a pid that was given ends at the entry of its place.
LEMMA FoundIsOwn ==
  ASSUME IInv, NEW p \in Nat, p # 0, NEW i \in Slots, Finds(p, i)
  PROVE  i = p - 1 /\ p \in 1 .. next_pid - 1
<1>1. i \in Nat /\ next_pid \in Nat  BY ProcConstants DEF IInv, TypeOK, Slots
<1>2. p = IF i + 1 < next_pid THEN i + 1 ELSE 0  BY DEF Finds, IInv, PidsGivenOnce
<1> QED  BY <1>1, <1>2

\* The loop of proc_list meets the processes in the order of their pids.
LEMMA ListedInOrder ==
  ASSUME IInv
  PROVE  Listed = [k \in 1 .. next_pid - 1 |-> k - 1]
<1>0. next_pid \in 1 .. MAX_PROCESSES + 1 /\ MAX_PROCESSES \in Nat
  BY ProcConstants DEF IInv, TypeOK
<1>1. Used = 0 .. next_pid - 2
  <2>1. ASSUME NEW i \in Slots PROVE pid[i] # 0 <=> i \in 0 .. next_pid - 2
    BY <1>0 DEF IInv, PidsGivenOnce, Slots
  <2>2. 0 .. next_pid - 2 \subseteq Slots  BY <1>0 DEF Slots
  <2> QED  BY <2>1, <2>2 DEF Used
<1>2. Cardinality(0 .. next_pid - 2) = next_pid - 1
  <2>1. 0 \in Int /\ next_pid - 2 \in Int  BY <1>0
  <2>2. Cardinality(0 .. next_pid - 2) = IF 0 > next_pid - 2 THEN 0 ELSE (next_pid - 2) - 0 + 1
    BY <2>1, FS_Interval
  <2> QED  BY <1>0, <2>2
<1>3. ASSUME NEW i \in 0 .. next_pid - 2
      PROVE  Cardinality({j \in 0 .. next_pid - 2 : j <= i}) = i + 1
  <2>1. {j \in 0 .. next_pid - 2 : j <= i} = 0 .. i  BY <1>0
  <2>2. 0 \in Int /\ i \in Int /\ ~(0 > i)  BY <1>0
  <2>3. Cardinality(0 .. i) = IF 0 > i THEN 0 ELSE i - 0 + 1  BY <2>2, FS_Interval
  <2>4. Cardinality(0 .. i) = i + 1  BY <2>2, <2>3
  <2> QED  BY <2>1, <2>4, Zenon
<1>4. ASSUME NEW k \in 1 .. next_pid - 1
      PROVE  (CHOOSE i \in 0 .. next_pid - 2 :
                Cardinality({j \in 0 .. next_pid - 2 : j <= i}) = k) = k - 1
  <2> DEFINE C(i) == Cardinality({j \in 0 .. next_pid - 2 : j <= i})
  <2>1. \A i \in 0 .. next_pid - 2 : C(i) = i + 1  BY <1>3
  <2> HIDE DEF C
  <2>2. k - 1 \in 0 .. next_pid - 2 /\ C(k - 1) = k  BY <1>0, <2>1
  <2>3. \A i \in 0 .. next_pid - 2 : C(i) = k => i = k - 1  BY <1>0, <2>1
  <2>4. (CHOOSE i \in 0 .. next_pid - 2 : C(i) = k) = k - 1  BY <2>2, <2>3
  <2> QED  BY <2>4 DEF C
<1>5. Listed = [k \in 1 .. next_pid - 1 |->
                  CHOOSE i \in 0 .. next_pid - 2 :
                    Cardinality({j \in 0 .. next_pid - 2 : j <= i}) = k]
  BY <1>1, <1>2 DEF Listed
<1> QED  BY <1>4, <1>5

\* A table that did not change stands for the same processes.
LEMMA SameProcs == ASSUME UNCHANGED <<table, next_pid>> PROVE Procs' = Procs
BY DEF table, Procs

\* A report without lines is about a process, or none.
LEMMA SaysNoLines ==
  ASSUME NEW what, NEW p, what # "info", report' = Said(what, p, <<>>)
  PROVE  Lines' = <<>> /\ Known' = IF what = "not found" THEN 0 ELSE p
<1>1. report'.said = what /\ report'.of = p /\ report'.lines = <<>>  BY DEF Said
<1>2. Known' = IF what = "not found" THEN 0 ELSE p  BY <1>1 DEF Known
<1>3. Lines' = <<>>
  <2> DEFINE e(k) == [pid |-> report'.lines[k].pid, name |-> report'.lines[k].name,
                      killed |-> report'.lines[k].state = TERMINATED]
  <2>1. DOMAIN report'.lines = {}  BY <1>1
  <2>2. Lines' = [k \in DOMAIN report'.lines |-> e(k)]  BY <1>1 DEF Lines
  <2> HIDE DEF e
  <2> QED  BY <2>1, <2>2
<1> QED  BY <1>2, <1>3

\* Nothing was asked of a process that exists.
LEMMA NothingStep ==
  ASSUME UNCHANGED Procs, Known' = 0, Lines' = <<>>
  PROVE  PT!PNothing
BY DEF PT!PNothing, Procs, Known, Lines

LEMMA NotFoundStep == ASSUME NEW p, NotFound(p) PROVE PT!PNothing
<1>1. Procs' = Procs  BY SameProcs DEF NotFound
<1>2. report' = Said("not found", p, <<>>)  BY DEF NotFound
<1>3. Lines' = <<>> /\ Known' = 0  BY <1>2, SaysNoLines
<1> QED  BY <1>1, <1>3, NothingStep

\* proc_spawn appends the process its pid numbers.
LEMMA SpawnStep ==
  ASSUME IInv, NEW n \in Name, proc_spawn(n) PROVE PT!PSpawn(n) \/ PT!PNothing
<1>1. CASE NotFound(0)  BY <1>1, NotFoundStep
<1>2. ASSUME NEW i \in Slots, Finds(0, i), next_pid' = next_pid + 1,
             name' = [name EXCEPT ![i] = n], state' = [state EXCEPT ![i] = READY],
             report' = Said("spawned", next_pid, <<>>)
      PROVE  PT!PSpawn(n)
  <2>1. i + 1 = next_pid /\ next_pid \in 1 .. MAX_PROCESSES /\ i \in Nat
    BY <1>2, FreeIsNext, ProcConstants DEF Slots
  <2>2. Lines' = <<>> /\ Known' = next_pid  BY <1>2, SaysNoLines
  <2>3. Procs \in Seq([name : Name \union {NoName}, killed : BOOLEAN]) /\ Len(Procs) = next_pid - 1
    <3>1. ASSUME NEW p \in 1 .. next_pid - 1
          PROVE  [name |-> name[p - 1], killed |-> state[p - 1] = TERMINATED]
                   \in [name : Name \union {NoName}, killed : BOOLEAN]
      <4>1. p - 1 \in Slots  BY <2>1, ProcConstants DEF Slots
      <4> QED  BY <4>1 DEF IInv, TypeOK
    <3> DEFINE R(p) == [name |-> name[p - 1], killed |-> state[p - 1] = TERMINATED]
               T == [name : Name \union {NoName}, killed : BOOLEAN]
    <3>2. Procs = [p \in 1 .. next_pid - 1 |-> R(p)]  BY DEF Procs
    <3>3. \A p \in 1 .. next_pid - 1 : R(p) \in T  BY <3>1
    <3> HIDE DEF R, T
    <3>4. Procs \in Seq(T) /\ Len(Procs) = next_pid - 1  BY <2>1, <3>2, <3>3
    <3> QED  BY <3>4 DEF T
  <2>4. Procs' = Append(Procs, ProcOf(n))
    <3> DEFINE R(p) == [name |-> name[p - 1], killed |-> state[p - 1] = TERMINATED]
               Q(p) == [name |-> name'[p - 1], killed |-> state'[p - 1] = TERMINATED]
    <3>1. ASSUME NEW p \in 1 .. next_pid - 1 PROVE Q(p) = R(p)
      <4>1. p - 1 \in Slots /\ p - 1 # i  BY <2>1, ProcConstants DEF Slots
      <4> QED  BY <1>2, <4>1 DEF IInv, TypeOK
    <3>2. Q(next_pid) = ProcOf(n)
      <4>1. next_pid - 1 = i  BY <2>1
      <4>2. name'[i] = n /\ state'[i] = READY  BY <1>2 DEF IInv, TypeOK
      <4>3. ~(state'[i] = TERMINATED)  BY <4>2 DEF READY, TERMINATED
      <4>4. (state'[i] = TERMINATED) = FALSE  BY <4>3, Zenon
      <4> QED  BY <4>1, <4>2, <4>4, Zenon DEF ProcOf
    <3>3. Procs = [p \in 1 .. next_pid - 1 |-> R(p)]  BY DEF Procs
    <3>4. Procs' = [p \in 1 .. next_pid |-> Q(p)]
      <4>1. next_pid' - 1 = next_pid  BY <1>2, <2>1
      <4> QED  BY <4>1 DEF Procs
    <3> HIDE DEF R, Q
    <3> QED  BY <2>1, <2>3, <3>1, <3>2, <3>3, <3>4
  <2>5. Len(Procs) < MAX_PROCESSES /\ Known' = Len(Procs) + 1  BY <2>1, <2>2, <2>3, ProcConstants
  <2> QED  BY <2>2, <2>4, <2>5 DEF PT!PSpawn, PT!Proc, ProcOf, Procs, Known, Lines
<1> QED  BY <1>1, <1>2 DEF proc_spawn

\* Only the mark of a process changes.
LEMMA MarkKilled ==
  ASSUME NEW n, NEW b, NEW t
  PROVE  [[name |-> n, killed |-> b] EXCEPT !.killed = t] = [name |-> n, killed |-> t]
OBVIOUS

\* proc_kill marks the process of that number; of the pid 0 it marks a free
\* entry, which stands for nothing.
LEMMA KillStep ==
  ASSUME IInv, NEW p \in 0 .. MAX_PROCESSES + 1, proc_kill(p)
  PROVE  (p \in 1 .. MAX_PROCESSES /\ PT!PKill(p)) \/ PT!PNothing
<1>1. CASE NotFound(p)  BY <1>1, NotFoundStep
<1>2. ASSUME NEW i \in Slots, Finds(p, i), state' = [state EXCEPT ![i] = TERMINATED],
             report' = Said("killed", p, <<>>), UNCHANGED <<name, next_pid>>
      PROVE  (p \in 1 .. MAX_PROCESSES /\ PT!PKill(p)) \/ PT!PNothing
  <2>0. p \in Nat /\ i \in Nat /\ next_pid \in 1 .. MAX_PROCESSES + 1 /\ MAX_PROCESSES \in Nat
    BY ProcConstants DEF IInv, TypeOK, Slots
  <2>1. Lines' = <<>> /\ Known' = p  BY <1>2, SaysNoLines
  <2> DEFINE R(q) == [name |-> name[q - 1], killed |-> state[q - 1] = TERMINATED]
             Q(q) == [name |-> name'[q - 1], killed |-> state'[q - 1] = TERMINATED]
  <2>2. ASSUME NEW q \in 1 .. next_pid - 1, q - 1 # i PROVE Q(q) = R(q)
    <3>1. q - 1 \in Slots  BY <2>0, ProcConstants DEF Slots
    <3> QED  BY <1>2, <2>2, <3>1 DEF IInv, TypeOK
  <2>3. Procs = [q \in 1 .. next_pid - 1 |-> R(q)]  BY DEF Procs
  <2>4. Procs' = [q \in 1 .. next_pid - 1 |-> Q(q)]  BY <1>2 DEF Procs
  <2>5. CASE p = 0
    <3>1. i + 1 >= next_pid  BY <1>2, <2>0, <2>5 DEF Finds, IInv, PidsGivenOnce
    <3>2. \A q \in 1 .. next_pid - 1 : q - 1 # i  BY <2>0, <3>1
    <3>3. \A q \in 1 .. next_pid - 1 : Q(q) = R(q)  BY <2>2, <3>2
    <3> HIDE DEF R, Q
    <3>4. Procs' = Procs  BY <2>3, <2>4, <3>3
    <3> QED  BY <2>1, <2>5, <3>4, NothingStep
  <2>6. CASE p # 0
    <3>1. i = p - 1 /\ p \in 1 .. next_pid - 1  BY <1>2, <2>0, <2>6, FoundIsOwn
    <3>2. Q(p) = [R(p) EXCEPT !.killed = TRUE]
      <4>1. state'[p - 1] = TERMINATED /\ name' = name  BY <1>2, <3>1 DEF IInv, TypeOK
      <4>2. (state'[p - 1] = TERMINATED) = TRUE  BY <4>1, Zenon
      <4>3. Q(p) = [name |-> name[p - 1], killed |-> TRUE]  BY <4>1, <4>2, Zenon
      <4>4. [R(p) EXCEPT !.killed = TRUE] = [name |-> name[p - 1], killed |-> TRUE]
        <5> DEFINE n == name[p - 1]
                   b == (state[p - 1] = TERMINATED)
                   t == TRUE
        <5>1. R(p) = [name |-> n, killed |-> b]  BY Zenon
        <5> HIDE DEF R, n, b, t
        <5>2. [R(p) EXCEPT !.killed = t] = [name |-> n, killed |-> t]  BY <5>1, MarkKilled
        <5> QED  BY <5>2, Zenon DEF n, t
      <4> HIDE DEF Q, R
      <4> QED  BY <4>3, <4>4
    <3>3. \A q \in 1 .. next_pid - 1 : q # p => Q(q) = R(q)
      <4>1. \A q \in 1 .. next_pid - 1 : q # p => q - 1 # i  BY <2>0, <3>1
      <4> QED  BY <2>2, <4>1
    <3>4. DOMAIN Procs = 1 .. next_pid - 1  BY <2>3
    <3>5. Procs[p] = R(p)  BY <2>3, <3>1
    <3>6. Procs' = [Procs EXCEPT ![p].killed = TRUE]
      <4> DEFINE K == [R(p) EXCEPT !.killed = TRUE]
      <4>1. Q(p) = K  BY <3>2
      <4>2. [Procs EXCEPT ![p].killed = TRUE] = [Procs EXCEPT ![p] = K]  BY <3>5
      <4> HIDE DEF K, R, Q
      <4> QED  BY <2>3, <2>4, <3>1, <3>3, <4>1, <4>2
    <3>7. PT!PKill(p)  BY <2>1, <3>1, <3>4, <3>6 DEF PT!PKill, Procs, Known, Lines
    <3> QED  BY <2>0, <3>1, <3>7
  <2> QED  BY <2>5, <2>6
<1> QED  BY <1>1, <1>2 DEF proc_kill

\* proc_get_info shows the process of that number, or a free entry.
LEMMA InfoStep ==
  ASSUME IInv, NEW p \in 0 .. MAX_PROCESSES + 1, proc_get_info(p)
  PROVE  (p \in 1 .. MAX_PROCESSES /\ PT!PInfo(p)) \/ PT!PNothing
<1>1. CASE NotFound(p)  BY <1>1, NotFoundStep
<1>2. ASSUME NEW i \in Slots, Finds(p, i), report' = Said("info", p, <<Info(i)>>),
             UNCHANGED <<table, next_pid>>
      PROVE  (p \in 1 .. MAX_PROCESSES /\ PT!PInfo(p)) \/ PT!PNothing
  <2>0. p \in Nat /\ next_pid \in 1 .. MAX_PROCESSES + 1 /\ MAX_PROCESSES \in Nat
    BY ProcConstants DEF IInv, TypeOK
  <2>1. report'.said = "info" /\ report'.of = p /\ report'.lines = <<Info(i)>>
    BY <1>2 DEF Said
  <2>2. Procs' = Procs  BY <1>2, SameProcs
  <2>3. Known' = p  BY <2>1 DEF Known
  <2>4. CASE p = 0
    <3>1. Lines' = <<>>  BY <2>1, <2>4 DEF Lines
    <3> QED  BY <2>2, <2>3, <2>4, <3>1, NothingStep
  <2>5. CASE p # 0
    <3>1. i = p - 1 /\ p \in 1 .. next_pid - 1  BY <1>2, <2>0, <2>5, FoundIsOwn
    <3>2. Lines' = <<LineOf(p)>>
      <4> DEFINE e(k) == [pid |-> report'.lines[k].pid, name |-> report'.lines[k].name,
                          killed |-> report'.lines[k].state = TERMINATED]
      <4>1. Lines' = [k \in DOMAIN report'.lines |-> e(k)]  BY <2>1, <2>5 DEF Lines
      <4>2. DOMAIN report'.lines = {1} /\ report'.lines[1] = Info(i)  BY <2>1
      <4>3. Info(i).pid = p /\ Info(i).name = name[p - 1] /\ Info(i).state = state[p - 1]
        BY <1>2, <3>1 DEF Info, Finds
      <4>4. Procs[p] = [name |-> name[p - 1], killed |-> state[p - 1] = TERMINATED]
        BY <3>1 DEF Procs
      <4>5. e(1) = LineOf(p)  BY <4>2, <4>3, <4>4 DEF LineOf
      <4> HIDE DEF e
      <4> QED  BY <4>1, <4>2, <4>5
    <3>3. DOMAIN Procs = 1 .. next_pid - 1  BY DEF Procs
    <3>4. PT!PInfo(p)
      BY <2>2, <2>3, <3>1, <3>2, <3>3 DEF PT!PInfo, PT!Line, LineOf, Procs, Known, Lines
    <3> QED  BY <2>0, <3>1, <3>4
  <2> QED  BY <2>4, <2>5
<1> QED  BY <1>1, <1>2 DEF proc_get_info

\* proc_list shows every process, in the order of the pids.
LEMMA ListStep == ASSUME IInv, proc_list PROVE PT!PList
<1> DEFINE rows == [k \in DOMAIN Listed |-> Row(Listed[k])]
<1>0. next_pid \in 1 .. MAX_PROCESSES + 1 /\ MAX_PROCESSES \in Nat
  BY ProcConstants DEF IInv, TypeOK
<1>1. Procs' = Procs  BY SameProcs DEF proc_list
<1>2. report'.said = "list" /\ report'.of = 0 /\ report'.lines = rows  BY DEF proc_list, Said
<1>3. Known' = 0  BY <1>2 DEF Known
<1>4. Listed = [k \in 1 .. next_pid - 1 |-> k - 1]  BY ListedInOrder
<1>5. DOMAIN rows = 1 .. next_pid - 1 /\ \A k \in 1 .. next_pid - 1 : rows[k] = Row(k - 1)
  BY <1>4
<1> DEFINE e(k) == [pid |-> report'.lines[k].pid, name |-> report'.lines[k].name,
                    killed |-> report'.lines[k].state = TERMINATED]
<1>6. Lines' = [k \in DOMAIN report'.lines |-> e(k)]  BY <1>2 DEF Lines
<1> HIDE DEF rows
<1>7. ASSUME NEW k \in 1 .. next_pid - 1 PROVE e(k) = LineOf(k)
  <2>1. report'.lines[k] = Row(k - 1)  BY <1>2, <1>5
  <2>2. k - 1 \in Slots /\ (k - 1) + 1 = k /\ k < next_pid  BY <1>0, ProcConstants DEF Slots
  <2>3. pid[k - 1] = k  BY <2>2 DEF IInv, PidsGivenOnce
  <2>4. Row(k - 1).pid = k /\ Row(k - 1).name = name[k - 1] /\ Row(k - 1).state = state[k - 1]
    BY <2>3 DEF Row
  <2>5. Procs[k] = [name |-> name[k - 1], killed |-> state[k - 1] = TERMINATED]  BY DEF Procs
  <2> QED  BY <2>1, <2>4, <2>5 DEF LineOf
<1>8. DOMAIN Procs = 1 .. next_pid - 1  BY DEF Procs
<1> HIDE DEF e
<1>9. Lines' = [p \in DOMAIN Procs |-> LineOf(p)]  BY <1>2, <1>5, <1>6, <1>7, <1>8
<1> QED  BY <1>1, <1>3, <1>9 DEF PT!PList, PT!Line, LineOf, Procs, Known, Lines

\* The server's table of entries implements the numbered processes: a pid is
\* never given twice, a killed process stays dead, and every report, the list
\* included, says what the processes are.
THEOREM ProcIsProcTable == Spec => IsProcTable
<1>1. ASSUME Init PROVE PT!PInit
  <2>1. Known = 0 /\ Lines = <<>>
    <3>1. report.said = "nothing" /\ report.of = 0 /\ report.lines = <<>>
      BY <1>1 DEF Init, Silent, Said
    <3> DEFINE e(k) == [pid |-> report.lines[k].pid, name |-> report.lines[k].name,
                        killed |-> report.lines[k].state = TERMINATED]
    <3>2. DOMAIN report.lines = {} /\ Lines = [k \in DOMAIN report.lines |-> e(k)]
      BY <3>1 DEF Lines
    <3> HIDE DEF e
    <3> QED  BY <3>1, <3>2 DEF Known
  <2>2. Procs = <<ProcOf(init)>>
    <3>1. 0 \in Slots /\ next_pid = 2  BY <1>1, ProcConstants DEF Init, Slots
    <3>2. name[0] = init /\ state[0] = RUNNING  BY <1>1, <3>1 DEF Init
    <3>3. 1 .. next_pid - 1 = {1}  BY <3>1
    <3>4. [name |-> name[1 - 1], killed |-> state[1 - 1] = TERMINATED] = ProcOf(init)
      <4>1. 1 - 1 = 0 /\ ~(state[0] = TERMINATED)  BY <3>2 DEF RUNNING, TERMINATED
      <4>2. (state[0] = TERMINATED) = FALSE  BY <4>1, Zenon
      <4> QED  BY <3>2, <4>1, <4>2, Zenon DEF ProcOf
    <3> DEFINE R(q) == [name |-> name[q - 1], killed |-> state[q - 1] = TERMINATED]
    <3>5. R(1) = ProcOf(init) /\ Procs = [p \in {1} |-> R(p)]  BY <3>3, <3>4 DEF Procs
    <3> HIDE DEF R
    <3> QED  BY <3>5
  <2>3. init \in Name  BY ProcConstants
  <2> QED  BY <2>1, <2>2, <2>3 DEF PT!PInit, PT!Proc, ProcOf, Procs, Known, Lines
<1>2. ASSUME IInv, [Next]_vars PROVE [PT!PNext]_PT!pvars
  <2>1. CASE \E n \in Name : proc_spawn(n)  BY <1>2, <2>1, SpawnStep DEF PT!PNext
  <2>2. CASE \E p \in 0 .. MAX_PROCESSES + 1 : proc_kill(p)
    BY <1>2, <2>2, KillStep DEF PT!PNext
  <2>3. CASE \E p \in 0 .. MAX_PROCESSES + 1 : proc_get_info(p)
    BY <1>2, <2>3, InfoStep DEF PT!PNext
  <2>4. CASE proc_list  BY <1>2, <2>4, ListStep DEF PT!PNext
  <2>5. CASE Default
    <3>1. Procs' = Procs  BY <2>5, SameProcs DEF Default
    <3>2. report' = Said("nothing", 0, <<>>)  BY <2>5 DEF Default, Silent
    <3>3. Lines' = <<>> /\ Known' = 0  BY <3>2, SaysNoLines
    <3> QED  BY <3>1, <3>3, NothingStep DEF PT!PNext
  <2>6. CASE UNCHANGED vars
    <3>1. Procs' = Procs /\ Known' = Known /\ Lines' = Lines
      BY <2>6 DEF vars, Procs, Known, Lines
    <3> QED  BY <3>1 DEF PT!pvars, Procs, Known, Lines
  <2> QED  BY <1>2, <2>1, <2>2, <2>3, <2>4, <2>5, <2>6 DEF Next
<1> QED  BY <1>1, <1>2, ProcInv, PTL DEF Spec, IsProcTable, PT!PSpec
=============================================================================
