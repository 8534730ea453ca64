-------------------------------- MODULE Proc --------------------------------
(***************************************************************************)
(* The process server (servers/proc/proc.c): a table of processes.  It     *)
(* handles one message at a time; each handler is one action.  The reply   *)
(* returns the request itself, so all a client learns is what the server   *)
(* writes to the console: report.  entry_point and stack_ptr are never     *)
(* used.  A message that ipc_recv did not deliver is skipped.              *)
(***************************************************************************)
EXTENDS Integers, Sequences, FiniteSets

CONSTANTS
  MAX_PROCESSES,
  Name,     \* the names clients give, as stored (31 characters)
  INT_MOD   \* 2^64: an exit code is printed as an unsigned number

init == "init"
ASSUME ProcConstants ==
  /\ MAX_PROCESSES \in Nat \ {0}
  /\ init \in Name
  /\ INT_MOD \in Nat /\ INT_MOD >= 2

Slots == 0 .. MAX_PROCESSES - 1
NoName == "none"

VARIABLES
  pid, name, state, parent_pid, exit_code,  \* the fields of process_table[i]
  next_pid,
  report   \* what the handler of the last message wrote

\* What it said, of which process, and the lines it printed of the table.
Said(what, p, lines) == [said |-> what, of |-> p, lines |-> lines]
Silent == Said("nothing", 0, <<>>)

table == <<pid, name, state, parent_pid, exit_code>>
vars == <<pid, name, state, parent_pid, exit_code, next_pid, report>>

EMPTY == 0
READY == 1
RUNNING == 2
TERMINATED == 4  \* 3, BLOCKED, is never assigned

\* _start, up to its loop.
InitKeepsNextPid ==
  /\ pid = [i \in Slots |-> IF i = 0 THEN 1 ELSE 0]
  /\ name = [i \in Slots |-> IF i = 0 THEN init ELSE NoName]
  /\ state = [i \in Slots |-> IF i = 0 THEN RUNNING ELSE EMPTY]
  /\ parent_pid = [i \in Slots |-> 0]
  /\ exit_code = [i \in Slots |-> 0]
  /\ next_pid = 1
  /\ report = Silent
Init ==
  /\ pid = [i \in Slots |-> IF i = 0 THEN 1 ELSE 0]
  /\ name = [i \in Slots |-> IF i = 0 THEN init ELSE NoName]
  /\ state = [i \in Slots |-> IF i = 0 THEN RUNNING ELSE EMPTY]
  /\ parent_pid = [i \in Slots |-> 0]
  /\ exit_code = [i \in Slots |-> 0]
  /\ next_pid = 2
  /\ report = Silent

\* i is the slot a loop finds that stops at the first entry with this pid;
\* the pid 0 is the mark of a free entry.
Finds(p, i) == pid[i] = p /\ \A j \in Slots : pid[j] = p => i <= j
Missing(p) == \A i \in Slots : pid[i] # p

\* proc_write_dec takes a uint64_t: -1 is printed as INT_MOD - 1.
Printed(n) == n % INT_MOD

\* What proc_list writes of an entry, and proc_get_info, which adds the exit code.
Row(i) ==
  [pid |-> pid[i], parent_pid |-> parent_pid[i], name |-> name[i], state |-> state[i]]
Info(i) ==
  [pid |-> pid[i], parent_pid |-> parent_pid[i], name |-> name[i], state |-> state[i],
   exit |-> Printed(exit_code[i])]

-----------------------------------------------------------------------------
NotFound(p) == Missing(p) /\ report' = Said("not found", p, <<>>) /\ UNCHANGED <<table, next_pid>>

\* A pid is used up whether or not there is a free entry.
SpawnUsesPid(n) ==
  /\ next_pid' = next_pid + 1
  /\ \/ \E i \in Slots :
          /\ Finds(0, i)
          /\ pid' = [pid EXCEPT ![i] = next_pid]
          /\ name' = [name EXCEPT ![i] = n]
          /\ state' = [state EXCEPT ![i] = READY]
          /\ parent_pid' = [parent_pid EXCEPT ![i] = 0]
          /\ exit_code' = [exit_code EXCEPT ![i] = 0]
          /\ report' = Said("spawned", next_pid, <<>>)
     \/ Missing(0) /\ report' = Said("not found", 0, <<>>) /\ UNCHANGED table
\* The exit code of the entry is not reset.
SpawnKeepsCode(n) ==
  \/ \E i \in Slots :
       /\ Finds(0, i)
       /\ pid' = [pid EXCEPT ![i] = next_pid]
       /\ next_pid' = next_pid + 1
       /\ name' = [name EXCEPT ![i] = n]
       /\ state' = [state EXCEPT ![i] = READY]
       /\ parent_pid' = [parent_pid EXCEPT ![i] = 0]
       /\ report' = Said("spawned", next_pid, <<>>)
       /\ UNCHANGED exit_code
  \/ NotFound(0)
proc_spawn(n) ==
  \/ \E i \in Slots :
       /\ Finds(0, i)
       /\ pid' = [pid EXCEPT ![i] = next_pid]
       /\ next_pid' = next_pid + 1
       /\ name' = [name EXCEPT ![i] = n]
       /\ state' = [state EXCEPT ![i] = READY]
       /\ parent_pid' = [parent_pid EXCEPT ![i] = 0]
       /\ exit_code' = [exit_code EXCEPT ![i] = 0]
       /\ report' = Said("spawned", next_pid, <<>>)
  \/ NotFound(0)

\* A kill that frees the entry.
KillFrees(p) ==
  \/ \E i \in Slots :
       /\ Finds(p, i)
       /\ pid' = [pid EXCEPT ![i] = 0]
       /\ state' = [state EXCEPT ![i] = TERMINATED]
       /\ exit_code' = [exit_code EXCEPT ![i] = -1]
       /\ report' = Said("killed", p, <<>>)
       /\ UNCHANGED <<name, parent_pid, next_pid>>
  \/ NotFound(p)
proc_kill(p) ==
  \/ \E i \in Slots :
       /\ Finds(p, i)
       /\ state' = [state EXCEPT ![i] = TERMINATED]
       /\ exit_code' = [exit_code EXCEPT ![i] = -1]
       /\ report' = Said("killed", p, <<>>)
       /\ UNCHANGED <<pid, name, parent_pid, next_pid>>
  \/ NotFound(p)

proc_get_info(p) ==
  \/ \E i \in Slots :
       /\ Finds(p, i)
       /\ report' = Said("info", p, <<Info(i)>>)
       /\ UNCHANGED <<table, next_pid>>
  \/ NotFound(p)

\* The entries in use, in table order: the k-th has k of them up to it.
Used == {i \in Slots : pid[i] # 0}
Listed ==
  [k \in 1 .. Cardinality(Used) |->
     CHOOSE i \in Used : Cardinality({j \in Used : j <= i}) = k]
proc_list ==
  /\ report' = Said("list", 0, [k \in DOMAIN Listed |-> Row(Listed[k])])
  /\ UNCHANGED <<table, next_pid>>

\* PROC_SIGNAL and every type that is not known.
Default == report' = Silent /\ UNCHANGED <<table, next_pid>>

Next ==
  \/ \E n \in Name : proc_spawn(n)
  \/ \E p \in 0 .. MAX_PROCESSES + 1 : proc_kill(p)
  \/ \E p \in 0 .. MAX_PROCESSES + 1 : proc_get_info(p)
  \/ proc_list
  \/ Default

Spec == Init /\ [][Next]_vars

-----------------------------------------------------------------------------
\* Type invariant; the report is what the refinement is about.
TypeOK ==
  /\ pid \in [Slots -> 0 .. MAX_PROCESSES]
  /\ name \in [Slots -> Name \union {NoName}]
  /\ state \in [Slots -> {EMPTY, READY, RUNNING, TERMINATED}]
  /\ parent_pid \in [Slots -> {0}]
  /\ exit_code \in [Slots -> {0, -1}]
  /\ next_pid \in 1 .. MAX_PROCESSES + 1

\* A pid is given once: the entries in use are the first ones, entry i holds
\* process i + 1, and the counter stops when the table is full.  So a search
\* for a pid (proc_kill, proc_get_info) finds the process that was given it.
PidsGivenOnce ==
  \A i \in Slots : pid[i] = IF i + 1 < next_pid THEN i + 1 ELSE 0

\* Whatever a kill of the pid 0 left in a free entry, a process in the table is
\* dead exactly if its exit code is -1.
DeadHasCode ==
  \A i \in Slots : pid[i] # 0 => (state[i] = TERMINATED <=> exit_code[i] = -1)

IInv == TypeOK /\ PidsGivenOnce /\ DeadHasCode

\* The table implements the numbered processes of ProcTable.  proc_kill and
\* proc_get_info of the pid 0 find a free entry and report on it: to a client
\* that is the same as a process that does not exist.
PT == INSTANCE ProcTable WITH
        MaxProcs <- MAX_PROCESSES,
        procs <- [p \in 1 .. next_pid - 1 |->
                    [name |-> name[p - 1], killed |-> state[p - 1] = TERMINATED]],
        known <- IF report.said = "not found" THEN 0 ELSE report.of,
        lines <- IF report.said = "info" /\ report.of = 0 THEN <<>> ELSE
                 [k \in DOMAIN report.lines |->
                    [pid |-> report.lines[k].pid, name |-> report.lines[k].name,
                     killed |-> report.lines[k].state = TERMINATED]]
IsProcTable == PT!PSpec
=============================================================================
