------------------------------- MODULE Sched -------------------------------
(***************************************************************************)
(* The task scheduler (kernel/src/sched.c) and the timer interrupt that    *)
(* drives it (kernel/src/timer.c).                                         *)
(*                                                                         *)
(* One kernel control flow calls the operations task_create_priority,      *)
(* task_set_priority, task_yield, task_sleep, task_wake and sched_start;   *)
(* each is one action.  The timer interrupt comes in between: its handler  *)
(* runs with interrupts masked, so while irq # 0 no other action is taken. *)
(* The handler's loop over the slots (sched_tick) is one step per slot.    *)
(***************************************************************************)
EXTENDS Integers, Sequences, FiniteSets

CONSTANTS
  TASK_MAX,           \* slots of tasks[], slot 0 is never used
  TASK_PRIORITY_MAX,  \* priorities are 0 .. TASK_PRIORITY_MAX
  MAX_SLEEP,          \* bound: the longest sleep a caller asks for
  TICK_MOD            \* the width of tick_count (2^64 in the code)

ASSUME SchedConstants ==
  /\ TASK_MAX \in Nat /\ TASK_MAX >= 2
  /\ TASK_PRIORITY_MAX \in Nat /\ TASK_PRIORITY_MAX >= 1
  /\ MAX_SLEEP \in Nat
  /\ TICK_MOD \in Nat /\ TICK_MOD >= 1

TASK_PRIORITY_NORMAL == 1

Slots == 0 .. TASK_MAX - 1
TaskSlots == 1 .. TASK_MAX - 1
Prios == 0 .. TASK_PRIORITY_MAX
States == {"EMPTY", "READY", "RUNNING", "BLOCKED"}  \* TERMINATED is never assigned

VARIABLES
  id, state, priority, wake_time,  \* fields of tasks[i]
  rq,                              \* tasks[i].next, ready_queue_head, ready_queue_tail
  current_task, task_counter, scheduler_running,
  tick_count,
  irq,     \* 0: no timer interrupt in service; i in TaskSlots: sched_tick is
           \* at slot i; TASK_MAX: sched_tick is done, task_yield is next
  owed     \* ghost: timer interrupts until the sleep last asked for is over

taskVars == <<id, state, priority, wake_time>>
vars == <<id, state, priority, wake_time, rq, current_task, task_counter,
          scheduler_running, tick_count, irq, owed>>

-----------------------------------------------------------------------------
(* The ready queues: linked lists threaded through tasks[i].next.          *)

\* tasks[i].next = 0
Clear(q, i) == [q EXCEPT !.next[i] = 0]

\* A Link that forgets to move the tail.
LinkKeepsTail(q, p, i) ==
  IF q.head[p] = 0
  THEN [q EXCEPT !.head[p] = i, !.tail[p] = i]
  ELSE [q EXCEPT !.next[q.tail[p]] = i]

\* Append slot i to the list of priority p; the link of i itself is untouched.
Link(q, p, i) ==
  IF q.head[p] = 0
  THEN [q EXCEPT !.head[p] = i, !.tail[p] = i]
  ELSE [q EXCEPT !.next[q.tail[p]] = i, !.tail[p] = i]

\* Enqueue as task_create_priority, task_wake and task_yield write it.
EnqueueStaleNext(q, p, i) == Link(q, p, i)
Enqueue(q, p, i) == Link(Clear(q, i), p, i)

\* The head leaves the list of priority p; its own next keeps its value.
Pop(q, p) ==
  LET h == q.next[q.head[p]]
  IN  [q EXCEPT !.head[p] = h, !.tail[p] = IF h = 0 THEN 0 ELSE @]

\* i is the slot a search that goes on to the last member of c finds.
LastMatch(c, i) == i \in c /\ \A j \in c : i >= j
\* i is the slot a loop "for (i = 1; ...)" that stops at the first member of c finds.
First(c, i) == i \in c /\ \A j \in c : i <= j

\* "Remove from old priority queue" in task_set_priority: when i is not the
\* head, the first slot whose next is i, in whatever list, is its predecessor.
FirstOf(c) == CHOOSE i \in c : First(c, i)
LinksTo(q, i) == {j \in TaskSlots : q.next[j] = i}
SkipOver(q, p, i, j) ==
  [q EXCEPT !.next[j] = q.next[i], !.tail[p] = IF @ = i THEN j ELSE @]
Unlink(q, p, i) ==
  IF q.head[p] = i
  THEN [q EXCEPT !.head[p] = q.next[i], !.tail[p] = IF @ = i THEN 0 ELSE @]
  ELSE IF LinksTo(q, i) = {} THEN q ELSE SkipOver(q, p, i, FirstOf(LinksTo(q, i)))

\* "Remove from old priority queue", "Add to new priority queue".
Requeue(q, old, p, i) == Clear(Link(Unlink(q, old, i), p, i), i)

\* if (priority > TASK_PRIORITY_MAX) priority = TASK_PRIORITY_MAX
Clip(prio) == IF prio > TASK_PRIORITY_MAX THEN TASK_PRIORITY_MAX ELSE prio

-----------------------------------------------------------------------------
(* sched_init *)
Init ==
  /\ id = [i \in Slots |-> 0]
  /\ state = [i \in Slots |-> "EMPTY"]
  /\ priority = [i \in Slots |-> TASK_PRIORITY_NORMAL]
  /\ wake_time = [i \in Slots |-> 0]
  /\ rq = [next |-> [i \in Slots |-> 0],
           head |-> [p \in Prios |-> 0], tail |-> [p \in Prios |-> 0]]
  /\ current_task = 0
  /\ task_counter = 1
  /\ scheduler_running = FALSE
  /\ tick_count = 0
  /\ irq = 0
  /\ owed = [i \in Slots |-> 0]

TaskCreatePriority(prio) ==
  /\ irq = 0
  /\ \E slot \in TaskSlots :
       /\ First({i \in TaskSlots : state[i] = "EMPTY"}, slot)
       /\ id' = [id EXCEPT ![slot] = task_counter]
       /\ state' = [state EXCEPT ![slot] = "READY"]
       /\ wake_time' = [wake_time EXCEPT ![slot] = 0]
       /\ priority' = [priority EXCEPT ![slot] = Clip(prio)]
       /\ rq' = Enqueue(rq, Clip(prio), slot)
  /\ task_counter' = task_counter + 1
  /\ UNCHANGED <<current_task, scheduler_running, tick_count, irq, owed>>

TaskSetPriority(t, prio) ==
  /\ irq = 0
  /\ \E i \in TaskSlots :
       /\ First({j \in TaskSlots : id[j] = t}, i)
       /\ priority[i] # Clip(prio)
       /\ priority' = [priority EXCEPT ![i] = Clip(prio)]
       /\ rq' = Requeue(rq, priority[i], Clip(prio), i)
  /\ UNCHANGED <<id, state, wake_time, current_task, task_counter,
                 scheduler_running, tick_count, irq, owed>>

\* The body of task_yield, called by a task and by timer_handler.  A caller
\* that is not RUNNING (it was dispatched by task_yield or task_sleep, which
\* never set the state) is not put back.
YieldKeepsRunning ==
  LET prio == priority[current_task]
  IN  IF scheduler_running /\ current_task # 0 /\ rq.head[prio] # 0
      THEN /\ current_task' = rq.head[prio]
           /\ rq' = IF state[current_task] = "RUNNING"
                    THEN Enqueue(Pop(rq, prio), prio, current_task) ELSE Pop(rq, prio)
           /\ UNCHANGED state
      ELSE UNCHANGED <<current_task, rq, state>>

YieldAnyPriority ==
  LET prio == IF \E p \in Prios : rq.head[p] # 0
              THEN CHOOSE p \in Prios : rq.head[p] # 0 ELSE priority[current_task]
  IN  IF scheduler_running /\ current_task # 0 /\ rq.head[prio] # 0
      THEN IF state[current_task] = "RUNNING"
           THEN /\ state' = [state EXCEPT ![current_task] = "READY"]
                /\ rq' = Enqueue(Pop(rq, prio), prio, current_task)
                /\ current_task' = rq.head[prio]
           ELSE /\ rq' = Pop(rq, prio)
                /\ current_task' = rq.head[prio]
                /\ UNCHANGED state
      ELSE UNCHANGED <<current_task, rq, state>>

Yield ==
  LET prio == priority[current_task]
  IN  IF scheduler_running /\ current_task # 0 /\ rq.head[prio] # 0
      THEN IF state[current_task] = "RUNNING"
           THEN /\ state' = [state EXCEPT ![current_task] = "READY"]
                /\ rq' = Enqueue(Pop(rq, prio), prio, current_task)
                /\ current_task' = rq.head[prio]
           ELSE /\ rq' = Pop(rq, prio)
                /\ current_task' = rq.head[prio]
                /\ UNCHANGED state
      ELSE UNCHANGED <<current_task, rq, state>>

TaskYield ==
  /\ irq = 0
  /\ Yield
  /\ UNCHANGED <<id, priority, wake_time, task_counter, scheduler_running,
                 tick_count, irq, owed>>

\* With nobody ready at its priority the caller stays current, BLOCKED, and
\* the call returns.
TaskSleep(ms) ==
  /\ irq = 0
  /\ scheduler_running /\ current_task # 0
  /\ state' = [state EXCEPT ![current_task] = "BLOCKED"]
  /\ wake_time' = [wake_time EXCEPT ![current_task] = ms]
  /\ owed' = [owed EXCEPT ![current_task] = ms]
  /\ LET prio == priority[current_task]
     IN  IF rq.head[prio] = 0
         THEN UNCHANGED <<current_task, rq>>
         ELSE current_task' = rq.head[prio] /\ rq' = Pop(rq, prio)
  /\ UNCHANGED <<id, priority, task_counter, scheduler_running, tick_count, irq>>

\* The body of task_wake, called by a task and by sched_tick.
Wake(t) ==
  LET blocked == {i \in TaskSlots : id[i] = t /\ state[i] = "BLOCKED"}
  IN  IF blocked = {}
      THEN UNCHANGED <<state, wake_time, rq>>
      ELSE \E i \in TaskSlots :
             /\ First(blocked, i)
             /\ state' = [state EXCEPT ![i] = "READY"]
             /\ wake_time' = [wake_time EXCEPT ![i] = 0]
             /\ rq' = Enqueue(rq, priority[i], i)

TaskWake(t) ==
  /\ irq = 0
  /\ Wake(t)
  /\ UNCHANGED <<id, priority, current_task, task_counter, scheduler_running,
                 tick_count, irq, owed>>

SchedStart ==
  /\ irq = 0
  /\ ~scheduler_running  \* kmain calls it once
  /\ \E p \in Prios :
       /\ rq.head[p] # 0
       /\ \A hp \in Prios : hp > p => rq.head[hp] = 0
       /\ scheduler_running' = TRUE
       /\ current_task' = rq.head[p]
       /\ rq' = Pop(rq, p)
       /\ state' = [state EXCEPT ![rq.head[p]] = "RUNNING"]
  /\ UNCHANGED <<id, priority, wake_time, task_counter, tick_count, irq, owed>>

-----------------------------------------------------------------------------
(* timer_handler: tick_count++, sched_tick(), task_yield()                 *)

TimerInterrupt ==
  /\ irq = 0
  /\ tick_count' = (tick_count + 1) % TICK_MOD
  /\ irq' = 1
  /\ UNCHANGED <<id, state, priority, wake_time, rq, current_task, task_counter,
                 scheduler_running, owed>>

\* One iteration of the loop of sched_tick.
SchedTickUnderflow ==
  /\ irq \in TaskSlots
  /\ IF state[irq] = "BLOCKED"
     THEN IF wake_time[irq] = 1
          THEN Wake(id[irq])
          ELSE /\ wake_time' = [wake_time EXCEPT ![irq] = @ - 1]
               /\ UNCHANGED <<state, rq>>
     ELSE UNCHANGED <<state, wake_time, rq>>
  /\ irq' = irq + 1
  /\ UNCHANGED <<id, priority, current_task, task_counter, scheduler_running, tick_count, owed>>

SchedTickEarly ==
  /\ irq \in TaskSlots
  /\ IF state[irq] = "BLOCKED" /\ wake_time[irq] > 0
     THEN IF wake_time[irq] <= 2
          THEN Wake(id[irq])
          ELSE /\ wake_time' = [wake_time EXCEPT ![irq] = @ - 1]
               /\ UNCHANGED <<state, rq>>
     ELSE UNCHANGED <<state, wake_time, rq>>
  /\ irq' = irq + 1
  /\ UNCHANGED <<id, priority, current_task, task_counter, scheduler_running, tick_count, owed>>

SchedTick ==
  /\ irq \in TaskSlots
  /\ IF state[irq] = "BLOCKED" /\ wake_time[irq] > 0
     THEN IF wake_time[irq] <= 1
          THEN Wake(id[irq])
          ELSE /\ wake_time' = [wake_time EXCEPT ![irq] = @ - 1]
               /\ UNCHANGED <<state, rq>>
     ELSE UNCHANGED <<state, wake_time, rq>>
  /\ irq' = irq + 1
  /\ UNCHANGED <<id, priority, current_task, task_counter, scheduler_running, tick_count, owed>>

TimerYield ==
  /\ irq = TASK_MAX
  /\ Yield
  /\ irq' = 0
  /\ owed' = [i \in Slots |-> IF owed[i] > 0 THEN owed[i] - 1 ELSE 0]
  /\ UNCHANGED <<id, priority, wake_time, task_counter, scheduler_running, tick_count>>

Timer == TimerInterrupt \/ SchedTick \/ TimerYield

-----------------------------------------------------------------------------
(* Callers that keep to the conditions under which the lists stay sound:   *)
(* priorities are set by boot code, before sched_start, and task_wake is   *)
(* called for a task other than the caller.  Nothing in the kernel calls   *)
(* either function another way.                                            *)
SetPriorityAtBoot(t, prio) == ~scheduler_running /\ TaskSetPriority(t, prio)
WakeOther(t) == t # id[current_task] /\ TaskWake(t)

Next ==
  \/ \E prio \in 0 .. TASK_PRIORITY_MAX + 1 : TaskCreatePriority(prio)
  \/ \E t \in TaskSlots, prio \in 0 .. TASK_PRIORITY_MAX + 1 : SetPriorityAtBoot(t, prio)
  \/ TaskYield
  \/ \E ms \in 0 .. MAX_SLEEP : TaskSleep(ms)
  \/ \E t \in TaskSlots : WakeOther(t)
  \/ SchedStart
  \/ Timer

Spec == Init /\ [][Next]_vars

\* Callers that use the interface of sched.h at any time, for ids that exist.
ApiNext ==
  \/ Next
  \/ \E t \in TaskSlots, prio \in 0 .. TASK_PRIORITY_MAX + 1 : TaskSetPriority(t, prio)
  \/ \E t \in TaskSlots : TaskWake(t)

ApiSpec == Init /\ [][ApiNext]_vars

-----------------------------------------------------------------------------
(* Type invariant: every field stays in its C type, and the slot indices   *)
(* kept in next, head, tail and current_task stay inside tasks[].          *)
TypeOK ==
  /\ id \in [Slots -> 0 .. TASK_MAX - 1]
  /\ state \in [Slots -> States]
  /\ priority \in [Slots -> Prios]
  /\ wake_time \in [Slots -> 0 .. MAX_SLEEP]
  /\ rq \in [next : [Slots -> Slots], head : [Prios -> Slots], tail : [Prios -> Slots]]
  /\ current_task \in Slots
  /\ task_counter \in 1 .. TASK_MAX
  /\ scheduler_running \in BOOLEAN
  /\ tick_count \in 0 .. TICK_MOD - 1
  /\ irq \in 0 .. TASK_MAX

\* The list of priority p in q holds exactly s[1] .. s[n], in this order,
\* each slot once.
IsList(q, p, n, s) ==
  /\ q.head[p] = IF n = 0 THEN 0 ELSE s[1]
  /\ q.tail[p] = IF n = 0 THEN 0 ELSE s[n]
  /\ \A k \in 1 .. n : q.next[s[k]] = IF k = n THEN 0 ELSE s[k + 1]
  /\ \A k, l \in 1 .. n : s[k] = s[l] => k = l

\* The list of level p is well formed and holds READY tasks of priority p,
\* none of them in out, and all of them if all.
GoodList(q, st, pr, out, all, p, n, s) ==
  /\ IsList(q, p, n, s)
  /\ \A k \in 1 .. n : st[s[k]] = "READY" /\ pr[s[k]] = p /\ s[k] \notin out
  /\ all => \A i \in TaskSlots : st[i] = "READY" /\ pr[i] = p => \E k \in 1 .. n : s[k] = i
GoodLists(q, st, pr, out, all) ==
  \A p \in Prios : \E n \in 0 .. TASK_MAX - 1 : \E s \in [1 .. n -> TaskSlots] :
    GoodList(q, st, pr, out, all, p, n, s)

\* Every ready queue is a well-formed list (no cycle, no sharing, tail at the
\* end) of READY tasks of its own priority; the task on the CPU is in none of
\* them outside the timer handler, and until sched_start every created task is
\* in one: what each of the copies of the enqueue and dequeue code in sched.c
\* relies on.
ReadyQueuesSound ==
  GoodLists(rq, state, priority, IF irq = 0 THEN {current_task} ELSE {}, ~scheduler_running)

\* Only the task on the CPU is RUNNING (task_yield and task_sleep move
\* current_task without looking at any other task's state).
RunningIsCurrent == \A i \in Slots : state[i] = "RUNNING" => i = current_task

\* sched.c stores slot numbers where its types say task_id_t (next, head,
\* current_task) and compares ids with ids: the two agree, slots are filled in
\* order and never reused.
IdsAreSlots ==
  \A i \in TaskSlots : IF i < task_counter THEN id[i] = i /\ state[i] # "EMPTY"
                                           ELSE id[i] = 0 /\ state[i] = "EMPTY"

\* The CPU belongs to a created task from sched_start on, to none before.
CurrentCreated ==
  /\ state[0] = "EMPTY"
  /\ IF scheduler_running THEN current_task \in 1 .. task_counter - 1 ELSE current_task = 0

\* Until sched_start nothing runs or blocks, and free slots link to nothing.
BootSlots ==
  ~scheduler_running =>
    \A i \in TaskSlots : state[i] = "READY" \/ (state[i] = "EMPTY" /\ rq.next[i] = 0)

\* The inductive invariant of the proofs.
IInv ==
  /\ TypeOK /\ IdsAreSlots /\ RunningIsCurrent
  /\ CurrentCreated /\ BootSlots /\ ReadyQueuesSound

\* After sched_start the CPU never leaves the priority level it started with,
\* whatever is ready at a higher or a lower level: task_yield and task_sleep
\* look at the caller's own queue only.
OneLevelRuns ==
  [][scheduler_running => priority'[current_task'] = priority[current_task]]_vars

\* The count that task_sleep starts and sched_tick takes down: behind the slot
\* sched_tick has reached it is one lower than before the interrupt, and whose
\* count was 1 there no longer sleeps.
SleepCounted ==
  /\ owed \in [Slots -> 0 .. MAX_SLEEP]
  /\ \A i \in TaskSlots : state[i] = "BLOCKED" =>
       /\ i >= irq \/ owed[i] = 0 => wake_time[i] = owed[i]
       /\ i < irq /\ owed[i] > 0 => owed[i] > 1 /\ wake_time[i] = owed[i] - 1

\* A task that sleeps for n ticks is woken by the n-th timer interrupt after the
\* call, neither by an earlier one nor by none at all, whoever else is woken,
\* created, put to sleep or dispatched in the meantime; a sleep of 0 ticks is
\* never ended by the timer.
SleepsAsAsked ==
  [][\A i \in TaskSlots : state[i] = "BLOCKED" =>
       /\ irq # 0 /\ state'[i] = "READY" => owed[i] = 1
       /\ irq = TASK_MAX => owed[i] # 1]_vars

\* The slots met along the links of list p of q, 0 behind its end, and the queue
\* they make.
Walk(q, p) ==
  LET at[k \in 1 .. TASK_MAX] ==
        IF k = 1 THEN q.head[p] ELSE IF at[k - 1] = 0 THEN 0 ELSE q.next[at[k - 1]]
  IN  at
QueueOf(q, p) ==
  LET at == Walk(q, p)
  IN  [k \in 1 .. Cardinality({j \in 1 .. TASK_MAX : at[j] # 0}) |-> at[k]]
Queue(p) == QueueOf(rq, p)
Queued(i, p) == \E k \in DOMAIN Queue(p) : Queue(p)[k] = i

\* The ready queues implement one FIFO queue per priority level: entries leave
\* from the front only and join at the back only, task_set_priority moves an
\* entry, and the CPU is given to the front of its own level's queue.
RQ == INSTANCE ReadyQueues WITH
        Task <- TaskSlots, Level <- Prios, NoTask <- 0,
        queue <- [p \in Prios |-> Queue(p)],
        cpu <- current_task,
        level <- IF scheduler_running THEN priority[current_task] ELSE 0
FifoPerLevel == RQ!ASpec

\* Round robin: a READY task is on the CPU or waits in a ready queue.
ReadyIsQueued ==
  irq = 0 => \A i \in TaskSlots :
    state[i] = "READY" => i = current_task \/ \E p \in Prios : Queued(i, p)

\* task_set_priority moves a task: it is in no queue but that of its priority.
InOwnQueueOnly ==
  \A i \in TaskSlots, p \in Prios : Queued(i, p) => priority[i] = p
=============================================================================
