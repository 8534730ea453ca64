---------------------------- MODULE ReadyQueues ----------------------------
(***************************************************************************)
(* What the scheduler of kernel/src/sched.c promises, without its linked   *)
(* lists: one FIFO queue of tasks per priority level.  The CPU starts with *)
(* the first task of the highest nonempty level and from then on takes its *)
(* tasks from the front of that level's queue.                             *)
(***************************************************************************)
EXTENDS Integers, Sequences, SequencesExt

CONSTANTS Task, Level, NoTask

VARIABLES
  queue,  \* queue[l]: the tasks waiting at level l, first to run first
  cpu,    \* the task on the CPU, NoTask before the start
  level   \* the level the CPU serves, once started
avars == <<queue, cpu, level>>

Waiting(t) == \E l \in Level : t \in ToSet(queue[l])

AInit == queue = [l \in Level |-> <<>>] /\ cpu = NoTask /\ level = 0

\* A task is created or woken: it goes to the back of one queue.
Add(t, l) ==
  /\ ~Waiting(t)
  /\ queue' = [queue EXCEPT ![l] = Append(@, t)]
  /\ UNCHANGED <<cpu, level>>

\* Before the start a waiting task may change levels: it goes to the back.
Move(t, from, to) ==
  /\ cpu = NoTask /\ from # to
  /\ \E k \in DOMAIN queue[from] :
       /\ queue[from][k] = t
       /\ queue' = [queue EXCEPT ![from] = RemoveAt(@, k), ![to] = Append(@, t)]
  /\ UNCHANGED <<cpu, level>>

Start(l) ==
  /\ cpu = NoTask
  /\ queue[l] # <<>> /\ \A h \in Level : h > l => queue[h] = <<>>
  /\ cpu' = Head(queue[l])
  /\ level' = l
  /\ queue' = [queue EXCEPT ![l] = Tail(@)]

\* The CPU goes to the first waiting task; its old task goes to the back of
\* the queue or, when it blocks, into none.
Dispatch(requeue) ==
  /\ cpu # NoTask /\ queue[level] # <<>>
  /\ cpu' = Head(queue[level])
  /\ queue' = [queue EXCEPT ![level] =
                 IF requeue THEN Append(Tail(@), cpu) ELSE Tail(@)]
  /\ UNCHANGED level

ANext ==
  \/ \E t \in Task, l \in Level : Add(t, l)
  \/ \E t \in Task, from, to \in Level : Move(t, from, to)
  \/ \E l \in Level : Start(l)
  \/ \E requeue \in BOOLEAN : Dispatch(requeue)

ASpec == AInit /\ [][ANext]_avars
=============================================================================
