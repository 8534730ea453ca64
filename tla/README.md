# Verification of the Aegis kernel

TLA+ models of the Aegis microkernel, its drivers and its servers, the TLC runs
that check them on small instances, and TLAPS proofs, for every value of the
constants, of all the safety properties the passing runs check. Paths are
relative to the repository (`kernel/src/sched.c` is `src/kernel/src/sched.c` in `PROJECT.json`), whose
`map` names the lines each definition stands for.

## 1. Inventory

| Component | State | Operations | Used by / uses | What makes it correct |
|---|---|---|---|---|
| scheduler `kernel/src/sched.c` | `tasks[64]`, one linked ready queue per priority, `current_task`, `task_counter`, `scheduler_running` | `sched_init`, `task_create(_priority)`, `task_set_priority`, `task_yield`, `task_sleep`, `task_wake`, `sched_tick`, `sched_start` | boot, timer interrupt | queues are sound lists of READY tasks; FIFO per level; a sleeper wakes at its tick; nobody is lost |
| timer `kernel/src/timer.c` | `tick_count` | `timer_handler` (count, `sched_tick`, `task_yield`) | `irq_handler`; calls scheduler | every tick reaches every sleeper |
| IPC endpoints `kernel/src/ipc.c` | `endpoints[64]`: `used`, `has_pending`, one `pending` message | `ipc_init`, `ipc_endpoint_create`, `ipc_send`, `ipc_recv` | tasks, servers | a sent message is received whole, once, in order |
| keyboard `kernel/src/keyboard.c` | ring of 256 keys, shift, caps, ctrl, alt | `keyboard_handler` (interrupt), `keyboard_has_key`, `keyboard_get_key` | `irq_handler`; one reader | no key twice, torn or out of order; modifiers follow the keys |
| vfs server `servers/vfs/vfs.c` | `file_table` (name, data, size, used) | read, write, create, delete, truncate, stat, readdir, open, close, seek | clients over IPC | an operation changes the file it names and no other; reads return what is there |
| memory manager `kernel/src/mm.c` | bump heap, `next_phys_page`, page tables, VMA lists | `mm_alloc`, `mm_phys_alloc`, `mm_page_map/unmap/walk/protect`, `mm_vma_*` | everyone who allocates | regions disjoint; a mapping is found again |
| interrupt dispatch `kernel/src/idt.c`, `isr.asm` | IDT, PIC masks | `idt_init`, `isr_handler`, `irq_handler` | timer, keyboard | the handler of the device that interrupted runs, and the interrupt is acknowledged |
| syscall `kernel/src/syscall.c` | none | `syscall_dispatch` (always -1) | servers | - |
| ELF loader, ramdisk, boot (`elf.c`, `ramdisk.c`, `main.c`, `*.asm`, `scripts/mkramdisk.*`) | the image, what is in memory at the servers' addresses | build the image; `kmain`, find, load | uses mm, scheduler | the directory is read as it was written; what is loaded is what was built |
| virtio block and network (`virtio_blk.c`, `virtio_net.c`) | descriptor rings, indices, ready flags | submit and poll; send, receive, interrupt | device; heap | a request is answered before it is reported done; packets keep order and length; a lone block request is released |
| init, proc, shell, console servers (`servers/`) | process table; command line | message loops | IPC | ids and endpoints are those the others assume |
| kernel console, string helpers | cursor; none | output, copies | everyone | - |

What is hard here, and where (the `hazards` of `PROJECT.json` give the lines):

- **Interleaving.** IPC takes no lock and is called by preemptible tasks; the
  keyboard interrupt runs inside `keyboard_get_key`; the timer interrupt runs
  between scheduler calls and relinks the queues one task at a time.
- **Stale state.** A task that leaves a queue keeps its `next`; a deleted file
  keeps its bytes; a cached `has_key` answer is used later.
- **Sequences of legal calls.** Yielding twice after a dispatch, setting a
  priority after a sleep, sleeping with nobody ready, creating a long path twice.
- **Limits and wrap-around.** A full ring, 64 used endpoints, a countdown at 1
  and at 0, a file offset past the end, ids past a full table, ring indices of 16
  bits, a heap that only shrinks.
- **Devices.** A virtio device answers late, and its interrupt says neither which
  queue it is about nor how often it has been raised.
- **Liveness.** Callers that poll. Little can be promised to sleepers, queued tasks
  and pending messages: see below and Fairness.

### How the code executes

The models rest on these facts about the build.

- Interrupt gates (type 0x8E) mask interrupts: a handler is never interrupted.
- `task_yield` and `task_sleep` load another stack pointer inside a C function;
  the function's epilogue restores its own frame, so the call returns to its
  caller and one kernel control flow makes all scheduler calls. `Sched`
  therefore tracks `current_task`, states and queues, not stacks.
- No code executes `sti`, and `irq_handler` takes the interrupt number from the
  saved `r15`. The models let interrupts come and reach their
  handlers, which is what the rest of the code (and the documentation's
  preemptive scheduling) is written for. They also let `virtio_net_handle_irq` run,
  which nothing calls yet. No property assumes that one ever comes. Dispatch itself is in
  the plan.

## 2. Modules

```
Sched ----refines----> ReadyQueues      MCSched, SchedProofs
Ipc ------refines----> Mailbox          MCIpc, IpcProofs
Keyboard -refines----> KeyQueue         MCKeyboard, KeyboardProofs
Vfs ------refines----> FileStore        MCVfs, VfsProofs
Proc -----refines----> ProcTable        MCProc, ProcProofs
Shell ----refines----> LineEditor       MCShell, ShellProofs
Virtio = VirtioBlk | VirtioNet, both over VirtioDev     MCVirtio, VirtioProofs
Boot   = Mm + Ramdisk + kmain and the ELF loader        MCBoot, BootProofs
```

Operators that mutate a definition (`LinkKeepsTail`, `SendCheckUsedOnly`, ...)
stand before the definition they are a wrong version of. No specification uses
them; they are there to see each property fail.

### Sched

State: the fields of `tasks[]` as functions over slots, the links together with
the heads and tails in one record `rq`, and the scheduler's variables. `irq`
says where the timer handler is: 0 outside it, `i` when the loop of `sched_tick`
is at slot `i`, `TASK_MAX` before its `task_yield`. While `irq # 0` nothing else
steps. Every call of `sched.h` is one action. The list operations (`Enqueue`,
`Pop`, `Unlink`, `Requeue`) are the assignments the C code repeats in several
functions; they are functions from one `rq` to the next, so that the proofs can
reason about one at a time. `owed` is history: the ticks a sleeper still has to wait.

Callers: `Next` lets every caller do everything `sched.h` offers, except that
priorities are set before `sched_start` and a task is not woken by itself.
`ApiNext` drops both restrictions; what then goes wrong is the run
`sched_set_priority`.

### Ipc

Each task is inside at most one call; `pc` is its place in it, `ep` its
argument (or, in `ipc_endpoint_create`, the loop index), `msg` its buffer. A
call is a sequence of steps with other tasks running in between; the structure
copy is two steps, so that a torn message can be told from a whole one. `sent`
and `taken` number the messages for which a call returned 0.

Callers: one task creates the endpoints, and each endpoint has one sender and
one receiver (`MaySend`, `MayRecv`). This is an assumption, and all that is checked
and proved of IPC rests on it: two senders can both find `has_pending` clear, both
return 0, and one message is gone; two receivers can both get the same message. Not
all of the repository keeps to it: init and proc write to the console under a fixed
id (`init.c:43`, `proc.c:93`), and a server with several clients has several senders.
Before an endpoint's id is known only the creator may name it, so that a send between
`ipc.c:26` and `:27`, which would be wiped, does not happen here; ids out of range may
be tried by all.

### Keyboard

`keyboard_handler` is one step (it runs masked) and may come between any two of
the three steps of `keyboard_get_key`. `down` is the environment: the keys held,
from which press, repeat and release follow. The two scancode tables have the
entries of the keys in `TableKeys`, as the C initialisers place them.

### Vfs

The server handles a message at a time, so a handler is one action. A byte is
the part of a message it came from (its path, its payload, or zero): enough to
tell whose bytes a file shows. `Stored` is the truncation to 63 characters done
by `strncpy`.

A request carries two 64-bit words of the client, an offset and a length, of any
value (`Words`); `Clip` adds and subtracts them modulo `WORD`, as the C code does. A
length can so come out of the clipping larger than what is left of the file, or
unclipped when the sum has wrapped. `WriteAstray` is a copy that then leaves the data of
its entry: it hits names, sizes and `used` of this and other entries, in the order of
the fields of `file_entry_t`. A read may answer with bytes that are not the file's
(`Outside`), or with more than a reply has room for (`ReadPastReply`). After a write
astray or such a read the server is `"spoiled"`: what it does next depends on what was
hit, or it stops in `isr_handler`, and its later requests are not followed. `wild` notes
whether the last request asked for bytes that are not there (`MayRead`, `MayWrite`).

### Proc

The process table, one action per request. The reply sends the request back, so
that all a client can learn is what the server writes to the console; `report`
keeps that. Killing never frees an entry, so the table is full after
`MAX_PROCESSES - 1` spawns for good. `proc_kill(0)` and `proc_get_info(0)` match
a free entry, whose pid is 0: the first marks it terminated although it is empty.
The next spawn overwrites that (`DeadHasCode`), and `ProcTable` cannot tell it
from a pid that does not exist. `parent_pid` is 0 for every process, which the
comment calls init; init has the pid 1.

### Shell

One key per message, one action per branch of `shell_main`. `cmd_buffer` keeps its
cells and its terminating NUL; `screen` is what a terminal shows behind the
prompt. `shell_parse_cmd` is the pointer walk of the code, over blanks and over
words; `LineEditor` defines the words of a line without it, from where a stretch
of non-blanks begins and ends. A tab is a blank to the parser but never gets
into the line.

### VirtioDev, VirtioBlk, VirtioNet, Virtio

The kernel never starts a driver itself; `Virtio` starts either of them, on a
device with any registers. `VirtioDev` has what they share: the checks of the
registers and a queue as its two 16-bit indices. The device is external: it takes
what is posted in order and answers when it likes, in the layout the drivers
expect; the way they tell it where the queue is, the status and feature registers
and the direction flags are left out.

`Accepts` shows that the drivers only take a device whose magic register reads 0:
they compare it with the offset of that register (`virtio_blk.c:123`), so a real
device, whose magic is `VIRTIO_MAGIC`, is refused. Everything behind the check is
reached by the others. The MMIO pointer is set before the check, so that a refused
block device is still used, through a queue pointer that is NULL: `pc` is then
`"wild"` and the call may end either way.

`VirtioBlk`: several tasks call read, write and flush. Each fills descriptors 0 to 2
(`SubmitFill`), posts them (`SubmitPost`), polls (`Poll`) and looks at the status
(`Check`), with others in between. The status byte is `used.ring[0].id`, which the
device's answer also overwrites (with 0) whenever it falls on slot 0. `Poll` is the C
comparison: `avail.idx - 1` is an `int`. A read takes a request from the heap that
nobody gives back. Data are not modelled: no read copies any to its caller.

`VirtioNet`: one task sends and one receives; handler and device may come between
the steps of both. A received packet is copied in two halves, so that one overwritten
in between is seen to be torn; then its flag is cleared and the buffer posted again.
`HandleIrq` is the code's test of `used.idx > 0` for both queues at each interrupt.
Packets are numbers, so order, loss and repetition can be told; a received one also
has a length.

### Mm, Ramdisk, Boot

`Mm`: memory is counted in words, so that a page has as many words as a table has
entries; `mem` holds the page table entries. Functions that allocate on the way
(`page_table_get_entry`, `Descend`) take the state of memory and give the next one,
because they stop half way when the heap is empty. `heap_base` is chosen: nothing in
`mm.c` or the linker script aligns `heap_area` to a page, while its tables are
pointed to by page. The loop of `mm_init` is one step a page. `tables`, `log` and
`created` are history: tables handed out, entries written, and the root entries the
walks went through. `mm_phys_alloc` counts up from the address the kernel itself is
loaded at. Two things are left out: loading `cr3` (`mm.c:144`) does not change how memory
is reached afterwards, and memory outside the heap starts empty, where a frame that a
walk takes for a table may hold anything; the properties exempt the states where that
matters.

`Ramdisk`: the images of the two builders as functions of a directory.
`mkramdisk.py`, which the build uses, writes the size of the *last* file into each
entry and steps the offsets by it; `mkramdisk.c` puts the data behind the offset
past all files, so its entries point in front of them.

`Boot`: `kmain` up to the scheduler: `mm_init`, the test block, then for each server
the lookup and a step per program header. All servers are linked for 16 MiB, and
`elf_load` writes there, not to what it has allocated. After boot, calls of the memory
manager in any order, for the boots without a ramdisk only: loading a server changes
nothing there but the heap offset.

## 3. Runs

| Run | Checks | Bounds |
|---|---|---|
| `sched` | `TypeOK`, `ReadyQueuesSound`, `RunningIsCurrent`, `IdsAreSlots`, `FifoPerLevel`, `OneLevelRuns`, `SleepsAsAsked` | 3 tasks, 3 levels, sleeps of 0-2 ticks, `tick_count` modulo 2 |
| `ipc` | `TypeOK`, `ExactlyOnce`, `ReceivesWhole`, `CopyExclusive`, `IsMailbox` | a client and a server, request and reply endpoint, 3 messages each |
| `keyboard` | `TypeOK`, `HasKeyStands`, `ModifiersHeld`, `IsKeyQueue`, `DropsOnlyWhenFull` | ring of 3, one letter and all modifiers, 2 keys held |
| `vfs` | `TypeOK`, `NamesUnique`, `NothingOld`, `ServedInside`, `IsFileStore` | 2 entries of 2 bytes, an ordinary path and a long one that is cut to the third; words modulo 16, of which 0, 1, 2, 13 and 15 are sent; 1 byte in a message |
| `proc` | `TypeOK`, `PidsGivenOnce`, `DeadHasCode`, `IsProcTable` | 4 entries, pids 0 to 5 |
| `shell` | `TypeOK`, `Terminated`, `ScreenIsBuffer`, `IsLineEditor` | buffer of 6 cells, 2 words kept, 2 letters and the blank |
| `virtio` | `TypeOK`, `TxIntact`, `RxOnce`, `BlkAnswered`, `Released` | queues of 2, indices modulo 4, 2 callers, 2 blocks of heap, 5 packets sent, 4 received |
| `boot` | `TypeOK`, `RegionsDisjoint`, `MapsFound`, `LoadedIsBuilt` | tables of 2 entries, heap of 14 pages aligned and not, a frame outside the heap and one in it, 5 calls after boot; up to 3 files of 3 sizes |
| `sched_lost_task` | `ReadyIsQueued` fails | as `sched` |
| `sched_set_priority` | `InOwnQueueOnly` fails under `ApiSpec` | as `sched` |
| `keyboard_modifier_types` | `ModifiersAreSilent` fails | as `keyboard` |
| `boot_identity_map` | `IdentityMapped` fails | as `boot`, with the heap page aligned |

Why the bounds are enough. Three tasks give a list with a head, a middle and a
tail, which are the cases of every list operation, and leave a full table within
reach; three levels give a lower and a higher neighbour to the one that runs;
`tick_count` is read by nothing else. Two endpoints exhaust the table, and three
messages reuse an endpoint after a complete round. A ring of three is full with
two keys, wraps, and is drained during the wrap. Two files fill the table, so a
freed entry is reused at once; two bytes are one more than a message or a reply holds
here, and leave an offset at, inside and past the end. Of the words modulo 16, 13 and 15
make sums that wrap and copies that start in an entry's name or in the entry before. Four entries
leave room for a free entry, a killed one and a live one, and fill up; pid 0 and
pids past the table are asked for. Five characters hold three words, one more than
are kept, and two blanks in a row at the start, the end or in between. Indices modulo 4 wrap
after four requests and meet both slots twice before, and five packets go round and
past the wrap. The heap of 28 words has room, after `mm_init` and the test block, for
two tables with a map in each, and maps that share part of the way down; one more that
shares nothing fails half way. With five calls an entry of one table can be written
through, or cleared under, a walk of the other, which is where pages get lost. A size of
127 modulo 128 is the request that wraps. Three files of three sizes give directories whose
entries are right by accident, wrong, and pointing at another file. `vfs`, `virtio`
and `boot` have no deadlock check: the machine may really stop, and the bounds on
packets, blocks and calls end a behaviour.

What they show.

- **Scheduler.** With timer interrupts between any two calls, each call being one
  step, the queues stay sound lists, and they implement `ReadyQueues`: one FIFO queue
  per level, from whose front the CPU is taken. A task that sleeps for n ticks is woken
  by the n-th interrupt, one that sleeps for 0 by none. But only one level ever runs
  (`OneLevelRuns`): `task_yield` and `task_sleep` look at the caller's own
  queue, so no priority preempts another.
- **Lost task** (`sched_lost_task`). `task_yield` re-queues a caller only if it
  is RUNNING, and dispatching never sets that state. The first task that was
  dispatched by a yield is lost, READY and in no queue, at its own next yield.
- **Stale predecessor** (`sched_set_priority`). After a task has left a queue its
  link can be taken for the predecessor of the task being moved, which then
  stays in the old queue with the new priority.
- **IPC.** With one task at each end, `has_pending` alone keeps messages whole and
  each is received exactly once: an endpoint implements `Mailbox`. `ipc_recv`
  does not block, though `docs/architecture.md:35` and `docs/API.md:20` say so: on an
  empty endpoint it returns -2 at once (`ipc.c:56`, the first case of `RecvCheck`).
- **Keyboard.** The ring is a queue of size-1 keys whatever interrupts
  `keyboard_get_key`. The shifted table lacks its backspace entry, so that every
  later entry is one place off and modifier keys type characters
  (`keyboard_modifier_types`).
- **File server.** For paths that are stored whole the table implements
  `FileStore`, which leaves the bytes of a gap open because `delete` does not
  clear them; `NothingOld` says they are zero in an entry never used before. All this
  holds until a request asks for bytes that are not there: `ServedInside` says that
  nothing else makes a copy leave its file or its reply. The code does not refuse such
  a request.
- **Process server.** A pid names one process for ever, and listings show exactly
  the processes that were spawned, in order.
- **Shell.** At every length of the line, the full one included, the screen shows
  what is in the buffer, and what runs is the line cut into its words.

- **Virtio block.** A call that met an idle device and no other caller returns after
  its answer, with two exceptions the property names: the request that moves
  `avail.idx` to 0 returns at once, and a failure answered in used slot 0 is reported
  as success. With two callers at a time neither holds.
- **Virtio network.** Packets never overtake one another. Transmitting alone, or
  receiving alone, each packet goes through once; mixed, an interrupt for one queue
  announces the other's buffer again: a packet may be overwritten before it is sent, or
  received twice, torn or with an old length. A sender waits for `tx_ready`, which only
  the handler sets; nothing calls the handler, so in the kernel as it is the second send
  never ends.
- **Memory.** Regions never overlap until a request wraps `start + size`, which is
  granted and moves the heap back. A page that was mapped is found again with what
  was last written for it (`MapsFound`), except in five cases: another page of its table
  agrees with it in the last index, and the two are one entry; the heap is not page
  aligned, so that entries do not hold a table's whole address; a request has wrapped
  and tables overlap; a mapped frame lies in the heap, so that a walk takes a table for a
  table of another level (`mm_phys_alloc` starts at 1 MiB, where the kernel and its heap
  are); a page's last index is also a pml4 index in use, so that its entry is one that
  walks follow. The first and the last come from `mm.c:100`, which writes to the root
  table; `MapsFound` holds also if it is changed to write to the last table.
- **Identity map** (`boot_identity_map`). Of the map of the first 4 MiB that the comment
  at `mm.c:36` announces nothing is left: the entry of page 0 replaces the root's
  pointer to the next table, and all later pages fail. With the same change of
  `mm.c:100` the property holds.
- **Boot.** A server is loaded as itself exactly if the files before it in the
  directory have on average the size of the last one; otherwise another file may be
  loaded in its place, or none. With both loaded, only the later is left in memory.

### Fairness

One property needs any: `Released`, of the block driver. The device serves what is posted
(`BlkServe`, `BlkUsed`), and a caller that polls alone goes on with its loop of `pause`,
since nothing takes the CPU from it (`Poll` of a caller in `alone`); all weak. Nobody has
to call.

Nothing more is justified. No code executes `sti`, so the timer need never come; a
dispatched task is lost at its next yield, and tasks of other levels never run, so a task
in the middle of an IPC call need not go on; `virtio_net_handle_irq` has no caller. The
other models claim no liveness. That a sleeper is not forgotten is said of the ticks that
do come (`SleepsAsAsked`).

## 4. Proofs

Each proof module has one inductive invariant (`IInv`, or `BootInv` with `MapInv`), proved by one
lemma per action, and derives from it the properties of the component's run; the
refinements are then proved action by action. They hold for every value of the
constants that the named assumptions allow:

- `SchedConstants`, `IpcConstants`, `ProcConstants`, `KeyboardConstants`: sizes that
  are not too small for the code to mean anything.
- `VfsConstants`: a word holds more than `MAX_FILE_SIZE`, cutting a path twice is cutting
  it once, and the files made at start-up fit the table and have distinct names, as the three of `vfs_init_ramfs`
  (`vfs.c:321`) do.
- `ShellConstants`: NUL and tab are no characters of a line, `argv` has two places or
  more, names of builtins contain no blanks.
- `VirtioConstants`, `NetConstants`: the index wraps at a multiple of the queue's size
  (2^16 and a power of two in the code), a packet fits its buffer.
- `MmConstants`: `size_t` holds twice the heap and a page, the heap is not at the
  address 0, and the heap, the identity map and the frames callers map lie in memory.
  Nothing is assumed of the heap's alignment.
- `BootConstants`: names in a directory are distinct and sizes not 0, and the segments
  of an ELF file do not overlap, as its format has it.

**`SchedProofs`.** `SchedInv` proves the inductive invariant `IInv` of `Sched`,
from which follow `SchedTypeOK`, `SchedQueuesSound`, `SchedRunningIsCurrent`,
`SchedIdsAreSlots` and the action properties `SchedOneLevel` and `SchedSleepsAsAsked`. `ReadyQueuesSound` alone
is not inductive: appending needs the new slot to be in no list, which comes from
`IdsAreSlots` (a fresh slot), `RunningIsCurrent` (a BLOCKED or RUNNING task is not
queued) and `CurrentCreated`; moving a task at boot needs `BootSlots`, because
`task_set_priority` searches all slots for a predecessor and only while no task
has ever left a queue are there no stale links. `SleepCounted` relates `wake_time` to the
ticks a sleeper is owed, also while the loop of `sched_tick` has passed some slots only. A list is a witness sequence:
`GoodList(q, st, pr, out, all, p, n, s)` says that list `p` of `q` is `s[1..n]`.
The lemmas are about the list operations first (`EnqueueAppends`,
`PopRemovesFront`, `UnlinkDrops`, and what each leaves alone), then about all
lists together (`EnqueueGood`, `PopGood`, `MoveGood`), then one per action.
`SchedFifoPerLevel` proves the refinement of `ReadyQueues`: walking along the links of
a sound list meets its witness (`QueueIs`), so the queues of a state are determined,
and `Enqueue`, `Pop` and `Requeue` are `Append`, `Tail` and a move on them
(`QueuesEnqueue`, `QueuesPop`, `QueuesMove`).

**`IpcProofs`.** `IpcInv` proves `IInv` of `Ipc`; `IpcTypeOK`, `IpcExactlyOnce`,
`IpcReceivesWhole` and `IpcCopyExclusive` follow, and `IpcIsMailbox` proves that
`Ipc` implements `Mailbox`. The invariant says what a task knows at each place in a
call: past its check a sender owns a cleared flag and a receiver a raised one
(`SendAt`, `RecvAt`), the half copied so far is in place, and an endpoint not yet
handed out is empty (`EndpointAt`). Frame lemmas say which tasks and endpoints a
step cannot disturb; the step lemmas then treat the task that moves and the one at
the other end of its endpoint. In the refinement every step stutters but
`SendFlag`, which puts, and `RecvFlag`, which takes.

**`KeyboardProofs`.** `KeyboardInv`, then `KeyboardTypeOK`, `KeyboardHasKeyStands`,
`KeyboardModifiersHeld`. The invariant adds what `keyboard_get_key` knows between its
steps: the ring is not empty, and the key it has read is still the first. The handler
keeps both because it only writes at the tail, and only if that does not meet the
head. `KeyboardIsKeyQueue` (the ring, at any position of its indices, is a queue) and
`KeyboardDropsOnlyWhenFull` rest on what one step of an index modulo the size does to
the contents.

**`VfsProofs`.** `VfsInv`, then `VfsTypeOK`, `VfsServedInside`, `VfsNamesUnique`,
`VfsNothingOld`, for all words a client can send, those whose sums wrap included. That a
request which may be made is clipped to the file is arithmetic modulo `WORD`; a copy that
is not inside spoils the server, whose table the properties then leave open. The
invariant adds that a free entry has size 0: `handle_create` relies on it when it
leaves the bytes of an entry as they are. `VfsIsFileStore` proves the refinement
for paths stored whole: the search finds the one entry of that name (`NamesUnique`),
and a request for any other path changes none of these files. In `FileStore` the store is
lost in the step of a wild request, and only then.

**`ProcProofs`.** `ProcInv` proves that `TypeOK`, `PidsGivenOnce` and
`DeadHasCode` are together inductive (`ProcTypeOK`, `ProcPidsGivenOnce`,
`ProcDeadHasCode`). The step that needs them together is a spawn: the first free
entry is the one behind the last process (`FreeIsNext`), which also bounds
`next_pid` by the size of the table. `ProcIsProcTable` proves the refinement: a pid
that was given is found in its own place (`FoundIsOwn`), one that was not, 0 included,
changes no process, and the entries in use are listed in the order of their pids
(`ListedInOrder`).

**`ShellProofs`.** `ShellInv`: `TypeOK`, `Terminated` and `ScreenIsBuffer` are together
inductive (`ShellTypeOK`, `ShellTerminated`, `ShellScreenIsBuffer`): a character is put
at `strlen`, which is the length of the line only if nothing but NULs is behind it.
`ShellIsLineEditor` proves that the line is the one of `LineEditor` and that the pointer
walk of `shell_parse_cmd` returns its words. The walk's k-th step stops where the k-th
word begins: by induction on k, each start has k starts up to it and none lies in
between.

**`VirtioProofs`.** `VirtioInv`, then `VirtioTypeOK`, `VirtioTxIntact`, `VirtioRxOnce`
and the action property `VirtioBlkAnswered`. Neither order nor answers are inductive
alone. A lone block caller past its post is in one of three phases (request waiting,
served, answered), told apart by the distance of the two indices (`BlkInv`). For the
network, as long as one direction was never used, the number of packets that went through
and the two indices determine who owns the buffer, and an interrupt that is pending then
means that the ready flag is down (`TxInv`, `RxInv`), until `virtio_net_recv` has cleared it
and posts again.

**`BootProofs`.** `BootInvariant`, then `BootTypeOK`, `BootRegionsDisjoint`,
`BootLoadedIsBuilt`. `HeapOK` states disjointness for a state of memory, those in the
middle of a walk included, because `page_table_get_entry` may allocate before a later
level fails. The heap offset never falls as long as no request wraps, and each region is
put behind it. `LoadInv` says that of the segments handled so far every word is in memory
(segments do not overlap, so later ones undo nothing), and that of the servers looked up
exactly those with a right entry were loaded as themselves. The offsets that
`mkramdisk.py` writes are sums over the directory, a recursive function.

`BootMapsFound` proves `MapsFound` with the second half of the invariant, `MapInv`. Its
first part, `LogInv`, is about the calls. `Linked` says what entries point to: nothing, a
page outside the heap, or a page that was given out and overlaps no root table; so a walk
that has left its root table never reads or writes a word of any root table, whatever it
takes for a table on the way. `LogOK` says that each page in the log of a clean table is
reached and holds the entry last written for it. A step is then one of three: it takes
memory and writes nothing (`AllocStep`, `CreateStep`: the new page lies behind everything
an entry can point to); it walks and creates (`DescendGrows`: only entries that were not
present are written, of root tables only the one at the pml4 index), which no reached page
notices; or it writes a leaf of a root table (`WritingStep`), which other walks do not
follow. `BootIdentityLost`
shows that the finding about `mm_init` does not depend on the bounds of its run; it rests on
the second part, `InitInv`, which follows `mm_init`: `PageZero` goes through the four
ways the first page can end (each of three allocations fails, or none) and shows that no
page is found behind any of them and no later page changes that (`Stuck`).

Proving it corrected the property. It had asked only that no last index be a pml4 index
walked *to create*; the invariant did not close for `mm_page_unmap`, which walks without
creating, and TLC found the page that is lost in five calls where the run had four.
`Clean` now counts every pml4 index of a page in the log, `FramesOutside` is a condition,
and the run has the bounds that show the difference.

Induction over data. The library's induction theorems, which take a predicate, are out of
the provers' reach; where a proof needs induction (sums of sizes, the words of a line,
a walk along a list) it is done over a set: a set of naturals has a least element
(`NatMin`, `LeastOf`), so a set that has the first number and with each the next has
them all (`SetInduction`, `CountUp`). A recursive function is then the `CHOOSE` of its
equation, which has one solution.

Only model-checked: liveness (`Released`), which the prover does not reach.

## 5. Plan

In order of importance; each item keeps to the form above.

1. `SchedPreempt`: the scheduler calls split where the timer can come in
   (`task_sleep` tests the queue's head and uses it later; a tick in between pops it).
2. The servers together over `Mailbox`: console output that is dropped while the
   endpoint is busy, and the endpoint ids init creates against those the others use.
3. Interrupt dispatch: `irq_handler` takes the saved `r15` for the number.

Not modelled: the syscall dispatcher (it always returns -1), the kernel console and
the string helpers (output and memory copies without state that matters here), the
assembly of the boot path, `ipc_self_test` (one send and one receive, which `Ipc`
allows), the console server (a stub that halts), and the init server's loop (planned
with item 2). Of the modelled drivers: what virtio features and configuration mean,
and the contents of blocks.
