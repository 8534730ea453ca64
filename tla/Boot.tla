-------------------------------- MODULE Boot --------------------------------
(***************************************************************************)
(* kmain (kernel/src/main.c): the memory manager is set up, a block is     *)
(* allocated, and the servers on the ramdisk are loaded by elf_load        *)
(* (kernel/src/elf.c) to the address they were linked for.  What kmain     *)
(* does for IPC and the scheduler is in Ipc and Sched and touches nothing  *)
(* here.                                                                   *)
(***************************************************************************)
EXTENDS Mm, Ramdisk

CONSTANTS
  Directories,  \* what the ramdisk may be built from
  Elf,          \* Elf[name]: elf_load accepts its header; its program headers
  RAM,          \* words behind the address the servers are linked for (16 MiB)
  BLOCK_SIZE    \* the test block, 64 bytes

Servers == <<"init", "vfs">>    \* init.elf and vfs.elf, in the order they are loaded

\* The addresses that the i-th program header of file f fills.
Covers(f, i, a) == LET p == Elf[f].segs[i] IN p.load /\ a \in p.vaddr .. p.vaddr + p.memsz - 1

ASSUME BootConstants ==
  /\ RAM \in Nat /\ BLOCK_SIZE \in Nat
  /\ \A d \in Directories :
       /\ d # <<>> /\ d \in Seq([name : DOMAIN Elf, size : Nat \ {0}])
       /\ \A i, j \in DOMAIN d : d[i].name = d[j].name => i = j
  /\ \A f \in DOMAIN Elf :    \* as the ELF format has it
       /\ Elf[f].segs \in Seq([load : BOOLEAN, vaddr : Nat, filesz : Nat, memsz : Nat])
       /\ \A i \in DOMAIN Elf[f].segs : Elf[f].segs[i].filesz <= Elf[f].segs[i].memsz
       /\ \A i, j \in DOMAIN Elf[f].segs : \A a \in 0 .. RAM - 1 :
            Covers(f, i, a) /\ Covers(f, j, a) => i = j

VARIABLES
  builder,   \* who built the ramdisk: "py", "c", or "none" if there is no valid one
  dir,       \* from which files
  boot_step, \* place in kmain
  server,    \* index in Servers
  elf, seg,  \* the file elf_load is loading and its loop variable
  ram,       \* what is at the servers' addresses
  loaded     \* history: the servers for which elf_load returned 0, and the files loaded
bootVars == <<builder, dir, boot_step, server, elf, seg, ram, loaded>>
vars == <<mmVars, bootVars>>

Image == CASE builder = "py" -> PyImage(dir) [] builder = "c" -> CImage(dir) [] OTHER -> NoImage

Zero == [file |-> "none", seg |-> 0, at |-> 0]

Init ==
  /\ MmStart
  /\ builder \in {"py", "c", "none"}
  /\ dir \in IF builder = "none" THEN {<<>>} ELSE Directories
  /\ boot_step = "mm_init" /\ server = 1 /\ elf = "none" /\ seg = 0
  /\ ram = [a \in 0 .. RAM - 1 |-> Zero] /\ loaded = <<>>

KmainMmInit ==
  /\ boot_step = "mm_init"
  /\ MmInit
  /\ boot_step' = IF mm_step' = "done" THEN "block" ELSE "mm_init"
  /\ UNCHANGED <<builder, dir, server, elf, seg, ram, loaded>>

HeapOnly == UNCHANGED <<heap_base, kernel_page_table, current_page_table, next_phys_page, vmas,
                        tables, log, created, mm_step, page, calls>>

KmainBlock ==
  /\ boot_step = "block"
  /\ mm' = mm_alloc(mm, BLOCK_SIZE, 2).s
  /\ boot_step' = "find"
  /\ HeapOnly /\ UNCHANGED <<builder, dir, server, elf, seg, ram, loaded>>

\* elf_load accepts the header at the start of the file: class, machine and type.
Accepted(f) == Elf[f].valid

\* load_servers_from_ramdisk: look a server up; elf_load then checks the header it
\* finds at that place, which is one only where a file begins.
LoadFind ==
  /\ boot_step = "find"
  /\ IF server > Len(Servers)
     THEN boot_step' = "running" /\ UNCHANGED <<server, elf, seg>>
     ELSE LET heads == {f \in FilesAt(Image, dir, OffsetOf(Image, Servers[server])) : Accepted(f)}
          IN  IF Found(Image, Servers[server]) /\ heads # {}
              THEN boot_step' = "segment" /\ elf' \in heads /\ seg' = 1 /\ UNCHANGED server
              ELSE server' = server + 1 /\ UNCHANGED <<boot_step, elf, seg>>
  /\ UNCHANGED <<mmVars, builder, dir, ram, loaded>>

\* What a PT_LOAD header puts at its addresses: the file's words, then zeroes.
Placed(f, i, a) ==
  LET p == Elf[f].segs[i]
  IN  IF a - p.vaddr < p.filesz THEN [file |-> f, seg |-> i, at |-> a - p.vaddr] ELSE Zero

\* Memory after that header; the mutant copies the file's words and clears nothing.
FillKeepsBss(f, i) ==
  [a \in DOMAIN ram |-> IF Covers(f, i, a) /\ Placed(f, i, a) # Zero THEN Placed(f, i, a) ELSE ram[a]]
Fill(f, i) == [a \in DOMAIN ram |-> IF Covers(f, i, a) THEN Placed(f, i, a) ELSE ram[a]]

\* The memory elf_load asks for is not the memory it writes; the result is ignored.
LoadSegment ==
  /\ boot_step = "segment"
  /\ IF seg <= Len(Elf[elf].segs)
     THEN /\ mm' = IF Elf[elf].segs[seg].load
                   THEN mm_alloc(mm, Elf[elf].segs[seg].memsz, ENTRIES).s ELSE mm
          /\ ram' = Fill(elf, seg)
          /\ seg' = seg + 1 /\ UNCHANGED <<boot_step, server, elf, loaded>>
     ELSE /\ loaded' = Append(loaded, [name |-> Servers[server], file |-> elf])
          /\ server' = server + 1 /\ boot_step' = "find" /\ elf' = "none" /\ seg' = 0
          /\ UNCHANGED <<mm, ram>>
  /\ HeapOnly /\ UNCHANGED <<builder, dir>>

\* Calls of the memory manager once the kernel runs.  Bound: with a ramdisk nothing
\* calls it any more, so that the calls are explored for one boot and not for all.
KernelCalls ==
  /\ boot_step = "running" /\ builder = "none"
  /\ MmCalls
  /\ UNCHANGED bootVars

Next == KmainMmInit \/ KmainBlock \/ LoadFind \/ LoadSegment \/ KernelCalls

Spec == Init /\ [][Next]_vars

-----------------------------------------------------------------------------
TypeOK ==
  /\ MmTypeOK
  /\ boot_step \in {"mm_init", "block", "find", "segment", "running"}
  /\ server \in 1 .. Len(Servers) + 1
  /\ elf \in DOMAIN Elf \union {"none"} /\ seg \in Nat
  /\ \A i \in DOMAIN loaded : loaded[i].name = Servers[1] \/ loaded[i].name = Servers[2]

\* The k-th file of the directory is found by its name when the files before it have
\* on average the size of the last one; the builder steps by that size.
EntryRight(k) == SizeOfFirst(dir, k - 1) = (k - 1) * dir[Len(dir)].size

\* When the kernel runs, the file loaded last is whole in memory, with its zeroes;
\* what was loaded before it is overwritten, all servers being linked for one address.
\* A server was loaded as itself exactly when its directory entry is right
\* (mkramdisk.py:63, :66), and not at all from an image of mkramdisk.c, whose entries
\* point in front of the data (mkramdisk.c:139).
LoadedIsBuilt ==
  boot_step = "running" =>
    /\ loaded # <<>> =>
         LET f == loaded[Len(loaded)].file
         IN  \A i \in DOMAIN Elf[f].segs, a \in DOMAIN ram :
               Covers(f, i, a) => ram[a] = Placed(f, i, a)
    /\ builder = "py" => \A s \in DOMAIN Servers :
         (\E i \in DOMAIN loaded : loaded[i] = [name |-> Servers[s], file |-> Servers[s]])
         <=> Accepted(Servers[s])
             /\ \E k \in DOMAIN dir : dir[k].name = Servers[s] /\ EntryRight(k)
    /\ builder = "c" => loaded = <<>>

\* File f is in memory up to its n-th program header.
InRam(f, n) ==
  \A i \in DOMAIN Elf[f].segs, a \in DOMAIN ram :
    i <= n /\ Covers(f, i, a) => ram[a] = Placed(f, i, a)

\* The s-th server is found as itself.
Own(s) == Accepted(Servers[s]) /\ \E k \in DOMAIN dir : dir[k].name = Servers[s] /\ EntryRight(k)

\* The inductive invariant: what elf_load has done so far is in memory, and of the
\* servers looked up those with a right entry were loaded as themselves.
LoadInv ==
  /\ boot_step # "mm_init" => mm_step = "done"
  /\ builder \in {"py", "c", "none"}
  /\ IF builder = "none" THEN dir = <<>> ELSE dir \in Directories
  /\ DOMAIN ram = 0 .. RAM - 1
  /\ loaded \in Seq([name : {Servers[1], Servers[2]}, file : DOMAIN Elf])
  /\ boot_step = "segment" =>
       /\ server <= Len(Servers) /\ elf \in DOMAIN Elf
       /\ seg \in 1 .. Len(Elf[elf].segs) + 1
       /\ InRam(elf, seg - 1)
       /\ builder = "py" => (elf = Servers[server] <=> Own(server))
  /\ boot_step = "running" => server = Len(Servers) + 1
  /\ boot_step # "segment" /\ loaded # <<>> =>
       InRam(loaded[Len(loaded)].file, Len(Elf[loaded[Len(loaded)].file].segs))
  /\ builder = "py" => \A s \in DOMAIN Servers :
       (\E i \in DOMAIN loaded : loaded[i] = [name |-> Servers[s], file |-> Servers[s]])
       <=> s < server /\ Own(s)
  /\ builder = "c" => loaded = <<>> /\ boot_step # "segment"
BootInv == MmInv /\ TypeOK /\ LoadInv
=============================================================================
