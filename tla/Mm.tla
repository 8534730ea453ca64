--------------------------------- MODULE Mm ---------------------------------
(***************************************************************************)
(* The memory manager (kernel/src/mm.c): a heap that is only ever taken    *)
(* from, page tables allocated in it, and lists of areas.  Memory is a     *)
(* function from addresses to page table entries; the unit is the 8-byte   *)
(* word, so that a page is as many words as a table has entries.           *)
(***************************************************************************)
EXTENDS Integers, Sequences

CONSTANTS
  ENTRIES,           \* 512: entries of a table, and words of a page
  KERNEL_HEAP_SIZE,  \* in words
  SIZE_MOD,          \* size_t: 2^64 bytes
  HeapBases,         \* where the build may put heap_area; nothing aligns it to a page
  FIRST_PHYS,        \* 1 MiB
  MEM_WORDS,         \* words of memory
  VMA_SIZE,          \* sizeof(vma_t)
  VPages, Frames, Sizes, VmaEnds,  \* inputs: virtual pages, frames, sizes, ends of areas
  MAX_CALLS          \* bound: calls after mm_init

NULL == 0
IDENTITY == 2 * ENTRIES    \* pages in the first 4 MiB: two tables full

ASSUME MmConstants ==
  /\ ENTRIES \in Nat \ {0}
  /\ KERNEL_HEAP_SIZE \in Nat
  /\ SIZE_MOD \in Nat /\ SIZE_MOD > 2 * (KERNEL_HEAP_SIZE + ENTRIES)
  /\ HeapBases \subseteq Nat \ {NULL}
  /\ FIRST_PHYS \in Nat /\ MEM_WORDS \in Nat
  /\ VMA_SIZE \in Nat
  /\ VPages \subseteq Nat /\ Frames \subseteq Nat /\ Sizes \subseteq Nat /\ VmaEnds \subseteq Nat
  /\ MAX_CALLS \in Nat
  /\ IDENTITY * ENTRIES <= MEM_WORDS    \* memory has what the kernel refers to
  /\ \A b \in HeapBases : b + KERNEL_HEAP_SIZE <= MEM_WORDS
  /\ \A f \in Frames : f + ENTRIES <= MEM_WORDS

VARIABLES
  heap_base,           \* &heap_area[0]
  mm,                  \* heap_offset, mem, and the regions given out (history)
  kernel_page_table, current_page_table, next_phys_page,
  vmas,                \* a list of areas, first node first
  tables,              \* history: the page tables callers hold
  log,                 \* history: the entries written for a caller's page
  created,             \* history: <<table, pml4 index>> that were walked to create
  mm_step,             \* mm_init: "start", "map", "done"
  page,                \* its loop variable
  calls
mmVars == <<heap_base, mm, kernel_page_table, current_page_table, next_phys_page, vmas,
            tables, log, created, mm_step, page, calls>>

Entry(present, addr) == [present |-> present, addr |-> addr]
Empty == Entry(FALSE, 0)
PageOf(a) == a - (a % ENTRIES)

-----------------------------------------------------------------------------
(* The heap.  An operation takes the state s of memory and gives a pointer *)
(* (or a result) and the state behind it.                                  *)

align_up(value, align) == ((value + align - 1) \div align) * align

\* Does not move heap_offset past the padding.
mm_allocPacked(s, size, align) ==
  LET start == align_up(s.heap_offset, align)
      end   == (start + size) % SIZE_MOD
  IN  IF end > KERNEL_HEAP_SIZE THEN [ptr |-> NULL, s |-> s]
      ELSE [ptr |-> heap_base + start,
            s |-> [s EXCEPT !.heap_offset = (@ + size) % SIZE_MOD,
                            !.regions = @ \union {[at |-> start, size |-> size, align |-> align]}]]

\* Tests where the region starts, not where it ends.
mm_allocPastEnd(s, size, align) ==
  LET start == align_up(s.heap_offset, align)
  IN  IF start > KERNEL_HEAP_SIZE THEN [ptr |-> NULL, s |-> s]
      ELSE [ptr |-> heap_base + start,
            s |-> [s EXCEPT !.heap_offset = start + size,
                            !.regions = @ \union {[at |-> start, size |-> size, align |-> align]}]]

mm_alloc(s, size, align) ==
  LET start == align_up(s.heap_offset, align)
      end   == (start + size) % SIZE_MOD
  IN  IF end > KERNEL_HEAP_SIZE THEN [ptr |-> NULL, s |-> s]
      ELSE [ptr |-> heap_base + start,
            s |-> [s EXCEPT !.heap_offset = end,
                            !.regions = @ \union {[at |-> start, size |-> size, align |-> align]}]]

\* Does not ask for a whole page's alignment.
page_table_allocAnywhere(s) == mm_alloc(s, ENTRIES, 1)
page_table_alloc(s) == mm_alloc(s, ENTRIES, ENTRIES)

-----------------------------------------------------------------------------
(* Page tables *)

\* Entry i of table pt: the table it points to, made first if create.
page_table_get_entry(s, pt, i, create) ==
  LET new == page_table_alloc(s)
  IN  IF s.mem[pt + i].present THEN [ptr |-> s.mem[pt + i].addr, s |-> s]
      ELSE IF ~create THEN [ptr |-> NULL, s |-> s]
      ELSE IF new.ptr = NULL THEN new
      ELSE [ptr |-> new.ptr, s |-> [new.s EXCEPT !.mem[pt + i] = Entry(TRUE, PageOf(new.ptr))]]

\* The index of virtual page v at a level: 3 for the pml4, 0 for the last table.
Span(level) == CASE level = 0 -> 1 [] level = 1 -> ENTRIES
                 [] level = 2 -> ENTRIES * ENTRIES [] level = 3 -> ENTRIES * ENTRIES * ENTRIES
Index(v, level) == (v \div Span(level)) % ENTRIES

Descend(s, pt, v, create) ==
  LET pdpt == page_table_get_entry(s, pt, Index(v, 3), create)
      pd   == page_table_get_entry(pdpt.s, pdpt.ptr, Index(v, 2), create)
  IN  IF pdpt.ptr = NULL THEN pdpt
      ELSE IF pd.ptr = NULL THEN pd
      ELSE page_table_get_entry(pd.s, pd.ptr, Index(v, 1), create)

\* The entry that the callers of Descend then use: in pt itself, not in the
\* table Descend has found.
Leaf(pt, found, v) == pt + Index(v, 0)

mm_page_map(s, pt, v, frame) ==
  LET d == Descend(s, pt, v, TRUE)
  IN  IF d.ptr = NULL THEN [ret |-> -1, s |-> d.s]
      ELSE [ret |-> 0, s |-> [d.s EXCEPT !.mem[Leaf(pt, d.ptr, v)] = Entry(TRUE, frame)]]

mm_page_walk(s, pt, v, create) ==
  LET d == Descend(s, pt, v, create)
  IN  [ptr |-> IF d.ptr = NULL THEN NULL ELSE Leaf(pt, d.ptr, v), s |-> d.s]

-----------------------------------------------------------------------------
(* mm_init: a root table, then an attempt to map each page, its result ignored. *)

MmStart ==
  /\ heap_base \in HeapBases
  /\ mm = [heap_offset |-> 0, mem |-> [a \in 0 .. MEM_WORDS - 1 |-> Empty], regions |-> {}]
  /\ kernel_page_table = NULL /\ current_page_table = NULL
  /\ next_phys_page = FIRST_PHYS
  /\ vmas = <<>> /\ tables = {} /\ log = <<>> /\ created = {}
  /\ mm_step = "start" /\ page = 0 /\ calls = 0

MmInitRoot ==
  /\ mm_step = "start"
  /\ LET root == page_table_alloc([mm EXCEPT !.heap_offset = 0])
     IN  /\ mm' = root.s
         /\ kernel_page_table' = root.ptr
         /\ tables' = IF root.ptr = NULL THEN {} ELSE {root.ptr}
         /\ mm_step' = IF root.ptr = NULL THEN "done" ELSE "map"
  /\ UNCHANGED <<heap_base, current_page_table, next_phys_page, vmas, log, created, page, calls>>

MmInitMap ==
  /\ mm_step = "map"
  /\ IF page < IDENTITY
     THEN LET m == mm_page_map(mm, kernel_page_table, page, page * ENTRIES)
          IN  /\ mm' = m.s
              /\ page' = page + 1
              /\ UNCHANGED <<current_page_table, mm_step>>
     ELSE /\ mm_step' = "done"
          /\ current_page_table' = kernel_page_table
          /\ UNCHANGED <<mm, page>>
  /\ UNCHANGED <<heap_base, kernel_page_table, next_phys_page, vmas, tables, log, created, calls>>

MmInit == MmInitRoot \/ MmInitMap

-----------------------------------------------------------------------------
(* What the rest of the kernel can call.  mm_page_table_destroy does nothing. *)

Call == mm_step = "done" /\ calls < MAX_CALLS /\ calls' = calls + 1
mmRest == <<heap_base, kernel_page_table, mm_step, page>>
Wrote(pt, v, entry) == log' = Append(log, [pt |-> pt, v |-> v, entry |-> entry])
Created(pt, v) == created' = created \union {<<pt, Index(v, 3)>>}

MmAlloc(size, align) ==
  /\ Call
  /\ mm' = mm_alloc(mm, size, align).s
  /\ UNCHANGED <<mmRest, current_page_table, next_phys_page, vmas, tables, log, created>>

MmPhysAlloc ==
  /\ Call
  /\ next_phys_page' = next_phys_page + ENTRIES
  /\ UNCHANGED <<mmRest, mm, current_page_table, vmas, tables, log, created>>

MmPageTableCreate ==
  /\ Call
  /\ LET new == page_table_alloc(mm)
     IN  mm' = new.s /\ tables' = tables \union ({new.ptr} \ {NULL})
  /\ UNCHANGED <<mmRest, current_page_table, next_phys_page, vmas, log, created>>

MmPageMap(pt, v, frame) ==
  /\ Call
  /\ LET m == mm_page_map(mm, pt, v, frame)
     IN  /\ mm' = m.s
         /\ IF m.ret = 0 THEN Wrote(pt, v, Entry(TRUE, frame)) ELSE UNCHANGED log
  /\ Created(pt, v)
  /\ UNCHANGED <<mmRest, current_page_table, next_phys_page, vmas, tables>>

MmPageUnmap(pt, v) ==
  /\ Call
  /\ LET d == Descend(mm, pt, v, FALSE)
     IN  /\ d.ptr # NULL
         /\ mm' = [mm EXCEPT !.mem[Leaf(pt, d.ptr, v)] = Empty]
  /\ Wrote(pt, v, Empty)
  /\ UNCHANGED <<mmRest, current_page_table, next_phys_page, vmas, tables, created>>

MmPageWalkCreate(pt, v) ==
  /\ Call
  /\ mm' = mm_page_walk(mm, pt, v, TRUE).s
  /\ Created(pt, v)
  /\ UNCHANGED <<mmRest, current_page_table, next_phys_page, vmas, tables, log>>

\* The flags replace the old ones, the present bit included.
MmPageProtect(pt, v, present) ==
  /\ Call
  /\ LET e == mm_page_walk(mm, pt, v, FALSE).ptr
     IN  /\ e # NULL /\ mm.mem[e].present
         /\ mm' = [mm EXCEPT !.mem[e].present = present]
         /\ Wrote(pt, v, Entry(present, mm.mem[e].addr))
  /\ UNCHANGED <<mmRest, current_page_table, next_phys_page, vmas, tables, created>>

MmSwitchPageTable(pt) ==
  /\ Call
  /\ current_page_table' = pt
  /\ UNCHANGED <<mmRest, mm, next_phys_page, vmas, tables, log, created>>

MmVmaAdd(start, end) ==
  /\ Call
  /\ start < end /\ start % ENTRIES = 0 /\ end % ENTRIES = 0
  /\ LET node == mm_alloc(mm, VMA_SIZE, 1)
     IN  /\ mm' = node.s
         /\ vmas' = IF node.ptr = NULL THEN vmas
                    ELSE <<[at |-> node.ptr, start |-> start, end |-> end]>> \o vmas
  /\ UNCHANGED <<mmRest, current_page_table, next_phys_page, tables, log, created>>

\* Unlinks the first node of that start; its memory is not given back.
MmVmaRemove(start) ==
  /\ Call
  /\ \E i \in DOMAIN vmas :
       /\ vmas[i].start = start /\ \A j \in 1 .. i - 1 : vmas[j].start # start
       /\ vmas' = SubSeq(vmas, 1, i - 1) \o SubSeq(vmas, i + 1, Len(vmas))
  /\ UNCHANGED <<mmRest, mm, current_page_table, next_phys_page, tables, log, created>>

MmCalls ==
  \/ \E size \in Sizes, align \in {1, 2} : MmAlloc(size, align)
  \/ MmPhysAlloc \/ MmPageTableCreate
  \/ \E pt \in tables, v \in VPages :
       \/ \E frame \in Frames : MmPageMap(pt, v, frame)
       \/ MmPageUnmap(pt, v) \/ MmPageWalkCreate(pt, v)
       \/ \E present \in BOOLEAN : MmPageProtect(pt, v, present)
  \/ \E pt \in tables : MmSwitchPageTable(pt)
  \/ \E start, end \in VmaEnds : MmVmaAdd(start, end)
  \/ \E start \in VmaEnds : MmVmaRemove(start)

-----------------------------------------------------------------------------
MmTypeOK ==
  /\ heap_base \in HeapBases
  /\ mm.heap_offset \in 0 .. KERNEL_HEAP_SIZE
  /\ mm.mem \in [0 .. MEM_WORDS - 1 -> [present : BOOLEAN, addr : 0 .. MEM_WORDS - 1]]
  /\ mm.regions \subseteq [at : Nat, size : Nat, align : Nat]
  /\ kernel_page_table \in tables \union {NULL} /\ current_page_table \in tables \union {NULL}
  /\ tables \subseteq 1 .. MEM_WORDS - 1
  /\ next_phys_page \in Nat
  /\ vmas \in Seq({n \in [at : Nat, start : Nat, end : Nat] : n.start < n.end})

\* No request larger than the heap was granted: start + size at mm.c:47 can wrap.
NoWrap == \A r \in mm.regions : r.size <= KERNEL_HEAP_SIZE

\* What mm_alloc gives out lies inside the heap, at an offset aligned as asked, and no
\* two regions overlap, whoever asks (page tables, areas, the ELF loader), for as long
\* as no request larger than the heap was granted.
RegionsDisjoint ==
  NoWrap =>
    \A r \in mm.regions :
      /\ r.at % r.align = 0
      /\ r.at + r.size <= mm.heap_offset
      /\ \A q \in mm.regions \ {r} : r.at + r.size <= q.at \/ q.at + q.size <= r.at

\* RegionsDisjoint and the types of a state of memory, of those inside a walk too:
\* a pointer to a table, or to a frame that a walk takes for one, has a whole table
\* of memory behind it.
Pointers == 0 .. MEM_WORDS - ENTRIES
Memory == [0 .. MEM_WORDS - 1 -> [present : BOOLEAN, addr : Pointers]]
Region == [at : Nat, size : Nat, align : Nat]
HeapOK(s) ==
  /\ s \in [heap_offset : 0 .. KERNEL_HEAP_SIZE, mem : Memory, regions : SUBSET Region]
  /\ (\A r \in s.regions : r.size <= KERNEL_HEAP_SIZE) =>
       \A r \in s.regions :
         /\ r.at % r.align = 0
         /\ r.at + r.size <= s.heap_offset
         /\ \A q \in s.regions \ {r} : r.at + r.size <= q.at \/ q.at + q.size <= r.at
MmInv ==
  /\ MmTypeOK /\ HeapOK(mm)
  /\ tables \subseteq Pointers /\ page \in Nat
  /\ mm_step = "start" => mm.regions = {} /\ tables = {} /\ current_page_table = NULL
  /\ mm_step = "map" => kernel_page_table \in tables

\* Callers' pages of table pt lie in entries of pt that no page uses on the way down.
Clean(pt) ==
  \A i \in DOMAIN log : log[i].pt = pt =>
    /\ <<pt, Index(log[i].v, 0)>> \notin created
    /\ \A k \in DOMAIN log : log[k].pt = pt => Index(log[k].v, 3) # Index(log[i].v, 0)

\* A page at p lies outside the heap; so do the frames that callers have mapped.
Outside(p) == p + ENTRIES <= heap_base \/ heap_base + KERNEL_HEAP_SIZE <= p
FramesOutside == \A i \in DOMAIN log : Outside(log[i].entry.addr)

\* The entry last written in table pt for a page of last-level index j.
LastWritten(pt, j) ==
  LET at == {i \in DOMAIN log : log[i].pt = pt /\ Index(log[i].v, 0) = j}
  IN  log[CHOOSE i \in at : \A k \in at : k <= i].entry

\* No caller wrote an entry in pt for another page of v's last index.
Alone(pt, v) ==
  \A i \in DOMAIN log : log[i].pt = pt /\ Index(log[i].v, 0) = Index(v, 0) => log[i].v = v

\* A page that was mapped is found again, with what was last written for it, whatever
\* was allocated, mapped, unmapped and protected since, in its table and in others.
\* This is said of tables that are page aligned, while no wrapped request has made them
\* overlap and no frame that was mapped lies in the heap, where a walk could take it for
\* a table.  Because the last entry is one of pt itself (mm.c:100), it is said only of
\* a page that shares its last index with no other, in a table where no such index is
\* a pml4 index in use.
MapsFound ==
  heap_base % ENTRIES = 0 /\ NoWrap /\ FramesOutside =>
    \A i \in DOMAIN log :
      LET pt == log[i].pt
          v  == log[i].v
          e  == mm_page_walk(mm, pt, v, FALSE).ptr
      IN  Clean(pt) /\ Alone(pt, v) => e # NULL /\ mm.mem[e] = LastWritten(pt, Index(v, 0))

\* When mm_init is done and nothing else was called, the first 4 MiB are mapped, each
\* page to the frame of the same address (the comment at mm.c:36).
IdentityMapped ==
  mm_step = "done" /\ calls = 0 /\ kernel_page_table # NULL =>
    \A v \in 0 .. IDENTITY - 1 :
      LET e == mm_page_walk(mm, kernel_page_table, v, FALSE).ptr
      IN  e # NULL /\ mm.mem[e] = Entry(TRUE, v * ENTRIES)
=============================================================================
