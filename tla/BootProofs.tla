----------------------------- MODULE BootProofs -----------------------------
(* Proofs about the heap and the boot, for every size of the heap, of a    *)
(* page and of memory, every ramdisk directory and every set of ELF files. *)
EXTENDS Boot, SequenceTheorems, WellFoundedInduction, NaturalsInduction, TLAPS

\* A set of naturals has a least element.
LEMMA NatMin ==
  ASSUME NEW T, T \subseteq Nat, T # {}
  PROVE  \E x \in T : \A y \in T : x <= y
<1>1. IsWellFoundedOn(OpToRel(<, Nat), Nat)  BY NatLessThanWellFounded, Zenon
<1>2. \E x \in T : \A y \in T : ~(<<y, x>> \in OpToRel(<, Nat))  BY <1>1, WFMin, Zenon
<1>3. ASSUME NEW x \in Nat, NEW y \in Nat, y < x PROVE <<y, x>> \in OpToRel(<, Nat)
  BY <1>3, Zenon DEF OpToRel
<1>4. PICK x \in T : \A y \in T : ~(<<y, x>> \in OpToRel(<, Nat))  BY <1>2, Zenon
<1>5. ASSUME NEW y \in T PROVE ~(y < x)
  <2>1. x \in Nat /\ y \in Nat  OBVIOUS
  <2> QED  BY <1>3, <1>4, <2>1, Zenon
<1>6. \A y \in T : x <= y  BY <1>5
<1> QED  BY <1>6

\* Induction over a set of naturals.
LEMMA SetInduction ==
  ASSUME NEW P, 0 \in P, \A i \in Nat : i \in P => i + 1 \in P PROVE Nat \subseteq P
<1> SUFFICES ASSUME Nat \ P # {} PROVE FALSE  OBVIOUS
<1>1. PICK x \in Nat \ P : \A y \in Nat \ P : x <= y  BY NatMin
<1>2. x # 0 /\ x - 1 \in Nat /\ x - 1 < x  BY <1>1
<1>3. x - 1 \in P  BY <1>1, <1>2
<1> QED  BY <1>1, <1>2, <1>3

LEMMA DivMod ==
  ASSUME NEW a \in Nat, NEW b \in Nat \ {0}
  PROVE  a \div b \in Nat /\ a % b \in 0 .. b - 1 /\ a = (a \div b) * b + (a % b)
OBVIOUS

LEMMA MulMod == ASSUME NEW q \in Nat, NEW b \in Nat \ {0} PROVE q * b \in Nat /\ (q * b) % b = 0
OBVIOUS

\* align_up returns the next multiple.
LEMMA AlignUp ==
  ASSUME NEW v \in Nat, NEW b \in Nat \ {0}
  PROVE  LET m == align_up(v, b)
         IN  m \in Nat /\ m >= v /\ m <= v + b - 1 /\ m % b = 0
<1> DEFINE m == ((v + b - 1) \div b) * b
           r == (v + b - 1) % b
<1>1. v + b - 1 \in Nat  OBVIOUS
<1>2. (v + b - 1) \div b \in Nat /\ v + b - 1 = m + r /\ r \in 0 .. b - 1  BY <1>1, DivMod
<1>3. m \in Nat /\ m % b = 0  BY <1>2, MulMod
<1> HIDE DEF m, r
<1>4. m >= v /\ m <= v + b - 1  BY <1>2, <1>3
<1> QED  BY <1>3, <1>4 DEF align_up, m

\* The alignments the kernel asks for.
Aligns == {1, 2, ENTRIES}

\* A state of memory after a region was added, and after an entry was written.
MemoryState == [heap_offset : 0 .. KERNEL_HEAP_SIZE, mem : Memory, regions : SUBSET Region]

\* mm_alloc gives out what was not given out before, or, if the sum wrapped, something
\* larger than the heap.
LEMMA AllocOK ==
  ASSUME NEW s, HeapOK(s), NEW size \in Nat, NEW align \in Aligns, heap_base \in HeapBases
  PROVE  LET a == mm_alloc(s, size, align)
         IN  /\ HeapOK(a.s)
             /\ a.s.mem = s.mem
             /\ a.ptr \in Nat
             /\ size = ENTRIES /\ a.ptr # NULL => a.ptr \in Pointers
<1> DEFINE start == align_up(s.heap_offset, align)
           end == (start + size) % SIZE_MOD
           new == [at |-> start, size |-> size, align |-> align]
           a == mm_alloc(s, size, align)
<1>1. /\ s.heap_offset \in Nat /\ align \in Nat \ {0} /\ heap_base \in Nat \ {0}
      /\ KERNEL_HEAP_SIZE \in Nat /\ ENTRIES \in Nat \ {0} /\ SIZE_MOD \in Nat \ {0}
      /\ SIZE_MOD > 2 * (KERNEL_HEAP_SIZE + ENTRIES)
  <2>1. /\ KERNEL_HEAP_SIZE \in Nat /\ ENTRIES \in Nat \ {0} /\ SIZE_MOD \in Nat
        /\ SIZE_MOD > 2 * (KERNEL_HEAP_SIZE + ENTRIES) /\ HeapBases \subseteq Nat \ {NULL}
    BY MmConstants, Zenon
  <2>2. s.heap_offset \in 0 .. KERNEL_HEAP_SIZE  BY DEF HeapOK
  <2> QED  BY <2>1, <2>2 DEF Aligns, NULL
<1>2. start \in Nat /\ start >= s.heap_offset /\ start <= s.heap_offset + align - 1
      /\ start % align = 0
  BY <1>1, AlignUp
<1>3. end \in Nat  BY <1>1, <1>2
<1>4. CASE end > KERNEL_HEAP_SIZE
  <2>1. a = [ptr |-> NULL, s |-> s]  BY <1>4 DEF mm_alloc
  <2> QED  BY <2>1 DEF NULL
<1>5. CASE ~(end > KERNEL_HEAP_SIZE)
  <2> HIDE DEF start, end
  <2>1. a = [ptr |-> heap_base + start,
             s |-> [s EXCEPT !.heap_offset = end, !.regions = @ \union {new}]]
    BY <1>5 DEF mm_alloc, start, end
  <2>2. end \in 0 .. KERNEL_HEAP_SIZE /\ new \in Region
    BY <1>1, <1>2, <1>3, <1>5 DEF Region
  <2>3. /\ a.s \in MemoryState
        /\ a.s.heap_offset = end /\ a.s.mem = s.mem /\ a.s.regions = s.regions \union {new}
    <3>1. a.s = [s EXCEPT !.heap_offset = end, !.regions = @ \union {new}]
      <4> HIDE DEF new, a
      <4> QED  BY <2>1
    <3>2. s \in MemoryState  BY DEF HeapOK, MemoryState
    <3> HIDE DEF new, a
    <3> QED  BY <2>2, <3>1, <3>2 DEF MemoryState
  <2>4. size <= KERNEL_HEAP_SIZE \/ size = ENTRIES => end = start + size
    <3>1. s.heap_offset <= KERNEL_HEAP_SIZE  BY <1>1 DEF HeapOK
    <3>2. start <= KERNEL_HEAP_SIZE + ENTRIES  BY <1>1, <1>2, <3>1 DEF Aligns
    <3>3. size <= KERNEL_HEAP_SIZE \/ size = ENTRIES => start + size \in 0 .. SIZE_MOD - 1
      BY <1>1, <1>2, <3>2
    <3> QED  BY <1>1, <3>3 DEF end
  <2>5. ASSUME \A r \in a.s.regions : r.size <= KERNEL_HEAP_SIZE, NEW r \in a.s.regions
        PROVE  /\ r.at % r.align = 0
               /\ r.at + r.size <= end
               /\ \A q \in a.s.regions \ {r} : r.at + r.size <= q.at \/ q.at + q.size <= r.at
    <3>1. new.size <= KERNEL_HEAP_SIZE /\ end = start + size
      <4>1. new \in a.s.regions  BY <2>3
      <4>2. new.size <= KERNEL_HEAP_SIZE  BY <2>5, <4>1
      <4> QED  BY <2>4, <4>2
    <3>2. \A q \in s.regions :
            /\ q.at \in Nat /\ q.size \in Nat /\ q.at % q.align = 0
            /\ q.at + q.size <= s.heap_offset
            /\ \A t \in s.regions \ {q} : q.at + q.size <= t.at \/ t.at + t.size <= q.at
      <4>1. \A q \in s.regions : q.size <= KERNEL_HEAP_SIZE  BY <2>3, <2>5
      <4> QED  BY <4>1 DEF HeapOK, Region
    <3>3. \A q \in s.regions : q.at + q.size <= start /\ q.at + q.size <= end
      <4> SUFFICES ASSUME NEW q \in s.regions PROVE q.at + q.size <= start /\ q.at + q.size <= end
        OBVIOUS
      <4>1. q.at \in Nat /\ q.size \in Nat /\ q.at + q.size <= s.heap_offset  BY <3>2
      <4> QED  BY <1>1, <1>2, <3>1, <4>1
    <3>4. CASE r = new
      <4>1. r.at = start /\ r.size = size /\ r.align = align  BY <3>4
      <4>2. r.at + r.size <= end  BY <1>2, <3>1, <4>1
      <4> QED  BY <1>2, <2>3, <3>3, <3>4, <4>1, <4>2
    <3>5. CASE r \in s.regions
      <4>1. ASSUME NEW q \in a.s.regions \ {r}
            PROVE  r.at + r.size <= q.at \/ q.at + q.size <= r.at
        <5>1. CASE q \in s.regions  BY <3>2, <3>5, <5>1
        <5>2. CASE q = new  BY <3>3, <3>5, <5>2
        <5> QED  BY <2>3, <5>1, <5>2
      <4> QED  BY <3>2, <3>3, <3>5, <4>1
    <3> QED  BY <2>3, <3>4, <3>5
  <2>6. HeapOK(a.s)
    <3> HIDE DEF a, new
    <3> QED  BY <2>3, <2>5 DEF HeapOK, MemoryState
  <2>7. a.ptr = heap_base + start  BY <2>1
  <2>8. ASSUME size = ENTRIES PROVE a.ptr \in Pointers
    <3>1. start + ENTRIES <= KERNEL_HEAP_SIZE  BY <1>1, <1>2, <1>3, <1>5, <2>4, <2>8
    <3>2. heap_base + KERNEL_HEAP_SIZE <= MEM_WORDS /\ MEM_WORDS \in Nat  BY MmConstants
    <3> QED  BY <1>1, <1>2, <2>7, <3>1, <3>2 DEF Pointers
  <2> QED  BY <1>1, <1>2, <2>3, <2>6, <2>7, <2>8
<1> QED  BY <1>4, <1>5

\* Writing an entry of a table.
LEMMA SetEntry ==
  ASSUME NEW s, HeapOK(s), NEW a, NEW e \in [present : BOOLEAN, addr : Pointers], NEW t,
         t = [s EXCEPT !.mem[a] = e]
  PROVE  HeapOK(t)
<1>1. s \in MemoryState  BY DEF HeapOK, MemoryState
<1>2. [s.mem EXCEPT ![a] = e] \in Memory
  BY <1>1 DEF MemoryState, Memory
<1>3. /\ t \in MemoryState /\ t.heap_offset = s.heap_offset /\ t.regions = s.regions
  BY <1>1, <1>2 DEF MemoryState
<1> QED  BY <1>3 DEF HeapOK, MemoryState

LEMMA EntryType ==
  ASSUME NEW p \in BOOLEAN, NEW a \in Pointers
  PROVE  Entry(p, a) \in [present : BOOLEAN, addr : Pointers]
BY DEF Entry

\* Where a walk can be: entry i of a table with a whole table behind its address.
LEMMA EntryInMemory ==
  ASSUME NEW pt \in Pointers, NEW i \in 0 .. ENTRIES - 1 PROVE pt + i \in 0 .. MEM_WORDS - 1
<1>1. ENTRIES \in Nat /\ MEM_WORDS \in Nat  BY MmConstants, Zenon
<1> QED  BY <1>1 DEF Pointers

LEMMA PageOfPointer == ASSUME NEW a \in Pointers PROVE PageOf(a) \in Pointers
<1>1. ENTRIES \in Nat \ {0} /\ MEM_WORDS \in Nat  BY MmConstants, Zenon
<1>2. a \in Nat  BY <1>1 DEF Pointers
<1>3. a % ENTRIES \in 0 .. ENTRIES - 1 /\ a % ENTRIES <= a
  <2>1. a \div ENTRIES \in Nat /\ a % ENTRIES \in 0 .. ENTRIES - 1
        /\ a = (a \div ENTRIES) * ENTRIES + (a % ENTRIES)
    BY <1>1, <1>2, DivMod
  <2>2. (a \div ENTRIES) * ENTRIES \in Nat  BY <1>1, <2>1, MulMod
  <2> QED  BY <1>1, <1>2, <2>1, <2>2
<1> QED  BY <1>1, <1>2, <1>3 DEF PageOf, Pointers

LEMMA IndexType ==
  ASSUME NEW v \in Nat, NEW level \in 0 .. 3 PROVE Index(v, level) \in 0 .. ENTRIES - 1
<1>1. ENTRIES \in Nat \ {0}  BY MmConstants, Zenon
<1>2. Span(level) \in Nat \ {0}
  <2>1. level = 0 \/ level = 1 \/ level = 2 \/ level = 3  OBVIOUS
  <2>2. ENTRIES * ENTRIES \in Nat \ {0}  BY <1>1
  <2>3. ENTRIES * ENTRIES * ENTRIES \in Nat \ {0}  BY <1>1, <2>2
  <2> QED  BY <1>1, <2>1, <2>2, <2>3 DEF Span
<1>3. v \div Span(level) \in Nat  BY <1>2, DivMod
<1> QED  BY <1>1, <1>3, DivMod DEF Index

\* One level of a walk, and all of them: the pointer found can be walked from.
LEMMA GetEntryOK ==
  ASSUME NEW s, HeapOK(s), heap_base \in HeapBases, NEW pt \in Pointers,
         NEW i \in 0 .. ENTRIES - 1, NEW create \in BOOLEAN
  PROVE  LET g == page_table_get_entry(s, pt, i, create)
         IN  HeapOK(g.s) /\ g.ptr \in Pointers /\ (~create => g.s = s)
<1> DEFINE g == page_table_get_entry(s, pt, i, create)
           new == page_table_alloc(s)
<1>0. ENTRIES \in Nat \ {0} /\ MEM_WORDS \in Nat /\ ENTRIES <= MEM_WORDS
  <2>1. ENTRIES \in Nat \ {0} /\ MEM_WORDS \in Nat /\ IDENTITY * ENTRIES <= MEM_WORDS
    BY MmConstants, Zenon
  <2>2. IDENTITY * ENTRIES >= ENTRIES
    <3>1. IDENTITY * ENTRIES = 2 * (ENTRIES * ENTRIES)  BY <2>1 DEF IDENTITY
    <3>2. ENTRIES * ENTRIES >= ENTRIES /\ ENTRIES * ENTRIES \in Nat  BY <2>1
    <3> QED  BY <2>1, <3>1, <3>2
  <2> QED  BY <2>1, <2>2 DEF IDENTITY
<1>1. s.mem[pt + i] \in [present : BOOLEAN, addr : Pointers]
  BY EntryInMemory DEF HeapOK, Memory
<1>2. CASE s.mem[pt + i].present
  <2>1. g = [ptr |-> s.mem[pt + i].addr, s |-> s]  BY <1>2 DEF page_table_get_entry
  <2> QED  BY <1>1, <2>1
<1>3. CASE ~s.mem[pt + i].present /\ ~create
  <2>1. g = [ptr |-> NULL, s |-> s]  BY <1>3 DEF page_table_get_entry
  <2>2. NULL \in Pointers  BY <1>0 DEF Pointers, NULL
  <2> QED  BY <2>1, <2>2
<1>4. CASE ~s.mem[pt + i].present /\ create
  <2>1. HeapOK(new.s) /\ (new.ptr # NULL => new.ptr \in Pointers)
    BY <1>0, AllocOK DEF page_table_alloc, Aligns
  <2> HIDE DEF new
  <2>2. CASE new.ptr = NULL
    <3>1. g = new  BY <1>4, <2>2 DEF page_table_get_entry, new
    <3>2. NULL \in Pointers  BY <1>0 DEF Pointers, NULL
    <3> QED  BY <1>4, <2>1, <2>2, <3>1, <3>2
  <2>3. CASE new.ptr # NULL
    <3>1. g = [ptr |-> new.ptr,
               s |-> [new.s EXCEPT !.mem[pt + i] = Entry(TRUE, PageOf(new.ptr))]]
      BY <1>4, <2>3 DEF page_table_get_entry, new
    <3>2. g.ptr = new.ptr /\ g.s = [new.s EXCEPT !.mem[pt + i] = Entry(TRUE, PageOf(new.ptr))]
      <4> HIDE DEF g
      <4> QED  BY <3>1
    <3>3. Entry(TRUE, PageOf(new.ptr)) \in [present : BOOLEAN, addr : Pointers]
      BY <2>1, <2>3, PageOfPointer, EntryType
    <3>4. HeapOK(g.s)
      <4> HIDE DEF g
      <4> QED  BY <2>1, <3>2, <3>3, SetEntry
    <3> HIDE DEF g
    <3>5. HeapOK(g.s) /\ g.ptr \in Pointers /\ create  BY <1>4, <2>1, <2>3, <3>2, <3>4
    <3> QED  BY <3>5 DEF g
  <2> QED  BY <2>2, <2>3
<1> QED  BY <1>2, <1>3, <1>4

LEMMA DescendOK ==
  ASSUME NEW s, HeapOK(s), heap_base \in HeapBases, NEW pt \in Pointers, NEW v \in Nat,
         NEW create \in BOOLEAN
  PROVE  LET d == Descend(s, pt, v, create)
         IN  HeapOK(d.s) /\ d.ptr \in Pointers /\ (~create => d.s = s)
<1> DEFINE pdpt == page_table_get_entry(s, pt, Index(v, 3), create)
           pd == page_table_get_entry(pdpt.s, pdpt.ptr, Index(v, 2), create)
           last == page_table_get_entry(pd.s, pd.ptr, Index(v, 1), create)
           d == Descend(s, pt, v, create)
<1>1. /\ Index(v, 3) \in 0 .. ENTRIES - 1 /\ Index(v, 2) \in 0 .. ENTRIES - 1
      /\ Index(v, 1) \in 0 .. ENTRIES - 1
  BY IndexType
<1>2. HeapOK(pdpt.s) /\ pdpt.ptr \in Pointers /\ (~create => pdpt.s = s)  BY <1>1, GetEntryOK
<1>3. HeapOK(pd.s) /\ pd.ptr \in Pointers /\ (~create => pd.s = s)
  <2> HIDE DEF pdpt
  <2>1. HeapOK(pd.s) /\ pd.ptr \in Pointers /\ (~create => pd.s = pdpt.s)
    BY <1>1, <1>2, GetEntryOK
  <2> QED  BY <1>2, <2>1
<1>4. HeapOK(last.s) /\ last.ptr \in Pointers /\ (~create => last.s = s)
  <2> HIDE DEF pd
  <2>1. HeapOK(last.s) /\ last.ptr \in Pointers /\ (~create => last.s = pd.s)
    BY <1>1, <1>3, GetEntryOK
  <2> QED  BY <1>3, <2>1
<1>5. d = IF pdpt.ptr = NULL THEN pdpt ELSE IF pd.ptr = NULL THEN pd ELSE last  BY DEF Descend
<1>6. HeapOK(d.s) /\ d.ptr \in Pointers /\ (~create => d.s = s)
  <2> HIDE DEF pdpt, pd, last, d
  <2> QED  BY <1>2, <1>3, <1>4, <1>5
<1> QED  BY <1>6

LEMMA PageMapOK ==
  ASSUME NEW s, HeapOK(s), heap_base \in HeapBases, NEW pt \in Pointers, NEW v \in Nat,
         NEW frame \in Pointers
  PROVE  HeapOK(mm_page_map(s, pt, v, frame).s)
<1> DEFINE d == Descend(s, pt, v, TRUE)
           m == mm_page_map(s, pt, v, frame)
<1>1. HeapOK(d.s)  BY DescendOK
<1>2. CASE d.ptr = NULL
  <2>1. m = [ret |-> -1, s |-> d.s]  BY <1>2 DEF mm_page_map
  <2>2. HeapOK(m.s)
    <3> HIDE DEF m, d
    <3> QED  BY <1>1, <2>1
  <2> QED  BY <2>2
<1>3. CASE d.ptr # NULL
  <2> HIDE DEF d
  <2>1. m = [ret |-> 0, s |-> [d.s EXCEPT !.mem[Leaf(pt, d.ptr, v)] = Entry(TRUE, frame)]]
    BY <1>3 DEF mm_page_map, d
  <2>2. m.s = [d.s EXCEPT !.mem[Leaf(pt, d.ptr, v)] = Entry(TRUE, frame)]
    <3> HIDE DEF m
    <3> QED  BY <2>1
  <2>3. Entry(TRUE, frame) \in [present : BOOLEAN, addr : Pointers]  BY EntryType
  <2>4. HeapOK(m.s)
    <3> HIDE DEF m
    <3> QED  BY <1>1, <2>2, <2>3, SetEntry
  <2> QED  BY <2>4
<1> QED  BY <1>2, <1>3

-----------------------------------------------------------------------------
(* The actions of the memory manager. *)

\* The rest of MmInv, once the memory itself is right.
LEMMA MmInvFrom ==
  ASSUME HeapOK(mm)', heap_base' \in HeapBases,
         kernel_page_table' \in tables' \union {NULL}, current_page_table' \in tables' \union {NULL},
         tables' \subseteq Pointers \ {NULL}, next_phys_page' \in Nat, page' \in Nat,
         vmas' \in Seq({n \in [at : Nat, start : Nat, end : Nat] : n.start < n.end}),
         mm_step' # "start", mm_step' = "map" => kernel_page_table' \in tables'
  PROVE  MmInv'
<1>1. ENTRIES \in Nat \ {0} /\ MEM_WORDS \in Nat  BY MmConstants, Zenon
<1>2. Pointers \subseteq 0 .. MEM_WORDS - 1 /\ Pointers \ {NULL} \subseteq 1 .. MEM_WORDS - 1
  BY <1>1 DEF Pointers, NULL
<1>3. mm' \in MemoryState  BY DEF HeapOK, MemoryState
<1>4. /\ mm'.heap_offset \in 0 .. KERNEL_HEAP_SIZE
      /\ mm'.mem \in Memory /\ mm'.regions \subseteq Region
  BY <1>3 DEF MemoryState
<1>5. mm'.mem \in [0 .. MEM_WORDS - 1 -> [present : BOOLEAN, addr : 0 .. MEM_WORDS - 1]]
  BY <1>2, <1>4 DEF Memory
<1>6. MmTypeOK'  BY <1>2, <1>4, <1>5 DEF MmTypeOK, Region
<1> QED  BY <1>6 DEF MmInv

\* A step that changes no more than the memory.
LEMMA MemoryStep ==
  ASSUME MmInv, HeapOK(mm)', mm_step # "start",
         UNCHANGED <<heap_base, kernel_page_table, current_page_table, next_phys_page, vmas,
                     tables, mm_step, page>>
  PROVE  MmInv'
<1>1. NULL \notin tables  BY DEF MmInv, MmTypeOK, NULL
<1> QED  BY <1>1, MmInvFrom DEF MmInv, MmTypeOK

\* A page table from the heap: no memory left, or a place for one.
LEMMA TableAllocOK ==
  ASSUME NEW s, HeapOK(s), heap_base \in HeapBases
  PROVE  LET a == page_table_alloc(s)
         IN  HeapOK(a.s) /\ (a.ptr # NULL => a.ptr \in Pointers)
<1>1. ENTRIES \in Nat  BY MmConstants, Zenon
<1> QED  BY <1>1, AllocOK DEF page_table_alloc, Aligns

\* mm_init: its pages are in memory.
LEMMA IdentityFrame ==
  ASSUME NEW p \in Nat, p < IDENTITY PROVE p * ENTRIES \in Pointers
<1>1. /\ ENTRIES \in Nat \ {0} /\ MEM_WORDS \in Nat /\ IDENTITY * ENTRIES <= MEM_WORDS
  BY MmConstants, Zenon
<1>2. IDENTITY \in Nat  BY <1>1 DEF IDENTITY
<1>3. IDENTITY - (p + 1) \in Nat  BY <1>2
<1>4. (IDENTITY - (p + 1)) * ENTRIES \in Nat  BY <1>1, <1>3, MulMod
<1>5. IDENTITY * ENTRIES = p * ENTRIES + ENTRIES + (IDENTITY - (p + 1)) * ENTRIES
  <2> HIDE DEF IDENTITY
  <2> QED  BY <1>1, <1>2
<1>6. p * ENTRIES \in Nat  BY <1>1, MulMod
<1> HIDE DEF IDENTITY
<1> DEFINE x == IDENTITY * ENTRIES
           y == p * ENTRIES
           z == (IDENTITY - (p + 1)) * ENTRIES
<1>7. x <= MEM_WORDS /\ x = y + ENTRIES + z /\ y \in Nat /\ z \in Nat  BY <1>1, <1>4, <1>5, <1>6
<1> HIDE DEF x, y, z
<1>8. y \in Pointers  BY <1>1, <1>7 DEF Pointers
<1> QED  BY <1>8 DEF y

LEMMA MmInitInv == ASSUME MmInv, MmInit PROVE MmInv'
<1>0. heap_base \in HeapBases /\ HeapOK(mm) /\ NULL \notin tables
  BY DEF MmInv, MmTypeOK, NULL
<1>1. CASE MmInitRoot
  <2> DEFINE s0 == [mm EXCEPT !.heap_offset = 0]
             root == page_table_alloc(s0)
  <2>1. HeapOK(s0)
    <3>1. mm \in MemoryState /\ mm.regions = {}  BY <1>0, <1>1 DEF HeapOK, MemoryState, MmInv, MmInitRoot
    <3>2. 0 \in 0 .. KERNEL_HEAP_SIZE
      <4>1. KERNEL_HEAP_SIZE \in Nat  BY MmConstants, Zenon
      <4> QED  BY <4>1
    <3>3. s0 \in MemoryState /\ s0.regions = {}  BY <3>1, <3>2 DEF MemoryState
    <3> HIDE DEF s0
    <3> QED  BY <3>3 DEF HeapOK, MemoryState
  <2> HIDE DEF s0
  <2>2. HeapOK(root.s) /\ (root.ptr # NULL => root.ptr \in Pointers)  BY <1>0, <2>1, TableAllocOK
  <2>3. /\ mm' = root.s /\ kernel_page_table' = root.ptr
        /\ tables' = IF root.ptr = NULL THEN {} ELSE {root.ptr}
        /\ mm_step' = IF root.ptr = NULL THEN "done" ELSE "map"
        /\ current_page_table = NULL
        /\ UNCHANGED <<heap_base, current_page_table, next_phys_page, vmas, page>>
    BY <1>1 DEF MmInitRoot, s0, MmInv
  <2> HIDE DEF root
  <2>4. HeapOK(mm)'  BY <2>2, <2>3 DEF HeapOK
  <2>5. next_phys_page' \in Nat /\ page' \in Nat
        /\ vmas' \in Seq({n \in [at : Nat, start : Nat, end : Nat] : n.start < n.end})
    BY <2>3 DEF MmInv, MmTypeOK
  <2>6. /\ kernel_page_table' \in tables' \union {NULL} /\ tables' \subseteq Pointers \ {NULL}
        /\ mm_step' # "start" /\ (mm_step' = "map" => kernel_page_table' \in tables')
    BY <2>2, <2>3
  <2> QED  BY <1>0, <2>3, <2>4, <2>5, <2>6, MmInvFrom
<1>2. CASE MmInitMap /\ page < IDENTITY
  <2> DEFINE m == mm_page_map(mm, kernel_page_table, page, page * ENTRIES)
  <2>1. page \in Nat /\ kernel_page_table \in Pointers  BY <1>2 DEF MmInv, MmInitMap
  <2>2. HeapOK(m.s)  BY <1>0, <1>2, <2>1, IdentityFrame, PageMapOK
  <2>3. /\ mm' = m.s /\ page' = page + 1
        /\ mm_step = "map"
        /\ UNCHANGED <<heap_base, kernel_page_table, current_page_table, next_phys_page, vmas,
                       tables, mm_step>>
    BY <1>2 DEF MmInitMap
  <2> HIDE DEF m
  <2>4. HeapOK(mm)'  BY <2>2, <2>3 DEF HeapOK
  <2>5. page' \in Nat  BY <2>1, <2>3
  <2> QED  BY <1>0, <2>3, <2>4, <2>5, MmInvFrom DEF MmInv, MmTypeOK
<1>3. CASE MmInitMap /\ ~(page < IDENTITY)
  <2>1. /\ mm' = mm /\ page' = page /\ mm_step' = "done"
        /\ current_page_table' = kernel_page_table
        /\ UNCHANGED <<heap_base, kernel_page_table, next_phys_page, vmas, tables>>
    BY <1>3 DEF MmInitMap
  <2>2. HeapOK(mm)'  BY <1>0, <2>1 DEF HeapOK
  <2> QED  BY <1>0, <2>1, <2>2, MmInvFrom DEF MmInv, MmTypeOK
<1> QED  BY <1>1, <1>2, <1>3 DEF MmInit

\* A call that changes no more than the memory and what is not in the invariant.
LEMMA CallInv ==
  ASSUME MmInv, mm_step = "done", HeapOK(mm)', UNCHANGED mmRest,
         next_phys_page' \in Nat, tables' = tables \/ \E p \in Pointers \ {NULL} : tables' = tables \union {p},
         current_page_table' \in tables \union {NULL},
         vmas' \in Seq({n \in [at : Nat, start : Nat, end : Nat] : n.start < n.end})
  PROVE  MmInv'
<1>1. NULL \notin tables  BY DEF MmInv, MmTypeOK, NULL
<1>2. heap_base' = heap_base /\ kernel_page_table' = kernel_page_table /\ mm_step' = "done"
      /\ page' = page
  BY DEF mmRest
<1>3. tables' \subseteq Pointers \ {NULL} /\ tables \subseteq tables'  BY <1>1 DEF MmInv
<1> QED  BY <1>1, <1>2, <1>3, MmInvFrom DEF MmInv, MmTypeOK

LEMMA MmCallsInv == ASSUME MmInv, MmCalls PROVE MmInv'
<1> DEFINE Area == {n \in [at : Nat, start : Nat, end : Nat] : n.start < n.end}
<1>0. /\ heap_base \in HeapBases /\ HeapOK(mm) /\ tables \subseteq Pointers
      /\ next_phys_page \in Nat /\ current_page_table \in tables \union {NULL}
      /\ vmas \in Seq(Area)
  BY DEF MmInv, MmTypeOK
<1>00. /\ ENTRIES \in Nat \ {0} /\ VMA_SIZE \in Nat /\ VPages \subseteq Nat /\ Sizes \subseteq Nat
       /\ VmaEnds \subseteq Nat /\ Frames \subseteq Pointers
  <2>1. /\ ENTRIES \in Nat \ {0} /\ VMA_SIZE \in Nat /\ VPages \subseteq Nat /\ Sizes \subseteq Nat
        /\ VmaEnds \subseteq Nat /\ Frames \subseteq Nat /\ MEM_WORDS \in Nat
        /\ \A f \in Frames : f + ENTRIES <= MEM_WORDS
    BY MmConstants, Zenon
  <2> QED  BY <2>1 DEF Pointers
<1> HIDE DEF Area
<1>1. ASSUME NEW size \in Sizes, NEW align \in {1, 2}, MmAlloc(size, align) PROVE MmInv'
  <2>1. HeapOK(mm_alloc(mm, size, align).s)  BY <1>0, <1>00, AllocOK DEF Aligns
  <2>2. HeapOK(mm)'  BY <1>1, <2>1 DEF MmAlloc, HeapOK
  <2> QED  BY <1>0, <1>1, <2>2, CallInv DEF MmAlloc, Call, Area
<1>2. CASE MmPhysAlloc
  <2>1. HeapOK(mm)' /\ next_phys_page' \in Nat  BY <1>0, <1>00, <1>2 DEF MmPhysAlloc, HeapOK
  <2> QED  BY <1>0, <1>2, <2>1, CallInv DEF MmPhysAlloc, Call, Area
<1>3. CASE MmPageTableCreate
  <2> DEFINE new == page_table_alloc(mm)
  <2>1. HeapOK(new.s) /\ (new.ptr # NULL => new.ptr \in Pointers)  BY <1>0, TableAllocOK
  <2>2. /\ mm' = new.s /\ tables' = tables \union ({new.ptr} \ {NULL}) /\ mm_step = "done"
        /\ UNCHANGED <<mmRest, current_page_table, next_phys_page, vmas>>
    BY <1>3 DEF MmPageTableCreate, Call
  <2> HIDE DEF new
  <2>3. HeapOK(mm)'  BY <2>1, <2>2 DEF HeapOK
  <2>4. tables' = tables \/ \E p \in Pointers \ {NULL} : tables' = tables \union {p}  BY <2>1, <2>2
  <2> QED  BY <1>0, <2>2, <2>3, <2>4, CallInv DEF Area
<1>4. ASSUME NEW pt \in tables, NEW v \in VPages, NEW frame \in Frames, MmPageMap(pt, v, frame)
      PROVE  MmInv'
  <2>1. HeapOK(mm_page_map(mm, pt, v, frame).s)  BY <1>0, <1>00, PageMapOK
  <2>2. HeapOK(mm)'  BY <1>4, <2>1 DEF MmPageMap, HeapOK
  <2> QED  BY <1>0, <1>4, <2>2, CallInv DEF MmPageMap, Call, Area
<1>5. ASSUME NEW pt \in tables, NEW v \in VPages, MmPageUnmap(pt, v) PROVE MmInv'
  <2>1. Empty \in [present : BOOLEAN, addr : Pointers]
    <3>1. 0 \in Pointers  BY <1>00, IdentityFrame DEF IDENTITY
    <3> QED  BY <3>1, EntryType DEF Empty
  <2>2. PICK a : mm' = [mm EXCEPT !.mem[a] = Empty]  BY <1>5 DEF MmPageUnmap
  <2>3. HeapOK(mm')  BY <1>0, <2>1, <2>2, SetEntry
  <2>4. HeapOK(mm)'  BY <2>3 DEF HeapOK
  <2> QED  BY <1>0, <1>5, <2>4, CallInv DEF MmPageUnmap, Call, Area
<1>6. ASSUME NEW pt \in tables, NEW v \in VPages, MmPageWalkCreate(pt, v) PROVE MmInv'
  <2>1. HeapOK(Descend(mm, pt, v, TRUE).s)  BY <1>0, <1>00, DescendOK
  <2>2. HeapOK(mm)'  BY <1>6, <2>1 DEF MmPageWalkCreate, mm_page_walk, HeapOK
  <2> QED  BY <1>0, <1>6, <2>2, CallInv DEF MmPageWalkCreate, Call, Area
<1>7. ASSUME NEW pt \in tables, NEW v \in VPages, NEW present \in BOOLEAN,
             MmPageProtect(pt, v, present)
      PROVE  MmInv'
  <2> DEFINE e == mm_page_walk(mm, pt, v, FALSE).ptr
  <2>1. e = Leaf(pt, Descend(mm, pt, v, FALSE).ptr, v)
    BY <1>7 DEF MmPageProtect, mm_page_walk
  <2>2. e \in 0 .. MEM_WORDS - 1
    <3>1. Index(v, 0) \in 0 .. ENTRIES - 1 /\ pt \in Pointers  BY <1>0, <1>00, IndexType
    <3> QED  BY <2>1, <3>1, EntryInMemory DEF Leaf
  <2>3. mm' = [mm EXCEPT !.mem[e].present = present]  BY <1>7 DEF MmPageProtect
  <2> HIDE DEF e
  <2>4. mm.mem[e] \in [present : BOOLEAN, addr : Pointers]  BY <1>0, <2>2 DEF HeapOK, Memory
  <2>5. [mm.mem[e] EXCEPT !.present = present] \in [present : BOOLEAN, addr : Pointers]
    BY <2>4
  <2>6. mm' = [mm EXCEPT !.mem[e] = [mm.mem[e] EXCEPT !.present = present]]
    BY <2>3, Zenon
  <2>7. HeapOK(mm')  BY <1>0, <2>5, <2>6, SetEntry
  <2>8. HeapOK(mm)'  BY <2>7 DEF HeapOK
  <2> QED  BY <1>0, <1>7, <2>8, CallInv DEF MmPageProtect, Call, Area
<1>8. ASSUME NEW pt \in tables, MmSwitchPageTable(pt) PROVE MmInv'
  <2>1. HeapOK(mm)'  BY <1>0, <1>8 DEF MmSwitchPageTable, HeapOK
  <2> QED  BY <1>0, <1>8, <2>1, CallInv DEF MmSwitchPageTable, Call, Area
<1>9. ASSUME NEW start \in VmaEnds, NEW end \in VmaEnds, MmVmaAdd(start, end) PROVE MmInv'
  <2> DEFINE node == mm_alloc(mm, VMA_SIZE, 1)
             area == [at |-> node.ptr, start |-> start, end |-> end]
  <2>1. HeapOK(node.s) /\ node.ptr \in Nat  BY <1>0, <1>00, AllocOK DEF Aligns
  <2>2. /\ mm' = node.s /\ mm_step = "done" /\ start < end
        /\ vmas' = IF node.ptr = NULL THEN vmas ELSE <<area>> \o vmas
        /\ UNCHANGED <<mmRest, current_page_table, next_phys_page, tables>>
    BY <1>9 DEF MmVmaAdd, Call
  <2> HIDE DEF node
  <2>3. HeapOK(mm)'  BY <2>1, <2>2 DEF HeapOK
  <2>4. area \in Area  BY <1>00, <2>1, <2>2 DEF Area
  <2> HIDE DEF area
  <2>5. vmas' \in Seq(Area)
    <3>1. <<area>> \in Seq(Area)  BY <2>4
    <3>2. <<area>> \o vmas \in Seq(Area)  BY <1>0, <3>1, ConcatProperties
    <3> QED  BY <1>0, <2>2, <3>2
  <2> QED  BY <1>0, <2>2, <2>3, <2>5, CallInv DEF Area
<1>10. ASSUME NEW start \in VmaEnds, MmVmaRemove(start) PROVE MmInv'
  <2>1. HeapOK(mm)'  BY <1>0, <1>10 DEF MmVmaRemove, HeapOK
  <2>2. PICK i \in DOMAIN vmas : vmas' = SubSeq(vmas, 1, i - 1) \o SubSeq(vmas, i + 1, Len(vmas))
    BY <1>10 DEF MmVmaRemove
  <2>3. vmas' \in Seq(Area)
    <3>1. i \in 1 .. Len(vmas) /\ Len(vmas) \in Nat  BY <1>0
    <3>2. SubSeq(vmas, 1, i - 1) \in Seq(Area)
      <4>1. \A k \in 1 .. i - 1 : vmas[k] \in Area  BY <1>0, <3>1
      <4>2. 1 \in Int /\ i - 1 \in Int  BY <3>1
      <4> QED  BY <4>1, <4>2, SubSeqProperties
    <3>3. SubSeq(vmas, i + 1, Len(vmas)) \in Seq(Area)
      <4>1. \A k \in i + 1 .. Len(vmas) : vmas[k] \in Area  BY <1>0, <3>1
      <4>2. i + 1 \in Int /\ Len(vmas) \in Int  BY <3>1
      <4> QED  BY <4>1, <4>2, SubSeqProperties
    <3> QED  BY <2>2, <3>2, <3>3, ConcatProperties
  <2> QED  BY <1>0, <1>10, <2>1, <2>3, CallInv DEF MmVmaRemove, Call, Area
<1> QED  BY <1>1, <1>2, <1>3, <1>4, <1>5, <1>6, <1>7, <1>8, <1>9, <1>10 DEF MmCalls

-----------------------------------------------------------------------------
(* The ramdisk: where its builders put the files. *)

\* A directory of a ramdisk.
DirEntry == [name : DOMAIN Elf, size : Nat \ {0}]
Dirs == Seq(DirEntry)
LEMMA DirEntries ==
  ASSUME NEW d \in Dirs, NEW k \in 1 .. Len(d) PROVE d[k] \in DirEntry /\ d[k].size \in Nat \ {0}
<1>1. d[k] \in DirEntry
  <2> HIDE DEF DirEntry
  <2> QED  BY DEF Dirs
<1> QED  BY <1>1 DEF DirEntry

\* f sums up the sizes of the first k files, as the recursive function of SizeOfFirst.
SumFun(d, k, f) == f = [i \in 0 .. k |-> IF i = 0 THEN 0 ELSE f[i - 1] + d[i].size]

LEMMA SumIs == ASSUME NEW d, NEW k PROVE SizeOfFirst(d, k) = (CHOOSE f : SumFun(d, k, f))[k]
BY DEF SizeOfFirst, SumFun

LEMMA SumExists ==
  ASSUME NEW d \in Dirs, NEW k \in Nat, k <= Len(d) PROVE \E f : SumFun(d, k, f)
<1> DEFINE P == {j \in Nat : j <= Len(d) => \E f : SumFun(d, j, f)}
<1>1. 0 \in P
  <2>1. SumFun(d, 0, [i \in 0 .. 0 |-> 0])  BY DEF SumFun
  <2> QED  BY <2>1
<1>2. ASSUME NEW j \in Nat, j \in P PROVE j + 1 \in P
  <2> SUFFICES ASSUME j + 1 <= Len(d) PROVE \E f : SumFun(d, j + 1, f)  OBVIOUS
  <2>1. j <= Len(d)  BY DEF Dirs
  <2>2. PICK f : SumFun(d, j, f)  BY <1>2, <2>1
  <2> DEFINE g == [i \in 0 .. j + 1 |-> IF i = j + 1 THEN f[j] + d[j + 1].size ELSE f[i]]
  <2>3. ASSUME NEW i \in 0 .. j + 1 PROVE g[i] = IF i = 0 THEN 0 ELSE g[i - 1] + d[i].size
    <3>1. CASE i = j + 1  BY <3>1
    <3>2. CASE i # j + 1
      <4>1. i \in 0 .. j /\ (i # 0 => i - 1 \in 0 .. j + 1 /\ i - 1 # j + 1)  BY <3>2
      <4>2. f[i] = IF i = 0 THEN 0 ELSE f[i - 1] + d[i].size  BY <2>2, <4>1 DEF SumFun
      <4> QED  BY <4>1, <4>2
    <3> QED  BY <3>1, <3>2
  <2>4. g = [i \in 0 .. j + 1 |-> g[i]]  OBVIOUS
  <2>5. SumFun(d, j + 1, g)
    <3> HIDE DEF g
    <3> QED  BY <2>3, <2>4 DEF SumFun
  <2> QED  BY <2>5
<1>3. k \in P
  <2> HIDE DEF P
  <2>1. Nat \subseteq P  BY <1>1, <1>2, SetInduction
  <2> QED  BY <2>1
<1> QED  BY <1>3

LEMMA SumSame ==
  ASSUME NEW d \in Dirs, NEW k \in Nat, NEW l \in Nat, k <= Len(d), l <= Len(d),
         NEW f, SumFun(d, k, f), NEW g, SumFun(d, l, g), NEW j \in Nat, j <= k, j <= l
  PROVE  f[j] = g[j] /\ f[j] \in Nat
<1> DEFINE P == {i \in Nat : i <= k /\ i <= l => f[i] = g[i] /\ f[i] \in Nat}
<1>0. Len(d) \in Nat  BY DEF Dirs
<1>1. 0 \in P
  <2>1. f[0] = 0 /\ g[0] = 0  BY DEF SumFun
  <2> QED  BY <2>1
<1>2. ASSUME NEW i \in Nat, i \in P PROVE i + 1 \in P
  <2> SUFFICES ASSUME i + 1 <= k, i + 1 <= l
               PROVE  f[i + 1] = g[i + 1] /\ f[i + 1] \in Nat
    OBVIOUS
  <2>1. f[i] = g[i] /\ f[i] \in Nat  BY <1>2
  <2>2. i + 1 \in 0 .. k /\ i + 1 \in 0 .. l /\ i + 1 # 0 /\ i + 1 - 1 = i  OBVIOUS
  <2>3. f[i + 1] = f[i] + d[i + 1].size  BY <2>2 DEF SumFun
  <2>4. g[i + 1] = g[i] + d[i + 1].size  BY <2>2 DEF SumFun
  <2>5. d[i + 1].size \in Nat
    <3>1. i + 1 \in 1 .. Len(d)  BY <1>0
    <3> QED  BY <3>1, DirEntries
  <2> QED  BY <2>1, <2>3, <2>4, <2>5
<1>3. j \in P
  <2> HIDE DEF P
  <2>1. Nat \subseteq P  BY <1>1, <1>2, SetInduction
  <2> QED  BY <2>1
<1> QED  BY <1>3

\* What SizeOfFirst computes: a sum, over a directory's files one by one.
LEMMA SizeOfFirstIs ==
  ASSUME NEW d \in Dirs
  PROVE  /\ SizeOfFirst(d, 0) = 0
         /\ \A k \in 0 .. Len(d) : SizeOfFirst(d, k) \in Nat
         /\ \A k \in 1 .. Len(d) : SizeOfFirst(d, k) = SizeOfFirst(d, k - 1) + d[k].size
<1> DEFINE F(k) == CHOOSE f : SumFun(d, k, f)
<1>0. Len(d) \in Nat  BY DEF Dirs
<1>1. ASSUME NEW k \in 0 .. Len(d) PROVE SumFun(d, k, F(k)) /\ SizeOfFirst(d, k) = F(k)[k]
  <2>1. k \in Nat /\ k <= Len(d)  BY <1>0
  <2>2. \E f : SumFun(d, k, f)  BY <2>1, SumExists
  <2> QED  BY <2>2, SumIs
<1> HIDE DEF F
<1>2. SizeOfFirst(d, 0) = 0
  <2>1. SumFun(d, 0, F(0)) /\ SizeOfFirst(d, 0) = F(0)[0]  BY <1>0, <1>1
  <2> QED  BY <2>1 DEF SumFun
<1>3. ASSUME NEW k \in 0 .. Len(d) PROVE SizeOfFirst(d, k) \in Nat
  <2>1. k \in Nat /\ k <= Len(d)  BY <1>0
  <2> QED  BY <1>1, <2>1, SumSame
<1>4. ASSUME NEW k \in 1 .. Len(d) PROVE SizeOfFirst(d, k) = SizeOfFirst(d, k - 1) + d[k].size
  <2>1. /\ k \in Nat /\ k <= Len(d) /\ k - 1 \in Nat /\ k - 1 <= Len(d) /\ k - 1 <= k
        /\ k \in 0 .. Len(d) /\ k - 1 \in 0 .. Len(d) /\ k \in 0 .. k /\ k # 0
    BY <1>0
  <2>2. F(k)[k] = F(k)[k - 1] + d[k].size  BY <1>1, <2>1 DEF SumFun
  <2>3. F(k)[k - 1] = F(k - 1)[k - 1]
    <3>1. SumFun(d, k, F(k)) /\ SumFun(d, k - 1, F(k - 1)) /\ k - 1 <= k - 1  BY <1>1, <2>1
    <3> QED  BY <2>1, <3>1, SumSame
  <2> QED  BY <1>1, <2>1, <2>2, <2>3
<1> QED  BY <1>2, <1>3, <1>4

\* Files have bytes: each begins behind the ones before it.
LEMMA SizeGrows ==
  ASSUME NEW d \in Dirs, NEW i \in Nat, NEW j \in Nat, i < j, j <= Len(d)
  PROVE  SizeOfFirst(d, i) < SizeOfFirst(d, j)
<1> DEFINE S(k) == SizeOfFirst(d, k)
           P == {n \in Nat : i + n + 1 <= Len(d) => S(i) < S(i + n + 1)}
<1>0. Len(d) \in Nat  BY DEF Dirs
<1>1. \A k \in 0 .. Len(d) : S(k) \in Nat  BY SizeOfFirstIs
<1>2. ASSUME NEW k \in 1 .. Len(d) PROVE S(k - 1) < S(k)
  <2>1. S(k) = S(k - 1) + d[k].size  BY SizeOfFirstIs
  <2>2. d[k].size \in Nat \ {0}  BY DirEntries
  <2>3. k - 1 \in 0 .. Len(d)  BY <1>0
  <2>4. S(k - 1) \in Nat  BY <1>1, <2>3
  <2> HIDE DEF S
  <2> QED  BY <2>1, <2>2, <2>4
<1> HIDE DEF S
<1>3. 0 \in P
  <2> SUFFICES ASSUME i + 0 + 1 <= Len(d) PROVE S(i) < S(i + 0 + 1)  OBVIOUS
  <2>1. i + 1 \in 1 .. Len(d) /\ (i + 1) - 1 = i /\ i + 0 + 1 = i + 1  BY <1>0
  <2>2. S((i + 1) - 1) < S(i + 1)  BY <1>2, <2>1
  <2> QED  BY <2>1, <2>2
<1>4. ASSUME NEW n \in Nat, n \in P PROVE n + 1 \in P
  <2> SUFFICES ASSUME i + (n + 1) + 1 <= Len(d) PROVE S(i) < S(i + (n + 1) + 1)  OBVIOUS
  <2>1. S(i) < S(i + n + 1)  BY <1>0, <1>4
  <2>2. i + (n + 1) + 1 \in 1 .. Len(d) /\ (i + (n + 1) + 1) - 1 = i + n + 1  BY <1>0
  <2>3. S(i + n + 1) < S(i + (n + 1) + 1)  BY <1>2, <2>2
  <2>4. i \in 0 .. Len(d) /\ i + n + 1 \in 0 .. Len(d) /\ i + (n + 1) + 1 \in 0 .. Len(d)  BY <1>0
  <2> QED  BY <1>1, <2>1, <2>3, <2>4
<1>5. j - i - 1 \in P
  <2> HIDE DEF P
  <2>1. Nat \subseteq P  BY <1>3, <1>4, SetInduction
  <2>2. j - i - 1 \in Nat  OBVIOUS
  <2> QED  BY <2>1, <2>2
<1>6. i + (j - i - 1) + 1 = j  OBVIOUS
<1> QED  BY <1>5, <1>6 DEF S

\* The directory a ramdisk was built from.
LEMMA DirIs ==
  ASSUME dir \in Directories
  PROVE  /\ dir \in Dirs /\ Len(dir) \in Nat /\ Len(dir) > 0 /\ DOMAIN dir = 1 .. Len(dir)
         /\ \A i, j \in DOMAIN dir : dir[i].name = dir[j].name => i = j
         /\ \A i \in DOMAIN dir : dir[i].name \in DOMAIN Elf
<1>1. dir \in Dirs /\ dir # <<>> /\ \A i, j \in DOMAIN dir : dir[i].name = dir[j].name => i = j
  BY BootConstants, Zenon DEF Dirs, DirEntry
<1>2. Len(dir) \in Nat /\ DOMAIN dir = 1 .. Len(dir) /\ Len(dir) > 0
  <2> HIDE DEF DirEntry
  <2> QED  BY <1>1 DEF Dirs
<1>3. \A i \in DOMAIN dir : dir[i].name \in DOMAIN Elf
  <2>1. \A i \in 1 .. Len(dir) : dir[i] \in DirEntry  BY <1>1, DirEntries
  <2> QED  BY <1>2, <2>1 DEF DirEntry
<1> QED  BY <1>1, <1>2, <1>3

LEMMA Align8Is == ASSUME NEW n \in Nat PROVE Align8(n) \in Nat /\ Align8(n) >= n
BY DEF Align8

\* No two files begin at one place of an image.
LEMMA OneFileAt ==
  ASSUME dir \in Directories, NEW img, NEW base \in Nat, NEW o,
         img.data = [i \in DOMAIN dir |-> base + SizeOfFirst(dir, i - 1)],
         NEW f \in FilesAt(img, dir, o), NEW g \in FilesAt(img, dir, o)
  PROVE  f = g
<1>1. PICK i \in DOMAIN dir : f = dir[i].name /\ img.data[i] = o  BY DEF FilesAt
<1>2. PICK j \in DOMAIN dir : g = dir[j].name /\ img.data[j] = o  BY DEF FilesAt
<1>3. /\ i \in 1 .. Len(dir) /\ j \in 1 .. Len(dir) /\ Len(dir) \in Nat /\ dir \in Dirs  BY DirIs
<1>4. /\ i - 1 \in Nat /\ j - 1 \in Nat /\ i - 1 <= Len(dir) /\ j - 1 <= Len(dir)
      /\ i - 1 \in 0 .. Len(dir) /\ j - 1 \in 0 .. Len(dir)
  BY <1>3
<1> DEFINE S(k) == SizeOfFirst(dir, k)
<1>5. S(i - 1) \in Nat /\ S(j - 1) \in Nat  BY <1>3, <1>4, SizeOfFirstIs
<1>6. base + S(i - 1) = base + S(j - 1)  BY <1>1, <1>2
<1>7. i - 1 < j - 1 => S(i - 1) < S(j - 1)  BY <1>3, <1>4, SizeGrows
<1>8. j - 1 < i - 1 => S(j - 1) < S(i - 1)  BY <1>3, <1>4, SizeGrows
<1> HIDE DEF S
<1>9. i = j  BY <1>3, <1>4, <1>5, <1>6, <1>7, <1>8
<1> QED  BY <1>1, <1>2, <1>9

\* ramdisk_find_file, when names are different.
LEMMA OffsetIs ==
  ASSUME NEW img, NEW k \in DOMAIN img.entries,
         \A i, j \in DOMAIN img.entries : img.entries[i].name = img.entries[j].name => i = j,
         DOMAIN img.entries \subseteq Nat, DOMAIN img.entries = DOMAIN dir, dir \in Directories
  PROVE  OffsetOf(img, img.entries[k].name) = img.entries[k].offset
<1> DEFINE n == img.entries[k].name
           c == CHOOSE i \in DOMAIN img.entries :
                  /\ img.entries[i].name = n
                  /\ \A j \in 1 .. i - 1 : img.entries[j].name # n
<1>1. \A j \in 1 .. k - 1 : img.entries[j].name # n
  <2> SUFFICES ASSUME NEW j \in 1 .. k - 1, img.entries[j].name = n PROVE FALSE  OBVIOUS
  <2>1. k \in 1 .. Len(dir) /\ Len(dir) \in Nat  BY DirIs
  <2>2. j \in DOMAIN img.entries /\ j # k  BY <2>1, DirIs
  <2> QED  BY <2>2
<1>2. c \in DOMAIN img.entries /\ img.entries[c].name = n  BY <1>1
<1>3. c = k  BY <1>2
<1> QED  BY <1>3 DEF OffsetOf

\* What elf_load finds in an image of build_ramdisk: at most one file, and the file
\* asked for exactly where its entry is right.
LEMMA PyFinds ==
  ASSUME builder = "py", dir \in Directories, NEW n
  PROVE  /\ Found(Image, n) <=> \E k \in DOMAIN dir : dir[k].name = n
         /\ \A k \in DOMAIN dir : dir[k].name = n =>
              (n \in FilesAt(Image, dir, OffsetOf(Image, n)) <=> EntryRight(k))
         /\ \A f, g \in FilesAt(Image, dir, OffsetOf(Image, n)) : f = g
<1> DEFINE base == Align8(HEADER + Len(dir) * ENTRY)
           last == dir[Len(dir)].size
           img == PyImage(dir)
<1>0. /\ dir \in Dirs /\ Len(dir) \in Nat /\ Len(dir) > 0 /\ DOMAIN dir = 1 .. Len(dir)
      /\ \A i, j \in DOMAIN dir : dir[i].name = dir[j].name => i = j
  BY DirIs
<1>1. Image = img  BY DEF Image
<1>2. base \in Nat /\ last \in Nat
  <2>1. HEADER + Len(dir) * ENTRY \in Nat  BY <1>0 DEF HEADER, ENTRY
  <2>2. base \in Nat  BY <2>1, Align8Is
  <2>3. Len(dir) \in 1 .. Len(dir)  BY <1>0
  <2>4. last \in Nat  BY <1>0, <2>3, DirEntries
  <2> QED  BY <2>2, <2>4
<1>3. /\ img.magic = TRUE
      /\ img.entries = [i \in DOMAIN dir |->
           [name |-> dir[i].name, offset |-> base + (i - 1) * last, size |-> last]]
      /\ img.data = [i \in DOMAIN dir |-> base + SizeOfFirst(dir, i - 1)]
  BY DEF PyImage
<1> HIDE DEF img, base, last
<1>4. /\ DOMAIN img.entries = DOMAIN dir
      /\ \A i \in DOMAIN dir : /\ img.entries[i].name = dir[i].name
                               /\ img.entries[i].offset = base + (i - 1) * last
  BY <1>3
<1>5. Found(img, n) <=> \E k \in DOMAIN dir : dir[k].name = n  BY <1>3, <1>4 DEF Found
<1>6. \A f, g \in FilesAt(img, dir, OffsetOf(img, n)) : f = g  BY <1>2, <1>3, OneFileAt
<1>7. ASSUME NEW k \in DOMAIN dir, dir[k].name = n
      PROVE  n \in FilesAt(img, dir, OffsetOf(img, n)) <=> EntryRight(k)
  <2>1. DOMAIN dir \subseteq Nat /\ \A i, j \in DOMAIN img.entries :
                                    img.entries[i].name = img.entries[j].name => i = j
    BY <1>0, <1>4
  <2>2. img.entries[k].name = n  BY <1>4, <1>7
  <2>3. OffsetOf(img, img.entries[k].name) = img.entries[k].offset
    BY <1>4, <2>1, OffsetIs
  <2>4. OffsetOf(img, n) = base + (k - 1) * last  BY <1>4, <2>2, <2>3
  <2>5. n \in FilesAt(img, dir, OffsetOf(img, n)) <=> img.data[k] = OffsetOf(img, n)
    BY <1>0, <1>7 DEF FilesAt
  <2> DEFINE S == SizeOfFirst(dir, k - 1)
             p == (k - 1) * last
  <2>6. S \in Nat /\ p \in Nat
    <3>1. k - 1 \in 0 .. Len(dir) /\ k - 1 \in Nat  BY <1>0
    <3> QED  BY <1>0, <1>2, <3>1, SizeOfFirstIs
  <2>7. img.data[k] = base + S /\ OffsetOf(img, n) = base + p  BY <1>3, <2>4
  <2>8. EntryRight(k) <=> S = p  BY DEF EntryRight, last
  <2> HIDE DEF S, p
  <2> QED  BY <1>2, <2>5, <2>6, <2>7, <2>8
<1> QED  BY <1>1, <1>5, <1>6, <1>7

\* In an image of mkramdisk.c every entry points in front of all data.
LEMMA CFindsNothing ==
  ASSUME builder = "c", dir \in Directories, NEW n, Found(Image, n)
  PROVE  FilesAt(Image, dir, OffsetOf(Image, n)) = {}
<1> DEFINE base == Align8(12 + Len(dir) * ENTRY)
           written == HEADER + Len(dir) * ENTRY
           S(k) == SizeOfFirst(dir, k)
           start == Align8(base + SizeOfFirst(dir, Len(dir)))
           data == IF start > written THEN start ELSE written
           img == CImage(dir)
<1>0. /\ dir \in Dirs /\ Len(dir) \in Nat /\ Len(dir) > 0 /\ DOMAIN dir = 1 .. Len(dir)
      /\ \A i, j \in DOMAIN dir : dir[i].name = dir[j].name => i = j
  BY DirIs
<1>1. Image = img  BY DEF Image
<1>2. \A k \in 0 .. Len(dir) : S(k) \in Nat  BY <1>0, SizeOfFirstIs
<1>3. /\ img.magic = TRUE
      /\ img.entries = [i \in DOMAIN dir |->
           [name |-> dir[i].name, offset |-> base + S(i - 1), size |-> dir[i].size]]
      /\ img.data = [i \in DOMAIN dir |-> data + S(i - 1)]
  BY DEF CImage
<1>4. base \in Nat /\ written \in Nat
  <2>1. 12 + Len(dir) * ENTRY \in Nat /\ written \in Nat  BY <1>0 DEF HEADER, ENTRY
  <2> QED  BY <2>1, Align8Is
<1>5. start \in Nat /\ start >= base + S(Len(dir))
  <2>1. S(Len(dir)) \in Nat  BY <1>0, <1>2
  <2>2. base + S(Len(dir)) \in Nat  BY <1>4, <2>1
  <2> QED  BY <2>2, Align8Is
<1>6. data \in Nat /\ data >= base + S(Len(dir))
  <2>1. S(Len(dir)) \in Nat  BY <1>0, <1>2
  <2> HIDE DEF start, written, base, S
  <2> QED  BY <1>4, <1>5, <2>1
<1> HIDE DEF img, base, data, start, written
<1>7. /\ DOMAIN img.entries = DOMAIN dir
      /\ \A i \in DOMAIN dir : /\ img.entries[i].name = dir[i].name
                               /\ img.entries[i].offset = base + S(i - 1)
  BY <1>3
<1>8. PICK k \in DOMAIN dir : dir[k].name = n  BY <1>1, <1>7 DEF Found
<1>9. OffsetOf(img, n) = base + S(k - 1)
  <2>1. DOMAIN dir \subseteq Nat /\ \A i, j \in DOMAIN img.entries :
                                    img.entries[i].name = img.entries[j].name => i = j
    BY <1>0, <1>7
  <2>2. OffsetOf(img, img.entries[k].name) = img.entries[k].offset  BY <1>7, <2>1, OffsetIs
  <2> QED  BY <1>7, <1>8, <2>2
<1>10. S(k - 1) < S(Len(dir)) /\ S(k - 1) \in Nat /\ S(Len(dir)) \in Nat
  <2>1. /\ k - 1 \in Nat /\ k - 1 < Len(dir) /\ k - 1 \in 0 .. Len(dir)
        /\ Len(dir) \in 0 .. Len(dir) /\ Len(dir) <= Len(dir)
    BY <1>0
  <2> QED  BY <1>0, <1>2, <2>1, SizeGrows
<1>11. ASSUME NEW j \in DOMAIN dir PROVE img.data[j] # OffsetOf(img, n)
  <2>1. j - 1 \in 0 .. Len(dir)  BY <1>0
  <2>2. S(j - 1) \in Nat  BY <1>2, <2>1
  <2>3. img.data[j] = data + S(j - 1)  BY <1>3
  <2> HIDE DEF S
  <2> QED  BY <1>4, <1>6, <1>9, <1>10, <2>2, <2>3
<1> QED  BY <1>1, <1>11 DEF FilesAt

-----------------------------------------------------------------------------
(* kmain *)

LEMMA ServersAre ==
  /\ Len(Servers) = 2 /\ DOMAIN Servers = {1, 2} /\ Servers[1] # Servers[2]
BY DEF Servers

LEMMA BootInit == Init => BootInv
<1> SUFFICES ASSUME Init PROVE BootInv  OBVIOUS
<1>1. /\ ENTRIES \in Nat \ {0} /\ MEM_WORDS \in Nat /\ KERNEL_HEAP_SIZE \in Nat
      /\ FIRST_PHYS \in Nat /\ RAM \in Nat
  BY MmConstants, BootConstants, Zenon
<1>2. 0 \in Pointers
  <2>1. 0 < IDENTITY  BY <1>1 DEF IDENTITY
  <2> QED  BY <1>1, <2>1, IdentityFrame
<1>3. Empty \in [present : BOOLEAN, addr : Pointers]  BY <1>2, EntryType DEF Empty
<1>4. HeapOK(mm)
  <2>1. mm = [heap_offset |-> 0, mem |-> [a \in 0 .. MEM_WORDS - 1 |-> Empty], regions |-> {}]
    BY DEF Init, MmStart
  <2>2. [a \in 0 .. MEM_WORDS - 1 |-> Empty] \in Memory  BY <1>3 DEF Memory
  <2>3. mm \in MemoryState /\ mm.regions = {}  BY <1>1, <2>1, <2>2 DEF MemoryState
  <2> QED  BY <2>3 DEF HeapOK, MemoryState
<1>5. MmTypeOK
  <2>1. mm \in MemoryState  BY <1>4 DEF HeapOK, MemoryState
  <2>2. mm.heap_offset \in 0 .. KERNEL_HEAP_SIZE /\ mm.mem \in Memory /\ mm.regions \subseteq Region
    BY <2>1 DEF MemoryState
  <2>3. Pointers \subseteq 0 .. MEM_WORDS - 1  BY <1>1 DEF Pointers
  <2>4. mm.mem \in [0 .. MEM_WORDS - 1 -> [present : BOOLEAN, addr : 0 .. MEM_WORDS - 1]]
    BY <2>2, <2>3 DEF Memory
  <2> QED  BY <1>1, <2>2, <2>4 DEF Init, MmStart, MmTypeOK, Region
<1>6. MmInv  BY <1>4, <1>5 DEF MmInv, Init, MmStart
<1>7. TypeOK  BY <1>5, ServersAre DEF TypeOK, Init
<1>8. LoadInv
  <2>1. \A s \in DOMAIN Servers : ~(s < server)  BY ServersAre DEF Init
  <2>2. loaded \in Seq([name : {Servers[1], Servers[2]}, file : DOMAIN Elf]) /\ DOMAIN loaded = {}
    BY DEF Init
  <2>3. IF builder = "none" THEN dir = <<>> ELSE dir \in Directories  BY DEF Init
  <2> QED  BY <2>1, <2>2, <2>3 DEF LoadInv, Init
<1> QED  BY <1>6, <1>7, <1>8 DEF BootInv

\* The memory manager works under the rest of the boot.
LEMMA MmCallsDone == MmCalls => mm_step' = mm_step
BY DEF MmCalls, MmAlloc, MmPhysAlloc, MmPageTableCreate, MmPageMap, MmPageUnmap,
       MmPageWalkCreate, MmPageProtect, MmSwitchPageTable, MmVmaAdd, MmVmaRemove, mmRest

\* A step that changes nothing of the boot but, possibly, its place before "find".
LEMMA LoadStays ==
  ASSUME LoadInv, TypeOK, MmInv', UNCHANGED <<builder, dir, server, elf, seg, ram, loaded>>,
         \/ boot_step' = boot_step
         \/ boot_step \in {"mm_init", "block"} /\ boot_step' \in {"block", "find"},
         boot_step' # "mm_init" => mm_step' = "done"
  PROVE  TypeOK' /\ LoadInv'
<1>1. MmTypeOK'  BY DEF MmInv
<1>2. TypeOK'  BY <1>1 DEF TypeOK
<1>3. \A f, n : InRam(f, n)' <=> InRam(f, n)  BY DEF InRam, Covers, Placed
<1>4. \A s : Own(s)' <=> Own(s)  BY DEF Own, EntryRight, Accepted
<1> QED  BY <1>2, <1>3, <1>4 DEF LoadInv

LEMMA KmainMmInitInv == ASSUME BootInv, KmainMmInit PROVE BootInv'
<1>1. MmInv'  BY MmInitInv DEF BootInv, KmainMmInit
<1> QED  BY <1>1, LoadStays DEF BootInv, KmainMmInit

LEMMA KmainBlockInv == ASSUME BootInv, KmainBlock PROVE BootInv'
<1>1. BLOCK_SIZE \in Nat  BY BootConstants, Zenon
<1>2. mm_step = "done" /\ HeapOK(mm) /\ heap_base \in HeapBases
  BY DEF BootInv, LoadInv, KmainBlock, MmInv, MmTypeOK
<1>3. HeapOK(mm_alloc(mm, BLOCK_SIZE, 2).s)  BY <1>1, <1>2, AllocOK DEF Aligns
<1>4. HeapOK(mm)'  BY <1>3 DEF KmainBlock, HeapOK
<1>5. MmInv'  BY <1>2, <1>4, MemoryStep DEF BootInv, KmainBlock, HeapOnly
<1> QED  BY <1>2, <1>5, LoadStays DEF BootInv, KmainBlock, HeapOnly

LEMMA KernelCallsInv == ASSUME BootInv, KernelCalls PROVE BootInv'
<1>1. MmInv'  BY MmCallsInv DEF BootInv, KernelCalls
<1>2. mm_step' = mm_step  BY MmCallsDone DEF KernelCalls
<1>3. boot_step' = boot_step /\ UNCHANGED <<builder, dir, server, elf, seg, ram, loaded>>
  BY DEF KernelCalls, bootVars
<1>4. boot_step' # "mm_init" => mm_step' = "done"  BY <1>2, <1>3 DEF BootInv, LoadInv
<1> QED  BY <1>1, <1>3, <1>4, LoadStays DEF BootInv

\* The memory manager is not called while a server is looked up.
LEMMA LoadFindInv == ASSUME BootInv, LoadFind PROVE BootInv'
<1> DEFINE n == Servers[server]
           heads == {f \in FilesAt(Image, dir, OffsetOf(Image, n)) : Accepted(f)}
<1>0. /\ boot_step = "find" /\ server \in 1 .. Len(Servers) + 1 /\ MmInv /\ TypeOK /\ LoadInv
      /\ UNCHANGED <<mmVars, builder, dir, ram, loaded>>
  BY DEF BootInv, LoadFind, TypeOK
<1>1. MmInv'  BY <1>0 DEF MmInv, MmTypeOK, HeapOK, mmVars
<1>2. mm_step' = mm_step  BY <1>0 DEF mmVars
<1>3. \A f, m : InRam(f, m)' <=> InRam(f, m)  BY <1>0 DEF InRam, Covers, Placed
<1>4. \A s : Own(s)' <=> Own(s)  BY <1>0 DEF Own, EntryRight, Accepted
<1>5. MmTypeOK'  BY <1>1 DEF MmInv
<1>6. CASE server > Len(Servers)
  <2>1. boot_step' = "running" /\ UNCHANGED <<server, elf, seg>>  BY <1>6 DEF LoadFind
  <2>2. TypeOK'  BY <1>0, <1>5, <2>1 DEF TypeOK
  <2>3. server' = Len(Servers) + 1  BY <1>0, <1>6, <2>1, ServersAre
  <2>4. LoadInv'  BY <1>0, <1>2, <1>3, <1>4, <2>1, <2>3 DEF LoadInv
  <2> QED  BY <1>1, <2>2, <2>4 DEF BootInv
<1>7. CASE ~(server > Len(Servers)) /\ Found(Image, n) /\ heads # {}
  <2>1. boot_step' = "segment" /\ elf' \in heads /\ seg' = 1 /\ server' = server
    BY <1>7 DEF LoadFind
  <2>2. server \in DOMAIN Servers /\ server <= Len(Servers)  BY <1>0, <1>7, ServersAre
  <2>3. elf' \in FilesAt(Image, dir, OffsetOf(Image, n)) /\ Accepted(elf')  BY <2>1 DEF Accepted
  <2>4. builder # "c" /\ builder # "none"
    <3>1. builder = "c" => FALSE
      <4> SUFFICES ASSUME builder = "c" PROVE FALSE  OBVIOUS
      <4>1. dir \in Directories  BY <1>0 DEF LoadInv
      <4> QED  BY <1>7, <2>3, <4>1, CFindsNothing
    <3>2. builder = "none" => FALSE
      <4> SUFFICES ASSUME builder = "none" PROVE FALSE  OBVIOUS
      <4>1. Image = NoImage  BY DEF Image
      <4> QED  BY <1>7, <4>1 DEF Found, NoImage
    <3> QED  BY <3>1, <3>2
  <2>5. builder = "py" /\ dir \in Directories  BY <1>0, <2>4 DEF LoadInv
  <2>6. elf' \in DOMAIN Elf
    <3>1. PICK k \in DOMAIN dir : elf' = dir[k].name  BY <2>3 DEF FilesAt
    <3> QED  BY <2>5, <3>1, DirIs
  <2>7. elf' = n <=> Own(server)
    <3>1. /\ \E k \in DOMAIN dir : dir[k].name = n
          /\ \A k \in DOMAIN dir : dir[k].name = n =>
               (n \in FilesAt(Image, dir, OffsetOf(Image, n)) <=> EntryRight(k))
          /\ \A f, g \in FilesAt(Image, dir, OffsetOf(Image, n)) : f = g
      BY <1>7, <2>5, PyFinds
    <3>2. ASSUME elf' = n PROVE Own(server)  BY <2>3, <3>1, <3>2 DEF Own
    <3>3. ASSUME Own(server) PROVE elf' = n
      <4>1. PICK k \in DOMAIN dir : dir[k].name = n /\ EntryRight(k)  BY <3>3 DEF Own
      <4>2. n \in FilesAt(Image, dir, OffsetOf(Image, n))  BY <3>1, <4>1
      <4> QED  BY <2>3, <3>1, <4>2
    <3> QED  BY <3>2, <3>3
  <2> HIDE DEF n, heads
  <2>8. Elf[elf'].segs \in Seq([load : BOOLEAN, vaddr : Nat, filesz : Nat, memsz : Nat])
    BY <2>6, BootConstants, Zenon
  <2>9. /\ Len(Elf[elf'].segs) \in Nat /\ DOMAIN Elf[elf'].segs = 1 .. Len(Elf[elf'].segs)
    <3> DEFINE T == [load : BOOLEAN, vaddr : Nat, filesz : Nat, memsz : Nat]
    <3>1. Elf[elf'].segs \in Seq(T)  BY <2>8
    <3> HIDE DEF T
    <3> QED  BY <3>1
  <2>10. seg' \in 1 .. Len(Elf[elf'].segs) + 1 /\ seg' \in Nat /\ InRam(elf, seg - 1)'
    <3>1. seg' \in 1 .. Len(Elf[elf'].segs) + 1 /\ seg' \in Nat  BY <2>1, <2>9
    <3>2. \A i \in DOMAIN Elf[elf'].segs : ~(i <= seg' - 1)  BY <2>1, <2>9
    <3> QED  BY <3>1, <3>2 DEF InRam
  <2>11. TypeOK'  BY <1>0, <1>5, <2>1, <2>6, <2>10 DEF TypeOK
  <2>12. elf' = Servers[server'] <=> Own(server)'  BY <1>4, <2>1, <2>7 DEF n, Own, EntryRight
  <2>13. \A s \in DOMAIN Servers : (s < server' /\ Own(s)') <=> (s < server /\ Own(s))
    BY <1>4, <2>1
  <2>14. LoadInv'
    BY <1>0, <1>2, <2>1, <2>2, <2>4, <2>5, <2>6, <2>10, <2>12, <2>13 DEF LoadInv
  <2> QED  BY <1>1, <2>11, <2>14 DEF BootInv
<1>8. CASE ~(server > Len(Servers)) /\ ~(Found(Image, n) /\ heads # {})
  <2>1. server' = server + 1 /\ UNCHANGED <<boot_step, elf, seg>>  BY <1>8 DEF LoadFind
  <2>2. server \in DOMAIN Servers  BY <1>0, <1>8, ServersAre
  <2>3. builder = "py" => ~Own(server)
    <3> SUFFICES ASSUME builder = "py", Own(server) PROVE FALSE  OBVIOUS
    <3>1. dir \in Directories  BY <1>0 DEF LoadInv
    <3>2. PICK k \in DOMAIN dir : dir[k].name = n /\ EntryRight(k)  BY DEF Own
    <3>3. Found(Image, n) /\ n \in FilesAt(Image, dir, OffsetOf(Image, n))
      BY <3>1, <3>2, PyFinds
    <3> QED  BY <1>8, <3>3 DEF Own
  <2>4. \A s \in DOMAIN Servers : s < server' <=> s < server \/ s = server
    BY <1>0, <2>1, ServersAre
  <2>5. server' \in 1 .. Len(Servers) + 1  BY <1>0, <1>8, <2>1, ServersAre
  <2>6. TypeOK'  BY <1>0, <1>5, <2>1, <2>5 DEF TypeOK
  <2>7. LoadInv'
    BY <1>0, <1>2, <1>3, <1>4, <2>1, <2>3, <2>4 DEF LoadInv
  <2> QED  BY <1>1, <2>6, <2>7 DEF BootInv
<1> QED  BY <1>6, <1>7, <1>8

\* The segments of a file are typed, and cover disjoint words.
Segment == [load : BOOLEAN, vaddr : Nat, filesz : Nat, memsz : Nat]
LEMMA SegmentsAre ==
  ASSUME NEW f \in DOMAIN Elf
  PROVE  /\ Len(Elf[f].segs) \in Nat /\ DOMAIN Elf[f].segs = 1 .. Len(Elf[f].segs)
         /\ \A i \in DOMAIN Elf[f].segs : Elf[f].segs[i].memsz \in Nat
         /\ \A i, j \in DOMAIN Elf[f].segs : \A a \in 0 .. RAM - 1 :
              Covers(f, i, a) /\ Covers(f, j, a) => i = j
<1>1. Elf[f].segs \in Seq(Segment)  BY BootConstants, Zenon DEF Segment
<1>2. \A i, j \in DOMAIN Elf[f].segs : \A a \in 0 .. RAM - 1 :
        Covers(f, i, a) /\ Covers(f, j, a) => i = j
  BY BootConstants, Zenon
<1>3. /\ Len(Elf[f].segs) \in Nat /\ DOMAIN Elf[f].segs = 1 .. Len(Elf[f].segs)
      /\ \A i \in DOMAIN Elf[f].segs : Elf[f].segs[i] \in Segment
  <2> HIDE DEF Segment
  <2> QED  BY <1>1
<1>4. \A i \in DOMAIN Elf[f].segs : Elf[f].segs[i].memsz \in Nat  BY <1>3 DEF Segment
<1> QED  BY <1>2, <1>3, <1>4

\* One program header: the words it covers are filled, those of earlier headers stay.
LEMMA FillSegmentInv ==
  ASSUME BootInv, LoadSegment, seg <= Len(Elf[elf].segs) PROVE BootInv'
<1>0. /\ boot_step = "segment" /\ MmInv /\ TypeOK /\ LoadInv /\ elf \in DOMAIN Elf
      /\ seg \in 1 .. Len(Elf[elf].segs) + 1 /\ InRam(elf, seg - 1) /\ DOMAIN ram = 0 .. RAM - 1
      /\ heap_base \in HeapBases /\ HeapOK(mm)
  BY DEF BootInv, LoadSegment, LoadInv, MmInv, MmTypeOK
<1>1. /\ mm' = IF Elf[elf].segs[seg].load
               THEN mm_alloc(mm, Elf[elf].segs[seg].memsz, ENTRIES).s ELSE mm
      /\ ram' = Fill(elf, seg) /\ seg' = seg + 1
      /\ UNCHANGED <<boot_step, server, elf, loaded, builder, dir>> /\ HeapOnly
  BY DEF LoadSegment
<1>2. /\ Len(Elf[elf].segs) \in Nat /\ DOMAIN Elf[elf].segs = 1 .. Len(Elf[elf].segs)
      /\ \A i \in DOMAIN Elf[elf].segs : Elf[elf].segs[i].memsz \in Nat
      /\ \A i, j \in DOMAIN Elf[elf].segs : \A a \in 0 .. RAM - 1 :
           Covers(elf, i, a) /\ Covers(elf, j, a) => i = j
  BY <1>0, SegmentsAre
<1>3. seg \in DOMAIN Elf[elf].segs /\ seg \in Nat  BY <1>0, <1>2
<1>4. HeapOK(mm)'
  <2>1. Elf[elf].segs[seg].memsz \in Nat  BY <1>2, <1>3
  <2>2. HeapOK(mm_alloc(mm, Elf[elf].segs[seg].memsz, ENTRIES).s)
    BY <1>0, <2>1, AllocOK DEF Aligns
  <2>3. mm' = mm_alloc(mm, Elf[elf].segs[seg].memsz, ENTRIES).s \/ mm' = mm  BY <1>1
  <2>4. CASE mm' = mm_alloc(mm, Elf[elf].segs[seg].memsz, ENTRIES).s  BY <2>2, <2>4 DEF HeapOK
  <2>5. CASE mm' = mm  BY <1>0, <2>5 DEF HeapOK
  <2> QED  BY <2>3, <2>4, <2>5
<1>5. mm_step = "done" /\ mm_step' = "done"  BY <1>0, <1>1 DEF LoadInv, HeapOnly
<1>6. MmInv'  BY <1>0, <1>1, <1>4, <1>5, MemoryStep DEF HeapOnly
<1>7. /\ DOMAIN ram' = 0 .. RAM - 1
      /\ \A a \in 0 .. RAM - 1 :
           ram'[a] = IF Covers(elf, seg, a) THEN Placed(elf, seg, a) ELSE ram[a]
  BY <1>0, <1>1 DEF Fill
<1>8. InRam(elf, seg - 1)'
  <2> SUFFICES ASSUME NEW i \in DOMAIN Elf[elf].segs, NEW a \in 0 .. RAM - 1,
                      i <= seg, Covers(elf, i, a)
               PROVE  ram'[a] = Placed(elf, i, a)
    <3>1. elf' = elf /\ seg' - 1 = seg  BY <1>1, <1>3
    <3> QED  BY <1>7, <3>1 DEF InRam, Covers, Placed
  <2>1. CASE i = seg  BY <1>7, <2>1
  <2>2. CASE i # seg
    <3>1. i <= seg - 1  BY <1>2, <1>3, <2>2
    <3>2. ~Covers(elf, seg, a)  BY <1>2, <1>3, <2>2
    <3>3. ram[a] = Placed(elf, i, a)  BY <1>0, <3>1 DEF InRam
    <3> QED  BY <1>7, <3>2, <3>3
  <2> QED  BY <2>1, <2>2
<1>9. seg' \in 1 .. Len(Elf[elf].segs) + 1 /\ seg' \in Nat  BY <1>1, <1>2, <1>3
<1>10. MmTypeOK'  BY <1>6 DEF MmInv
<1>11. TypeOK'  BY <1>0, <1>1, <1>9, <1>10 DEF TypeOK
<1>12. \A s : Own(s)' <=> Own(s)  BY <1>1 DEF Own, EntryRight, Accepted
<1>13. LoadInv'  BY <1>0, <1>1, <1>5, <1>7, <1>8, <1>9, <1>12 DEF LoadInv
<1> QED  BY <1>6, <1>11, <1>13 DEF BootInv

\* The end of elf_load: the file is in memory and the server counts as loaded.
LEMMA EndSegmentInv ==
  ASSUME BootInv, LoadSegment, ~(seg <= Len(Elf[elf].segs)) PROVE BootInv'
<1> DEFINE new == [name |-> Servers[server], file |-> elf]
           Log == [name : {Servers[1], Servers[2]}, file : DOMAIN Elf]
<1>0. /\ boot_step = "segment" /\ MmInv /\ TypeOK /\ LoadInv /\ elf \in DOMAIN Elf
      /\ seg \in 1 .. Len(Elf[elf].segs) + 1 /\ InRam(elf, seg - 1) /\ DOMAIN ram = 0 .. RAM - 1
      /\ server \in 1 .. Len(Servers) + 1 /\ server <= Len(Servers) /\ loaded \in Seq(Log)
  BY DEF BootInv, LoadSegment, LoadInv, TypeOK
<1>1. /\ loaded' = Append(loaded, new) /\ server' = server + 1 /\ boot_step' = "find"
      /\ elf' = "none" /\ seg' = 0 /\ UNCHANGED <<mm, ram, builder, dir>> /\ HeapOnly
  BY DEF LoadSegment
<1>2. Len(Elf[elf].segs) \in Nat  BY <1>0, SegmentsAre
<1>3. seg - 1 = Len(Elf[elf].segs)  BY <1>0, <1>2
<1>4. MmInv'  BY <1>0, <1>1 DEF MmInv, MmTypeOK, HeapOK, HeapOnly
<1>5. mm_step' = mm_step  BY <1>1 DEF HeapOnly
<1>6. server \in DOMAIN Servers /\ new \in Log  BY <1>0, ServersAre
<1>7. /\ loaded' \in Seq(Log) /\ Len(loaded') = Len(loaded) + 1 /\ loaded'[Len(loaded')] = new
      /\ Len(loaded) \in Nat /\ DOMAIN loaded = 1 .. Len(loaded)
      /\ DOMAIN loaded' = 1 .. Len(loaded) + 1
      /\ \A i \in DOMAIN loaded : loaded'[i] = loaded[i]
  <2> HIDE DEF new, Log
  <2> QED  BY <1>0, <1>1, <1>6, AppendProperties
<1>8. new.file = elf /\ new.name = Servers[server]  OBVIOUS
<1>9. \A f, m : InRam(f, m)' <=> InRam(f, m)  BY <1>1 DEF InRam, Covers, Placed
<1>10. \A s : Own(s)' <=> Own(s)  BY <1>1 DEF Own, EntryRight, Accepted
<1>11. InRam(loaded[Len(loaded)].file, Len(Elf[loaded[Len(loaded)].file].segs))'
  <2>1. loaded'[Len(loaded')].file = elf  BY <1>7, <1>8
  <2>2. InRam(elf, Len(Elf[elf].segs))  BY <1>0, <1>3
  <2> QED  BY <1>1, <2>1, <2>2 DEF InRam, Covers, Placed
<1>12. TypeOK'
  <2>1. MmTypeOK'  BY <1>4 DEF MmInv
  <2>2. server' \in 1 .. Len(Servers) + 1  BY <1>0, <1>1, ServersAre
  <2>3. ASSUME NEW i \in DOMAIN loaded'
        PROVE  loaded'[i].name = Servers[1] \/ loaded'[i].name = Servers[2]
    <3> HIDE DEF Log
    <3>1. loaded'[i] \in Log  BY <1>7
    <3> QED  BY <3>1 DEF Log
  <2> QED  BY <1>1, <2>1, <2>2, <2>3 DEF TypeOK
<1>13. builder # "c"  BY <1>0 DEF LoadInv
<1>14. ASSUME builder = "py", NEW s \in DOMAIN Servers
       PROVE  (\E i \in DOMAIN loaded' : loaded'[i] = [name |-> Servers[s], file |-> Servers[s]])
              <=> s < server' /\ Own(s)
  <2> DEFINE own == [name |-> Servers[s], file |-> Servers[s]]
  <2>1. (\E i \in DOMAIN loaded : loaded[i] = own) <=> s < server /\ Own(s)
    BY <1>0, <1>14 DEF LoadInv
  <2>2. elf = Servers[server] <=> Own(server)  BY <1>0, <1>14 DEF LoadInv
  <2>3. new = own <=> s = server /\ elf = Servers[server]
    <3>1. new = own => s = server /\ elf = Servers[server]
      <4> SUFFICES ASSUME new = own PROVE s = server /\ elf = Servers[server]  OBVIOUS
      <4>1. new.name = own.name /\ new.file = own.file  OBVIOUS
      <4>2. Servers[server] = Servers[s] /\ elf = Servers[s]  BY <4>1
      <4> QED  BY <1>6, <4>2, ServersAre
    <3> QED  BY <3>1
  <2>4. (\E i \in DOMAIN loaded' : loaded'[i] = own)
        <=> (\E i \in DOMAIN loaded : loaded[i] = own) \/ new = own
    <3> HIDE DEF own, new
    <3> QED  BY <1>7
  <2>5. s < server' <=> s < server \/ s = server  BY <1>0, <1>1, ServersAre
  <2> QED  BY <2>1, <2>2, <2>3, <2>4, <2>5
<1> HIDE DEF new
<1>15. LoadInv'
  BY <1>0, <1>1, <1>5, <1>7, <1>10, <1>11, <1>13, <1>14 DEF LoadInv
<1> QED  BY <1>4, <1>12, <1>15 DEF BootInv

LEMMA BootNextInv == BootInv /\ [Next]_vars => BootInv'
<1> SUFFICES ASSUME BootInv, [Next]_vars PROVE BootInv'  OBVIOUS
<1>1. CASE KmainMmInit  BY <1>1, KmainMmInitInv
<1>2. CASE KmainBlock  BY <1>2, KmainBlockInv
<1>3. CASE LoadFind  BY <1>3, LoadFindInv
<1>4. CASE LoadSegment  BY <1>4, FillSegmentInv, EndSegmentInv
<1>5. CASE KernelCalls  BY <1>5, KernelCallsInv
<1>6. CASE UNCHANGED vars
  <2>1. UNCHANGED mmVars /\ UNCHANGED <<builder, dir, server, elf, seg, ram, loaded>>
        /\ boot_step' = boot_step
    BY <1>6 DEF vars, bootVars
  <2>2. MmInv'  BY <2>1 DEF BootInv, MmInv, MmTypeOK, HeapOK, mmVars
  <2>3. mm_step' = mm_step  BY <2>1 DEF mmVars
  <2>4. boot_step' # "mm_init" => mm_step' = "done"  BY <2>1, <2>3 DEF BootInv, LoadInv
  <2> QED  BY <2>1, <2>2, <2>4, LoadStays DEF BootInv
<1> QED  BY <1>1, <1>2, <1>3, <1>4, <1>5, <1>6 DEF Next

-----------------------------------------------------------------------------
(* Page tables: what walks find, and what they leave behind.  A step of    *)
(* this part is named by the memory before it, s, and behind it, t; T is   *)
(* the set of root tables that callers hold.                               *)

\* One hop of a walk that creates nothing, and such a walk that gets to a last table.
Hop(s, p, i) == IF s.mem[p + i].present THEN s.mem[p + i].addr ELSE NULL
Reaches(s, pt, v) ==
  LET pdpt == Hop(s, pt, Index(v, 3))
      pd == Hop(s, pdpt, Index(v, 2))
  IN  pdpt # NULL /\ pd # NULL /\ Hop(s, pd, Index(v, 1)) # NULL

\* page_table_get_entry, one line per way it returns.
LEMMA GetEntryIs ==
  ASSUME NEW s, NEW pt, NEW i, NEW create \in BOOLEAN
  PROVE  LET g == page_table_get_entry(s, pt, i, create)
             new == page_table_alloc(s)
         IN  /\ s.mem[pt + i].present \/ ~create => g = [ptr |-> Hop(s, pt, i), s |-> s]
             /\ ~s.mem[pt + i].present /\ create /\ new.ptr = NULL => g = new
             /\ ~s.mem[pt + i].present /\ create /\ new.ptr # NULL =>
                  g = [ptr |-> new.ptr,
                       s |-> [new.s EXCEPT !.mem[pt + i] = Entry(TRUE, PageOf(new.ptr))]]
BY DEF page_table_get_entry, Hop

\* A walk that creates nothing is three hops.
LEMMA WalkIs ==
  ASSUME NEW s, NEW pt, NEW v
  PROVE  LET d == Descend(s, pt, v, FALSE)
         IN  (d.ptr # NULL <=> Reaches(s, pt, v)) /\ d.s = s
<1> DEFINE a == Hop(s, pt, Index(v, 3))
           b == Hop(s, a, Index(v, 2))
           c == Hop(s, b, Index(v, 1))
           d == Descend(s, pt, v, FALSE)
<1>0. ASSUME NEW p, NEW i
      PROVE  /\ page_table_get_entry(s, p, i, FALSE) = [ptr |-> Hop(s, p, i), s |-> s]
             /\ page_table_get_entry(s, p, i, FALSE).ptr = Hop(s, p, i)
             /\ page_table_get_entry(s, p, i, FALSE).s = s
  <2> DEFINE g == page_table_get_entry(s, p, i, FALSE)
             h == Hop(s, p, i)
  <2>1. g = [ptr |-> h, s |-> s]  BY GetEntryIs
  <2> HIDE DEF g, h
  <2>2. g = [ptr |-> h, s |-> s] /\ g.ptr = h /\ g.s = s  BY <2>1
  <2> QED  BY <2>2 DEF g, h
<1>1. d = IF a = NULL THEN [ptr |-> a, s |-> s]
          ELSE IF b = NULL THEN [ptr |-> b, s |-> s] ELSE [ptr |-> c, s |-> s]
  BY <1>0 DEF Descend
<1>2. Reaches(s, pt, v) <=> a # NULL /\ b # NULL /\ c # NULL  BY DEF Reaches
<1> HIDE DEF a, b, c, d
<1>3. (d.ptr # NULL <=> Reaches(s, pt, v)) /\ d.s = s  BY <1>1, <1>2
<1> QED  BY <1>3 DEF d

\* mm_page_walk finds an entry of pt where a walk gets to a last table.
LEMMA PageWalkIs ==
  ASSUME NEW s, NEW pt \in Pointers \ {NULL}, NEW v \in Nat
  PROVE  mm_page_walk(s, pt, v, FALSE).ptr
           = IF Reaches(s, pt, v) THEN pt + Index(v, 0) ELSE NULL
<1>1. Descend(s, pt, v, FALSE).ptr # NULL <=> Reaches(s, pt, v)  BY WalkIs
<1> QED  BY <1>1 DEF mm_page_walk, Leaf

\* Walks see the entries only, and keep to present ones.
LEMMA WalkKept ==
  ASSUME NEW s, NEW t, NEW pt \in Pointers, NEW v \in Nat, HeapOK(s),
         Reaches(s, pt, v),
         \A a \in 0 .. MEM_WORDS - 1 : s.mem[a].present => t.mem[a] = s.mem[a]
  PROVE  Reaches(t, pt, v)
<1>1. /\ Index(v, 3) \in 0 .. ENTRIES - 1 /\ Index(v, 2) \in 0 .. ENTRIES - 1
      /\ Index(v, 1) \in 0 .. ENTRIES - 1
  BY IndexType
<1>2. ASSUME NEW p \in Pointers, NEW i \in 0 .. ENTRIES - 1, Hop(s, p, i) # NULL
      PROVE  Hop(t, p, i) = Hop(s, p, i) /\ Hop(s, p, i) \in Pointers
  <2>1. p + i \in 0 .. MEM_WORDS - 1  BY EntryInMemory
  <2>2. s.mem[p + i] \in [present : BOOLEAN, addr : Pointers]  BY <2>1 DEF HeapOK, Memory
  <2> QED  BY <1>2, <2>1, <2>2 DEF Hop
<1> QED  BY <1>1, <1>2 DEF Reaches

\* Where mm_alloc puts a region: behind everything given out, if no sum wraps.
LEMMA AllocAt ==
  ASSUME NEW s, HeapOK(s), NEW size \in Nat, NEW align \in Aligns, heap_base \in HeapBases
  PROVE  LET a == mm_alloc(s, size, align)
         IN  \/ a = [ptr |-> NULL, s |-> s] /\ a.ptr = NULL /\ a.s = s
             \/ \E start \in Nat :
                  /\ a.ptr = heap_base + start /\ a.ptr # NULL
                  /\ start >= s.heap_offset /\ start % align = 0
                  /\ a.s.mem = s.mem
                  /\ a.s.regions = s.regions \union {[at |-> start, size |-> size, align |-> align]}
                  /\ size <= KERNEL_HEAP_SIZE \/ size = ENTRIES =>
                       a.s.heap_offset = start + size /\ start + size <= KERNEL_HEAP_SIZE
<1> DEFINE start == align_up(s.heap_offset, align)
           end == (start + size) % SIZE_MOD
           new == [at |-> start, size |-> size, align |-> align]
           a == mm_alloc(s, size, align)
<1>1. /\ s.heap_offset \in Nat /\ s.heap_offset <= KERNEL_HEAP_SIZE
      /\ align \in Nat \ {0} /\ heap_base \in Nat \ {0}
      /\ KERNEL_HEAP_SIZE \in Nat /\ ENTRIES \in Nat \ {0} /\ SIZE_MOD \in Nat \ {0}
      /\ SIZE_MOD > 2 * (KERNEL_HEAP_SIZE + ENTRIES)
  <2>1. /\ KERNEL_HEAP_SIZE \in Nat /\ ENTRIES \in Nat \ {0} /\ SIZE_MOD \in Nat
        /\ SIZE_MOD > 2 * (KERNEL_HEAP_SIZE + ENTRIES) /\ HeapBases \subseteq Nat \ {NULL}
    BY MmConstants, Zenon
  <2>2. s.heap_offset \in 0 .. KERNEL_HEAP_SIZE  BY DEF HeapOK
  <2> QED  BY <2>1, <2>2 DEF Aligns, NULL
<1>2. start \in Nat /\ start >= s.heap_offset /\ start <= s.heap_offset + align - 1
      /\ start % align = 0
  BY <1>1, AlignUp
<1>3. end \in Nat  BY <1>1, <1>2
<1>4. CASE end > KERNEL_HEAP_SIZE
  <2>1. a = [ptr |-> NULL, s |-> s]  BY <1>4 DEF mm_alloc
  <2>2. a.ptr = NULL /\ a.s = s
    <3> HIDE DEF a
    <3> QED  BY <2>1
  <2> QED  BY <2>1, <2>2
<1>5. CASE ~(end > KERNEL_HEAP_SIZE)
  <2> HIDE DEF start, end
  <2>1. a = [ptr |-> heap_base + start,
             s |-> [s EXCEPT !.heap_offset = end, !.regions = @ \union {new}]]
    BY <1>5 DEF mm_alloc, start, end
  <2>2. a.ptr = heap_base + start /\ a.s = [s EXCEPT !.heap_offset = end, !.regions = @ \union {new}]
    <3> HIDE DEF a, new
    <3> QED  BY <2>1
  <2>3. s \in MemoryState  BY DEF HeapOK, MemoryState
  <2>4. a.s.heap_offset = end /\ a.s.mem = s.mem /\ a.s.regions = s.regions \union {new}
    <3> HIDE DEF a, new
    <3> QED  BY <2>2, <2>3 DEF MemoryState
  <2>5. size <= KERNEL_HEAP_SIZE \/ size = ENTRIES => end = start + size
    <3>1. s.heap_offset <= KERNEL_HEAP_SIZE  BY <1>1
    <3>2. start <= KERNEL_HEAP_SIZE + ENTRIES  BY <1>1, <1>2, <3>1 DEF Aligns
    <3>3. size <= KERNEL_HEAP_SIZE \/ size = ENTRIES => start + size \in 0 .. SIZE_MOD - 1
      BY <1>1, <1>2, <3>2
    <3> QED  BY <1>1, <3>3 DEF end
  <2>6. a.ptr # NULL  BY <1>1, <1>2, <2>2 DEF NULL
  <2>7. size <= KERNEL_HEAP_SIZE \/ size = ENTRIES =>
          a.s.heap_offset = start + size /\ start + size <= KERNEL_HEAP_SIZE
    BY <1>1, <1>3, <1>5, <2>4, <2>5
  <2> HIDE DEF a
  <2>8. \E x \in Nat :
          /\ a.ptr = heap_base + x /\ a.ptr # NULL
          /\ x >= s.heap_offset /\ x % align = 0
          /\ a.s.mem = s.mem
          /\ a.s.regions = s.regions \union {[at |-> x, size |-> size, align |-> align]}
          /\ size <= KERNEL_HEAP_SIZE \/ size = ENTRIES =>
               a.s.heap_offset = x + size /\ x + size <= KERNEL_HEAP_SIZE
    BY <1>2, <2>2, <2>4, <2>6, <2>7
  <2> QED  BY <2>8 DEF a
<1> QED  BY <1>4, <1>5

\* A page table lies behind everything given out.
LEMMA TableAt ==
  ASSUME NEW s, HeapOK(s), heap_base \in HeapBases
  PROVE  LET a == page_table_alloc(s)
         IN  /\ a.ptr = NULL => a = [ptr |-> NULL, s |-> s] /\ a.s = s
             /\ a.ptr # NULL =>
                  /\ a.ptr \in Pointers /\ HeapOK(a.s)
                  /\ a.ptr >= heap_base + s.heap_offset /\ (a.ptr - heap_base) % ENTRIES = 0
                  /\ a.ptr + ENTRIES = heap_base + a.s.heap_offset
                  /\ a.s.heap_offset >= s.heap_offset
                  /\ a.s.mem = s.mem
<1> DEFINE a == page_table_alloc(s)
<1>1. /\ ENTRIES \in Nat /\ KERNEL_HEAP_SIZE \in Nat /\ heap_base \in Nat
      /\ s.heap_offset \in 0 .. KERNEL_HEAP_SIZE
  <2>1. ENTRIES \in Nat /\ KERNEL_HEAP_SIZE \in Nat /\ HeapBases \subseteq Nat \ {NULL}
    BY MmConstants, Zenon
  <2>2. s.heap_offset \in 0 .. KERNEL_HEAP_SIZE  BY DEF HeapOK
  <2> QED  BY <2>1, <2>2
<1>2. a = mm_alloc(s, ENTRIES, ENTRIES) /\ ENTRIES \in Aligns  BY DEF page_table_alloc, Aligns
<1>3. HeapOK(a.s) /\ (a.ptr # NULL => a.ptr \in Pointers)  BY TableAllocOK
<1>4. \/ a = [ptr |-> NULL, s |-> s] /\ a.ptr = NULL /\ a.s = s
      \/ \E start \in Nat :
           /\ a.ptr = heap_base + start /\ a.ptr # NULL
           /\ start >= s.heap_offset /\ start % ENTRIES = 0
           /\ a.s.mem = s.mem /\ a.s.heap_offset = start + ENTRIES
  <2>1. ENTRIES \in Nat  BY <1>1
  <2> QED  BY <1>2, <2>1, AllocAt
<1> HIDE DEF a
<1>5. CASE a = [ptr |-> NULL, s |-> s] /\ a.ptr = NULL /\ a.s = s  BY <1>5 DEF a
<1>6. ASSUME NEW start \in Nat,
             a.ptr = heap_base + start /\ a.ptr # NULL,
             start >= s.heap_offset /\ start % ENTRIES = 0,
             a.s.mem = s.mem /\ a.s.heap_offset = start + ENTRIES
      PROVE  /\ a.ptr \in Pointers /\ HeapOK(a.s)
             /\ a.ptr >= heap_base + s.heap_offset /\ (a.ptr - heap_base) % ENTRIES = 0
             /\ a.ptr + ENTRIES = heap_base + a.s.heap_offset
             /\ a.s.heap_offset >= s.heap_offset
             /\ a.s.mem = s.mem
             /\ a.ptr # NULL
  <2>1. a.ptr - heap_base = start  BY <1>1, <1>6
  <2> QED  BY <1>1, <1>3, <1>6, <2>1
<1> QED  BY <1>4, <1>5, <1>6 DEF a

-----------------------------------------------------------------------------
(* What the entries of memory point to. *)

Apart(p, q) == p + ENTRIES <= q \/ q + ENTRIES <= p

\* A page at p was given out.
Taken(p, s) == heap_base <= p /\ p + ENTRIES <= heap_base + s.heap_offset

\* The root tables T do not overlap, and no entry points to one of them: entries point
\* to tables made on the way down, or out of the heap.
Linked(s, T) ==
  /\ \A pt \in T : Taken(pt, s)
  /\ \A pt, q \in T : pt = q \/ Apart(pt, q)
  /\ \A a \in 0 .. MEM_WORDS - 1 : LET p == s.mem[a].addr IN
       p = NULL \/ Outside(p) \/ (Taken(p, s) /\ \A pt \in T : Apart(p, pt))

\* From s to t only entries that were not present were written, of root tables at most
\* the ones in d; t is s with one entry written.
Grown(s, t, T, d) ==
  /\ \A a \in 0 .. MEM_WORDS - 1 : s.mem[a].present => t.mem[a] = s.mem[a]
  /\ \A q \in T, j \in 0 .. ENTRIES - 1 : <<q, j>> \notin d => t.mem[q + j] = s.mem[q + j]
Written(s, t, b, e) == \A a \in 0 .. MEM_WORDS - 1 : t.mem[a] = IF a = b THEN e ELSE s.mem[a]

\* The sizes of memory, in one place.
LEMMA MmSizes ==
  ASSUME heap_base \in HeapBases
  PROVE  /\ ENTRIES \in Nat /\ ENTRIES > 0 /\ MEM_WORDS \in Nat /\ KERNEL_HEAP_SIZE \in Nat
         /\ heap_base \in Nat /\ heap_base # 0
         /\ Pointers \subseteq Nat
         /\ \A s : HeapOK(s) => s.heap_offset \in Nat /\ s.heap_offset <= KERNEL_HEAP_SIZE
         /\ \A s : HeapOK(s) => \A a \in 0 .. MEM_WORDS - 1 :
              s.mem[a].present \in BOOLEAN /\ s.mem[a].addr \in Pointers
<1>1. /\ ENTRIES \in Nat \ {0} /\ MEM_WORDS \in Nat /\ KERNEL_HEAP_SIZE \in Nat
      /\ HeapBases \subseteq Nat \ {NULL}
  BY MmConstants, Zenon
<1>2. heap_base \in Nat /\ heap_base # 0  BY <1>1 DEF NULL
<1>3. Pointers \subseteq Nat  BY <1>1 DEF Pointers
<1>4. ASSUME NEW s, HeapOK(s) PROVE s.heap_offset \in Nat /\ s.heap_offset <= KERNEL_HEAP_SIZE
  BY <1>1, <1>4 DEF HeapOK
<1>5. ASSUME NEW s, HeapOK(s), NEW a \in 0 .. MEM_WORDS - 1
      PROVE  s.mem[a].present \in BOOLEAN /\ s.mem[a].addr \in Pointers
  <2>1. s.mem[a] \in [present : BOOLEAN, addr : Pointers]  BY <1>5 DEF HeapOK, Memory
  <2> QED  BY <2>1
<1> QED  BY <1>1, <1>2, <1>3, <1>4, <1>5

\* Where a walk goes on there is no root table.
LEMMA LinkApart ==
  ASSUME NEW s, HeapOK(s), heap_base \in HeapBases, NEW T, T \subseteq Pointers, Linked(s, T),
         NEW a \in 0 .. MEM_WORDS - 1, s.mem[a].addr # NULL, NEW pt \in T
  PROVE  Apart(s.mem[a].addr, pt)
<1> DEFINE p == s.mem[a].addr
<1>1. p \in Nat /\ pt \in Nat  BY MmSizes
<1>2. Outside(p) \/ (Taken(p, s) /\ Apart(p, pt))  BY DEF Linked
<1>3. Taken(pt, s)  BY DEF Linked
<1>4. /\ ENTRIES \in Nat /\ KERNEL_HEAP_SIZE \in Nat /\ heap_base \in Nat
      /\ s.heap_offset \in Nat /\ s.heap_offset <= KERNEL_HEAP_SIZE
  BY MmSizes
<1>5. ASSUME Outside(p) PROVE Apart(p, pt)
  <2> HIDE DEF p
  <2> QED  BY <1>1, <1>3, <1>4, <1>5 DEF Outside, Taken, Apart
<1> QED  BY <1>2, <1>5

\* In a heap at a page boundary the address of a table is kept whole in an entry.
LEMMA TableAligned ==
  ASSUME heap_base \in HeapBases, heap_base % ENTRIES = 0, NEW p \in Nat, p >= heap_base,
         (p - heap_base) % ENTRIES = 0
  PROVE  PageOf(p) = p
<1>1. ENTRIES \in Nat \ {0} /\ heap_base \in Nat  BY MmSizes
<1> DEFINE x == heap_base \div ENTRIES
           y == (p - heap_base) \div ENTRIES
<1>0. ASSUME NEW a \in Nat, a % ENTRIES = 0
      PROVE  a \div ENTRIES \in Nat /\ a = (a \div ENTRIES) * ENTRIES
  <2>1. /\ a \div ENTRIES \in Nat
        /\ a = (a \div ENTRIES) * ENTRIES + (a % ENTRIES)
    BY <1>1, DivMod
  <2>2. (a \div ENTRIES) * ENTRIES \in Nat  BY <1>1, <2>1, MulMod
  <2> QED  BY <1>0, <2>1, <2>2
<1>2. x \in Nat /\ heap_base = x * ENTRIES  BY <1>0, <1>1
<1>3. p - heap_base \in Nat  BY <1>1
<1>4. y \in Nat /\ p - heap_base = y * ENTRIES  BY <1>0, <1>1, <1>3
<1> HIDE DEF x, y
<1>5. x * ENTRIES + y * ENTRIES = (x + y) * ENTRIES  BY <1>1, <1>2, <1>4
<1>6. p = (x + y) * ENTRIES
  <2>1. p = heap_base + (p - heap_base)  BY <1>1
  <2> QED  BY <1>2, <1>4, <1>5, <2>1
<1>7. x + y \in Nat  BY <1>2, <1>4
<1>8. p % ENTRIES = 0  BY <1>1, <1>6, <1>7, MulMod
<1> QED  BY <1>8 DEF PageOf

\* Memory that grew by a table is linked as before, and the table is apart from T.
LEMMA TableLinked ==
  ASSUME NEW s, HeapOK(s), heap_base \in HeapBases, NEW T, T \subseteq Pointers, Linked(s, T),
         NEW t, HeapOK(t), t.mem = s.mem, t.heap_offset >= s.heap_offset
  PROVE  Linked(t, T)
<1>1. /\ ENTRIES \in Nat /\ heap_base \in Nat
      /\ s.heap_offset \in Nat /\ t.heap_offset \in Nat
  BY MmSizes
<1>2. ASSUME NEW p \in Nat, Taken(p, s) PROVE Taken(p, t)  BY <1>1, <1>2 DEF Taken
<1>3. \A a \in 0 .. MEM_WORDS - 1 : s.mem[a].addr \in Nat  BY MmSizes
<1>4. T \subseteq Nat  BY MmSizes
<1> QED  BY <1>2, <1>3, <1>4 DEF Linked

\* Writing an entry that points to nothing, out of the heap, or to a table that is not
\* in T keeps memory linked.
LEMMA EntryLinked ==
  ASSUME NEW s, NEW T, Linked(s, T), NEW e, NEW t, t.heap_offset = s.heap_offset,
         \A a \in 0 .. MEM_WORDS - 1 : t.mem[a] = e \/ t.mem[a] = s.mem[a],
         e.addr = NULL \/ Outside(e.addr) \/ (Taken(e.addr, s) /\ \A pt \in T : Apart(e.addr, pt))
  PROVE  Linked(t, T)
<1>1. \A p : Taken(p, t) <=> Taken(p, s)  BY DEF Taken
<1> QED  BY <1>1 DEF Linked

\* One level of a walk that creates: it writes an entry that was not present, or none,
\* and finds by that entry what it returns.
LEMMA GetEntryGrows ==
  ASSUME NEW s, HeapOK(s), heap_base \in HeapBases, heap_base % ENTRIES = 0,
         NEW T, T \subseteq Pointers, Linked(s, T), NEW p \in Pointers, NEW i \in 0 .. ENTRIES - 1
  PROVE  LET g == page_table_get_entry(s, p, i, TRUE)
         IN  /\ HeapOK(g.s) /\ g.ptr \in Pointers /\ Linked(g.s, T)
             /\ \A a \in 0 .. MEM_WORDS - 1 :
                  s.mem[a].present \/ a # p + i => g.s.mem[a] = s.mem[a]
             /\ g.ptr # NULL => Hop(g.s, p, i) = g.ptr /\ \A pt \in T : Apart(g.ptr, pt)
<1> DEFINE g == page_table_get_entry(s, p, i, TRUE)
           new == page_table_alloc(s)
           e == Entry(TRUE, PageOf(new.ptr))
<1>0. p + i \in 0 .. MEM_WORDS - 1  BY EntryInMemory
<1>1. HeapOK(g.s) /\ g.ptr \in Pointers  BY GetEntryOK
<1>2. CASE s.mem[p + i].present
  <2>1. g = [ptr |-> Hop(s, p, i), s |-> s]  BY <1>2, GetEntryIs
  <2> HIDE DEF g
  <2>2. g.ptr = Hop(s, p, i) /\ g.s = s /\ g.ptr = s.mem[p + i].addr  BY <1>2, <2>1 DEF Hop
  <2>3. g.ptr # NULL => \A pt \in T : Apart(g.ptr, pt)  BY <1>0, <2>2, LinkApart
  <2> QED  BY <1>1, <2>2, <2>3 DEF g
<1>3. CASE ~s.mem[p + i].present /\ new.ptr = NULL
  <2>1. g = new /\ new.s = s  BY <1>3, GetEntryIs, TableAt
  <2> HIDE DEF g, new
  <2> QED  BY <1>1, <1>3, <2>1 DEF g
<1>4. CASE ~s.mem[p + i].present /\ new.ptr # NULL
  <2>1. g = [ptr |-> new.ptr, s |-> [new.s EXCEPT !.mem[p + i] = e]]  BY <1>4, GetEntryIs
  <2>2. /\ new.ptr \in Pointers /\ HeapOK(new.s)
        /\ new.ptr >= heap_base + s.heap_offset /\ (new.ptr - heap_base) % ENTRIES = 0
        /\ new.ptr + ENTRIES = heap_base + new.s.heap_offset
        /\ new.s.heap_offset >= s.heap_offset /\ new.s.mem = s.mem
    BY <1>4, TableAt
  <2>3. /\ ENTRIES \in Nat /\ heap_base \in Nat /\ s.heap_offset \in Nat /\ Pointers \subseteq Nat
    BY MmSizes
  <2> HIDE DEF g, new
  <2>03. new.ptr \in Nat /\ new.s.heap_offset \in Nat /\ new.ptr >= heap_base
    <3>1. new.ptr \in Nat /\ new.s.heap_offset \in Nat  BY <2>2, MmSizes
    <3> QED  BY <2>2, <2>3, <3>1
  <2>4. PageOf(new.ptr) = new.ptr  BY <2>2, <2>03, TableAligned
  <2>5. e = [present |-> TRUE, addr |-> new.ptr] /\ e.addr = new.ptr /\ e.present = TRUE
    BY <2>4 DEF Entry
  <2> HIDE DEF e
  <2>6. g.ptr = new.ptr /\ g.s = [new.s EXCEPT !.mem[p + i] = e]  BY <2>1
  <2>7. Linked(new.s, T)  BY <2>2, TableLinked
  <2>8. ASSUME NEW pt \in T PROVE Apart(new.ptr, pt)
    <3>1. pt \in Nat /\ Taken(pt, s)  BY <2>3 DEF Linked
    <3> QED  BY <2>2, <2>3, <2>03, <3>1 DEF Apart, Taken
  <2>9. Taken(new.ptr, new.s)  BY <2>2, <2>3, <2>03 DEF Taken
  <2>10. /\ g.s.heap_offset = new.s.heap_offset
         /\ \A a \in 0 .. MEM_WORDS - 1 : g.s.mem[a] = IF a = p + i THEN e ELSE new.s.mem[a]
    <3>1. new.s \in MemoryState  BY <2>2 DEF HeapOK, MemoryState
    <3>2. g.s.heap_offset = new.s.heap_offset /\ g.s.mem = [new.s.mem EXCEPT ![p + i] = e]
      BY <2>6, <3>1 DEF MemoryState
    <3> QED  BY <3>1, <3>2 DEF MemoryState, Memory
  <2>11. Linked(g.s, T)
    <3>1. Taken(e.addr, new.s) /\ \A pt \in T : Apart(e.addr, pt)  BY <2>5, <2>8, <2>9
    <3> QED  BY <2>7, <2>10, <3>1, EntryLinked
  <2>12. \A a \in 0 .. MEM_WORDS - 1 : g.s.mem[a] = IF a = p + i THEN e ELSE s.mem[a]
    BY <2>2, <2>10
  <2>13. Hop(g.s, p, i) = g.ptr  BY <1>0, <2>5, <2>6, <2>12 DEF Hop
  <2>14. \A a \in 0 .. MEM_WORDS - 1 :
           s.mem[a].present \/ a # p + i => g.s.mem[a] = s.mem[a]
    BY <1>4, <2>12
  <2> QED  BY <1>1, <2>6, <2>8, <2>11, <2>13, <2>14 DEF g
<1> QED  BY <1>2, <1>3, <1>4

\* Words of a page, and of a page apart from it.
LEMMA ApartWords ==
  ASSUME NEW p \in Nat, NEW q \in Nat, Apart(p, q), ENTRIES \in Nat,
         NEW i \in 0 .. ENTRIES - 1, NEW j \in 0 .. ENTRIES - 1
  PROVE  p + i # q + j
BY DEF Apart

\* All of a walk that creates: present entries stay, so do the words of root tables but
\* for the one it starts from, and if it gets to a last table that is found again.
LEMMA DescendGrows ==
  ASSUME NEW s, HeapOK(s), heap_base \in HeapBases, heap_base % ENTRIES = 0,
         NEW T, T \subseteq Pointers, Linked(s, T), NEW pt \in T, NEW v \in Nat
  PROVE  LET d == Descend(s, pt, v, TRUE)
         IN  /\ HeapOK(d.s) /\ Linked(d.s, T)
             /\ Grown(s, d.s, T, {<<pt, Index(v, 3)>>})
             /\ d.ptr # NULL => Reaches(d.s, pt, v)
<1> DEFINE i3 == Index(v, 3)
           i2 == Index(v, 2)
           i1 == Index(v, 1)
           g == page_table_get_entry(s, pt, i3, TRUE)
           h == page_table_get_entry(g.s, g.ptr, i2, TRUE)
           k == page_table_get_entry(h.s, h.ptr, i1, TRUE)
           d == Descend(s, pt, v, TRUE)
           Words == 0 .. MEM_WORDS - 1
           Kept(x, y) == \A a \in Words : x.mem[a].present => y.mem[a] = x.mem[a]
           Roots(x, y) == \A q \in T, j \in 0 .. ENTRIES - 1 :
                            <<q, j>> # <<pt, i3>> => y.mem[q + j] = x.mem[q + j]
<1>0. i3 \in 0 .. ENTRIES - 1 /\ i2 \in 0 .. ENTRIES - 1 /\ i1 \in 0 .. ENTRIES - 1
  BY IndexType
<1>1. d = IF g.ptr = NULL THEN g ELSE IF h.ptr = NULL THEN h ELSE k  BY DEF Descend
<1>2. ENTRIES \in Nat /\ Pointers \subseteq Nat  BY MmSizes
<1>3. \A q \in T, j \in 0 .. ENTRIES - 1 : q + j \in Words  BY EntryInMemory
<1> HIDE DEF i3, i2, i1
<1>4. /\ HeapOK(g.s) /\ g.ptr \in Pointers /\ Linked(g.s, T)
      /\ \A a \in Words : s.mem[a].present \/ a # pt + i3 => g.s.mem[a] = s.mem[a]
      /\ g.ptr # NULL => Hop(g.s, pt, i3) = g.ptr /\ \A q \in T : Apart(g.ptr, q)
  BY <1>0, GetEntryGrows
<1> HIDE DEF g
<1>5. Kept(s, g.s) /\ Roots(s, g.s)
  <2>1. ASSUME NEW q \in T, NEW j \in 0 .. ENTRIES - 1, <<q, j>> # <<pt, i3>>
        PROVE  q + j # pt + i3
    <3>1. CASE q = pt  BY <1>0, <1>2, <2>1, <3>1
    <3>2. CASE q # pt
      <4>1. Apart(q, pt)  BY <3>2 DEF Linked
      <4> QED  BY <1>0, <1>2, <4>1, ApartWords
    <3> QED  BY <3>1, <3>2
  <2> QED  BY <1>3, <1>4, <2>1
<1>6. /\ HeapOK(h.s) /\ h.ptr \in Pointers /\ Linked(h.s, T)
      /\ \A a \in Words : g.s.mem[a].present \/ a # g.ptr + i2 => h.s.mem[a] = g.s.mem[a]
      /\ h.ptr # NULL => Hop(h.s, g.ptr, i2) = h.ptr /\ \A q \in T : Apart(h.ptr, q)
  BY <1>0, <1>4, GetEntryGrows
<1> HIDE DEF h
<1>7. /\ HeapOK(k.s) /\ k.ptr \in Pointers /\ Linked(k.s, T)
      /\ \A a \in Words : h.s.mem[a].present \/ a # h.ptr + i1 => k.s.mem[a] = h.s.mem[a]
      /\ k.ptr # NULL => Hop(k.s, h.ptr, i1) = k.ptr /\ \A q \in T : Apart(k.ptr, q)
  BY <1>0, <1>6, GetEntryGrows
<1> HIDE DEF k, d, Words
<1>8. g.ptr # NULL => Kept(g.s, h.s) /\ Roots(g.s, h.s)
  <2> SUFFICES ASSUME g.ptr # NULL PROVE Kept(g.s, h.s) /\ Roots(g.s, h.s)  OBVIOUS
  <2>1. \A q \in T, j \in 0 .. ENTRIES - 1 : g.ptr + i2 # q + j
    BY <1>0, <1>2, <1>4, ApartWords, ZenonT(40)
  <2> QED  BY <1>3, <1>6, <2>1
<1>9. h.ptr # NULL => Kept(h.s, k.s) /\ Roots(h.s, k.s)
  <2> SUFFICES ASSUME h.ptr # NULL PROVE Kept(h.s, k.s) /\ Roots(h.s, k.s)  OBVIOUS
  <2>1. \A q \in T, j \in 0 .. ENTRIES - 1 : h.ptr + i1 # q + j
    BY <1>0, <1>2, <1>6, ApartWords, ZenonT(40)
  <2> QED  BY <1>3, <1>7, <2>1
<1>10. ASSUME NEW x, NEW y, NEW p \in Pointers, NEW i \in 0 .. ENTRIES - 1, HeapOK(x),
              Kept(x, y), Hop(x, p, i) # NULL
       PROVE  Hop(y, p, i) = Hop(x, p, i)
  <2>1. p + i \in Words  BY EntryInMemory DEF Words
  <2> QED  BY <1>10, <2>1 DEF Hop
<1>11. CASE g.ptr = NULL  BY <1>1, <1>4, <1>5, <1>11 DEF d, i3, Words, Grown
<1>12. CASE g.ptr # NULL /\ h.ptr = NULL
  <2>1. d = h  BY <1>1, <1>12
  <2>2. Kept(s, h.s) /\ Roots(s, h.s)
    <3>1. Kept(s, h.s)
      <4> SUFFICES ASSUME NEW a \in Words, s.mem[a].present PROVE h.s.mem[a] = s.mem[a]  OBVIOUS
      <4>1. g.s.mem[a] = s.mem[a]  BY <1>5
      <4> QED  BY <1>8, <1>12, <4>1
    <3>2. Roots(s, h.s)  BY <1>5, <1>8, <1>12
    <3> QED  BY <3>1, <3>2
  <2> QED  BY <1>6, <1>12, <2>1, <2>2 DEF d, i3, Words, Grown
<1>13. CASE g.ptr # NULL /\ h.ptr # NULL
  <2>1. d = k  BY <1>1, <1>13
  <2>2. Kept(g.s, k.s) /\ Kept(s, k.s)
    <3>1. ASSUME NEW a \in Words, g.s.mem[a].present PROVE k.s.mem[a] = g.s.mem[a]
      <4>1. h.s.mem[a] = g.s.mem[a]  BY <1>8, <1>13, <3>1
      <4> QED  BY <1>9, <1>13, <3>1, <4>1
    <3>2. ASSUME NEW a \in Words, s.mem[a].present PROVE k.s.mem[a] = s.mem[a]
      <4>1. g.s.mem[a] = s.mem[a]  BY <1>5, <3>2
      <4> QED  BY <3>1, <3>2, <4>1
    <3> QED  BY <3>1, <3>2
  <2>3. Roots(s, k.s)
    <3> SUFFICES ASSUME NEW q \in T, NEW j \in 0 .. ENTRIES - 1, <<q, j>> # <<pt, i3>>
                 PROVE  k.s.mem[q + j] = s.mem[q + j]
      OBVIOUS
    <3>1. g.s.mem[q + j] = s.mem[q + j]  BY <1>5
    <3>2. h.s.mem[q + j] = g.s.mem[q + j]  BY <1>8, <1>13
    <3>3. k.s.mem[q + j] = h.s.mem[q + j]  BY <1>9, <1>13
    <3> QED  BY <3>1, <3>2, <3>3
  <2>4. ASSUME k.ptr # NULL PROVE Reaches(k.s, pt, v)
    <3>1. Hop(k.s, pt, i3) = g.ptr  BY <1>0, <1>4, <1>10, <1>13, <2>2
    <3>2. Hop(k.s, g.ptr, i2) = h.ptr
      <4>1. Hop(h.s, g.ptr, i2) = h.ptr /\ h.ptr # NULL /\ Kept(h.s, k.s) /\ HeapOK(h.s)
        BY <1>6, <1>9, <1>13
      <4> HIDE DEF Kept
      <4> QED  BY <1>0, <1>4, <1>10, <4>1
    <3>3. Hop(k.s, h.ptr, i1) = k.ptr  BY <1>7, <2>4
    <3> QED  BY <1>13, <2>4, <3>1, <3>2, <3>3 DEF Reaches, i3, i2, i1
  <2> QED  BY <1>7, <2>1, <2>2, <2>3, <2>4 DEF d, i3, Words, Grown
<1> QED  BY <1>11, <1>12, <1>13

\* Writing an entry of a root table: a walk that does not start from it still arrives.
LEMMA LeafKeeps ==
  ASSUME NEW s, HeapOK(s), heap_base \in HeapBases, NEW T, T \subseteq Pointers, Linked(s, T),
         NEW pt \in T, NEW j \in 0 .. ENTRIES - 1, NEW q \in T, NEW v \in Nat,
         Reaches(s, q, v), q = pt => Index(v, 3) # j,
         NEW t, NEW e, Written(s, t, pt + j, e)
  PROVE  Reaches(t, q, v)
<1> DEFINE i3 == Index(v, 3)
           i2 == Index(v, 2)
           i1 == Index(v, 1)
           x == Hop(s, q, i3)
           y == Hop(s, x, i2)
<1>0. i3 \in 0 .. ENTRIES - 1 /\ i2 \in 0 .. ENTRIES - 1 /\ i1 \in 0 .. ENTRIES - 1
  BY IndexType
<1>1. ENTRIES \in Nat /\ Pointers \subseteq Nat  BY MmSizes
<1>2. x # NULL /\ y # NULL /\ Hop(s, y, i1) # NULL  BY DEF Reaches
<1> HIDE DEF i3, i2, i1
<1>3. ASSUME NEW p \in Pointers, NEW i \in 0 .. ENTRIES - 1, Hop(s, p, i) # NULL
      PROVE  /\ Hop(s, p, i) \in Pointers /\ Apart(Hop(s, p, i), pt)
             /\ p + i # pt + j => Hop(t, p, i) = Hop(s, p, i)
  <2>1. p + i \in 0 .. MEM_WORDS - 1  BY EntryInMemory
  <2>2. Hop(s, p, i) = s.mem[p + i].addr  BY <1>3 DEF Hop
  <2>3. s.mem[p + i].addr \in Pointers  BY <2>1, MmSizes
  <2>4. Apart(s.mem[p + i].addr, pt)  BY <1>3, <2>1, <2>2, LinkApart
  <2>5. p + i # pt + j => Hop(t, p, i) = Hop(s, p, i)  BY <2>1 DEF Hop, Written
  <2> QED  BY <2>2, <2>3, <2>4, <2>5
<1>4. Hop(t, q, i3) = x
  <2>1. q + i3 # pt + j
    <3>1. CASE q = pt  BY <1>0, <1>1, <3>1 DEF i3
    <3>2. CASE q # pt
      <4>1. Apart(q, pt)  BY <3>2 DEF Linked
      <4> QED  BY <1>0, <1>1, <4>1, ApartWords
    <3> QED  BY <3>1, <3>2
  <2> QED  BY <1>0, <1>2, <1>3, <2>1
<1>5. x \in Pointers /\ Apart(x, pt)  BY <1>0, <1>2, <1>3
<1> HIDE DEF x
<1>6. Hop(t, x, i2) = y
  <2>1. x + i2 # pt + j  BY <1>0, <1>1, <1>5, ApartWords
  <2> QED  BY <1>0, <1>2, <1>3, <1>5, <2>1
<1>7. y \in Pointers /\ Apart(y, pt)  BY <1>0, <1>2, <1>3, <1>5
<1> HIDE DEF y
<1>8. Hop(t, y, i1) # NULL
  <2>1. y + i1 # pt + j  BY <1>0, <1>1, <1>7, ApartWords
  <2> QED  BY <1>0, <1>2, <1>3, <1>7, <2>1
<1> QED  BY <1>2, <1>4, <1>6, <1>8 DEF Reaches, i3, i2, i1

-----------------------------------------------------------------------------
(* The log of what was written for the callers. *)

LogRecord == [pt : Pointers \ {NULL}, v : Nat, entry : [present : BOOLEAN, addr : Pointers]]
LogTyped(l, T) == l \in Seq(LogRecord) /\ \A i \in DOMAIN l : l[i].pt \in T

\* Clean and LastWritten for a log l and indices c.
CleanIn(l, c, pt) ==
  \A i \in DOMAIN l : l[i].pt = pt =>
    /\ <<pt, Index(l[i].v, 0)>> \notin c
    /\ \A k \in DOMAIN l : l[k].pt = pt => Index(l[k].v, 3) # Index(l[i].v, 0)
LastIn(l, pt, j) ==
  LET at == {i \in DOMAIN l : l[i].pt = pt /\ Index(l[i].v, 0) = j}
  IN  l[CHOOSE i \in at : \A k \in at : k <= i].entry

\* What MapsFound says of a page and more, for such a log and memory s: where it is found.
LogOK(l, c, s) ==
  \A i \in DOMAIN l : LET pt == l[i].pt  j == Index(l[i].v, 0) IN
    CleanIn(l, c, pt) => Reaches(s, pt, l[i].v) /\ s.mem[pt + j] = LastIn(l, pt, j)

Appended(l, r, m) == m = Append(l, r)

LEMMA LogIs ==
  ASSUME NEW l, NEW T, LogTyped(l, T)
  PROVE  /\ Len(l) \in Nat /\ DOMAIN l = 1 .. Len(l)
         /\ \A i \in DOMAIN l : /\ l[i].pt \in T /\ l[i].pt \in Pointers \ {NULL}
                                /\ l[i].v \in Nat
                                /\ l[i].entry \in [present : BOOLEAN, addr : Pointers]
<1>1. Len(l) \in Nat /\ DOMAIN l = 1 .. Len(l) /\ \A i \in DOMAIN l : l[i] \in LogRecord
  <2> HIDE DEF LogRecord
  <2> QED  BY DEF LogTyped
<1> QED  BY <1>1 DEF LogTyped, LogRecord

\* A log and what is appended to it.
LEMMA LogAppended ==
  ASSUME NEW l, NEW T, LogTyped(l, T), NEW r \in LogRecord, NEW m, Appended(l, r, m)
  PROVE  /\ Len(l) \in Nat /\ DOMAIN l = 1 .. Len(l) /\ DOMAIN m = 1 .. Len(l) + 1
         /\ m[Len(l) + 1] = r /\ \A i \in DOMAIN l : i \in DOMAIN m /\ m[i] = l[i]
         /\ \A i \in DOMAIN m : i # Len(l) + 1 => i \in DOMAIN l
         /\ r.pt \in T => LogTyped(m, T)
<1>1. Len(l) \in Nat /\ DOMAIN l = 1 .. Len(l) /\ l \in Seq(LogRecord)  BY LogIs DEF LogTyped
<1>2. /\ m \in Seq(LogRecord) /\ DOMAIN m = 1 .. Len(l) + 1
      /\ m[Len(l) + 1] = r /\ \A i \in DOMAIN l : m[i] = l[i]
  <2> HIDE DEF LogRecord
  <2> QED  BY <1>1, AppendProperties DEF Appended
<1>3. \A i \in DOMAIN m : i # Len(l) + 1 => i \in DOMAIN l  BY <1>1, <1>2
<1>4. r.pt \in T => LogTyped(m, T)  BY <1>2, <1>3 DEF LogTyped
<1> QED  BY <1>1, <1>2, <1>3, <1>4

\* A set of naturals with an upper bound has a greatest element.
LEMMA BoundedMax ==
  ASSUME NEW n \in Nat, NEW S, S \subseteq 0 .. n, S # {}
  PROVE  \E x \in S : \A y \in S : y <= x
<1> DEFINE R == {k \in Nat : n - k \in S}
<1>1. R \subseteq Nat  OBVIOUS
<1>2. R # {}
  <2>1. PICK x \in S : TRUE  OBVIOUS
  <2>2. x \in Nat /\ n - x \in Nat /\ n - (n - x) = x  OBVIOUS
  <2>3. n - x \in R  BY <2>1, <2>2
  <2> QED  BY <2>3
<1>3. PICK k \in R : \A l \in R : k <= l  BY <1>1, <1>2, NatMin
<1>4. n - k \in S  BY <1>3
<1>5. ASSUME NEW y \in S PROVE y <= n - k
  <2>1. y \in Nat /\ n - y \in Nat /\ n - (n - y) = y  OBVIOUS
  <2>2. n - y \in R  BY <2>1
  <2>3. k <= n - y /\ k \in Nat  BY <1>3, <2>2
  <2> QED  BY <2>1, <2>3
<1> QED  BY <1>4, <1>5

\* What is still true of a page in the log when entries that were not present were made,
\* none of them the page's own.
LEMMA LogKept ==
  ASSUME heap_base \in HeapBases, NEW s, HeapOK(s), NEW T, T \subseteq Pointers,
         NEW l, LogTyped(l, T), NEW c, LogOK(l, c, s), NEW d,
         NEW t, Grown(s, t, T, d),
         NEW i \in DOMAIN l, CleanIn(l, c, l[i].pt), <<l[i].pt, Index(l[i].v, 0)>> \notin d
  PROVE  LET pt == l[i].pt  j == Index(l[i].v, 0) IN
           Reaches(t, pt, l[i].v) /\ t.mem[pt + j] = LastIn(l, pt, j)
<1> DEFINE pt == l[i].pt
           v == l[i].v
           j == Index(v, 0)
<1>1. pt \in T /\ pt \in Pointers /\ v \in Nat  BY LogIs
<1>2. j \in 0 .. ENTRIES - 1  BY <1>1, IndexType
<1>3. Reaches(s, pt, v) /\ s.mem[pt + j] = LastIn(l, pt, j)  BY DEF LogOK
<1>4. t.mem[pt + j] = s.mem[pt + j]  BY <1>1, <1>2 DEF Grown
<1>5. Reaches(t, pt, v)
  <2> HIDE DEF pt, v
  <2> QED  BY <1>1, <1>3, WalkKept DEF Grown
<1> QED  BY <1>3, <1>4, <1>5

\* A step that writes nothing for a caller.
LEMMA QuietStep ==
  ASSUME heap_base \in HeapBases, NEW s, HeapOK(s), NEW T, T \subseteq Pointers,
         NEW l, LogTyped(l, T), NEW c, LogOK(l, c, s), NEW d, c \subseteq d,
         NEW t, Grown(s, t, T, d)
  PROVE  LogOK(l, d, t)
<1> SUFFICES ASSUME NEW i \in DOMAIN l, CleanIn(l, d, l[i].pt)
             PROVE  LET pt == l[i].pt  j == Index(l[i].v, 0) IN
                      Reaches(t, pt, l[i].v) /\ t.mem[pt + j] = LastIn(l, pt, j)
  BY DEF LogOK
<1>1. CleanIn(l, c, l[i].pt) /\ <<l[i].pt, Index(l[i].v, 0)>> \notin d  BY DEF CleanIn
<1> QED  BY <1>1, LogKept

\* Appending to the log: what was last written for a page.
LastGrows(l, r, m) ==
  \A pt, j :
    /\ r.pt = pt /\ Index(r.v, 0) = j => LastIn(m, pt, j) = r.entry
    /\ /\ ~(r.pt = pt /\ Index(r.v, 0) = j)
       /\ \E i \in DOMAIN l : l[i].pt = pt /\ Index(l[i].v, 0) = j
       => LastIn(m, pt, j) = LastIn(l, pt, j)

LEMMA LastAppended ==
  ASSUME NEW l, NEW T, LogTyped(l, T), NEW r \in LogRecord, NEW m, Appended(l, r, m)
  PROVE  LastGrows(l, r, m)
<1> SUFFICES ASSUME NEW pt, NEW j
             PROVE  /\ r.pt = pt /\ Index(r.v, 0) = j => LastIn(m, pt, j) = r.entry
                    /\ /\ ~(r.pt = pt /\ Index(r.v, 0) = j)
                       /\ \E i \in DOMAIN l : l[i].pt = pt /\ Index(l[i].v, 0) = j
                       => LastIn(m, pt, j) = LastIn(l, pt, j)
  BY DEF LastGrows
<1> DEFINE n == Len(l) + 1
           At(x) == {i \in DOMAIN x : x[i].pt = pt /\ Index(x[i].v, 0) = j}
           Last(S) == CHOOSE i \in S : \A k \in S : k <= i
<1>1. Len(l) \in Nat /\ DOMAIN l = 1 .. Len(l)  BY LogAppended
<1>2. /\ DOMAIN m = 1 .. n /\ m[n] = r /\ \A i \in DOMAIN l : i \in DOMAIN m /\ m[i] = l[i]
      /\ \A i \in DOMAIN m : i # n => i \in DOMAIN l
  BY LogAppended
<1>3. LastIn(m, pt, j) = m[Last(At(m))].entry  BY DEF LastIn
<1>4. LastIn(l, pt, j) = l[Last(At(l))].entry  BY DEF LastIn
<1>5. ASSUME r.pt = pt, Index(r.v, 0) = j PROVE LastIn(m, pt, j) = r.entry
  <2>1. n \in At(m) /\ At(m) \subseteq 1 .. n  BY <1>1, <1>2, <1>5
  <2> HIDE DEF At
  <2>2. \A k \in At(m) : k <= n  BY <1>1, <2>1
  <2>3. \A i \in At(m) : (\A k \in At(m) : k <= i) => i = n  BY <1>1, <2>1, <2>2
  <2>4. Last(At(m)) = n  BY <2>1, <2>2, <2>3
  <2> QED  BY <1>2, <1>3, <2>4
<1>6. ASSUME ~(r.pt = pt /\ Index(r.v, 0) = j),
             \E i \in DOMAIN l : l[i].pt = pt /\ Index(l[i].v, 0) = j
      PROVE  LastIn(m, pt, j) = LastIn(l, pt, j)
  <2>1. At(m) = At(l)
    <3>1. ASSUME NEW i \in At(m) PROVE i \in At(l)
      <4>1. i # n  BY <1>2, <1>6
      <4> QED  BY <1>2, <4>1
    <3>2. ASSUME NEW i \in At(l) PROVE i \in At(m)  BY <1>2
    <3> QED  BY <3>1, <3>2
  <2>2. At(l) # {} /\ At(l) \subseteq 0 .. Len(l)  BY <1>1, <1>6
  <2>3. \E x \in At(l) : \A y \in At(l) : y <= x
    <3> HIDE DEF At
    <3> QED  BY <1>1, <2>2, BoundedMax
  <2>4. Last(At(l)) \in At(l)
    <3> HIDE DEF At
    <3> QED  BY <2>3
  <2>5. Last(At(l)) \in DOMAIN l  BY <2>4
  <2> QED  BY <1>2, <1>3, <1>4, <2>1, <2>5
<1> QED  BY <1>5, <1>6

\* A step that writes an entry for page r.v of root table r.pt, in memory u in which the
\* walk to it has been made.
LEMMA WritingStep ==
  ASSUME heap_base \in HeapBases, NEW s, HeapOK(s), NEW T, T \subseteq Pointers,
         NEW l, LogTyped(l, T), NEW c, LogOK(l, c, s), NEW d, c \subseteq d,
         NEW u, HeapOK(u), Linked(u, T), Grown(s, u, T, d),
         NEW r \in LogRecord, r.pt \in T, Reaches(u, r.pt, r.v), NEW m, Appended(l, r, m),
         NEW t, Written(u, t, r.pt + Index(r.v, 0), r.entry)
  PROVE  LogOK(m, d, t) /\ LogTyped(m, T)
<1> DEFINE n == Len(l) + 1
           J(w) == Index(w, 0)
<1>1. /\ Len(l) \in Nat /\ DOMAIN l = 1 .. Len(l) /\ DOMAIN m = 1 .. n /\ m[n] = r
      /\ \A i \in DOMAIN l : i \in DOMAIN m /\ m[i] = l[i]
      /\ \A i \in DOMAIN m : i # n => i \in DOMAIN l
      /\ LogTyped(m, T)
  <2>1. /\ Len(l) \in Nat /\ DOMAIN l = 1 .. Len(l) /\ DOMAIN m = 1 .. Len(l) + 1
        /\ m[Len(l) + 1] = r /\ \A i \in DOMAIN l : i \in DOMAIN m /\ m[i] = l[i]
        /\ \A i \in DOMAIN m : i # Len(l) + 1 => i \in DOMAIN l
        /\ r.pt \in T => LogTyped(m, T)
    BY ONLY LogTyped(l, T), r \in LogRecord, Appended(l, r, m), LogAppended, Zenon
  <2> QED  BY <2>1
<1>2. ENTRIES \in Nat /\ Pointers \subseteq Nat /\ r.v \in Nat  BY MmSizes DEF LogRecord
<1>3. ASSUME NEW w \in Nat PROVE J(w) \in 0 .. ENTRIES - 1
  <2>1. 0 \in 0 .. 3  OBVIOUS
  <2> QED  BY <2>1, IndexType, Zenon
<1>4. LastGrows(l, r, m)
  BY ONLY LogTyped(l, T), r \in LogRecord, Appended(l, r, m), LastAppended, Zenon
<1> HIDE DEF J, n
<1>5. ASSUME NEW i \in DOMAIN m, CleanIn(m, d, m[i].pt)
      PROVE  /\ Reaches(t, m[i].pt, m[i].v)
             /\ t.mem[m[i].pt + J(m[i].v)] = LastIn(m, m[i].pt, J(m[i].v))
  <2> DEFINE q == m[i].pt
             w == m[i].v
  <2>1. i # n => i \in DOMAIN l /\ m[i] = l[i]  BY <1>1
  <2>2. q \in T /\ w \in Nat  BY <1>1, LogIs
  <2>3. <<q, J(w)>> \notin d  BY <1>5 DEF CleanIn, J
  <2>4. i # n => CleanIn(l, c, l[i].pt)
    <3> SUFFICES ASSUME i # n PROVE CleanIn(l, c, q)  BY <2>1
    <3> HIDE DEF q
    <3>1. CleanIn(m, d, q)  BY <1>5 DEF q
    <3> QED  BY <1>1, <3>1 DEF CleanIn
  <2>5. i # n => Reaches(u, q, w) /\ u.mem[q + J(w)] = LastIn(l, q, J(w))
    <3> SUFFICES ASSUME i # n PROVE Reaches(u, q, w) /\ u.mem[q + J(w)] = LastIn(l, q, J(w))
      OBVIOUS
    <3>1. i \in DOMAIN l /\ q = l[i].pt /\ w = l[i].v /\ CleanIn(l, c, l[i].pt)  BY <2>1, <2>4
    <3>2. <<l[i].pt, Index(l[i].v, 0)>> \notin d  BY <2>3, <3>1 DEF J
    <3>3. /\ Reaches(u, l[i].pt, l[i].v)
          /\ u.mem[l[i].pt + Index(l[i].v, 0)] = LastIn(l, l[i].pt, Index(l[i].v, 0))
      BY <3>1, <3>2, LogKept
    <3> HIDE DEF q, w
    <3> QED  BY <3>1, <3>3 DEF J
  <2>6. q = r.pt => Index(w, 3) # J(r.v)
    <3>1. n \in DOMAIN m /\ m[n] = r  BY <1>1 DEF n
    <3> QED  BY <1>5, <3>1 DEF CleanIn, J
  <2>7. i = n => q = r.pt /\ w = r.v  BY <1>1
  <2> HIDE DEF q, w
  <2>8. J(r.v) \in 0 .. ENTRIES - 1 /\ J(w) \in 0 .. ENTRIES - 1  BY <1>2, <1>3, <2>2
  <2>9. q \in Pointers /\ r.pt \in Pointers  BY <2>2
  <2>10. r.pt + J(r.v) \in 0 .. MEM_WORDS - 1 /\ q + J(w) \in 0 .. MEM_WORDS - 1
    BY <2>8, <2>9, EntryInMemory
  <2>11. Reaches(t, q, w)
    <3>1. Reaches(u, q, w)  BY <2>5, <2>7
    <3>2. Written(u, t, r.pt + J(r.v), r.entry)  BY DEF J
    <3> QED  BY <2>2, <2>6, <2>8, <3>1, <3>2, LeafKeeps
  <2>12. t.mem[q + J(w)] = LastIn(m, q, J(w))
    <3>1. CASE q = r.pt /\ J(w) = J(r.v)
      <4>1. t.mem[q + J(w)] = r.entry  BY <2>10, <3>1 DEF J, Written
      <4>2. LastIn(m, q, J(w)) = r.entry
        <5>1. r.pt = q /\ Index(r.v, 0) = J(w)  BY <3>1 DEF J
        <5> QED  BY <1>4, <5>1 DEF LastGrows
      <4> QED  BY <4>1, <4>2
    <3>2. CASE ~(q = r.pt /\ J(w) = J(r.v))
      <4>1. i # n  BY <2>7, <3>2
      <4>2. q + J(w) # r.pt + J(r.v)
        <5>1. CASE q = r.pt
          <6>1. J(w) # J(r.v) /\ q \in Nat  BY <1>2, <2>9, <3>2, <5>1
          <6> QED  BY <1>2, <2>8, <5>1, <6>1
        <5>2. CASE q # r.pt
          <6>1. Apart(q, r.pt)  BY <2>2, <5>2 DEF Linked
          <6>2. q \in Nat /\ r.pt \in Nat  BY <1>2, <2>9
          <6> QED  BY <1>2, <2>8, <6>1, <6>2, ApartWords
        <5> QED  BY <5>1, <5>2
      <4>3. t.mem[q + J(w)] = LastIn(l, q, J(w))  BY <2>5, <2>10, <4>1, <4>2 DEF Written, J
      <4>4. LastIn(m, q, J(w)) = LastIn(l, q, J(w))
        <5>1. ~(r.pt = q /\ Index(r.v, 0) = J(w))  BY <3>2 DEF J
        <5>2. \E k \in DOMAIN l : l[k].pt = q /\ Index(l[k].v, 0) = J(w)
          BY <2>1, <4>1 DEF q, w, J
        <5> QED  BY <1>4, <5>1, <5>2 DEF LastGrows
      <4> QED  BY <4>3, <4>4
    <3> QED  BY <3>1, <3>2
  <2> QED  BY <2>11, <2>12 DEF q, w
<1> QED  BY <1>1, <1>5 DEF LogOK, J

-----------------------------------------------------------------------------
(* mm_init: what mapping page 0 leaves behind. *)

LEMMA SmallDiv == ASSUME NEW a \in Nat, NEW b \in Nat \ {0}, a < b PROVE a \div b = 0
OBVIOUS

\* The pages mm_init maps start their walk at entry 0 of both upper levels.
LEMMA IdentityIndex ==
  ASSUME NEW v \in Nat, v < IDENTITY PROVE Index(v, 3) = 0 /\ Index(v, 2) = 0
<1>1. ENTRIES \in Nat \ {0}  BY MmConstants, Zenon
<1>2. CASE ENTRIES = 1
  <2>1. Index(v, 3) \in 0 .. ENTRIES - 1 /\ Index(v, 2) \in 0 .. ENTRIES - 1  BY IndexType
  <2> QED  BY <1>2, <2>1
<1>3. CASE ENTRIES # 1
  <2> DEFINE sq == ENTRIES * ENTRIES
             cb == sq * ENTRIES
  <2>1. sq \in Nat /\ sq >= 2 * ENTRIES
    <3>1. ENTRIES - 2 \in Nat  BY <1>1, <1>3
    <3>2. (ENTRIES - 2) * ENTRIES \in Nat  BY <1>1, <3>1, MulMod
    <3>3. (ENTRIES - 2) * ENTRIES = sq - 2 * ENTRIES /\ sq \in Nat  BY <1>1
    <3> HIDE DEF sq
    <3> QED  BY <1>1, <3>2, <3>3
  <2> HIDE DEF sq
  <2>2. cb \in Nat /\ cb >= sq
    <3>1. ENTRIES - 1 \in Nat  BY <1>1
    <3>2. (ENTRIES - 1) * sq \in Nat  BY <2>1, <3>1
    <3>3. (ENTRIES - 1) * sq = cb - sq /\ cb \in Nat  BY <1>1, <2>1
    <3> HIDE DEF cb
    <3> QED  BY <2>1, <3>2, <3>3
  <2> HIDE DEF cb
  <2>3. v < sq /\ v < cb /\ sq # 0 /\ cb # 0  BY <1>1, <2>1, <2>2 DEF IDENTITY
  <2>4. v \div sq = 0 /\ v \div cb = 0  BY <2>1, <2>2, <2>3, SmallDiv
  <2>5. Span(2) = sq /\ Span(3) = cb  BY DEF Span, sq, cb
  <2>6. 0 % ENTRIES = 0  BY <1>1
  <2> QED  BY <2>4, <2>5, <2>6 DEF Index
<1> QED  BY <1>2, <1>3

\* No page of the first 4 MiB is found from root, and none ever will be: the first entry
\* of root points to address 0, or the heap is full.
Stuck(s, root) ==
  /\ s.mem[root + 0] = Entry(TRUE, 0) \/ page_table_alloc(s).ptr = NULL
  /\ \A v \in Nat : v < IDENTITY => ~Reaches(s, root, v)

\* In a full heap a walk that would create finds what any other finds.
LEMMA FullWalk ==
  ASSUME NEW s, HeapOK(s), heap_base \in HeapBases, page_table_alloc(s).ptr = NULL,
         NEW root, NEW v, ~Reaches(s, root, v)
  PROVE  Descend(s, root, v, TRUE) = [ptr |-> NULL, s |-> s]
<1> DEFINE a == Hop(s, root, Index(v, 3))
           b == Hop(s, a, Index(v, 2))
           c == Hop(s, b, Index(v, 1))
<1>1. page_table_alloc(s) = [ptr |-> NULL, s |-> s]  BY TableAt
<1>2. ASSUME NEW p, NEW i
      PROVE  /\ page_table_get_entry(s, p, i, TRUE) = [ptr |-> Hop(s, p, i), s |-> s]
             /\ page_table_get_entry(s, p, i, TRUE).ptr = Hop(s, p, i)
             /\ page_table_get_entry(s, p, i, TRUE).s = s
  <2> DEFINE g == page_table_get_entry(s, p, i, TRUE)
             hp == Hop(s, p, i)
  <2>1. g = [ptr |-> hp, s |-> s]
    <3>1. CASE s.mem[p + i].present  BY <3>1, GetEntryIs
    <3>2. CASE ~s.mem[p + i].present
      <4>1. g = page_table_alloc(s)  BY <3>2, GetEntryIs
      <4>2. hp = NULL  BY <3>2 DEF Hop
      <4> HIDE DEF g, hp
      <4> QED  BY <1>1, <4>1, <4>2
    <3> QED  BY <3>1, <3>2
  <2> HIDE DEF g, hp
  <2>2. g = [ptr |-> hp, s |-> s] /\ g.ptr = hp /\ g.s = s  BY <2>1
  <2> QED  BY <2>2 DEF g, hp
<1>3. Descend(s, root, v, TRUE)
        = IF a = NULL THEN [ptr |-> a, s |-> s]
          ELSE IF b = NULL THEN [ptr |-> b, s |-> s] ELSE [ptr |-> c, s |-> s]
  BY <1>2 DEF Descend
<1>4. a = NULL \/ b = NULL \/ c = NULL  BY DEF Reaches
<1> HIDE DEF a, b, c
<1> QED  BY <1>3, <1>4

\* A level of a walk that finds no entry: the heap is full, or it makes a table behind
\* all others and writes the entry.
LEMMA MakeEntry ==
  ASSUME NEW s, HeapOK(s), heap_base \in HeapBases, NEW p \in Pointers,
         NEW i \in 0 .. ENTRIES - 1, ~s.mem[p + i].present
  PROVE  LET g == page_table_get_entry(s, p, i, TRUE) IN
           \/ g.ptr = NULL /\ g.s = s /\ page_table_alloc(s).ptr = NULL
           \/ /\ g.ptr # NULL /\ g.ptr \in Pointers /\ HeapOK(g.s)
              /\ g.ptr >= heap_base + s.heap_offset
              /\ g.ptr + ENTRIES = heap_base + g.s.heap_offset
              /\ Written(s, g.s, p + i, Entry(TRUE, PageOf(g.ptr)))
<1> DEFINE g == page_table_get_entry(s, p, i, TRUE)
           new == page_table_alloc(s)
           e == Entry(TRUE, PageOf(new.ptr))
<1>1. HeapOK(g.s)  BY GetEntryOK
<1>2. CASE new.ptr = NULL
  <2>1. g = new /\ new.s = s  BY <1>2, GetEntryIs, TableAt
  <2> QED  BY <1>2, <2>1
<1>3. CASE new.ptr # NULL
  <2>1. g = [ptr |-> new.ptr, s |-> [new.s EXCEPT !.mem[p + i] = e]]  BY <1>3, GetEntryIs
  <2>2. /\ new.ptr \in Pointers /\ HeapOK(new.s)
        /\ new.ptr >= heap_base + s.heap_offset
        /\ new.ptr + ENTRIES = heap_base + new.s.heap_offset
        /\ new.s.mem = s.mem
    BY <1>3, TableAt
  <2> HIDE DEF g, new, e
  <2>3. g.ptr = new.ptr /\ g.s = [new.s EXCEPT !.mem[p + i] = e]  BY <2>1
  <2>4. g.s.heap_offset = new.s.heap_offset /\ Written(s, g.s, p + i, e)
    <3>1. new.s \in MemoryState  BY <2>2 DEF HeapOK, MemoryState
    <3>2. g.s.heap_offset = new.s.heap_offset /\ g.s.mem = [new.s.mem EXCEPT ![p + i] = e]
      BY <2>3, <3>1 DEF MemoryState
    <3> QED  BY <2>2, <3>1, <3>2 DEF MemoryState, Memory, Written
  <2>5. e = Entry(TRUE, PageOf(g.ptr))  BY <2>3 DEF e
  <2> QED  BY <1>1, <1>3, <2>2, <2>3, <2>4, <2>5 DEF g
<1> QED  BY <1>2, <1>3

\* The page boundary at or before an address.
LEMMA PageOfIs ==
  ASSUME NEW a \in Nat PROVE PageOf(a) \in Int /\ PageOf(a) <= a /\ PageOf(a) + ENTRIES > a
<1>1. ENTRIES \in Nat \ {0}  BY MmConstants, Zenon
<1>2. a % ENTRIES \in 0 .. ENTRIES - 1  BY <1>1, DivMod
<1> QED  BY <1>1, <1>2 DEF PageOf

\* A root table whose first entry points to address 0 leads nowhere.
LEMMA NullRoot ==
  ASSUME NEW s, NEW root, s.mem[root + 0] = Entry(TRUE, 0), NEW v \in Nat, v < IDENTITY
  PROVE  ~Reaches(s, root, v) /\ Descend(s, root, v, TRUE) = [ptr |-> NULL, s |-> s]
<1>1. Index(v, 3) = 0  BY IdentityIndex
<1>2. s.mem[root + 0].present = TRUE /\ Hop(s, root, 0) = NULL  BY DEF Entry, Hop, NULL
<1> DEFINE g == page_table_get_entry(s, root, 0, TRUE)
<1>3. g = [ptr |-> Hop(s, root, 0), s |-> s]  BY <1>2, GetEntryIs
<1>4. g.ptr = NULL => Descend(s, root, v, TRUE) = g  BY <1>1 DEF Descend
<1> HIDE DEF g
<1>5. g = [ptr |-> NULL, s |-> s] /\ g.ptr = NULL  BY <1>2, <1>3
<1> QED  BY <1>1, <1>2, <1>4, <1>5 DEF Reaches

\* An attempt to map one of these pages then changes nothing.
LEMMA StuckWalk ==
  ASSUME NEW s, HeapOK(s), heap_base \in HeapBases, NEW root, Stuck(s, root),
         NEW v \in Nat, v < IDENTITY
  PROVE  Descend(s, root, v, TRUE) = [ptr |-> NULL, s |-> s]
<1>1. CASE s.mem[root + 0] = Entry(TRUE, 0)  BY <1>1, NullRoot
<1>2. CASE page_table_alloc(s).ptr = NULL  BY <1>2, FullWalk DEF Stuck
<1> QED  BY <1>1, <1>2 DEF Stuck

\* mm_init's first page: whether or not the heap has room for the tables of its walk,
\* nothing is found afterwards; with room, because its own entry, for the frame at
\* address 0, replaces the entry for the tables just made.
LEMMA PageZero ==
  ASSUME NEW s, HeapOK(s), heap_base \in HeapBases, NEW b \in Pointers,
         b + ENTRIES = heap_base + s.heap_offset, \A a \in 0 .. MEM_WORDS - 1 : ~s.mem[a].present
  PROVE  Stuck(mm_page_map(s, b, 0, 0).s, b)
<1> DEFINE Words == 0 .. MEM_WORDS - 1
           g == page_table_get_entry(s, b, 0, TRUE)
           h == page_table_get_entry(g.s, g.ptr, 0, TRUE)
           k == page_table_get_entry(h.s, h.ptr, 0, TRUE)
           d == Descend(s, b, 0, TRUE)
           m == mm_page_map(s, b, 0, 0)
           q1 == PageOf(g.ptr)
           q2 == PageOf(h.ptr)
<1>1. /\ ENTRIES \in Nat /\ ENTRIES > 0 /\ b \in Nat /\ heap_base \in Nat /\ Pointers \subseteq Nat
      /\ s.heap_offset \in Nat /\ 0 \in 0 .. ENTRIES - 1
  <2>1. /\ ENTRIES \in Nat /\ ENTRIES > 0 /\ b \in Nat /\ heap_base \in Nat /\ Pointers \subseteq Nat
        /\ s.heap_offset \in Nat
    BY MmSizes
  <2> QED  BY <2>1
<1>2. Index(0, 3) = 0 /\ Index(0, 2) = 0 /\ Index(0, 1) = 0 /\ Index(0, 0) = 0
  <2>1. 0 < IDENTITY  BY <1>1 DEF IDENTITY
  <2>2. ENTRIES \in Nat \ {0}  BY <1>1
  <2>3. 0 \div ENTRIES = 0 /\ 0 \div 1 = 0 /\ 0 % ENTRIES = 0  BY <1>1
  <2>4. Span(1) = ENTRIES /\ Span(0) = 1  BY DEF Span
  <2>5. Index(0, 1) = 0 /\ Index(0, 0) = 0  BY <2>3, <2>4 DEF Index
  <2> QED  BY <2>1, <2>5, IdentityIndex
<1>3. d = IF g.ptr = NULL THEN g ELSE IF h.ptr = NULL THEN h ELSE k  BY <1>2 DEF Descend
<1>4. /\ d.ptr = NULL => m.s = d.s
      /\ d.ptr # NULL => m.s = [d.s EXCEPT !.mem[b + 0] = Entry(TRUE, 0)]
  <2> DEFINE x == [d.s EXCEPT !.mem[b + 0] = Entry(TRUE, 0)]
  <2>1. d.ptr = NULL => m = [ret |-> -1, s |-> d.s]  BY DEF mm_page_map
  <2>2. d.ptr # NULL => m = [ret |-> 0, s |-> x]  BY <1>2 DEF mm_page_map, Leaf
  <2> HIDE DEF d, m, x
  <2>3. (d.ptr = NULL => m.s = d.s) /\ (d.ptr # NULL => m.s = x)  BY <2>1, <2>2
  <2> QED  BY <2>3 DEF x
<1>5. ASSUME NEW p \in Pointers, NEW i \in 0 .. ENTRIES - 1 PROVE p + i \in Words
  BY EntryInMemory
<1>6. \/ g.ptr = NULL /\ g.s = s /\ page_table_alloc(s).ptr = NULL
      \/ /\ g.ptr # NULL /\ g.ptr \in Pointers /\ HeapOK(g.s)
         /\ g.ptr >= heap_base + s.heap_offset
         /\ g.ptr + ENTRIES = heap_base + g.s.heap_offset
         /\ Written(s, g.s, b + 0, Entry(TRUE, q1))
  <2>1. ~s.mem[b + 0].present  BY <1>1, <1>5
  <2> QED  BY <1>1, <2>1, MakeEntry
<1> DEFINE Quiet(t) == \A v \in Nat : v < IDENTITY => ~Reaches(t, b, v)
<1>7. ASSUME NEW t, HeapOK(t), page_table_alloc(t).ptr = NULL, Quiet(t) PROVE Stuck(t, b)
  BY <1>7 DEF Stuck
<1>8. CASE g.ptr = NULL
  <2>1. m.s = s /\ page_table_alloc(s).ptr = NULL  BY <1>3, <1>4, <1>6, <1>8
  <2>2. Hop(s, b, 0) = NULL  BY <1>1, <1>5 DEF Hop
  <2>3. Quiet(s)  BY <2>2, IdentityIndex DEF Reaches
  <2> QED  BY <1>7, <2>1, <2>3
<1>9. CASE g.ptr # NULL
  <2>1. /\ g.ptr \in Pointers /\ HeapOK(g.s) /\ g.ptr >= heap_base + s.heap_offset
        /\ g.ptr + ENTRIES = heap_base + g.s.heap_offset
        /\ Written(s, g.s, b + 0, Entry(TRUE, q1))
    BY <1>6, <1>9
  <2> HIDE DEF g
  <2>2. g.ptr \in Nat /\ g.ptr > b /\ g.s.heap_offset \in Nat /\ q1 \in Pointers /\ q1 > b
        /\ q1 <= g.ptr /\ q1 # NULL
    <3>1. g.ptr \in Nat /\ g.s.heap_offset \in Nat  BY <1>1, <2>1, MmSizes
    <3>2. q1 \in Pointers /\ q1 <= g.ptr /\ q1 + ENTRIES > g.ptr
      BY <2>1, <3>1, PageOfPointer, PageOfIs
    <3>3. q1 \in Nat  BY <1>1, <3>2
    <3> HIDE DEF q1
    <3> QED  BY <1>1, <2>1, <3>1, <3>2, <3>3 DEF NULL
  <2> HIDE DEF q1
  <2>3. \A a \in Words : a # b => ~g.s.mem[a].present
    <3>1. b + 0 = b  BY <1>1
    <3> QED  BY <2>1, <3>1 DEF Written
  <2>4. g.s.mem[b + 0] = Entry(TRUE, q1)  BY <1>1, <1>5, <2>1 DEF Written
  <2>5. \/ h.ptr = NULL /\ h.s = g.s /\ page_table_alloc(g.s).ptr = NULL
        \/ /\ h.ptr # NULL /\ h.ptr \in Pointers /\ HeapOK(h.s)
           /\ h.ptr >= heap_base + g.s.heap_offset
           /\ h.ptr + ENTRIES = heap_base + h.s.heap_offset
           /\ Written(g.s, h.s, g.ptr + 0, Entry(TRUE, q2))
    <3>1. g.ptr + 0 \in Words /\ g.ptr + 0 # b  BY <1>1, <1>5, <2>1, <2>2
    <3>2. ~g.s.mem[g.ptr + 0].present  BY <2>3, <3>1
    <3> QED  BY <1>1, <2>1, <3>2, MakeEntry
  <2>6. CASE h.ptr = NULL
    <3>1. m.s = g.s /\ page_table_alloc(g.s).ptr = NULL  BY <1>3, <1>4, <1>9, <2>5, <2>6
    <3>2. Hop(g.s, b, 0) = q1  BY <2>4 DEF Hop, Entry
    <3>3. Hop(g.s, q1, 0) = NULL
      <4>1. q1 + 0 \in Words /\ q1 + 0 # b  BY <1>1, <1>5, <2>2
      <4> QED  BY <2>3, <4>1 DEF Hop
    <3>4. Quiet(g.s)  BY <3>2, <3>3, IdentityIndex DEF Reaches
    <3> QED  BY <1>7, <2>1, <3>1, <3>4
  <2>7. CASE h.ptr # NULL
    <3>1. /\ h.ptr \in Pointers /\ HeapOK(h.s) /\ h.ptr >= heap_base + g.s.heap_offset
          /\ Written(g.s, h.s, g.ptr + 0, Entry(TRUE, q2))
      BY <2>5, <2>7
    <3> HIDE DEF h
    <3>2. h.ptr \in Nat /\ h.ptr > g.ptr /\ q2 \in Pointers /\ q2 > g.ptr /\ q2 # NULL
      <4>1. h.ptr \in Nat  BY <1>1, <3>1
      <4>2. q2 \in Pointers /\ q2 <= h.ptr /\ q2 + ENTRIES > h.ptr
        BY <3>1, <4>1, PageOfPointer, PageOfIs
      <4>3. q2 \in Nat  BY <1>1, <4>2
      <4> HIDE DEF q2
      <4> QED  BY <1>1, <2>1, <2>2, <3>1, <4>1, <4>2, <4>3 DEF NULL
    <3> HIDE DEF q2
    <3>3. \A a \in Words : a # b /\ a # g.ptr => ~h.s.mem[a].present
      <4>1. g.ptr + 0 = g.ptr  BY <2>2
      <4> QED  BY <2>3, <3>1, <4>1 DEF Written
    <3>4. h.s.mem[b + 0] = Entry(TRUE, q1) /\ h.s.mem[g.ptr + 0] = Entry(TRUE, q2)
      <4>1. b + 0 \in Words /\ g.ptr + 0 \in Words /\ b + 0 # g.ptr + 0  BY <1>1, <1>5, <2>1, <2>2
      <4> QED  BY <2>4, <3>1, <4>1 DEF Written
    <3>5. \/ k.ptr = NULL /\ k.s = h.s /\ page_table_alloc(h.s).ptr = NULL
          \/ k.ptr # NULL /\ HeapOK(k.s)
      <4>1. h.ptr + 0 \in Words /\ h.ptr + 0 # b /\ h.ptr + 0 # g.ptr
        BY <1>1, <1>5, <2>2, <3>1, <3>2
      <4>2. ~h.s.mem[h.ptr + 0].present  BY <3>3, <4>1
      <4> QED  BY <1>1, <3>1, <4>2, MakeEntry
    <3>6. d = k  BY <1>3, <1>9, <2>7
    <3>7. CASE k.ptr = NULL
      <4>1. m.s = h.s /\ page_table_alloc(h.s).ptr = NULL  BY <1>4, <3>5, <3>6, <3>7
      <4>2. Hop(h.s, b, 0) = q1  BY <3>4 DEF Hop, Entry
      <4>3. ASSUME NEW v \in Nat, v < IDENTITY, Reaches(h.s, b, v) PROVE FALSE
        <5>1. Index(v, 3) = 0 /\ Index(v, 2) = 0 /\ Index(v, 1) \in 0 .. ENTRIES - 1
          BY <4>3, IdentityIndex, IndexType
        <5>2. Hop(h.s, q1, 0) # NULL /\ Hop(h.s, Hop(h.s, q1, 0), Index(v, 1)) # NULL
          BY <4>2, <4>3, <5>1 DEF Reaches
        <5>3. q1 = g.ptr
          <6>1. q1 + 0 \in Words /\ q1 + 0 # b /\ q1 + 0 = q1
            <7>1. q1 \in Nat  BY <1>1, <2>2
            <7> QED  BY <1>1, <1>5, <2>2, <7>1
          <6> QED  BY <3>3, <5>2, <6>1 DEF Hop
        <5>4. Hop(h.s, q1, 0) = q2  BY <3>4, <5>3 DEF Hop, Entry
        <5>5. q2 + Index(v, 1) \in Words /\ q2 + Index(v, 1) # b /\ q2 + Index(v, 1) # g.ptr
          <6>1. q2 + Index(v, 1) \in Words  BY <1>5, <3>2, <5>1
          <6>2. q2 \in Nat  BY <1>1, <3>2
          <6> QED  BY <1>1, <2>2, <3>2, <5>1, <6>1, <6>2
        <5>6. Hop(h.s, q2, Index(v, 1)) = NULL  BY <3>3, <5>5 DEF Hop
        <5> QED  BY <5>2, <5>4, <5>6
      <4>4. Quiet(h.s)  BY <4>3
      <4> QED  BY <1>7, <3>1, <4>1, <4>4
    <3>8. CASE k.ptr # NULL
      <4>1. m.s = [k.s EXCEPT !.mem[b + 0] = Entry(TRUE, 0)] /\ HeapOK(k.s)
        BY <1>4, <3>5, <3>6, <3>8
      <4> HIDE DEF k, m
      <4>2. m.s.mem[b + 0] = Entry(TRUE, 0)
        <5>1. k.s \in MemoryState /\ b + 0 \in Words  BY <1>1, <1>5, <4>1 DEF HeapOK, MemoryState
        <5>2. m.s.mem = [k.s.mem EXCEPT ![b + 0] = Entry(TRUE, 0)]
          BY <4>1, <5>1 DEF MemoryState
        <5> HIDE DEF Words
        <5> QED  BY <5>1, <5>2 DEF MemoryState, Memory, Words
      <4> QED  BY <4>2, NullRoot DEF m, Stuck
    <3> QED  BY <3>7, <3>8
  <2> QED  BY <2>6, <2>7
<1> QED  BY <1>8, <1>9

-----------------------------------------------------------------------------
(* The inductive invariant behind MapsFound *)

Sane == heap_base % ENTRIES = 0 /\ NoWrap /\ FramesOutside

\* Of the calls: what was written for callers is where it belongs.
LogInv ==
  /\ LogTyped(log, tables)
  /\ Sane => Linked(mm, tables) /\ LogOK(log, created, mm)

\* Of mm_init: before its first page memory is empty, after it no page can be mapped.
InitInv ==
  /\ calls \in Nat
  /\ mm_step # "done" => log = <<>> /\ created = {} /\ calls = 0
  /\ mm_step = "start" => page = 0
  /\ mm_step # "done" /\ page = 0 => \A a \in 0 .. MEM_WORDS - 1 : mm.mem[a] = Empty
  /\ mm_step = "map" =>
       /\ page = 0 => kernel_page_table + ENTRIES = heap_base + mm.heap_offset
       /\ page # 0 => Stuck(mm, kernel_page_table)
  /\ mm_step = "done" /\ calls = 0 /\ kernel_page_table # NULL =>
       \A v \in Nat : v < IDENTITY => ~Reaches(mm, kernel_page_table, v)

LEMMA LogInvFrom ==
  ASSUME heap_base' = heap_base, LogTyped(log', tables'),
         Sane' => Linked(mm', tables') /\ LogOK(log', created', mm')
  PROVE  LogInv'
<1>1. LogTyped(log, tables)'  BY DEF LogTyped, LogRecord
<1>2. Linked(mm', tables') => Linked(mm, tables)'  BY DEF Linked, Taken, Outside, Apart
<1>3. LogOK(log', created', mm') => LogOK(log, created, mm)'
  BY DEF LogOK, CleanIn, LastIn, Reaches, Hop
<1> QED  BY <1>1, <1>2, <1>3 DEF LogInv

\* A walk takes regions and gives none back.
LEMMA AllocRegions ==
  ASSUME NEW s, HeapOK(s), NEW size \in Nat, NEW align \in Aligns, heap_base \in HeapBases
  PROVE  s.regions \subseteq mm_alloc(s, size, align).s.regions
<1> DEFINE a == mm_alloc(s, size, align)
<1>1. \/ a.s = s
      \/ \E start \in Nat :
           a.s.regions = s.regions \union {[at |-> start, size |-> size, align |-> align]}
  BY AllocAt
<1> HIDE DEF a
<1>2. s.regions \subseteq a.s.regions  BY <1>1
<1> QED  BY <1>2 DEF a

LEMMA GetEntryRegions ==
  ASSUME NEW s, HeapOK(s), heap_base \in HeapBases, NEW p, NEW i
  PROVE  s.regions \subseteq page_table_get_entry(s, p, i, TRUE).s.regions
<1> DEFINE g == page_table_get_entry(s, p, i, TRUE)
           new == page_table_alloc(s)
           e == Entry(TRUE, PageOf(new.ptr))
<1>1. s.regions \subseteq new.s.regions /\ HeapOK(new.s)
  <2>1. ENTRIES \in Nat  BY MmSizes
  <2> QED  BY <2>1, AllocRegions, TableAllocOK DEF page_table_alloc, Aligns
<1>2. CASE s.mem[p + i].present
  <2>1. g = [ptr |-> Hop(s, p, i), s |-> s]  BY <1>2, GetEntryIs
  <2>2. g.s = s
    <3> HIDE DEF g
    <3> QED  BY <2>1
  <2> QED  BY <2>2
<1>3. CASE ~s.mem[p + i].present /\ new.ptr = NULL
  <2>1. g = new  BY <1>3, GetEntryIs
  <2> QED  BY <1>1, <2>1
<1>4. CASE ~s.mem[p + i].present /\ new.ptr # NULL
  <2>1. g = [ptr |-> new.ptr, s |-> [new.s EXCEPT !.mem[p + i] = e]]  BY <1>4, GetEntryIs
  <2> HIDE DEF g, new, e
  <2>2. g.s = [new.s EXCEPT !.mem[p + i] = e]  BY <2>1
  <2>3. new.s \in MemoryState  BY <1>1 DEF HeapOK, MemoryState
  <2>4. g.s.regions = new.s.regions  BY <2>2, <2>3 DEF MemoryState
  <2> QED  BY <1>1, <2>4 DEF g
<1> QED  BY <1>2, <1>3, <1>4

LEMMA DescendRegions ==
  ASSUME NEW s, HeapOK(s), heap_base \in HeapBases, NEW pt \in Pointers, NEW v \in Nat
  PROVE  s.regions \subseteq Descend(s, pt, v, TRUE).s.regions
<1> DEFINE g == page_table_get_entry(s, pt, Index(v, 3), TRUE)
           h == page_table_get_entry(g.s, g.ptr, Index(v, 2), TRUE)
           k == page_table_get_entry(h.s, h.ptr, Index(v, 1), TRUE)
           d == Descend(s, pt, v, TRUE)
<1>0. /\ Index(v, 3) \in 0 .. ENTRIES - 1 /\ Index(v, 2) \in 0 .. ENTRIES - 1
  BY IndexType
<1>1. d = IF g.ptr = NULL THEN g ELSE IF h.ptr = NULL THEN h ELSE k  BY DEF Descend
<1>2. s.regions \subseteq g.s.regions /\ HeapOK(g.s) /\ g.ptr \in Pointers
  BY <1>0, GetEntryRegions, GetEntryOK
<1> HIDE DEF g
<1>3. g.s.regions \subseteq h.s.regions /\ HeapOK(h.s)
  BY <1>0, <1>2, GetEntryRegions, GetEntryOK
<1> HIDE DEF h
<1>4. h.s.regions \subseteq k.s.regions  BY <1>3, GetEntryRegions
<1> HIDE DEF k, d
<1>5. s.regions \subseteq d.s.regions  BY <1>1, <1>2, <1>3, <1>4
<1> QED  BY <1>5 DEF d

\* What was sane after a step was so before it.
LEMMA SaneBack ==
  ASSUME LogTyped(log, tables), heap_base' = heap_base, mm.regions \subseteq mm'.regions, Sane',
         log' = log \/ \E r \in LogRecord : Appended(log, r, log')
  PROVE  Sane
<1>1. heap_base % ENTRIES = 0 /\ NoWrap' /\ FramesOutside'  BY DEF Sane
<1>2. NoWrap  BY <1>1 DEF NoWrap
<1>3. \A i \in DOMAIN log : i \in DOMAIN log' /\ log'[i] = log[i]  BY LogAppended
<1>4. FramesOutside  BY <1>1, <1>3 DEF FramesOutside, Outside
<1> QED  BY <1>1, <1>2, <1>4 DEF Sane

\* What MmInv says of memory.
LEMMA MmParts ==
  ASSUME MmInv
  PROVE  /\ heap_base \in HeapBases /\ HeapOK(mm) /\ tables \subseteq Pointers
         /\ tables \subseteq Pointers \ {NULL}
BY DEF MmInv, MmTypeOK, NULL

\* Steps of the calls, and of the loader, that take memory from the heap.
LEMMA AllocStep ==
  ASSUME MmInv, LogInv, NEW size \in Nat, NEW align \in Aligns,
         mm' = mm_alloc(mm, size, align).s, UNCHANGED <<heap_base, tables, log, created>>
  PROVE  LogInv'
<1> DEFINE a == mm_alloc(mm, size, align)
<1>1. heap_base \in HeapBases /\ HeapOK(mm) /\ tables \subseteq Pointers  BY MmParts
<1>2. HeapOK(a.s) /\ mm.regions \subseteq a.s.regions  BY <1>1, AllocOK, AllocRegions
<1>3. \/ a.s = mm
      \/ \E start \in Nat :
           /\ start >= mm.heap_offset
           /\ a.s.mem = mm.mem
           /\ a.s.regions = mm.regions \union {[at |-> start, size |-> size, align |-> align]}
           /\ size <= KERNEL_HEAP_SIZE => a.s.heap_offset = start + size
  BY <1>1, AllocAt
<1>4. mm' = a.s  OBVIOUS
<1> HIDE DEF a
<1>5. LogTyped(log, tables) /\ (Sane => Linked(mm, tables) /\ LogOK(log, created, mm))
  BY DEF LogInv
<1>6. ASSUME Sane' PROVE Linked(mm', tables) /\ LogOK(log, created, mm')
  <2>1. Sane  BY <1>2, <1>4, <1>5, <1>6, SaneBack
  <2>2. mm'.mem = mm.mem /\ mm'.heap_offset >= mm.heap_offset
    <3>1. mm.heap_offset \in Nat  BY <1>1, MmSizes
    <3>2. CASE a.s = mm  BY <1>4, <3>1, <3>2
    <3>3. ASSUME NEW start \in Nat, start >= mm.heap_offset, a.s.mem = mm.mem,
                 a.s.regions = mm.regions \union {[at |-> start, size |-> size, align |-> align]},
                 size <= KERNEL_HEAP_SIZE => a.s.heap_offset = start + size
          PROVE  mm'.mem = mm.mem /\ mm'.heap_offset >= mm.heap_offset
      <4> DEFINE r == [at |-> start, size |-> size, align |-> align]
      <4>1. r \in mm'.regions /\ r.size = size  BY <1>4, <3>3
      <4>2. size <= KERNEL_HEAP_SIZE
        <5> HIDE DEF r
        <5> QED  BY <1>6, <4>1 DEF Sane, NoWrap
      <4> QED  BY <1>4, <3>1, <3>3, <4>2
    <3> QED  BY <1>3, <3>2, <3>3
  <2>3. HeapOK(mm')  BY <1>2, <1>4
  <2>4. Linked(mm', tables)  BY <1>1, <1>5, <2>1, <2>2, <2>3, TableLinked
  <2>5. Grown(mm, mm', tables, created)  BY <2>2 DEF Grown
  <2>6. LogOK(log, created, mm')  BY <1>1, <1>5, <2>1, <2>5, QuietStep
  <2> QED  BY <2>4, <2>6
<1> QED  BY <1>5, <1>6, LogInvFrom

\* A step that writes an entry for a caller, in memory u behind its walk.
LEMMA WriteStep ==
  ASSUME MmInv, LogInv, NEW u, HeapOK(u), NEW r \in LogRecord, r.pt \in tables,
         Appended(log, r, log'), UNCHANGED <<heap_base, tables>>,
         created \subseteq created', mm.regions \subseteq mm'.regions,
         Written(u, mm', r.pt + Index(r.v, 0), r.entry), mm'.heap_offset = u.heap_offset,
         Sane => Linked(u, tables) /\ Grown(mm, u, tables, created') /\ Reaches(u, r.pt, r.v)
  PROVE  LogInv'
<1>1. heap_base \in HeapBases /\ HeapOK(mm) /\ tables \subseteq Pointers  BY MmParts
<1>2. LogTyped(log, tables) /\ (Sane => Linked(mm, tables) /\ LogOK(log, created, mm))
  BY DEF LogInv
<1>02. LogTyped(log, tables)  BY <1>2
<1>3. LogTyped(log', tables) /\ log'[Len(log) + 1] = r /\ Len(log) + 1 \in DOMAIN log'
  <2>1. /\ Len(log) \in Nat /\ DOMAIN log' = 1 .. Len(log) + 1 /\ log'[Len(log) + 1] = r
        /\ r.pt \in tables => LogTyped(log', tables)
    BY ONLY <1>02, r \in LogRecord, Appended(log, r, log'), LogAppended, Zenon
  <2> QED  BY <2>1
<1>4. ASSUME Sane' PROVE Linked(mm', tables) /\ LogOK(log', created', mm')
  <2>1. Sane  BY <1>2, <1>4, SaneBack
  <2>2. Outside(r.entry.addr)
    <3>1. FramesOutside'  BY <1>4 DEF Sane
    <3>2. \A i \in DOMAIN log' : Outside(log'[i].entry.addr)  BY <3>1 DEF FramesOutside, Outside
    <3> QED  BY <1>3, <3>2
  <2>3. Linked(mm', tables)
    <3>1. \A a \in 0 .. MEM_WORDS - 1 : mm'.mem[a] = r.entry \/ mm'.mem[a] = u.mem[a]
      BY DEF Written
    <3> QED  BY <2>1, <2>2, <3>1, EntryLinked
  <2>4. LogOK(log', created', mm')  BY <1>1, <1>2, <2>1, WritingStep
  <2> QED  BY <2>3, <2>4
<1> QED  BY <1>3, <1>4, LogInvFrom

\* A new root table lies behind everything an entry can point to.
LEMMA CreateStep ==
  ASSUME MmInv, LogInv, MmPageTableCreate PROVE LogInv'
<1> DEFINE new == page_table_alloc(mm)
<1>1. heap_base \in HeapBases /\ HeapOK(mm) /\ tables \subseteq Pointers  BY MmParts
<1>2. /\ mm' = new.s /\ tables' = tables \union ({new.ptr} \ {NULL})
      /\ UNCHANGED <<heap_base, log, created>>
  BY DEF MmPageTableCreate, mmRest
<1>3. LogTyped(log, tables) /\ (Sane => Linked(mm, tables) /\ LogOK(log, created, mm))
  BY DEF LogInv
<1>4. LogTyped(log', tables')  BY <1>2, <1>3 DEF LogTyped
<1>5. CASE new.ptr = NULL
  <2>1. mm' = mm /\ tables' = tables  BY <1>1, <1>2, <1>5, TableAt
  <2>2. Sane' => Sane  BY <1>2, <2>1 DEF Sane, NoWrap, FramesOutside, Outside
  <2> QED  BY <1>2, <1>3, <1>4, <2>1, <2>2, LogInvFrom
<1>6. CASE new.ptr # NULL
  <2>1. /\ new.ptr \in Pointers /\ HeapOK(new.s)
        /\ new.ptr >= heap_base + mm.heap_offset
        /\ new.ptr + ENTRIES = heap_base + new.s.heap_offset
        /\ new.s.heap_offset >= mm.heap_offset
        /\ new.s.mem = mm.mem
    BY <1>1, <1>6, TableAt
  <2>2. mm.regions \subseteq new.s.regions
    <3>1. ENTRIES \in Nat  BY <1>1, MmSizes
    <3> QED  BY <1>1, <3>1, AllocRegions DEF page_table_alloc, Aligns
  <2> HIDE DEF new
  <2>3. /\ ENTRIES \in Nat /\ heap_base \in Nat /\ mm.heap_offset \in Nat /\ Pointers \subseteq Nat
        /\ new.ptr \in Nat /\ new.s.heap_offset \in Nat
    BY <1>1, <2>1, MmSizes
  <2>4. ASSUME NEW p \in Nat, Taken(p, mm) PROVE Apart(p, new.ptr) /\ Apart(new.ptr, p)
    BY <2>1, <2>3, <2>4 DEF Taken, Apart
  <2>5. ASSUME Sane' PROVE Linked(mm', tables') /\ LogOK(log', created', mm')
    <3>1. Sane  BY <1>2, <1>3, <2>2, <2>5, SaneBack
    <3>2. Linked(new.s, tables)  BY <1>1, <1>3, <2>1, <3>1, TableLinked
    <3>3. Linked(mm, tables)  BY <1>3, <3>1
    <3>4. Taken(new.ptr, new.s)  BY <2>1, <2>3 DEF Taken
    <3>5. tables' = tables \union {new.ptr}  BY <1>2, <1>6
    <3>6. \A q \in tables : Apart(q, new.ptr) /\ Apart(new.ptr, q)
      BY <1>1, <2>3, <2>4, <3>3 DEF Linked
    <3>7. ASSUME NEW a \in 0 .. MEM_WORDS - 1
          PROVE  LET p == new.s.mem[a].addr IN
                   \/ p = NULL \/ Outside(p)
                   \/ Taken(p, new.s) /\ \A q \in tables' : Apart(p, q)
      <4> DEFINE p == mm.mem[a].addr
      <4>1. p \in Nat  BY <1>1, MmSizes
      <4>2. p = NULL \/ Outside(p) \/ Taken(p, mm)  BY <3>3 DEF Linked
      <4>3. p = NULL \/ Outside(p) \/ (Taken(p, new.s) /\ \A q \in tables : Apart(p, q))
        BY <2>1, <3>2 DEF Linked
      <4> HIDE DEF p
      <4>4. p = NULL \/ Outside(p) \/ (Taken(p, new.s) /\ \A q \in tables' : Apart(p, q))
        BY <2>4, <3>5, <4>1, <4>2, <4>3
      <4> QED  BY <2>1, <4>4 DEF p
    <3>8. Linked(new.s, tables')
      <4>1. \A q \in tables' : Taken(q, new.s)  BY <3>2, <3>4, <3>5 DEF Linked
      <4>2. \A q, w \in tables' : q = w \/ Apart(q, w)  BY <3>2, <3>5, <3>6 DEF Linked
      <4> QED  BY <3>7, <4>1, <4>2 DEF Linked
    <3>9. Grown(mm, new.s, tables, created)  BY <2>1 DEF Grown
    <3>10. LogOK(log, created, new.s)  BY <1>1, <1>3, <3>1, <3>9, QuietStep
    <3> QED  BY <1>2, <3>8, <3>10
  <2> QED  BY <1>2, <1>4, <2>5, LogInvFrom
<1> QED  BY <1>5, <1>6

\* A walk that creates, and writes nothing behind it.
LEMMA WalkStep ==
  ASSUME MmInv, LogInv, NEW pt \in tables, NEW v \in Nat,
         mm' = Descend(mm, pt, v, TRUE).s, Created(pt, v), UNCHANGED <<heap_base, tables, log>>
  PROVE  LogInv'
<1> DEFINE d == Descend(mm, pt, v, TRUE)
<1>1. heap_base \in HeapBases /\ HeapOK(mm) /\ tables \subseteq Pointers  BY MmParts
<1>2. LogTyped(log, tables) /\ (Sane => Linked(mm, tables) /\ LogOK(log, created, mm))
  BY DEF LogInv
<1>3. mm' = d.s /\ created' = created \union {<<pt, Index(v, 3)>>}  BY DEF Created
<1>4. mm.regions \subseteq d.s.regions  BY <1>1, DescendRegions
<1>5. ASSUME Sane' PROVE Linked(mm', tables) /\ LogOK(log, created', mm')
  <2>1. Sane  BY <1>2, <1>3, <1>4, <1>5, SaneBack
  <2>2. Linked(d.s, tables) /\ Grown(mm, d.s, tables, {<<pt, Index(v, 3)>>})
    BY <1>1, <1>2, <2>1, DescendGrows DEF Sane
  <2> HIDE DEF d
  <2>3. Grown(mm, d.s, tables, created')  BY <1>3, <2>2 DEF Grown
  <2>4. created \subseteq created'  BY <1>3
  <2>5. LogOK(log, created', d.s)  BY <1>1, <1>2, <2>1, <2>3, <2>4, QuietStep
  <2> QED  BY <1>3, <2>2, <2>5
<1> QED  BY <1>2, <1>5, LogInvFrom

\* mm_page_map: a walk that creates, and the entry.
LEMMA MapStep ==
  ASSUME MmInv, LogInv, NEW pt \in tables, NEW v \in Nat, NEW frame \in Pointers,
         MmPageMap(pt, v, frame)
  PROVE  LogInv'
<1> DEFINE d == Descend(mm, pt, v, TRUE)
           m == mm_page_map(mm, pt, v, frame)
           e == Entry(TRUE, frame)
           r == [pt |-> pt, v |-> v, entry |-> e]
<1>1. heap_base \in HeapBases /\ HeapOK(mm) /\ tables \subseteq Pointers
      /\ tables \subseteq Pointers \ {NULL}
  BY MmParts
<1>2. /\ mm' = m.s /\ UNCHANGED <<heap_base, tables>> /\ Created(pt, v)
      /\ IF m.ret = 0 THEN Wrote(pt, v, Entry(TRUE, frame)) ELSE UNCHANGED log
  BY DEF MmPageMap, mmRest
<1>3. CASE d.ptr = NULL
  <2>1. m = [ret |-> -1, s |-> d.s]  BY <1>3 DEF mm_page_map
  <2>2. m.s = d.s /\ m.ret # 0
    <3> HIDE DEF m, d
    <3> QED  BY <2>1
  <2> QED  BY <1>2, <2>2, WalkStep
<1>4. CASE d.ptr # NULL
  <2> DEFINE x == [d.s EXCEPT !.mem[pt + Index(v, 0)] = e]
  <2>1. m = [ret |-> 0, s |-> x]  BY <1>4 DEF mm_page_map, Leaf
  <2>2. m.s = x /\ m.ret = 0
    <3> HIDE DEF m, x
    <3> QED  BY <2>1
  <2>3. mm' = [d.s EXCEPT !.mem[pt + Index(v, 0)] = e]  BY <1>2, <2>2
  <2>4. Appended(log, r, log')  BY <1>2, <2>2 DEF Wrote, Appended
  <2>5. created' = created \union {<<pt, Index(v, 3)>>}  BY <1>2 DEF Created
  <2>6. HeapOK(d.s) /\ mm.regions \subseteq d.s.regions  BY <1>1, DescendOK, DescendRegions
  <2>7. Sane => Linked(d.s, tables) /\ Grown(mm, d.s, tables, {<<pt, Index(v, 3)>>})
                /\ Reaches(d.s, pt, v)
    BY <1>1, <1>4, DescendGrows DEF Sane, LogInv
  <2> HIDE DEF d, m, x
  <2>8. e \in [present : BOOLEAN, addr : Pointers]  BY EntryType
  <2> HIDE DEF e
  <2>9. r \in LogRecord /\ r.pt = pt /\ r.v = v /\ r.entry = e  BY <1>1, <2>8 DEF LogRecord
  <2> HIDE DEF r
  <2>10. /\ Written(d.s, mm', pt + Index(v, 0), e)
         /\ mm'.heap_offset = d.s.heap_offset /\ mm'.regions = d.s.regions
    <3>1. d.s \in MemoryState  BY <2>6 DEF HeapOK, MemoryState
    <3>2. /\ mm'.heap_offset = d.s.heap_offset /\ mm'.regions = d.s.regions
          /\ mm'.mem = [d.s.mem EXCEPT ![pt + Index(v, 0)] = e]
      BY <2>3, <3>1 DEF MemoryState
    <3> QED  BY <3>1, <3>2 DEF MemoryState, Memory, Written
  <2>11. Sane => Grown(mm, d.s, tables, created')  BY <2>5, <2>7 DEF Grown
  <2>12. created \subseteq created'  BY <2>5
  <2> QED  BY <1>2, <2>4, <2>6, <2>7, <2>9, <2>10, <2>11, <2>12, WriteStep
<1> QED  BY <1>3, <1>4

\* A write behind a walk that creates nothing.
LEMMA FoundStep ==
  ASSUME MmInv, LogInv, NEW pt \in tables, NEW v \in Nat, Reaches(mm, pt, v),
         NEW e \in [present : BOOLEAN, addr : Pointers],
         mm' = [mm EXCEPT !.mem[pt + Index(v, 0)] = e], Wrote(pt, v, e),
         UNCHANGED <<heap_base, tables, created>>
  PROVE  LogInv'
<1> DEFINE r == [pt |-> pt, v |-> v, entry |-> e]
<1>1. HeapOK(mm) /\ tables \subseteq Pointers \ {NULL}  BY MmParts
<1>2. Appended(log, r, log')  BY DEF Wrote, Appended
<1>3. r \in LogRecord /\ r.pt = pt /\ r.v = v /\ r.entry = e  BY <1>1 DEF LogRecord
<1> HIDE DEF r
<1>4. /\ Written(mm, mm', pt + Index(v, 0), e)
      /\ mm'.heap_offset = mm.heap_offset /\ mm'.regions = mm.regions
  <2>1. mm \in MemoryState  BY <1>1 DEF HeapOK, MemoryState
  <2>2. /\ mm'.heap_offset = mm.heap_offset /\ mm'.regions = mm.regions
        /\ mm'.mem = [mm.mem EXCEPT ![pt + Index(v, 0)] = e]
    BY <2>1 DEF MemoryState
  <2> QED  BY <2>1, <2>2 DEF MemoryState, Memory, Written
<1>5. Sane => Linked(mm, tables) /\ Grown(mm, mm, tables, created')  BY DEF LogInv, Grown
<1> QED  BY <1>1, <1>2, <1>3, <1>4, <1>5, WriteStep

LEMMA UnmapStep ==
  ASSUME MmInv, LogInv, NEW pt \in tables, NEW v \in Nat, MmPageUnmap(pt, v) PROVE LogInv'
<1>1. Descend(mm, pt, v, FALSE).ptr # NULL  BY DEF MmPageUnmap
<1>2. Reaches(mm, pt, v)  BY <1>1, WalkIs
<1>3. mm' = [mm EXCEPT !.mem[pt + Index(v, 0)] = Empty]  BY DEF MmPageUnmap, Leaf
<1>4. Wrote(pt, v, Empty) /\ UNCHANGED <<heap_base, tables, created>>  BY DEF MmPageUnmap, mmRest
<1>5. Empty \in [present : BOOLEAN, addr : Pointers]
  <2>1. ENTRIES \in Nat \ {0}  BY MmConstants, Zenon
  <2>2. 0 \in Pointers  BY <2>1, IdentityFrame DEF IDENTITY
  <2> QED  BY <2>2, EntryType DEF Empty
<1> HIDE DEF Empty
<1> QED  BY <1>2, <1>3, <1>4, <1>5, FoundStep

LEMMA ProtectStep ==
  ASSUME MmInv, LogInv, NEW pt \in tables, NEW v \in Nat, NEW present \in BOOLEAN,
         MmPageProtect(pt, v, present)
  PROVE  LogInv'
<1> DEFINE w == mm_page_walk(mm, pt, v, FALSE).ptr
           a == pt + Index(v, 0)
           e == Entry(present, mm.mem[a].addr)
<1>1. /\ heap_base \in HeapBases /\ HeapOK(mm)
      /\ tables \subseteq Pointers /\ tables \subseteq Pointers \ {NULL}
  BY MmParts
<1>2. /\ w # NULL /\ mm' = [mm EXCEPT !.mem[w].present = present]
      /\ Wrote(pt, v, Entry(present, mm.mem[w].addr))
      /\ UNCHANGED <<heap_base, tables, created>>
  BY DEF MmPageProtect, mmRest
<1>3. Reaches(mm, pt, v) /\ w = a  BY <1>1, <1>2, PageWalkIs
<1>4. a \in 0 .. MEM_WORDS - 1
  <2>1. Index(v, 0) \in 0 .. ENTRIES - 1  BY IndexType
  <2> QED  BY <1>1, <2>1, EntryInMemory
<1> HIDE DEF w, a
<1>5. mm.mem[a] \in [present : BOOLEAN, addr : Pointers]  BY <1>1, <1>4 DEF HeapOK, Memory
<1>6. mm' = [mm EXCEPT !.mem[a] = [mm.mem[a] EXCEPT !.present = present]]
  BY <1>2, <1>3, Zenon
<1>7. [mm.mem[a] EXCEPT !.present = present] = e  BY <1>5 DEF Entry
<1>8. e \in [present : BOOLEAN, addr : Pointers]  BY <1>5, EntryType
<1>9. Wrote(pt, v, e)  BY <1>2, <1>3
<1> HIDE DEF e
<1>10. mm' = [mm EXCEPT !.mem[pt + Index(v, 0)] = e]  BY <1>6, <1>7 DEF a
<1> QED  BY <1>2, <1>3, <1>8, <1>9, <1>10, FoundStep

\* A step that leaves memory, the tables and the log alone.
LEMMA LogStays ==
  ASSUME LogInv, UNCHANGED <<heap_base, mm, tables, log, created>> PROVE LogInv'
<1>1. Sane' => Sane  BY DEF Sane, NoWrap, FramesOutside, Outside
<1> QED  BY <1>1, LogInvFrom DEF LogInv

LEMMA CallsLog == ASSUME MmInv, LogInv, MmCalls PROVE LogInv'
<1>0. /\ ENTRIES \in Nat \ {0} /\ VMA_SIZE \in Nat /\ VPages \subseteq Nat /\ Sizes \subseteq Nat
      /\ Frames \subseteq Pointers
  <2>1. /\ ENTRIES \in Nat \ {0} /\ VMA_SIZE \in Nat /\ VPages \subseteq Nat /\ Sizes \subseteq Nat
        /\ Frames \subseteq Nat /\ MEM_WORDS \in Nat
        /\ \A f \in Frames : f + ENTRIES <= MEM_WORDS
    BY MmConstants, Zenon
  <2> QED  BY <2>1 DEF Pointers
<1>1. ASSUME NEW size \in Sizes, NEW align \in {1, 2}, MmAlloc(size, align) PROVE LogInv'
  BY <1>0, <1>1, AllocStep DEF MmAlloc, mmRest, Aligns
<1>2. CASE MmPhysAlloc  BY <1>2, LogStays DEF MmPhysAlloc, mmRest
<1>3. CASE MmPageTableCreate  BY <1>3, CreateStep
<1>4. ASSUME NEW pt \in tables, NEW v \in VPages, NEW frame \in Frames, MmPageMap(pt, v, frame)
      PROVE  LogInv'
  BY <1>0, <1>4, MapStep
<1>5. ASSUME NEW pt \in tables, NEW v \in VPages, MmPageUnmap(pt, v) PROVE LogInv'
  BY <1>0, <1>5, UnmapStep
<1>6. ASSUME NEW pt \in tables, NEW v \in VPages, MmPageWalkCreate(pt, v) PROVE LogInv'
  <2>1. mm' = Descend(mm, pt, v, TRUE).s /\ Created(pt, v) /\ UNCHANGED <<heap_base, tables, log>>
    BY <1>6 DEF MmPageWalkCreate, mm_page_walk, mmRest
  <2> QED  BY <1>0, <2>1, WalkStep
<1>7. ASSUME NEW pt \in tables, NEW v \in VPages, NEW present \in BOOLEAN,
             MmPageProtect(pt, v, present)
      PROVE  LogInv'
  BY <1>0, <1>7, ProtectStep
<1>8. ASSUME NEW pt \in tables, MmSwitchPageTable(pt) PROVE LogInv'
  BY <1>8, LogStays DEF MmSwitchPageTable, mmRest
<1>9. ASSUME NEW start \in VmaEnds, NEW end \in VmaEnds, MmVmaAdd(start, end) PROVE LogInv'
  BY <1>0, <1>9, AllocStep DEF MmVmaAdd, mmRest, Aligns
<1>10. ASSUME NEW start \in VmaEnds, MmVmaRemove(start) PROVE LogInv'
  BY <1>10, LogStays DEF MmVmaRemove, mmRest
<1> QED  BY <1>1, <1>2, <1>3, <1>4, <1>5, <1>6, <1>7, <1>8, <1>9, <1>10 DEF MmCalls

-----------------------------------------------------------------------------
(* mm_init and the boot keep it *)

LEMMA EmptyLog == ASSUME NEW T, NEW c, NEW s PROVE LogTyped(<<>>, T) /\ LogOK(<<>>, c, s)
<1>1. <<>> \in Seq(LogRecord) /\ DOMAIN <<>> = {}
  <2> HIDE DEF LogRecord
  <2> QED  OBVIOUS
<1> QED  BY <1>1 DEF LogTyped, LogOK

LEMMA InitInvFrom ==
  ASSUME heap_base' = heap_base, calls' \in Nat,
         mm_step' # "done" => log' = <<>> /\ created' = {} /\ calls' = 0,
         mm_step' # "start",
         mm_step' # "done" /\ page' = 0 => \A a \in 0 .. MEM_WORDS - 1 : mm'.mem[a] = Empty,
         mm_step' = "map" =>
           /\ page' = 0 => kernel_page_table' + ENTRIES = heap_base' + mm'.heap_offset
           /\ page' # 0 => Stuck(mm', kernel_page_table'),
         mm_step' = "done" /\ calls' = 0 /\ kernel_page_table' # NULL =>
           \A v \in Nat : v < IDENTITY => ~Reaches(mm', kernel_page_table', v)
  PROVE  InitInv'
<1>1. Stuck(mm', kernel_page_table') => Stuck(mm, kernel_page_table)'
  BY DEF Stuck, Reaches, Hop, page_table_alloc, mm_alloc
<1>2. (mm_step' = "done" /\ calls' = 0 /\ kernel_page_table' # NULL) =>
        (\A v \in Nat : v < IDENTITY => ~Reaches(mm, kernel_page_table, v))'
  BY DEF Reaches, Hop
<1> QED  BY <1>1, <1>2 DEF InitInv, Empty, Entry, NULL

\* The root table.
LEMMA RootStep ==
  ASSUME MmInv, InitInv, MmInitRoot PROVE LogInv' /\ InitInv'
<1> DEFINE s0 == [mm EXCEPT !.heap_offset = 0]
           root == page_table_alloc(s0)
<1>1. heap_base \in HeapBases /\ HeapOK(mm)  BY MmParts
<1>2. /\ mm_step = "start" /\ page = 0 /\ log = <<>> /\ created = {} /\ calls = 0
      /\ mm.regions = {} /\ \A a \in 0 .. MEM_WORDS - 1 : mm.mem[a] = Empty
  BY DEF MmInitRoot, InitInv, MmInv
<1>3. /\ mm' = root.s /\ kernel_page_table' = root.ptr
      /\ tables' = IF root.ptr = NULL THEN {} ELSE {root.ptr}
      /\ mm_step' = IF root.ptr = NULL THEN "done" ELSE "map"
      /\ UNCHANGED <<heap_base, log, created, page, calls>>
  BY DEF MmInitRoot
<1>4. HeapOK(s0) /\ s0.mem = mm.mem
  <2>1. mm \in MemoryState  BY <1>1 DEF HeapOK, MemoryState
  <2>2. 0 \in 0 .. KERNEL_HEAP_SIZE
    <3>1. KERNEL_HEAP_SIZE \in Nat  BY MmConstants, Zenon
    <3> QED  BY <3>1
  <2>3. s0 \in MemoryState /\ s0.regions = {} /\ s0.mem = mm.mem  BY <1>2, <2>1, <2>2 DEF MemoryState
  <2> HIDE DEF s0
  <2> QED  BY <2>3 DEF HeapOK, MemoryState
<1> HIDE DEF s0
<1>5. /\ root.ptr = NULL => root.s = s0
      /\ root.ptr # NULL =>
           /\ root.ptr \in Pointers /\ HeapOK(root.s)
           /\ root.ptr >= heap_base + s0.heap_offset
           /\ root.ptr + ENTRIES = heap_base + root.s.heap_offset
           /\ root.s.mem = s0.mem
  BY <1>1, <1>4, TableAt
<1> HIDE DEF root
<1>6. \A a \in 0 .. MEM_WORDS - 1 : mm'.mem[a] = Empty  BY <1>2, <1>3, <1>4, <1>5
<1>7. Linked(mm', tables')
  <2>1. \A pt \in tables' : Taken(pt, mm')
    <3> SUFFICES ASSUME root.ptr # NULL PROVE Taken(root.ptr, root.s)  BY <1>3
    <3>1. /\ ENTRIES \in Nat /\ heap_base \in Nat /\ s0.heap_offset \in Nat
          /\ root.s.heap_offset \in Nat /\ root.ptr \in Nat
      BY <1>1, <1>4, <1>5, MmSizes
    <3> QED  BY <1>5, <3>1 DEF Taken
  <2>2. \A pt, q \in tables' : pt = q  BY <1>3
  <2>3. \A a \in 0 .. MEM_WORDS - 1 : mm'.mem[a].addr = NULL  BY <1>6 DEF Empty, Entry, NULL
  <2> QED  BY <2>1, <2>2, <2>3 DEF Linked
<1>8. LogTyped(log', tables') /\ LogOK(log', created', mm')  BY <1>2, <1>3, EmptyLog
<1>9. LogInv'  BY <1>3, <1>7, <1>8, LogInvFrom
<1>10. mm_step' = "done" => kernel_page_table' = NULL  BY <1>3
<1>11. mm_step' = "map" => kernel_page_table' + ENTRIES = heap_base' + mm'.heap_offset
  BY <1>3, <1>5
<1>12. InitInv'
  <2>1. calls' \in Nat /\ calls' = 0 /\ page' = 0 /\ log' = <<>> /\ created' = {}
        /\ mm_step' # "start"
    BY <1>2, <1>3
  <2> QED  BY <1>3, <1>6, <1>10, <1>11, <2>1, InitInvFrom
<1> QED  BY <1>9, <1>12

\* The loop.
LEMMA LoopStep ==
  ASSUME MmInv, LogInv, InitInv, MmInitMap PROVE LogInv' /\ InitInv'
<1> DEFINE b == kernel_page_table
<1>1. /\ heap_base \in HeapBases /\ HeapOK(mm) /\ tables \subseteq Pointers
      /\ b \in tables /\ page \in Nat /\ mm_step = "map"
      /\ log = <<>> /\ created = {} /\ calls = 0
      /\ UNCHANGED <<heap_base, kernel_page_table, tables, log, created, calls>>
  BY MmParts DEF MmInitMap, MmInv, InitInv
<1>2. b \in Pointers  BY <1>1
<1>3. LogTyped(log', tables') /\ LogOK(log', created', mm')  BY <1>1, EmptyLog
<1>4. page # 0 => Stuck(mm, b)  BY <1>1 DEF InitInv
<1>5. CASE page < IDENTITY /\ page # 0
  <2> DEFINE m == mm_page_map(mm, b, page, page * ENTRIES)
  <2>1. mm' = m.s /\ page' = page + 1 /\ mm_step' = "map"  BY <1>1, <1>5 DEF MmInitMap
  <2>2. m.s = mm
    <3> DEFINE d == Descend(mm, b, page, TRUE)
    <3>1. d = [ptr |-> NULL, s |-> mm]  BY <1>1, <1>4, <1>5, StuckWalk
    <3>2. d.ptr = NULL => m = [ret |-> -1, s |-> d.s]  BY DEF mm_page_map
    <3> HIDE DEF d, m
    <3>3. d.ptr = NULL /\ d.s = mm  BY <3>1
    <3> QED  BY <3>2, <3>3
  <2> HIDE DEF m
  <2>3. mm' = mm /\ page' # 0  BY <1>1, <2>1, <2>2
  <2>4. Sane' => Linked(mm', tables')
    <3>1. Sane' => Sane  BY <1>1, <2>3 DEF Sane, NoWrap, FramesOutside, Outside
    <3> QED  BY <1>1, <2>3, <3>1 DEF LogInv
  <2>5. LogInv'  BY <1>1, <1>3, <2>4, LogInvFrom
  <2>6. Stuck(mm', kernel_page_table')  BY <1>1, <1>4, <1>5, <2>3
  <2> QED  BY <1>1, <2>1, <2>3, <2>5, <2>6, InitInvFrom
<1>6. CASE page < IDENTITY /\ page = 0
  <2> DEFINE m == mm_page_map(mm, b, 0, 0)
             d == Descend(mm, b, 0, TRUE)
             e == Entry(TRUE, 0)
  <2>0. ENTRIES \in Nat  BY <1>1, MmSizes
  <2>1. mm' = m.s /\ page' = 1 /\ mm_step' = "map"
    <3>1. page * ENTRIES = 0 /\ page + 1 = 1  BY <1>6, <2>0
    <3> QED  BY <1>1, <1>6, <3>1 DEF MmInitMap
  <2>2. /\ \A a \in 0 .. MEM_WORDS - 1 : ~mm.mem[a].present
        /\ b + ENTRIES = heap_base + mm.heap_offset
    BY <1>1, <1>6 DEF InitInv, Empty, Entry
  <2>3. Stuck(m.s, b)  BY <1>1, <1>2, <2>2, PageZero
  <2>4. mm.regions \subseteq d.s.regions /\ HeapOK(d.s)  BY <1>1, <1>2, DescendRegions, DescendOK
  <2>5. /\ d.ptr = NULL => m.s = d.s
        /\ d.ptr # NULL => m.s = [d.s EXCEPT !.mem[b + Index(0, 0)] = e]
    <3> DEFINE x == [d.s EXCEPT !.mem[b + Index(0, 0)] = e]
    <3>1. d.ptr = NULL => m = [ret |-> -1, s |-> d.s]  BY DEF mm_page_map
    <3>2. d.ptr # NULL => m = [ret |-> 0, s |-> x]  BY DEF mm_page_map, Leaf
    <3> HIDE DEF d, m, x
    <3>3. (d.ptr = NULL => m.s = d.s) /\ (d.ptr # NULL => m.s = x)  BY <3>1, <3>2
    <3> QED  BY <3>3 DEF x
  <2>6. heap_base % ENTRIES = 0 /\ Linked(mm, tables) => Linked(d.s, tables)
    BY <1>1, DescendGrows
  <2> HIDE DEF d, m
  <2>7. /\ m.s.regions = d.s.regions /\ m.s.heap_offset = d.s.heap_offset
        /\ \A a \in 0 .. MEM_WORDS - 1 : m.s.mem[a] = e \/ m.s.mem[a] = d.s.mem[a]
    <3>1. CASE d.ptr = NULL  BY <2>5, <3>1
    <3>2. CASE d.ptr # NULL
      <4> HIDE DEF e
      <4>1. d.s \in MemoryState  BY <2>4 DEF HeapOK, MemoryState
      <4>2. /\ m.s.regions = d.s.regions /\ m.s.heap_offset = d.s.heap_offset
            /\ m.s.mem = [d.s.mem EXCEPT ![b + Index(0, 0)] = e]
        BY <2>5, <3>2, <4>1 DEF MemoryState
      <4> QED  BY <4>1, <4>2 DEF MemoryState, Memory
    <3> QED  BY <3>1, <3>2
  <2>8. Sane' => Linked(mm', tables')
    <3> SUFFICES ASSUME Sane' PROVE Linked(mm', tables)  BY <1>1
    <3>1. mm.regions \subseteq mm'.regions /\ LogTyped(log, tables)  BY <2>1, <2>4, <2>7 DEF LogInv
    <3>2. Sane  BY <1>1, <3>1, SaneBack
    <3>3. Linked(d.s, tables)  BY <2>6, <3>2 DEF Sane, LogInv
    <3>4. e.addr = NULL  BY DEF Entry, NULL
    <3> HIDE DEF e
    <3>5. Linked(m.s, tables)  BY <2>7, <3>3, <3>4, EntryLinked
    <3> QED  BY <2>1, <3>5
  <2>9. LogInv'  BY <1>1, <1>3, <2>8, LogInvFrom
  <2>10. Stuck(mm', kernel_page_table')  BY <1>1, <2>1, <2>3
  <2> QED  BY <1>1, <2>1, <2>9, <2>10, InitInvFrom
<1>7. CASE ~(page < IDENTITY)
  <2>1. mm' = mm /\ mm_step' = "done"  BY <1>7 DEF MmInitMap
  <2>2. LogInv'  BY <1>1, <2>1, LogStays
  <2>3. page # 0
    <3>1. ENTRIES \in Nat /\ ENTRIES > 0  BY <1>1, MmSizes
    <3> QED  BY <1>7, <3>1 DEF IDENTITY
  <2>4. \A v \in Nat : v < IDENTITY => ~Reaches(mm', kernel_page_table', v)
    BY <1>1, <1>4, <2>1, <2>3 DEF Stuck
  <2> QED  BY <1>1, <2>1, <2>2, <2>4, InitInvFrom
<1> QED  BY <1>5, <1>6, <1>7

\* Taking memory from the heap changes no entry.
LEMMA HeapDone ==
  ASSUME InitInv, mm_step = "done", mm'.mem = mm.mem,
         UNCHANGED <<heap_base, calls, mm_step, kernel_page_table>>
  PROVE  InitInv'
<1>1. \A v : Reaches(mm', kernel_page_table, v) <=> Reaches(mm, kernel_page_table, v)
  BY DEF Reaches, Hop
<1>2. calls' \in Nat /\ mm_step' = "done"  BY DEF InitInv
<1>3. mm_step' = "done" /\ calls' = 0 /\ kernel_page_table' # NULL =>
        \A v \in Nat : v < IDENTITY => ~Reaches(mm', kernel_page_table', v)
  BY <1>1 DEF InitInv
<1> QED  BY <1>2, <1>3, InitInvFrom

\* What mm_alloc leaves of the entries.
LEMMA AllocMem ==
  ASSUME NEW s, HeapOK(s), NEW size \in Nat, NEW align \in Aligns, heap_base \in HeapBases
  PROVE  mm_alloc(s, size, align).s.mem = s.mem
<1> DEFINE a == mm_alloc(s, size, align)
<1>1. a.s = s \/ a.s.mem = s.mem  BY AllocAt
<1> HIDE DEF a
<1>2. a.s.mem = s.mem  BY <1>1
<1> QED  BY <1>2 DEF a

MapInv == LogInv /\ InitInv

LEMMA MapInit == Init => MapInv
<1> SUFFICES ASSUME Init PROVE MapInv  OBVIOUS
<1>1. /\ heap_base \in HeapBases /\ log = <<>> /\ created = {} /\ tables = {} /\ calls = 0
      /\ page = 0 /\ mm_step = "start"
      /\ mm = [heap_offset |-> 0, mem |-> [a \in 0 .. MEM_WORDS - 1 |-> Empty], regions |-> {}]
  BY DEF Init, MmStart
<1>2. \A a \in 0 .. MEM_WORDS - 1 : mm.mem[a] = Empty
  <2> HIDE DEF Empty
  <2> QED  BY <1>1
<1>3. Linked(mm, {})
  <2>1. \A a \in 0 .. MEM_WORDS - 1 : mm.mem[a].addr = NULL  BY <1>2 DEF Empty, Entry, NULL
  <2> QED  BY <2>1 DEF Linked
<1>4. LogInv  BY <1>1, <1>3, EmptyLog DEF LogInv
<1>5. InitInv  BY <1>1, <1>2 DEF InitInv
<1> QED  BY <1>4, <1>5 DEF MapInv

\* A step of the boot that takes memory from the heap, or leaves it alone.
LEMMA HeapStep ==
  ASSUME BootInv, MapInv, boot_step # "mm_init", HeapOnly,
         \/ mm' = mm
         \/ \E size \in Nat, align \in Aligns : mm' = mm_alloc(mm, size, align).s
  PROVE  MapInv'
<1>1. MmInv /\ LogInv /\ InitInv /\ mm_step = "done"  BY DEF BootInv, LoadInv, MapInv
<1>2. heap_base \in HeapBases /\ HeapOK(mm)  BY <1>1, MmParts
<1>3. UNCHANGED <<heap_base, tables, log, created, calls, mm_step, kernel_page_table>>
  BY DEF HeapOnly
<1>4. mm'.mem = mm.mem  BY <1>2, AllocMem
<1>5. InitInv'  BY <1>1, <1>3, <1>4, HeapDone
<1>6. LogInv'  BY <1>1, <1>3, LogStays, AllocStep
<1> QED  BY <1>5, <1>6 DEF MapInv

LEMMA MapNext == BootInv /\ MapInv /\ [Next]_vars => MapInv'
<1> SUFFICES ASSUME BootInv, MapInv, [Next]_vars PROVE MapInv'  OBVIOUS
<1>0. MmInv /\ LogInv /\ InitInv  BY DEF BootInv, MapInv
<1>1. CASE KmainMmInit  BY <1>0, <1>1, RootStep, LoopStep DEF KmainMmInit, MmInit, MapInv
<1>2. CASE KmainBlock
  <2>1. BLOCK_SIZE \in Nat  BY BootConstants, Zenon
  <2>2. 2 \in Aligns  BY DEF Aligns
  <2> QED  BY <1>2, <2>1, <2>2, HeapStep DEF KmainBlock
<1>3. CASE LoadFind
  <2>1. boot_step # "mm_init" /\ HeapOnly /\ mm' = mm  BY <1>3 DEF LoadFind, HeapOnly, mmVars
  <2> QED  BY <2>1, HeapStep
<1>4. CASE LoadSegment
  <2>1. boot_step = "segment" /\ HeapOnly  BY <1>4 DEF LoadSegment
  <2>2. \/ mm' = mm
        \/ \E size \in Nat, align \in Aligns : mm' = mm_alloc(mm, size, align).s
    <3>1. CASE seg <= Len(Elf[elf].segs)
      <4>1. elf \in DOMAIN Elf /\ seg \in 1 .. Len(Elf[elf].segs) + 1  BY <2>1 DEF BootInv, LoadInv
      <4>2. seg \in DOMAIN Elf[elf].segs /\ Elf[elf].segs[seg].memsz \in Nat
        <5>1. /\ Len(Elf[elf].segs) \in Nat
              /\ \A i : i \in DOMAIN Elf[elf].segs <=> i \in 1 .. Len(Elf[elf].segs)
              /\ \A i \in DOMAIN Elf[elf].segs : Elf[elf].segs[i].memsz \in Nat
          BY <4>1, SegmentsAre
        <5> QED  BY <3>1, <4>1, <5>1
      <4>3. ENTRIES \in Aligns  BY DEF Aligns
      <4> QED  BY <1>4, <3>1, <4>2, <4>3 DEF LoadSegment
    <3>2. CASE ~(seg <= Len(Elf[elf].segs))  BY <1>4, <3>2 DEF LoadSegment
    <3> QED  BY <3>1, <3>2
  <2> QED  BY <2>1, <2>2, HeapStep
<1>5. CASE KernelCalls
  <2>1. MmCalls  BY <1>5 DEF KernelCalls
  <2>2. LogInv'  BY <1>0, <2>1, CallsLog
  <2>3. Call /\ UNCHANGED mmRest
    BY <2>1 DEF MmCalls, MmAlloc, MmPhysAlloc, MmPageTableCreate, MmPageMap, MmPageUnmap,
                MmPageWalkCreate, MmPageProtect, MmSwitchPageTable, MmVmaAdd, MmVmaRemove
  <2>4. heap_base' = heap_base /\ mm_step' = "done" /\ calls' \in Nat /\ calls' # 0
    BY <1>0, <2>3 DEF Call, mmRest, InitInv
  <2>5. InitInv'  BY <2>4, InitInvFrom
  <2> QED  BY <2>2, <2>5 DEF MapInv
<1>6. CASE UNCHANGED vars
  <2>1. UNCHANGED mmVars  BY <1>6 DEF vars
  <2>2. LogInv'  BY <1>0, <2>1, LogStays DEF mmVars
  <2>3. InitInv'
    BY <1>0, <2>1 DEF InitInv, mmVars, Stuck, Reaches, Hop, page_table_alloc, mm_alloc
  <2> QED  BY <2>2, <2>3 DEF MapInv
<1> QED  BY <1>1, <1>2, <1>3, <1>4, <1>5, <1>6 DEF Next

-----------------------------------------------------------------------------
(* What kmain can rely on *)

\* BootInv holds from the start of kmain to the running kernel, for every heap and
\* every address it may have, every ramdisk and every request.
THEOREM BootInvariant == Spec => []BootInv
BY BootInit, BootNextInv, PTL DEF Spec

\* Every state of mm_init, of the calls after it (mm.c) and of load_servers_from_ramdisk
\* (main.c) is one of its type: no walk of the page tables leaves memory, whatever
\* the entries it takes for pointers.
THEOREM BootTypeOK == Spec => []TypeOK
<1>1. BootInv => TypeOK  BY DEF BootInv
<1> QED  BY <1>1, BootInvariant, PTL

\* mm_alloc (mm.c:43) gives disjoint, aligned regions inside the heap to all of its
\* callers, for as long as no sum start + size has wrapped.
THEOREM BootRegionsDisjoint == Spec => []RegionsDisjoint
<1>1. BootInv => RegionsDisjoint
  BY DEF BootInv, MmInv, HeapOK, RegionsDisjoint, NoWrap
<1> QED  BY <1>1, BootInvariant, PTL

\* elf_load (elf.c) leaves the last file whole in memory; a server is loaded as itself
\* exactly when the entry that mkramdisk.py writes for it is right, and none from an
\* image of mkramdisk.c.
THEOREM BootLoadedIsBuilt == Spec => []LoadedIsBuilt
<1>1. BootInv => LoadedIsBuilt
  <2> SUFFICES ASSUME BootInv, boot_step = "running" PROVE LoadedIsBuilt
    BY DEF LoadedIsBuilt
  <2>0. LoadInv /\ server = Len(Servers) + 1  BY DEF BootInv, LoadInv
  <2>1. ASSUME loaded # <<>>,
               NEW i \in DOMAIN Elf[loaded[Len(loaded)].file].segs, NEW a \in DOMAIN ram,
               Covers(loaded[Len(loaded)].file, i, a)
        PROVE  ram[a] = Placed(loaded[Len(loaded)].file, i, a)
    <3> DEFINE f == loaded[Len(loaded)].file
               Log == [name : {Servers[1], Servers[2]}, file : DOMAIN Elf]
    <3>1. f \in DOMAIN Elf
      <4>1. loaded \in Seq(Log)  BY <2>0 DEF LoadInv
      <4>2. loaded[Len(loaded)] \in Log
        <5> HIDE DEF Log
        <5> QED  BY <2>1, <4>1
      <4> QED  BY <4>2
    <3>2. i <= Len(Elf[f].segs)  BY <2>1, <3>1, SegmentsAre
    <3>3. InRam(f, Len(Elf[f].segs))  BY <2>0, <2>1 DEF LoadInv
    <3> QED  BY <2>1, <3>2, <3>3 DEF InRam
  <2>2. \A s \in DOMAIN Servers : s < server  BY <2>0, ServersAre
  <2>3. ASSUME builder = "py", NEW s \in DOMAIN Servers
        PROVE (\E i \in DOMAIN loaded : loaded[i] = [name |-> Servers[s], file |-> Servers[s]])
              <=> Own(s)
    BY <2>0, <2>2, <2>3 DEF LoadInv
  <2>4. builder = "c" => loaded = <<>>  BY <2>0 DEF LoadInv
  <2> QED  BY <2>1, <2>3, <2>4 DEF LoadedIsBuilt, Own
<1> QED  BY <1>1, BootInvariant, PTL

\* A page that mm_page_map (mm.c:100) or mm_page_protect wrote is found again, with the
\* entry written last for it, whatever was allocated, mapped and unmapped since, as far
\* as MapsFound says, for every size of a page, of the heap and of memory.
THEOREM BootMapsFound == Spec => []MapsFound
<1>1. BootInv /\ MapInv => MapsFound
  <2> SUFFICES ASSUME BootInv, MapInv, Sane,
                      NEW i \in DOMAIN log, Clean(log[i].pt)
               PROVE  LET e == mm_page_walk(mm, log[i].pt, log[i].v, FALSE).ptr
                      IN  e # NULL /\ mm.mem[e] = LastWritten(log[i].pt, Index(log[i].v, 0))
    BY DEF MapsFound, Sane
  <2> DEFINE pt == log[i].pt
             j == Index(log[i].v, 0)
             e == mm_page_walk(mm, pt, log[i].v, FALSE).ptr
  <2>1. LogInv /\ LogTyped(log, tables)  BY DEF MapInv, LogInv
  <2>2. pt \in Pointers \ {NULL} /\ log[i].v \in Nat  BY <2>1, LogIs
  <2>3. CleanIn(log, created, pt)  BY DEF Clean, CleanIn
  <2>4. LogOK(log, created, mm)  BY <2>1 DEF LogInv
  <2>5. Reaches(mm, pt, log[i].v) /\ mm.mem[pt + j] = LastIn(log, pt, j)
    BY <2>3, <2>4 DEF LogOK
  <2>6. LastIn(log, pt, j) = LastWritten(pt, j)  BY DEF LastIn, LastWritten
  <2>7. e = pt + j  BY <2>2, <2>5, PageWalkIs
  <2>8. j \in Nat  BY <2>2, IndexType
  <2>9. pt + j # NULL
    <3> HIDE DEF pt, j
    <3> QED  BY <2>2, <2>8, MmSizes DEF Pointers, NULL
  <2> QED  BY <2>5, <2>6, <2>7, <2>9
<1> QED  BY <1>1, BootInit, BootNextInv, MapInit, MapNext, PTL DEF Spec

\* mm_init (mm.c:36) leaves none of the first 4 MiB mapped, for every size of a page, of
\* the heap and of memory: after page 0 its own table has lost the way down (mm.c:100).
THEOREM BootIdentityLost ==
  Spec => [](mm_step = "done" /\ calls = 0 /\ kernel_page_table # NULL =>
               \A v \in 0 .. IDENTITY - 1 :
                 mm_page_walk(mm, kernel_page_table, v, FALSE).ptr = NULL)
<1> DEFINE Lost == mm_step = "done" /\ calls = 0 /\ kernel_page_table # NULL =>
                     \A v \in 0 .. IDENTITY - 1 :
                       mm_page_walk(mm, kernel_page_table, v, FALSE).ptr = NULL
<1>1. BootInv /\ MapInv => Lost
  <2> SUFFICES ASSUME BootInv, MapInv, mm_step = "done", calls = 0, kernel_page_table # NULL,
                      NEW v \in 0 .. IDENTITY - 1
               PROVE  mm_page_walk(mm, kernel_page_table, v, FALSE).ptr = NULL
    OBVIOUS
  <2>1. MmInv /\ InitInv  BY DEF BootInv, MapInv
  <2>2. tables \subseteq Pointers \ {NULL} /\ kernel_page_table \in tables \union {NULL}
    BY <2>1, MmParts DEF MmInv, MmTypeOK
  <2>3. ENTRIES \in Nat  BY MmConstants, Zenon
  <2>4. v \in Nat /\ v < IDENTITY  BY <2>3 DEF IDENTITY
  <2>5. ~Reaches(mm, kernel_page_table, v)  BY <2>1, <2>4 DEF InitInv
  <2> QED  BY <2>2, <2>4, <2>5, PageWalkIs
<1> HIDE DEF Lost
<1>2. Spec => []Lost  BY <1>1, BootInit, BootNextInv, MapInit, MapNext, PTL DEF Spec
<1> QED  BY <1>2 DEF Lost
=============================================================================
