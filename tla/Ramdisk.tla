------------------------------ MODULE Ramdisk ------------------------------
(***************************************************************************)
(* The ramdisk image as its builders write it (scripts/mkramdisk.py, which *)
(* the build uses, and scripts/mkramdisk.c) and as the kernel reads it     *)
(* (kernel/src/ramdisk.c).  A directory is the sequence of its files in    *)
(* the order the builder meets them, each a name and a size.               *)
(***************************************************************************)
EXTENDS Integers, Sequences

HEADER == 16   \* sizeof(ramdisk_header_t)
ENTRY == 84    \* sizeof(ramdisk_entry_t)
Align8(n) == ((n + 7) \div 8) * 8

\* Bytes of the first k files.
SizeOfFirst(dir, k) ==
  LET sum[i \in 0 .. k] == IF i = 0 THEN 0 ELSE sum[i - 1] + dir[i].size IN sum[k]

\* An image: its magic number is right, its entries, and where the data of each
\* file really is.
NoImage == [magic |-> FALSE, entries |-> <<>>, data |-> <<>>]

\* build_ramdisk.  The loop over the entries reads rel_path and fpath, which the
\* loop that collected the files has left at the last one.
PyImage(dir) ==
  LET base == Align8(HEADER + Len(dir) * ENTRY)
      last == dir[Len(dir)].size
  IN  [magic |-> TRUE,
       entries |-> [i \in DOMAIN dir |->
         [name |-> dir[i].name, offset |-> base + (i - 1) * last, size |-> last]],
       data |-> [i \in DOMAIN dir |-> base + SizeOfFirst(dir, i - 1)]]

\* main of mkramdisk.c.  Offsets count a header of three words; the data starts
\* behind the offset that the loop over the entries has moved past all files; the gap
\* is filled from the stack behind an array of 8 bytes, with what is never a header.
CImage(dir) ==
  LET base == Align8(12 + Len(dir) * ENTRY)
      written == HEADER + Len(dir) * ENTRY
      start == Align8(base + SizeOfFirst(dir, Len(dir)))
      data == IF start > written THEN start ELSE written
  IN  [magic |-> TRUE,
       entries |-> [i \in DOMAIN dir |->
         [name |-> dir[i].name, offset |-> base + SizeOfFirst(dir, i - 1), size |-> dir[i].size]],
       data |-> [i \in DOMAIN dir |-> data + SizeOfFirst(dir, i - 1)]]

\* ramdisk_find_file: the offset in the first entry of that name.
Found(img, name) == img.magic /\ \E i \in DOMAIN img.entries : img.entries[i].name = name
OffsetOf(img, name) ==
  LET i == CHOOSE i \in DOMAIN img.entries :
             /\ img.entries[i].name = name
             /\ \A j \in 1 .. i - 1 : img.entries[j].name # name
  IN  img.entries[i].offset

\* The files that begin at that offset of the image (at most one).
FilesAt(img, dir, offset) == {dir[i].name : i \in {k \in DOMAIN dir : img.data[k] = offset}}
=============================================================================
