----------------------------- MODULE VfsProofs -----------------------------
(* Proofs about the file table, for every size of the table and of a file, *)
(* every set of paths and every way of cutting them down to a name, every  *)
(* size of a word and whatever words clients put in their messages.        *)
EXTENDS Vfs, SequenceTheorems, WellFoundedInduction, NaturalsInduction, TLAPS

\* A set of naturals has a least element.
LEMMA NatMin ==
  ASSUME NEW T, T \subseteq Nat, T # {}
  PROVE  \E x \in T : \A y \in T : x <= y
<1>1. IsWellFoundedOn(OpToRel(<, Nat), Nat)  BY NatLessThanWellFounded, Zenon
<1>2. \E x \in T : \A y \in T : ~(<<y, x>> \in OpToRel(<, Nat))  BY <1>1, WFMin, Zenon
<1>3. ASSUME NEW x \in Nat, NEW y \in Nat, y < x PROVE <<y, x>> \in OpToRel(<, Nat)
  BY <1>3, Zenon DEF OpToRel
<1>4. PICK x \in T : \A y \in T : ~(<<y, x>> \in OpToRel(<, Nat))  BY <1>2, Zenon
<1>5. ASSUME NEW y \in T PROVE ~(y < x)
  <2>1. x \in Nat /\ y \in Nat  OBVIOUS
  <2> QED  BY <1>3, <1>4, <2>1, Zenon
<1>6. \A y \in T : x <= y  BY <1>5
<1> QED  BY <1>6

\* What the loops of file_find and file_find_free return.
LEMMA FirstOrIs ==
  ASSUME NEW s, s \subseteq Files
  PROVE  IF s = {} THEN FirstOr(s) = -1 ELSE FirstOr(s) \in s
<1>1. CASE s = {}  BY <1>1 DEF FirstOr
<1>2. CASE s # {}
  <2>1. s \subseteq Nat  BY VfsConstants DEF Files
  <2>2. \E x \in s : \A y \in s : x <= y  BY <1>2, <2>1, NatMin
  <2>3. Min(s) \in s  BY <2>2 DEF Min
  <2> QED  BY <1>2, <2>3 DEF FirstOr
<1> QED  BY <1>1, <1>2

LEMMA FindIs ==
  ASSUME NEW p
  PROVE  \/ file_find(p) = -1 /\ \A i \in Files : ~(used[i] /\ name[i] = p)
         \/ file_find(p) \in Files /\ used[file_find(p)] /\ name[file_find(p)] = p
<1> DEFINE s == {i \in Files : used[i] /\ name[i] = p}
<1>1. IF s = {} THEN FirstOr(s) = -1 ELSE FirstOr(s) \in s  BY FirstOrIs
<1> QED  BY <1>1 DEF file_find

LEMMA FindFreeIs ==
  \/ file_find_free = -1
  \/ file_find_free \in Files /\ ~used[file_find_free]
<1> DEFINE s == {i \in Files : ~used[i]}
<1>1. IF s = {} THEN FirstOr(s) = -1 ELSE FirstOr(s) \in s  BY FirstOrIs
<1> QED  BY <1>1 DEF file_find_free

\* An index found is not -1.
LEMMA FilesNat == ASSUME NEW i \in Files PROVE i \in Nat /\ i >= 0
BY VfsConstants DEF Files

\* Inside the limit, and without a wrap, clipping keeps the copy inside.
LEMMA ClipInside ==
  ASSUME NEW offset \in Words, NEW n \in Words, NEW limit \in 0 .. WORD - 1,
         offset <= limit, offset + n < WORD
  PROVE  Clip(offset, n, limit) \in 0 .. n /\ offset + Clip(offset, n, limit) <= limit
<1>1. offset \in Nat /\ n \in Nat /\ limit \in Nat /\ WORD \in Nat /\ limit < WORD
  BY VfsConstants
<1>2. (offset + n) % WORD = offset + n  BY <1>1
<1>3. (limit - offset) % WORD = limit - offset  BY <1>1
<1> QED  BY <1>1, <1>2, <1>3 DEF Clip

LEMMA ClipNat ==
  ASSUME NEW offset \in Words, NEW n \in Words, NEW limit \in Nat
  PROVE  Clip(offset, n, limit) \in Nat
<1>1. offset \in Nat /\ n \in Nat /\ WORD \in Nat \ {0}  BY VfsConstants
<1>2. (limit - offset) % WORD \in Nat  BY <1>1
<1> QED  BY <1>1, <1>2 DEF Clip

-----------------------------------------------------------------------------
LEMMA InitInv == Init => IInv
<1> SUFFICES ASSUME Init PROVE IInv  OBVIOUS
<1> USE VfsConstants
<1>0. ASSUME NEW i \in Files, i < Len(RamFiles)
      PROVE  RamFiles[i + 1] \in Path /\ i + 1 \in 1 .. Len(RamFiles)
  <2>1. i \in Nat /\ Len(RamFiles) \in Nat  BY DEF Files
  <2> QED  BY <1>0, <2>1
<1>1. PICK x \in Payload : data = [i \in Files |-> [k \in Offsets |->
                             IF i < Len(RamFiles) /\ k = 0 THEN x ELSE Zero]]
  BY DEF Init
<1>2. TypeOK
  <2>1. name \in [Files -> Path \union {NoName, Other}]  BY <1>0 DEF Init
  <2>2. data \in [Files -> [Offsets -> Byte]]  BY <1>1 DEF Byte
  <2>3. size \in [Files -> 0 .. WORD - 1]  BY DEF Init
  <2>4. used \in [Files -> BOOLEAN]  BY DEF Init
  <2>5. server \in {"runs", "spoiled"} /\ wild \in BOOLEAN /\ reused \subseteq Files  BY DEF Init
  <2>6. \A i \in Files : size[i] <= MAX_FILE_SIZE  BY DEF Init
  <2>7. \A i \in Files : name[i] # Other  BY <1>0 DEF Init, Other, NoName
  <2> QED  BY <2>1, <2>2, <2>3, <2>4, <2>5, <2>6, <2>7 DEF TypeOK
<1>3. NamesUnique
  <2> SUFFICES ASSUME NEW i \in Files, NEW j \in Files, used[i], used[j], name[i] = name[j]
               PROVE  i = j
    BY DEF NamesUnique
  <2>1. i < Len(RamFiles) /\ j < Len(RamFiles)  BY DEF Init
  <2>2. RamFiles[i + 1] = RamFiles[j + 1]  BY <2>1 DEF Init
  <2>3. i + 1 = j + 1  BY <1>0, <2>1, <2>2
  <2> QED  BY <2>3, FilesNat
<1>4. NothingOld
  <2> SUFFICES ASSUME NEW i \in Files, NEW k \in Offsets
               PROVE  /\ data[i][k] \in {Zero, name[i], Other} \union Payload
                      /\ k >= size[i] => data[i][k] = Zero
    BY DEF NothingOld
  <2>1. data[i][k] = IF i < Len(RamFiles) /\ k = 0 THEN x ELSE Zero  BY <1>1
  <2>2. size[i] = IF i < Len(RamFiles) THEN 1 ELSE 0  BY DEF Init
  <2> QED  BY <2>1, <2>2 DEF Offsets
<1>5. \A i \in Files : ~used[i] => size[i] = 0  BY DEF Init
<1>6. ServedInside  BY DEF Init, ServedInside, NoData, NoName, Outside
<1> QED  BY <1>2, <1>3, <1>4, <1>5, <1>6 DEF IInv

\* What holds of the table as long as no copy went astray.
Runs ==
  /\ server = "runs"
  /\ name \in [Files -> Path \union {NoName}]
  /\ data \in [Files -> [Offsets -> Byte]]
  /\ size \in [Files -> 0 .. MAX_FILE_SIZE]
  /\ used \in [Files -> BOOLEAN]
  /\ reused \subseteq Files
Unique == \A i, j \in Files :
            used[i] /\ used[j] /\ name[i] = name[j] /\ Whole(name[i]) => i = j
Fresh == \A i \in Files \ reused : \A k \in Offsets :
           /\ data[i][k] \in {Zero, name[i], Other} \union Payload
           /\ k >= size[i] => data[i][k] = Zero
FreeEmpty == \A i \in Files : ~used[i] => size[i] = 0
Sound == Runs /\ Unique /\ Fresh /\ FreeEmpty

LEMMA InvSound == ASSUME IInv, server = "runs" PROVE Sound
<1>1. Runs
  <2>1. MAX_FILE_SIZE \in Nat /\ WORD \in Nat  BY VfsConstants
  <2>2. \A i \in Files : name[i] \in Path \union {NoName}  BY DEF IInv, TypeOK
  <2>3. name \in [Files -> Path \union {NoName}]  BY <2>2 DEF IInv, TypeOK
  <2>4. \A i \in Files : size[i] \in 0 .. MAX_FILE_SIZE  BY <2>1 DEF IInv, TypeOK
  <2>5. size \in [Files -> 0 .. MAX_FILE_SIZE]  BY <2>4 DEF IInv, TypeOK
  <2> QED  BY <2>3, <2>5 DEF Runs, IInv, TypeOK
<1> QED  BY <1>1 DEF Sound, IInv, NamesUnique, NothingOld, Unique, Fresh, FreeEmpty

\* The next state is sound, or a copy went astray because a client asked for bytes
\* that are not there.
Fine == Sound' /\ wild' \in BOOLEAN /\ (reply'.of # Outside \/ wild')
Lost == server' = "spoiled" /\ wild' = TRUE /\ TypeOK'

LEMMA FineInv == ASSUME Fine PROVE IInv'
<1>1. MAX_FILE_SIZE \in Nat /\ WORD \in Nat /\ MAX_FILE_SIZE < WORD  BY VfsConstants
<1>2. /\ server' = "runs" /\ name' \in [Files -> Path \union {NoName}]
      /\ data' \in [Files -> [Offsets -> Byte]] /\ size' \in [Files -> 0 .. MAX_FILE_SIZE]
      /\ used' \in [Files -> BOOLEAN] /\ reused' \subseteq Files
  BY DEF Fine, Sound, Runs
<1>3. \A i \in Files : name'[i] # Other
  <2>1. Other \notin Path /\ Other # NoName  BY VfsConstants DEF Other, NoName
  <2> QED  BY <1>2, <2>1
<1>4. TypeOK'
  <2>1. size' \in [Files -> 0 .. WORD - 1]  BY <1>1, <1>2
  <2>2. \A i \in Files : size'[i] <= MAX_FILE_SIZE  BY <1>1, <1>2
  <2>3. wild' \in BOOLEAN  BY DEF Fine
  <2> QED  BY <1>2, <1>3, <2>1, <2>2, <2>3 DEF TypeOK
<1>5. NamesUnique'  BY DEF Fine, Sound, NamesUnique, Unique, Whole
<1>6. NothingOld'  BY DEF Fine, Sound, NothingOld, Fresh
<1>7. ServedInside'  BY <1>2 DEF Fine, ServedInside
<1> QED  BY <1>4, <1>5, <1>6, <1>7 DEF IInv, Fine, Sound, FreeEmpty

LEMMA LostInv == ASSUME Lost PROVE IInv'
<1>1. server' # "runs"  BY DEF Lost
<1> QED  BY <1>1 DEF Lost, IInv, NamesUnique, NothingOld, ServedInside

\* The requests that leave the table alone.
LEMMA TableStays ==
  ASSUME Sound, UNCHANGED <<table, server, reused>>, wild' \in BOOLEAN,
         reply'.of # Outside \/ wild'
  PROVE  Fine
<1>1. Sound'  BY DEF Sound, Runs, Unique, Fresh, FreeEmpty, table, Whole
<1> QED  BY <1>1 DEF Fine

\* A reply without data.
LEMMA NoDataOf == ASSUME NEW a, NEW b, reply' = NoData(a, b) PROVE reply'.of # Outside
BY DEF NoData, NoName, Outside

\* A request that is refused.
Refused == UNCHANGED <<table, server, reused>> /\ wild' = FALSE /\ reply' = NoData(-1, -1)

LEMMA RefusedFine == ASSUME Sound, Refused PROVE Fine
<1>1. reply'.of # Outside  BY NoDataOf DEF Refused
<1> QED  BY <1>1, TableStays DEF Refused

\* The entry i gets the bytes d and the size z.
Edited(i, d, z) ==
  /\ data' = [data EXCEPT ![i] = d] /\ size' = [size EXCEPT ![i] = z]
  /\ UNCHANGED <<name, used, server, reused>>
  /\ wild' \in BOOLEAN
  /\ \E n : reply' = NoData(n, 0)

\* What is in the entry of file p, and at which size, after len bytes were written.
Written(i, p, x, offset, len) ==
  [k \in Offsets |->
     IF k \in offset .. offset + len - 1 THEN MsgByte(p, x, k - offset) ELSE data[i][k]]
Grown(i, end) == IF end > size[i] THEN end ELSE size[i]

\* A write that leaves its file damages the table, but its fields keep their types.
LEMMA AstrayTypes ==
  ASSUME Runs, NEW i \in Files, NEW offset \in Words, NEW len \in Nat,
         WriteAstray(i, offset, len), wild' \in BOOLEAN
  PROVE  TypeOK'
<1> DEFINE Hit(j, c) == ((j - i) * (MAX_FILE_SIZE + 3) + c - offset) % WORD < len
           end == (offset + len) % WORD
<1>1. WORD \in Nat \ {0} /\ MAX_FILE_SIZE \in Nat /\ MAX_FILE_SIZE < WORD /\ offset \in Nat
  BY VfsConstants
<1>2. end \in 0 .. WORD - 1 /\ WORD - 1 \in 0 .. WORD - 1
  BY <1>1
<1>3. /\ name' = [j \in Files |-> IF Hit(j, -1) THEN Other ELSE name[j]]
      /\ data' = [j \in Files |-> [k \in Offsets |-> IF Hit(j, k) THEN Other ELSE data[j][k]]]
      /\ size' = [j \in Files |-> IF Hit(j, MAX_FILE_SIZE) THEN WORD - 1
                                  ELSE IF j = i /\ end > size[j] THEN end ELSE size[j]]
      /\ used' = [j \in Files |-> Hit(j, MAX_FILE_SIZE + 1) \/ used[j]]
      /\ server' = "spoiled" /\ reused' = reused
  BY Zenon DEF WriteAstray
<1> HIDE DEF Hit, end
<1>4. name' \in [Files -> Path \union {NoName, Other}]  BY <1>3 DEF Runs
<1>5. data' \in [Files -> [Offsets -> Byte]]  BY <1>3 DEF Runs, Byte
<1>6. size' \in [Files -> 0 .. WORD - 1]
  <2>1. \A j \in Files : size[j] \in 0 .. WORD - 1  BY <1>1 DEF Runs
  <2> QED  BY <1>2, <1>3, <2>1
<1>7. used' \in [Files -> BOOLEAN]  BY <1>3, Zenon DEF Runs
<1> QED  BY <1>3, <1>4, <1>5, <1>6, <1>7 DEF TypeOK, Runs

\* handle_write: refused, or it edits the entry of its file, inside MAX_FILE_SIZE, or
\* it was asked to write where the file is not.
LEMMA WriteEffect ==
  ASSUME Runs, NEW p \in Path, NEW x \in Payload, NEW offset \in Words, NEW n \in Words,
         handle_write(p, x, offset, n)
  PROVE  \/ Refused
         \/ Lost
         \/ LET i == file_find(p)
                len == Clip(offset, n, MAX_FILE_SIZE)
            IN  /\ i \in Files /\ used[i] /\ name[i] = p
                /\ len \in 0 .. MAX_FILE_SIZE /\ offset + len <= MAX_FILE_SIZE
                /\ Edited(i, Written(i, p, x, offset, len), Grown(i, offset + len))
<1> DEFINE i == file_find(p)
           len == Clip(offset, n, MAX_FILE_SIZE)
<1>0. MAX_FILE_SIZE \in 0 .. WORD - 1 /\ MAX_FILE_SIZE \in Nat /\ offset \in Nat /\ n \in Nat
  BY VfsConstants
<1>1. i \in Int /\ len \in Nat  BY <1>0, FindIs, FilesNat, ClipNat
<1>2. CASE i < 0 /\ Error /\ UNCHANGED <<table, server, reused>>
  <2>1. MayWrite(p, offset, n)  BY <1>1, <1>2 DEF MayWrite
  <2>2. wild' = FALSE  BY <2>1 DEF handle_write
  <2> QED  BY <1>2, <2>2 DEF Refused, Error, Reply
<1>3. CASE i >= 0 /\ offset + len > MAX_FILE_SIZE /\ WriteAstray(i, offset, len)
  <2>1. ~MayWrite(p, offset, n)
    <3> SUFFICES ASSUME offset <= MAX_FILE_SIZE, offset + n < WORD PROVE FALSE
      BY <1>3 DEF MayWrite
    <3>1. offset + len <= MAX_FILE_SIZE  BY <1>0, ClipInside
    <3> QED  BY <1>0, <1>1, <1>3, <3>1
  <2>2. wild' = TRUE  BY <2>1 DEF handle_write
  <2>3. i \in Files  BY <1>3, FindIs
  <2>4. server' = "spoiled"  BY <1>3, Zenon DEF WriteAstray
  <2> HIDE DEF i, len
  <2>5. TypeOK'  BY <1>1, <1>3, <2>2, <2>3, AstrayTypes
  <2> QED  BY <2>2, <2>4, <2>5 DEF Lost
<1>4. CASE i >= 0 /\ offset + len <= MAX_FILE_SIZE /\ WriteFile(p, x, i, offset, len)
  <2>1. i \in Files /\ used[i] /\ name[i] = p  BY <1>4, FindIs
  <2>2. wild' \in BOOLEAN  BY DEF handle_write, MayWrite
  <2> HIDE DEF i, len
  <2>3. len \in 0 .. MAX_FILE_SIZE  BY <1>0, <1>1, <1>4
  <2>4. /\ data' = [data EXCEPT ![i] = Written(i, p, x, offset, len)]
        /\ size' = [size EXCEPT ![i] = Grown(i, offset + len)]
        /\ name' = name /\ used' = used /\ server' = server /\ reused' = reused
        /\ reply' = NoData(len, 0)
    BY <1>4, Zenon DEF WriteFile, Written, Grown, Reply
  <2>5. Edited(i, Written(i, p, x, offset, len), Grown(i, offset + len))
    BY <2>2, <2>4, Zenon DEF Edited
  <2> QED  BY <1>4, <2>1, <2>3, <2>5 DEF i, len
<1> QED  BY <1>2, <1>3, <1>4, Zenon DEF handle_write

\* What a truncate to z bytes leaves.
Cleared(i, z) == [k \in Offsets |-> IF k \in z .. size[i] - 1 THEN Zero ELSE data[i][k]]

LEMMA TruncateEffect ==
  ASSUME Runs, NEW p \in Path, NEW n \in Words, handle_truncate(p, n)
  PROVE  \/ Refused
         \/ LET i == file_find(p)
            IN  /\ i \in Files /\ used[i] /\ name[i] = p
                /\ \E z \in 0 .. MAX_FILE_SIZE : Edited(i, Cleared(i, z), z)
<1> DEFINE i == file_find(p)
           z == IF n > MAX_FILE_SIZE THEN MAX_FILE_SIZE ELSE n
<1>1. i \in Int  BY FindIs, FilesNat
<1>2. CASE i < 0
  <2>1. Error /\ UNCHANGED <<table, server, reused>> /\ wild' = FALSE  BY <1>2 DEF handle_truncate
  <2> QED  BY <2>1 DEF Refused, Error, Reply
<1>3. CASE i >= 0
  <2>1. i \in Files /\ used[i] /\ name[i] = p  BY <1>3, FindIs
  <2>2. z \in 0 .. MAX_FILE_SIZE
    <3>1. MAX_FILE_SIZE \in Nat /\ n \in Nat  BY VfsConstants
    <3> QED  BY <3>1
  <2>3. ~(i < 0)  BY <1>1, <1>3
  <2>4. /\ data' = [data EXCEPT ![i] = Cleared(i, z)] /\ size' = [size EXCEPT ![i] = z]
        /\ name' = name /\ used' = used /\ server' = server /\ wild' = FALSE /\ reused' = reused
        /\ reply' = NoData(0, 0)
    BY <2>3, Zenon DEF handle_truncate, Cleared, Reply
  <2> HIDE DEF i, z
  <2>5. Edited(i, Cleared(i, z), z)  BY <2>4, Zenon DEF Edited
  <2> QED  BY <2>1, <2>2, <2>5 DEF i
<1> HIDE DEF i
<1> QED  BY <1>1, <1>2, <1>3

LEMMA CreateEffect ==
  ASSUME Runs, NEW p \in Path, handle_create(p)
  PROVE  \/ Refused
         \/ LET i == file_find_free
            IN  /\ i \in Files /\ ~used[i]
                /\ \A j \in Files : ~(used[j] /\ name[j] = p)
                /\ name' = [name EXCEPT ![i] = Stored[p]]
                /\ size' = [size EXCEPT ![i] = 0]
                /\ used' = [used EXCEPT ![i] = TRUE]
                /\ reply' = NoData(0, 0)
                /\ UNCHANGED <<data, server, reused>> /\ wild' = FALSE
<1> DEFINE i == file_find_free
<1>1. i \in Int /\ file_find(p) \in Int  BY FindIs, FindFreeIs, FilesNat
<1>2. CASE file_find(p) >= 0 \/ i < 0
  <2>1. Error /\ UNCHANGED <<table, server, reused>> /\ wild' = FALSE  BY <1>2 DEF handle_create
  <2> QED  BY <2>1 DEF Refused, Error, Reply
<1>3. CASE ~(file_find(p) >= 0 \/ i < 0)
  <2>1. i \in Files /\ ~used[i]  BY <1>3, FindFreeIs
  <2>2. \A j \in Files : ~(used[j] /\ name[j] = p)  BY <1>3, FindIs, FilesNat
  <2> QED  BY <1>3, <2>1, <2>2, Zenon DEF handle_create, Reply
<1> QED  BY <1>2, <1>3

LEMMA DeleteEffect ==
  ASSUME Runs, NEW p \in Path, handle_delete(p)
  PROVE  \/ Refused
         \/ LET i == file_find(p)
            IN  /\ i \in Files /\ used[i] /\ name[i] = p
                /\ used' = [used EXCEPT ![i] = FALSE]
                /\ size' = [size EXCEPT ![i] = 0]
                /\ reused' = reused \union {i}
                /\ reply' = NoData(0, 0)
                /\ UNCHANGED <<name, data, server>> /\ wild' = FALSE
<1> DEFINE i == file_find(p)
<1>1. i \in Int  BY FindIs, FilesNat
<1>2. CASE i < 0
  <2>1. Error /\ UNCHANGED <<table, server, reused>> /\ wild' = FALSE  BY <1>2 DEF handle_delete
  <2> QED  BY <2>1 DEF Refused, Error, Reply
<1>3. CASE ~(i < 0)
  <2>1. i \in Files /\ used[i] /\ name[i] = p  BY <1>3, FindIs
  <2> QED  BY <1>3, <2>1, Zenon DEF handle_delete, Reply
<1> QED  BY <1>2, <1>3

\* An edit that writes only this file's bytes and leaves 0s behind the end.
LEMMA EditInv ==
  ASSUME Sound, NEW i \in Files, used[i], NEW z \in 0 .. MAX_FILE_SIZE,
         NEW d \in [Offsets -> Byte], Edited(i, d, z),
         i \notin reused => \A k \in Offsets :
           /\ d[k] \in {Zero, name[i], Other} \union Payload
           /\ k >= z => d[k] = Zero
  PROVE  Fine
<1>1. data'[i] = d /\ size'[i] = z /\ used' = used /\ name' = name /\ reused' = reused
  BY DEF Edited, Sound, Runs
<1>2. \A j \in Files : j # i => data'[j] = data[j] /\ size'[j] = size[j]
  BY DEF Edited, Sound, Runs
<1>3. Runs'  BY DEF Edited, Sound, Runs
<1>4. Unique'  BY <1>1 DEF Sound, Unique, Whole
<1>5. Fresh'  BY <1>1, <1>2 DEF Sound, Fresh
<1>6. FreeEmpty'  BY <1>1, <1>2 DEF Sound, FreeEmpty
<1>7. wild' \in BOOLEAN /\ reply'.of # Outside  BY NoDataOf DEF Edited
<1> QED  BY <1>3, <1>4, <1>5, <1>6, <1>7 DEF Sound, Fine

LEMMA WriteInv ==
  ASSUME Sound, NEW p \in Path, NEW x \in Payload, NEW offset \in Words,
         NEW n \in Words, handle_write(p, x, offset, n)
  PROVE  Fine \/ Lost
<1>0. Runs  BY DEF Sound
<1>1. CASE Refused  BY <1>1, RefusedFine
<1>2. CASE ~Refused /\ ~Lost
  <2>1. PICK i \in Files, len \in 0 .. MAX_FILE_SIZE :
          /\ used[i] /\ name[i] = p /\ offset + len <= MAX_FILE_SIZE
          /\ Edited(i, Written(i, p, x, offset, len), Grown(i, offset + len))
    BY <1>0, <1>2, WriteEffect
  <2> DEFINE d == Written(i, p, x, offset, len)
             z == Grown(i, offset + len)
  <2>2. size[i] \in 0 .. MAX_FILE_SIZE /\ offset \in Nat /\ len \in Nat /\ MAX_FILE_SIZE \in Nat
    BY <1>0, VfsConstants DEF Runs
  <2>3. z \in 0 .. MAX_FILE_SIZE /\ z >= size[i] /\ z >= offset + len  BY <2>1, <2>2 DEF Grown
  <2>4. \A k : MsgByte(p, x, k) \in {p, Other} \union Payload  BY DEF MsgByte
  <2>5. d \in [Offsets -> Byte]  BY <1>0, <2>4 DEF Written, Byte, Runs
  <2>6. ASSUME i \notin reused, NEW k \in Offsets
        PROVE  d[k] \in {Zero, name[i], Other} \union Payload /\ (k >= z => d[k] = Zero)
    <3>1. data[i][k] \in {Zero, name[i], Other} \union Payload /\ (k >= size[i] => data[i][k] = Zero)
      BY <2>6 DEF Sound, Fresh
    <3>2. d[k] \in {Zero, name[i], Other} \union Payload  BY <2>1, <2>4, <3>1 DEF Written
    <3>3. k \in Nat  BY <2>2 DEF Offsets
    <3>4. k >= z => k >= size[i] /\ k \notin offset .. offset + len - 1
      <4> HIDE DEF z
      <4> QED  BY <2>2, <2>3, <3>3
    <3> QED  BY <3>1, <3>2, <3>4 DEF Written
  <2> HIDE DEF d, z
  <2> QED  BY <2>1, <2>3, <2>5, <2>6, EditInv DEF d, z
<1>3. CASE Lost  BY <1>3
<1> QED  BY <1>1, <1>2, <1>3

LEMMA TruncateInv ==
  ASSUME Sound, NEW p \in Path, NEW n \in Words, handle_truncate(p, n)
  PROVE  Fine
<1>0. Runs  BY DEF Sound
<1>1. CASE Refused  BY <1>1, RefusedFine
<1>2. CASE ~Refused
  <2>1. PICK i \in Files, z \in 0 .. MAX_FILE_SIZE : used[i] /\ Edited(i, Cleared(i, z), z)
    BY <1>0, <1>2, TruncateEffect
  <2> DEFINE d == Cleared(i, z)
  <2>2. d \in [Offsets -> Byte]  BY <1>0 DEF Cleared, Byte, Runs
  <2>3. ASSUME i \notin reused, NEW k \in Offsets
        PROVE  d[k] \in {Zero, name[i], Other} \union Payload /\ (k >= z => d[k] = Zero)
    <3>1. data[i][k] \in {Zero, name[i], Other} \union Payload /\ (k >= size[i] => data[i][k] = Zero)
      BY <2>3 DEF Sound, Fresh
    <3>2. k \in Nat /\ size[i] \in Nat  BY <1>0, VfsConstants DEF Offsets, Runs
    <3> QED  BY <3>1, <3>2 DEF Cleared
  <2> HIDE DEF d
  <2> QED  BY <2>1, <2>2, <2>3, EditInv DEF d
<1> QED  BY <1>1, <1>2

\* handle_create looks for the path and stores its first characters: a name that no
\* other path is cut down to is the path itself, and that was not found.
LEMMA CreateInv == ASSUME Sound, NEW p \in Path, handle_create(p) PROVE Fine
<1>0. Runs  BY DEF Sound
<1>1. CASE Refused  BY <1>1, RefusedFine
<1>2. CASE ~Refused
  <2>1. PICK i \in Files :
          /\ ~used[i] /\ \A j \in Files : ~(used[j] /\ name[j] = p)
          /\ name' = [name EXCEPT ![i] = Stored[p]]
          /\ size' = [size EXCEPT ![i] = 0]
          /\ used' = [used EXCEPT ![i] = TRUE]
          /\ UNCHANGED <<data, server, reused>> /\ wild' = FALSE
          /\ reply' = NoData(0, 0)
    BY <1>0, <1>2, CreateEffect
  <2>2. Stored[p] \in Path /\ (Whole(Stored[p]) => Stored[p] = p)  BY VfsConstants DEF Whole
  <2>3. 0 \in 0 .. MAX_FILE_SIZE  BY VfsConstants
  <2>4. Runs'  BY <1>0, <2>1, <2>2, <2>3 DEF Runs
  <2>5. Unique'
    <3> SUFFICES ASSUME NEW j \in Files, NEW l \in Files, used'[j], used'[l],
                        name'[j] = name'[l], Whole(name'[j])
                 PROVE  j = l
      BY DEF Unique, Whole
    <3>1. CASE j # i /\ l # i
      <4>1. used[j] /\ used[l] /\ name[j] = name[l] /\ Whole(name[j])
        BY <1>0, <2>1, <3>1 DEF Runs
      <4> QED  BY <4>1 DEF Sound, Unique
    <3>2. CASE j = i /\ l # i
      <4>1. used[l] /\ name[l] = p  BY <1>0, <2>1, <2>2, <3>2 DEF Runs
      <4> QED  BY <2>1, <4>1
    <3>3. CASE j # i /\ l = i
      <4>1. used[j] /\ name[j] = p  BY <1>0, <2>1, <2>2, <3>3 DEF Runs
      <4> QED  BY <2>1, <4>1
    <3> QED  BY <3>1, <3>2, <3>3
  <2>6. Fresh'
    <3> SUFFICES ASSUME NEW j \in Files \ reused, NEW k \in Offsets
                 PROVE  /\ data[j][k] \in {Zero, name'[j], Other} \union Payload
                        /\ k >= size'[j] => data[j][k] = Zero
      BY <2>1 DEF Fresh
    <3>1. data[j][k] \in {Zero, name[j], Other} \union Payload /\ (k >= size[j] => data[j][k] = Zero)
      BY DEF Sound, Fresh
    <3>2. CASE j # i  BY <1>0, <2>1, <3>1, <3>2 DEF Runs
    <3>3. CASE j = i
      <4>1. size[j] = 0 /\ k >= 0  BY <2>1, <3>3, VfsConstants DEF Sound, FreeEmpty, Offsets
      <4> QED  BY <3>1, <4>1
    <3> QED  BY <3>2, <3>3
  <2>7. FreeEmpty'  BY <1>0, <2>1 DEF Sound, Runs, FreeEmpty
  <2>8. reply'.of # Outside  BY <2>1, NoDataOf
  <2> QED  BY <2>1, <2>4, <2>5, <2>6, <2>7, <2>8 DEF Sound, Fine
<1> QED  BY <1>1, <1>2

LEMMA DeleteInv == ASSUME Sound, NEW p \in Path, handle_delete(p) PROVE Fine
<1>0. Runs  BY DEF Sound
<1>1. CASE Refused  BY <1>1, RefusedFine
<1>2. CASE ~Refused
  <2>1. PICK i \in Files :
          /\ used' = [used EXCEPT ![i] = FALSE]
          /\ size' = [size EXCEPT ![i] = 0]
          /\ reused' = reused \union {i}
          /\ UNCHANGED <<name, data, server>> /\ wild' = FALSE
          /\ reply' = NoData(0, 0)
    BY <1>0, <1>2, DeleteEffect
  <2>2. 0 \in 0 .. MAX_FILE_SIZE  BY VfsConstants
  <2>3. Runs'  BY <1>0, <2>1, <2>2 DEF Runs
  <2>4. \A j \in Files : used'[j] => used[j]  BY <1>0, <2>1 DEF Runs
  <2>5. Unique'  BY <2>1, <2>4 DEF Sound, Unique, Whole
  <2>6. \A j \in Files \ reused' : size'[j] = size[j] /\ j \notin reused
    BY <1>0, <2>1 DEF Runs
  <2>7. Fresh'  BY <2>1, <2>6 DEF Sound, Fresh
  <2>8. FreeEmpty'  BY <1>0, <2>1 DEF Sound, Runs, FreeEmpty
  <2>9. reply'.of # Outside  BY <2>1, NoDataOf
  <2> QED  BY <2>1, <2>3, <2>5, <2>7, <2>8, <2>9 DEF Sound, Fine
<1> QED  BY <1>1, <1>2

\* handle_read: it answers with a part of the file, or was asked for more than that.
LEMMA ReadEffect ==
  ASSUME Sound, NEW p \in Path, NEW offset \in Words, NEW n \in Words,
         handle_read(p, offset, n)
  PROVE  \/ Refused
         \/ Lost
         \/ /\ UNCHANGED <<table, server, reused>> /\ wild' = TRUE
            /\ reply'.of = Outside
         \/ LET i == file_find(p)
                len == Clip(offset, n, size[i])
            IN  /\ i \in Files /\ used[i] /\ name[i] = p
                /\ len \in Nat /\ offset + len <= size[i]
                /\ reply' = [arg0 |-> len, arg1 |-> 0, of |-> p,
                             data |-> [k \in 1 .. len |-> data[i][offset + k - 1]]]
                /\ UNCHANGED <<table, server, reused>> /\ wild' \in BOOLEAN
<1> DEFINE i == file_find(p)
           len == Clip(offset, n, size[i])
<1>0. offset \in Nat /\ n \in Nat /\ WORD \in Nat /\ MAX_FILE_SIZE \in Nat
      /\ MAX_FILE_SIZE < WORD /\ MSG_DATA \in Nat /\ i \in Int
  BY VfsConstants, FindIs, FilesNat
<1>1. wild' = ~MayRead(p, offset, n) /\ wild' \in BOOLEAN  BY DEF handle_read
<1>2. CASE i < 0 /\ Error /\ UNCHANGED <<table, server, reused>>
  <2>1. MayRead(p, offset, n)  BY <1>0, <1>2 DEF MayRead
  <2> QED  BY <1>1, <1>2, <2>1 DEF Refused, Error, Reply
<1>3. CASE i >= 0
  <2>1. i \in Files /\ used[i] /\ name[i] = p  BY <1>3, FindIs
  <2>2. size[i] \in 0 .. WORD - 1 /\ size[i] \in Nat  BY <1>0, <2>1 DEF Sound, Runs
  <2>3. len \in Nat  BY <2>2, ClipNat
  <2>4. ASSUME MayRead(p, offset, n) PROVE len <= MSG_DATA /\ offset + len <= size[i]
    <3>1. offset <= size[i] /\ offset + n < WORD /\ (n <= MSG_DATA \/ size[i] - offset <= MSG_DATA)
      BY <1>3, <2>4 DEF MayRead
    <3>2. len \in 0 .. n /\ offset + len <= size[i]  BY <2>2, <3>1, ClipInside
    <3> HIDE DEF len, i
    <3> QED  BY <1>0, <2>2, <2>3, <3>1, <3>2
  <2>5. CASE len > MSG_DATA /\ ReadPastReply
    <3>1. wild' = TRUE
      <4>1. ~(len <= MSG_DATA)  BY <1>0, <2>3, <2>5
      <4> QED  BY <1>1, <2>4, <4>1
    <3>2. server' = "spoiled" /\ UNCHANGED <<table, reused>>  BY <2>5 DEF ReadPastReply
    <3>3. TypeOK'
      <4>1. size \in [Files -> 0 .. WORD - 1]  BY <1>0 DEF Sound, Runs
      <4> QED  BY <3>1, <3>2, <4>1 DEF TypeOK, table, Sound, Runs
    <3> QED  BY <3>1, <3>2, <3>3 DEF Lost
  <2>6. CASE len <= MSG_DATA /\ ReadFile(p, i, offset, len) /\ offset + len <= size[i]
    <3>1. /\ reply' = [arg0 |-> len, arg1 |-> 0, of |-> p,
                       data |-> [k \in 1 .. len |-> data[i][offset + k - 1]]]
          /\ UNCHANGED <<table, server, reused>>
      <4> HIDE DEF i, len
      <4>1. reply' = [arg0 |-> len, arg1 |-> 0,
                      of |-> IF offset + len <= size[i] THEN p ELSE Outside,
                      data |-> [k \in 1 .. len |->
                        IF offset + len <= size[i] THEN data[i][offset + k - 1] ELSE Other]]
        BY <2>6, Zenon DEF ReadFile
      <4>2. UNCHANGED <<table, server, reused>>  BY <2>6, Zenon DEF ReadFile
      <4> QED  BY <2>6, <4>1, <4>2
    <3> QED  BY <1>1, <2>1, <2>3, <2>6, <3>1
  <2>7. CASE len <= MSG_DATA /\ ReadFile(p, i, offset, len) /\ ~(offset + len <= size[i])
    <3>1. wild' = TRUE  BY <1>1, <2>4, <2>7
    <3>2. reply'.of = Outside /\ UNCHANGED <<table, server, reused>>
      <4> HIDE DEF i, len
      <4> QED  BY <2>7 DEF ReadFile
    <3> QED  BY <3>1, <3>2
  <2>8. \/ len > MSG_DATA /\ ReadPastReply
        \/ len <= MSG_DATA /\ ReadFile(p, i, offset, len)
    <3>1. ~(i < 0)  BY <1>0, <1>3
    <3> QED  BY <3>1, Zenon DEF handle_read
  <2> HIDE DEF len, i
  <2> QED  BY <2>5, <2>6, <2>7, <2>8
<1> QED  BY <1>2, <1>3, Zenon DEF handle_read

LEMMA ReadInv ==
  ASSUME Sound, NEW p \in Path, NEW offset \in Words, NEW n \in Words,
         handle_read(p, offset, n)
  PROVE  Fine \/ Lost
<1>1. CASE Refused  BY <1>1, RefusedFine
<1>2. CASE ~Refused /\ ~Lost
  <2>1. /\ UNCHANGED <<table, server, reused>> /\ wild' \in BOOLEAN
        /\ \/ reply'.of = Outside /\ wild' = TRUE
           \/ \E a, d : reply' = [arg0 |-> a, arg1 |-> 0, of |-> p, data |-> d]
    <3>1. CASE UNCHANGED <<table, server, reused>> /\ wild' = TRUE /\ reply'.of = Outside
      BY <3>1
    <3>2. CASE ~(wild' = TRUE /\ reply'.of = Outside)
      <4> DEFINE i == file_find(p)
                 len == Clip(offset, n, size[i])
                 bytes == [k \in 1 .. len |-> data[i][offset + k - 1]]
      <4>1. /\ reply' = [arg0 |-> len, arg1 |-> 0, of |-> p, data |-> bytes]
            /\ UNCHANGED <<table, server, reused>> /\ wild' \in BOOLEAN
        BY <1>2, <3>2, ReadEffect, Zenon
      <4> HIDE DEF i, len, bytes
      <4> QED  BY <4>1, Zenon
    <3> QED  BY <1>2, <3>1, <3>2, ReadEffect, Zenon
  <2>2. p # Outside  BY VfsConstants DEF Outside
  <2>3. reply'.of # Outside \/ wild'  BY <2>1, <2>2
  <2> QED  BY <2>1, <2>3, TableStays
<1> QED  BY <1>1, <1>2

\* The requests whose reply has no data and that change nothing.
Quiet == UNCHANGED <<table, server, reused>> /\ wild' = FALSE /\ \E a, b : reply' = NoData(a, b)

LEMMA QuietFine == ASSUME Sound, Quiet PROVE Fine
<1>1. reply'.of # Outside  BY NoDataOf DEF Quiet
<1> QED  BY <1>1, TableStays DEF Quiet

LEMMA AsksAreQuiet ==
  ASSUME \/ \E p \in Path : handle_stat(p) \/ handle_open(p)
         \/ handle_readdir \/ handle_close \/ handle_seek
  PROVE  Quiet
BY Zenon DEF handle_stat, handle_open, handle_readdir, handle_close, handle_seek, Quiet, Error, Reply

\* Every request leaves a sound table, or spoils it because a client asked for bytes
\* that are not there.
LEMMA NextFine == ASSUME Sound, Next PROVE Fine \/ Lost
<1>1. ASSUME \/ \E p \in Path : handle_stat(p) \/ handle_open(p)
             \/ handle_readdir \/ handle_close \/ handle_seek
      PROVE  Fine
  BY <1>1, AsksAreQuiet, QuietFine
<1> QED  BY <1>1, ReadInv, WriteInv, TruncateInv, CreateInv, DeleteInv DEF Next

LEMMA NextInv == ASSUME IInv, [Next]_vars PROVE IInv'
<1>1. CASE Next
  <2>1. Sound  BY <1>1, InvSound DEF Next
  <2> QED  BY <1>1, <2>1, NextFine, FineInv, LostInv
<1>2. CASE UNCHANGED vars
  BY <1>2 DEF vars, IInv, TypeOK, NamesUnique, NothingOld, ServedInside, Whole
<1> QED  BY <1>1, <1>2

\* The invariant of the file server.
THEOREM VfsInv == Spec => []IInv
BY InitInv, NextInv, PTL DEF Spec

\* As long as no copy went astray no file's size passes MAX_FILE_SIZE, and every
\* request leaves a well-formed table.
THEOREM VfsTypeOK == Spec => []TypeOK
<1>1. IInv => TypeOK  BY DEF IInv
<1> QED  BY <1>1, VfsInv, PTL

\* A copy goes astray, or a read is answered with bytes that are not the file's, only
\* for a client that asks for bytes that are not there (vfs.c:131, vfs.c:154).
THEOREM VfsServedInside == Spec => []ServedInside
<1>1. IInv => ServedInside  BY DEF IInv
<1> QED  BY <1>1, VfsInv, PTL

\* Two files share a name only where handle_create cut a longer path down to it
\* (vfs.c:177, vfs.c:186).
THEOREM VfsNamesUnique == Spec => []NamesUnique
<1>1. IInv => NamesUnique  BY DEF IInv
<1> QED  BY <1>1, VfsInv, PTL

\* An entry that held one file only shows the bytes of writes to it and 0s, whatever
\* writes past the end, truncates and growths the file has seen (vfs.c:157, vfs.c:230).
THEOREM VfsNothingOld == Spec => []NothingOld
<1>1. IInv => NothingOld  BY DEF IInv
<1> QED  BY <1>1, VfsInv, PTL

-----------------------------------------------------------------------------
(* The table implements a store of files, for the paths stored whole. *)

Bytes(i) == [k \in 1 .. size[i] |-> data[i][k - 1]]

\* FindIs of the table after a step.
LEMMA FindIsNext ==
  ASSUME NEW p
  PROVE  \/ file_find(p)' = -1 /\ \A i \in Files : ~(used'[i] /\ name'[i] = p)
         \/ file_find(p)' \in Files /\ used'[file_find(p)'] /\ name'[file_find(p)'] = p
<1> DEFINE s == {i \in Files : used'[i] /\ name'[i] = p}
<1>1. IF s = {} THEN FirstOr(s) = -1 ELSE FirstOr(s) \in s  BY FirstOrIs
<1> QED  BY <1>1 DEF file_find

\* The store holds the used entries whose names are whole paths, under those names.
LEMMA StoreIs ==
  ASSUME Sound
  PROVE  /\ DOMAIN Store = {p \in Path : Whole(p) /\ \E i \in Files : used[i] /\ name[i] = p}
         /\ \A i \in Files : used[i] /\ name[i] \in DOMAIN Store => Store[name[i]] = Bytes(i)
<1>1. ASSUME NEW p \in Path, Whole(p)
      PROVE  /\ file_find(p) >= 0 <=> \E i \in Files : used[i] /\ name[i] = p
             /\ \A i \in Files : used[i] /\ name[i] = p => file_find(p) = i
  <2>1. \A i, j \in Files : used[i] /\ used[j] /\ name[i] = p /\ name[j] = p => i = j
    BY <1>1 DEF Sound, Unique
  <2> QED  BY <2>1, FindIs, FilesNat
<1>2. Store = [p \in {p \in Path : Whole(p) /\ file_find(p) >= 0} |-> FileOf(p)]
  BY DEF Store, WholePaths, Sound, Runs
<1>3. \A i \in Files : used[i] /\ name[i] \in DOMAIN Store => Store[name[i]] = Bytes(i)
  BY <1>1, <1>2 DEF FileOf, Bytes
<1> QED  BY <1>1, <1>2, <1>3

LEMMA StoreIsNext ==
  ASSUME Sound'
  PROVE  /\ DOMAIN Store' = {p \in Path : Whole(p) /\ \E i \in Files : used'[i] /\ name'[i] = p}
         /\ \A i \in Files : used'[i] /\ name'[i] \in DOMAIN Store' => Store'[name'[i]] = Bytes(i)'
<1>1. ASSUME NEW p \in Path, Whole(p)
      PROVE  /\ file_find(p)' >= 0 <=> \E i \in Files : used'[i] /\ name'[i] = p
             /\ \A i \in Files : used'[i] /\ name'[i] = p => file_find(p)' = i
  <2>1. \A i, j \in Files : used'[i] /\ used'[j] /\ name'[i] = p /\ name'[j] = p => i = j
    BY <1>1 DEF Sound, Unique, Whole
  <2> QED  BY <2>1, FindIsNext, FilesNat
<1>2. Store' = [p \in {p \in Path : Whole(p) /\ file_find(p)' >= 0} |-> FileOf(p)']
  BY DEF Store, WholePaths, Whole, Sound, Runs
<1>3. \A i \in Files : used'[i] /\ name'[i] \in DOMAIN Store' => Store'[name'[i]] = Bytes(i)'
  BY <1>1, <1>2 DEF FileOf, Bytes
<1> QED  BY <1>1, <1>2, <1>3

LEMMA StoreFunction ==
  ASSUME Sound, Sound'
  PROVE  Store = [q \in DOMAIN Store |-> Store[q]] /\ Store' = [q \in DOMAIN Store' |-> Store'[q]]
BY DEF Store, Sound, Runs

\* A step that touches one entry leaves the files of other names alone.
LEMMA OthersStay ==
  ASSUME Sound, Sound', NEW i \in Files,
         \A j \in Files \ {i} : /\ used'[j] = used[j] /\ name'[j] = name[j]
                                /\ data'[j] = data[j] /\ size'[j] = size[j],
         NEW q \in Path, used[i] => name[i] # q, used'[i] => name'[i] # q
  PROVE  /\ q \in DOMAIN Store' <=> q \in DOMAIN Store
         /\ q \in DOMAIN Store => Store'[q] = Store[q]
<1>1. q \in DOMAIN Store' <=> q \in DOMAIN Store  BY StoreIs, StoreIsNext
<1>2. ASSUME q \in DOMAIN Store PROVE Store'[q] = Store[q]
  <2>1. PICK j \in Files : used[j] /\ name[j] = q  BY <1>2, StoreIs
  <2>2. j # i  BY <2>1
  <2>3. used'[j] /\ name'[j] = q /\ Bytes(j)' = Bytes(j)  BY <2>1, <2>2 DEF Bytes
  <2> QED  BY <1>1, <1>2, <2>1, <2>3, StoreIs, StoreIsNext
<1> QED  BY <1>1, <1>2

LEMMA SameStore == ASSUME UNCHANGED <<table, server>> PROVE Store' = Store
<1>1. name' = name /\ data' = data /\ size' = size /\ used' = used  BY DEF table
<1>2. \A p : file_find(p)' = file_find(p)  BY <1>1 DEF file_find
<1>3. \A p : FileOf(p)' = FileOf(p)  BY <1>1, <1>2 DEF FileOf
<1> QED  BY <1>2, <1>3 DEF Store, WholePaths, Whole

\* What the store does in one step.
LEMMA ServeIs == ASSUME Sound, server' = "runs", FS!FServe PROVE [FS!FNext]_(FS!fvars)
<1>1. ~(server = "spoiled") /\ ~(server = "spoiled")'  BY DEF Sound, Runs
<1> QED  BY <1>1 DEF FS!FNext

LEMMA LostRefines == ASSUME Sound, Lost PROVE [FS!FNext]_(FS!fvars)
<1>1. ~(server = "spoiled") /\ (server = "spoiled")' /\ wild'  BY DEF Sound, Runs, Lost
<1> QED  BY <1>1 DEF FS!FNext, FS!FStray

\* Replies without data answer nothing.
LEMMA NoDataAnswers == ASSUME NEW a, NEW b, reply' = NoData(a, b) PROVE Answer' = <<>>
<1>1. reply'.of # Outside  BY NoDataOf
<1>2. reply'.of \notin Path  BY VfsConstants DEF NoData, NoName
<1> QED  BY <1>1, <1>2 DEF Answer, WholePaths

\* A reply without data to a request that left the table alone.
LEMMA QuietRefines == ASSUME Sound, Quiet PROVE [FS!FNext]_(FS!fvars)
<1>1. Store' = Store  BY SameStore DEF Quiet
<1>2. Answer' = <<>>  BY NoDataAnswers DEF Quiet
<1>3. FS!FServe  BY <1>1, <1>2 DEF FS!FServe
<1> QED  BY <1>3, ServeIs DEF Quiet, Sound, Runs

LEMMA RefusedRefines == ASSUME Sound, Refused PROVE [FS!FNext]_(FS!fvars)
BY QuietRefines DEF Refused, Quiet

\* An edit of an entry is a change of its file, if its name is a whole path.
LEMMA EditChanges ==
  ASSUME Sound, Sound', NEW i \in Files, used[i], NEW z \in 0 .. MAX_FILE_SIZE,
         NEW d \in [Offsets -> Byte], Edited(i, d, z), name[i] \in Path,
         NEW kept, kept \subseteq 1 .. MAX_FILE_SIZE,
         \A k \in kept : k <= z /\ k <= size[i] => d[k - 1] = data[i][k - 1]
  PROVE  IF Whole(name[i])
         THEN FS!Change(name[i], z, kept) /\ Len(Store[name[i]]) = size[i]
              /\ name[i] \in DOMAIN Store
         ELSE Store' = Store
<1> DEFINE p == name[i]
<1>0. Runs /\ MAX_FILE_SIZE \in Nat  BY VfsConstants DEF Sound
<1>1. /\ data'[i] = d /\ size'[i] = z /\ used' = used /\ name' = name
      /\ \A j \in Files \ {i} : /\ used'[j] = used[j] /\ name'[j] = name[j]
                                /\ data'[j] = data[j] /\ size'[j] = size[j]
  BY <1>0 DEF Edited, Runs
<1>2. \A q \in Path \ {p} : /\ q \in DOMAIN Store' <=> q \in DOMAIN Store
                            /\ q \in DOMAIN Store => Store'[q] = Store[q]
  <2> SUFFICES ASSUME NEW q \in Path \ {p}
               PROVE  /\ q \in DOMAIN Store' <=> q \in DOMAIN Store
                      /\ q \in DOMAIN Store => Store'[q] = Store[q]
    OBVIOUS
  <2>1. (used[i] => name[i] # q) /\ (used'[i] => name'[i] # q)  BY <1>1
  <2> QED  BY <1>1, <2>1, OthersStay
<1>3. DOMAIN Store \subseteq Path /\ DOMAIN Store' \subseteq Path  BY StoreIs, StoreIsNext
<1>4. CASE ~Whole(p)
  <2>1. p \notin DOMAIN Store /\ p \notin DOMAIN Store'  BY <1>4, StoreIs, StoreIsNext
  <2>2. DOMAIN Store' = DOMAIN Store  BY <1>2, <1>3, <2>1
  <2>3. \A q \in DOMAIN Store : Store'[q] = Store[q]  BY <1>2, <1>3, <2>1
  <2>4. Store' = Store  BY <2>2, <2>3, StoreFunction
  <2> QED  BY <1>4, <2>4
<1>5. CASE Whole(p)
  <2>1. p \in DOMAIN Store /\ p \in DOMAIN Store'  BY <1>1, <1>5, StoreIs, StoreIsNext
  <2>2. DOMAIN Store' = DOMAIN Store  BY <1>2, <1>3, <2>1
  <2>3. \A q \in DOMAIN Store \ {p} : Store'[q] = Store[q]  BY <1>2, <1>3
  <2>4. Store[p] = [k \in 1 .. size[i] |-> data[i][k - 1]]  BY <2>1, StoreIs DEF Bytes
  <2>5. Store'[p] = [k \in 1 .. z |-> d[k - 1]]
    <3>1. Store'[p] = Bytes(i)'  BY <1>1, <2>1, StoreIsNext
    <3> QED  BY <1>1, <3>1 DEF Bytes
  <2>6. size[i] \in 0 .. MAX_FILE_SIZE /\ size[i] \in Nat /\ z \in Nat  BY <1>0 DEF Runs
  <2>7. Len(Store[p]) = size[i]  BY <2>4, <2>6
  <2>8. ASSUME NEW k \in 1 .. z PROVE d[k - 1] \in Byte
    <3>1. k - 1 \in Offsets  BY <1>0, <2>6 DEF Offsets
    <3> QED  BY <3>1
  <2>9. Store'[p] \in Seq(Byte) /\ Len(Store'[p]) = z  BY <2>5, <2>6, <2>8
  <2>10. ASSUME NEW k \in kept, k <= z, k <= Len(Store[p]) PROVE Store'[p][k] = Store[p][k]
    <3>1. k \in 1 .. MAX_FILE_SIZE  OBVIOUS
    <3>2. k \in 1 .. z /\ k \in 1 .. size[i]
      <4>1. k <= z /\ k <= size[i]  BY <2>7, <2>10
      <4> QED  BY <1>0, <2>6, <3>1, <4>1
    <3> QED  BY <2>4, <2>5, <2>10, <3>2
  <2>11. FS!Change(p, z, kept)
    BY <2>1, <2>2, <2>3, <2>9, <2>10 DEF FS!Change
  <2> QED  BY <1>5, <2>1, <2>7, <2>11
<1> QED  BY <1>4, <1>5

\* handle_write writes the part of the file that fits and never shortens it.
LEMMA WriteRefines ==
  ASSUME Sound, Sound' \/ Lost, NEW p \in Path, NEW x \in Payload,
         NEW offset \in Words, NEW n \in Words,
         handle_write(p, x, offset, n)
  PROVE  [FS!FNext]_(FS!fvars)
<1>0. Runs /\ MAX_FILE_SIZE \in Nat  BY VfsConstants DEF Sound
<1>1. CASE Refused  BY <1>1, RefusedRefines
<1>2. CASE ~Refused /\ ~Lost
  <2>1. PICK i \in Files, len \in 0 .. MAX_FILE_SIZE :
          /\ used[i] /\ name[i] = p /\ offset + len <= MAX_FILE_SIZE
          /\ Edited(i, Written(i, p, x, offset, len), Grown(i, offset + len))
    BY <1>0, <1>2, WriteEffect
  <2> DEFINE d == Written(i, p, x, offset, len)
             z == Grown(i, offset + len)
             kept == 1 .. MAX_FILE_SIZE \ (offset + 1 .. offset + len)
  <2>2. size[i] \in 0 .. MAX_FILE_SIZE /\ offset \in Nat /\ len \in Nat
    BY <1>0, VfsConstants DEF Runs
  <2>3. z \in 0 .. MAX_FILE_SIZE  BY <1>0, <2>1, <2>2 DEF Grown
  <2>4. d \in [Offsets -> Byte]
    <3>1. \A k : MsgByte(p, x, k) \in {p, Other} \union Payload  BY DEF MsgByte
    <3> QED  BY <1>0, <3>1 DEF Written, Byte, Runs
  <2>5. kept \subseteq 1 .. MAX_FILE_SIZE  OBVIOUS
  <2>6. ASSUME NEW k \in kept PROVE d[k - 1] = data[i][k - 1]
    <3>1. k - 1 \in Offsets /\ k - 1 \notin offset .. offset + len - 1
      BY <1>0, <2>2 DEF Offsets
    <3> QED  BY <3>1 DEF Written
  <2>7. Answer' = <<>>  BY <2>1, NoDataAnswers DEF Edited
  <2>12. Sound'  BY <1>2
  <2>8. IF Whole(p)
        THEN FS!Change(p, z, kept) /\ Len(Store[p]) = size[i] /\ p \in DOMAIN Store
        ELSE Store' = Store
    <3>1. Edited(i, d, z) /\ name[i] \in Path /\ used[i]  BY <2>1
    <3> HIDE DEF d, z, kept
    <3>2. \A k \in kept : k <= z /\ k <= size[i] => d[k - 1] = data[i][k - 1]  BY <2>6
    <3>3. IF Whole(name[i])
          THEN FS!Change(name[i], z, kept) /\ Len(Store[name[i]]) = size[i]
               /\ name[i] \in DOMAIN Store
          ELSE Store' = Store
      BY <2>12, <2>3, <2>4, <2>5, <3>1, <3>2, EditChanges
    <3>4. name[i] = p  BY <2>1
    <3> QED  BY <3>3, <3>4, Zenon
  <2>11. server' = "runs"  BY <1>0, <2>1 DEF Edited, Runs
  <2>9. CASE Whole(p)
    <3>1. FS!Max({offset + len, size[i]}) = z
      <4>1. z \in {offset + len, size[i]} /\ \A y \in {offset + len, size[i]} : z >= y
        BY <1>0, <2>2 DEF Grown
      <4>2. \A y \in {offset + len, size[i]} :
              (\A w \in {offset + len, size[i]} : y >= w) => y = z
        BY <1>0, <2>2 DEF Grown
      <4> HIDE DEF z
      <4> QED  BY <4>1, <4>2 DEF FS!Max
    <3>2. FS!FWrite(p, offset, len)
      <4> HIDE DEF z, kept
      <4>1. FS!Change(p, z, kept) /\ z = FS!Max({offset + len, Len(Store[p])})
        BY <2>8, <2>9, <3>1
      <4> QED  BY <2>1, <4>1 DEF FS!FWrite, kept
    <3>3. offset \in 0 .. MAX_FILE_SIZE  BY <1>0, <2>1, <2>2
    <3>4. p \in WholePaths  BY <2>9 DEF WholePaths
    <3>5. FS!FServe  BY <2>7, <2>8, <2>9, <3>2, <3>3, <3>4 DEF FS!FServe
    <3> QED  BY <2>11, <3>5, ServeIs
  <2>10. CASE ~Whole(p)
    <3>1. FS!FServe  BY <2>7, <2>8, <2>10 DEF FS!FServe
    <3> QED  BY <2>11, <3>1, ServeIs
  <2> QED  BY <2>9, <2>10
<1>3. CASE Lost  BY <1>3, LostRefines
<1> QED  BY <1>1, <1>2, <1>3

LEMMA TruncateRefines ==
  ASSUME Sound, Sound', NEW p \in Path, NEW n \in Words, handle_truncate(p, n)
  PROVE  [FS!FNext]_(FS!fvars)
<1>0. Runs /\ MAX_FILE_SIZE \in Nat  BY VfsConstants DEF Sound
<1>1. CASE Refused  BY <1>1, RefusedRefines
<1>2. CASE ~Refused
  <2>1. PICK i \in Files, z \in 0 .. MAX_FILE_SIZE :
          used[i] /\ name[i] = p /\ Edited(i, Cleared(i, z), z)
    BY <1>0, <1>2, TruncateEffect
  <2> DEFINE d == Cleared(i, z)
             kept == 1 .. MAX_FILE_SIZE
  <2>2. d \in [Offsets -> Byte]  BY <1>0 DEF Cleared, Byte, Runs
  <2>3. ASSUME NEW k \in kept, k <= z PROVE d[k - 1] = data[i][k - 1]
    <3>1. k - 1 \in Offsets /\ ~(k - 1 >= z)  BY <1>0, <2>3 DEF Offsets
    <3> QED  BY <3>1 DEF Cleared
  <2>4. Answer' = <<>>  BY <2>1, NoDataAnswers DEF Edited
  <2>5. IF Whole(p) THEN FS!Change(p, z, kept) ELSE Store' = Store
    <3>1. kept \subseteq 1 .. MAX_FILE_SIZE  OBVIOUS
    <3> HIDE DEF d, kept
    <3> QED  BY <2>1, <2>2, <2>3, <3>1, EditChanges DEF d
  <2>8. server' = "runs"  BY <1>0, <2>1 DEF Edited, Runs
  <2>6. CASE Whole(p)
    <3>1. FS!FTruncate(p, z)  BY <2>5, <2>6 DEF FS!FTruncate
    <3>2. p \in WholePaths  BY <2>6 DEF WholePaths
    <3>3. FS!FServe  BY <2>4, <3>1, <3>2 DEF FS!FServe
    <3> QED  BY <2>8, <3>3, ServeIs
  <2>7. CASE ~Whole(p)
    <3>1. FS!FServe  BY <2>4, <2>5, <2>7 DEF FS!FServe
    <3> QED  BY <2>8, <3>1, ServeIs
  <2> QED  BY <2>6, <2>7
<1> QED  BY <1>1, <1>2

LEMMA CreateRefines ==
  ASSUME Sound, Sound', NEW p \in Path, handle_create(p) PROVE [FS!FNext]_(FS!fvars)
<1>0. Runs  BY DEF Sound
<1>1. CASE Refused  BY <1>1, RefusedRefines
<1>2. CASE ~Refused
  <2>1. PICK i \in Files :
          /\ ~used[i] /\ \A j \in Files : ~(used[j] /\ name[j] = p)
          /\ name' = [name EXCEPT ![i] = Stored[p]]
          /\ size' = [size EXCEPT ![i] = 0]
          /\ used' = [used EXCEPT ![i] = TRUE]
          /\ reply' = NoData(0, 0) /\ data' = data /\ server' = server
    BY <1>0, <1>2, CreateEffect
  <2> DEFINE m == Stored[p]
  <2>2. m \in Path /\ (Whole(m) => m = p)  BY VfsConstants DEF Whole
  <2>3. /\ used'[i] /\ name'[i] = m /\ size'[i] = 0
        /\ \A j \in Files \ {i} : /\ used'[j] = used[j] /\ name'[j] = name[j]
                                  /\ data'[j] = data[j] /\ size'[j] = size[j]
    BY <1>0, <2>1 DEF Runs
  <2> HIDE DEF m
  <2>4. \A q \in Path \ {m} : /\ q \in DOMAIN Store' <=> q \in DOMAIN Store
                              /\ q \in DOMAIN Store => Store'[q] = Store[q]
    BY <2>1, <2>3, OthersStay
  <2>5. DOMAIN Store \subseteq Path /\ DOMAIN Store' \subseteq Path  BY StoreIs, StoreIsNext
  <2>6. Answer' = <<>>  BY <2>1, NoDataAnswers
  <2>9. server' = "runs"  BY <1>0, <2>1 DEF Runs
  <2>7. CASE Whole(m)
    <3>1. m = p /\ p \notin DOMAIN Store  BY <2>1, <2>2, <2>7, StoreIs
    <3>2. p \in DOMAIN Store'  BY <2>3, <2>7, <3>1, StoreIsNext
    <3>3. Store'[p] = <<>>
      <4>1. Store'[p] = Bytes(i)'  BY <2>3, <3>1, <3>2, StoreIsNext
      <4> QED  BY <2>3, <4>1 DEF Bytes
    <3>4. DOMAIN Store' = DOMAIN Store \union {p}  BY <2>4, <2>5, <3>1, <3>2
    <3>5. \A q \in DOMAIN Store : q # p /\ Store'[q] = Store[q]  BY <2>4, <2>5, <3>1
    <3>6. Store' = [q \in DOMAIN Store \union {p} |-> IF q = p THEN <<>> ELSE Store[q]]
      BY <3>3, <3>4, <3>5, StoreFunction
    <3>7. FS!FCreate(p)  BY <3>1, <3>6 DEF FS!FCreate
    <3>8. p \in WholePaths  BY <2>7, <3>1 DEF WholePaths
    <3>9. FS!FServe  BY <2>6, <3>7, <3>8 DEF FS!FServe
    <3> QED  BY <2>9, <3>9, ServeIs
  <2>8. CASE ~Whole(m)
    <3>1. m \notin DOMAIN Store /\ m \notin DOMAIN Store'  BY <2>8, StoreIs, StoreIsNext
    <3>2. DOMAIN Store' = DOMAIN Store  BY <2>4, <2>5, <3>1
    <3>3. \A q \in DOMAIN Store : Store'[q] = Store[q]  BY <2>4, <2>5, <3>1
    <3>4. Store' = Store  BY <3>2, <3>3, StoreFunction
    <3>5. FS!FServe  BY <2>6, <3>4 DEF FS!FServe
    <3> QED  BY <2>9, <3>5, ServeIs
  <2> QED  BY <2>7, <2>8
<1> QED  BY <1>1, <1>2

LEMMA DeleteRefines ==
  ASSUME Sound, Sound', NEW p \in Path, handle_delete(p) PROVE [FS!FNext]_(FS!fvars)
<1>0. Runs  BY DEF Sound
<1>1. CASE Refused  BY <1>1, RefusedRefines
<1>2. CASE ~Refused
  <2>1. PICK i \in Files :
          /\ used[i] /\ name[i] = p
          /\ used' = [used EXCEPT ![i] = FALSE]
          /\ size' = [size EXCEPT ![i] = 0]
          /\ reply' = NoData(0, 0) /\ name' = name /\ data' = data
          /\ server' = server
    BY <1>0, <1>2, DeleteEffect
  <2>2. /\ ~used'[i]
        /\ \A j \in Files \ {i} : /\ used'[j] = used[j] /\ name'[j] = name[j]
                                  /\ data'[j] = data[j] /\ size'[j] = size[j]
    BY <1>0, <2>1 DEF Runs
  <2>3. \A q \in Path \ {p} : /\ q \in DOMAIN Store' <=> q \in DOMAIN Store
                              /\ q \in DOMAIN Store => Store'[q] = Store[q]
    BY <2>1, <2>2, OthersStay
  <2>4. DOMAIN Store \subseteq Path /\ DOMAIN Store' \subseteq Path  BY StoreIs, StoreIsNext
  <2>5. Answer' = <<>>  BY <2>1, NoDataAnswers
  <2>6. p \notin DOMAIN Store'
    <3> SUFFICES ASSUME p \in DOMAIN Store' PROVE FALSE  OBVIOUS
    <3>1. PICK j \in Files : used'[j] /\ name'[j] = p  BY StoreIsNext
    <3>2. Whole(p) /\ j # i /\ used[j] /\ name[j] = p  BY <2>1, <2>2, <3>1, StoreIsNext
    <3> QED  BY <2>1, <3>2 DEF Sound, Unique
  <2>9. server' = "runs"  BY <1>0, <2>1 DEF Runs
  <2>7. CASE Whole(p)
    <3>1. p \in DOMAIN Store  BY <2>1, <2>7, StoreIs
    <3>2. DOMAIN Store' = DOMAIN Store \ {p}  BY <2>3, <2>4, <2>6
    <3>3. \A q \in DOMAIN Store \ {p} : Store'[q] = Store[q]  BY <2>3, <2>4
    <3>4. Store' = [q \in DOMAIN Store \ {p} |-> Store[q]]  BY <3>2, <3>3, StoreFunction
    <3>5. FS!FDelete(p)  BY <3>1, <3>4 DEF FS!FDelete
    <3>6. p \in WholePaths  BY <2>7 DEF WholePaths
    <3>7. FS!FServe  BY <2>5, <3>5, <3>6 DEF FS!FServe
    <3> QED  BY <2>9, <3>7, ServeIs
  <2>8. CASE ~Whole(p)
    <3>1. p \notin DOMAIN Store  BY <2>8, StoreIs
    <3>2. DOMAIN Store' = DOMAIN Store  BY <2>3, <2>4, <2>6, <3>1
    <3>3. \A q \in DOMAIN Store : Store'[q] = Store[q]  BY <2>3, <2>4, <3>1
    <3>4. Store' = Store  BY <3>2, <3>3, StoreFunction
    <3>5. FS!FServe  BY <2>5, <3>4 DEF FS!FServe
    <3> QED  BY <2>9, <3>5, ServeIs
  <2> QED  BY <2>7, <2>8
<1> QED  BY <1>1, <1>2

\* handle_read answers with a part of the file.
LEMMA ReadRefines ==
  ASSUME Sound, NEW p \in Path, NEW offset \in Words, NEW n \in Words,
         handle_read(p, offset, n)
  PROVE  [FS!FNext]_(FS!fvars)
<1>1. CASE Refused  BY <1>1, RefusedRefines
<1>2. CASE Lost  BY <1>2, LostRefines
<1>3. CASE UNCHANGED <<table, server, reused>> /\ wild' = TRUE /\ reply'.of = Outside
  <2>1. Store' = Store /\ Answer' = <<Outside>>  BY <1>3, SameStore DEF Answer
  <2>2. ~(server = "spoiled") /\ ~(server = "spoiled")'  BY <1>3 DEF Sound, Runs
  <2> QED  BY <1>3, <2>1, <2>2 DEF FS!FNext, FS!FStray
<1>4. CASE ~Refused /\ ~Lost /\ ~(wild' = TRUE /\ reply'.of = Outside)
  <2> DEFINE i == file_find(p)
             len == Clip(offset, n, size[i])
             bytes == [k \in 1 .. len |-> data[i][offset + k - 1]]
  <2>1. /\ i \in Files /\ used[i] /\ name[i] = p
        /\ len \in Nat /\ offset + len <= size[i]
        /\ reply' = [arg0 |-> len, arg1 |-> 0, of |-> p, data |-> bytes]
        /\ UNCHANGED <<table, server>>
    BY <1>4, ReadEffect, Zenon
  <2>0. Runs /\ MAX_FILE_SIZE \in Nat  BY VfsConstants DEF Sound
  <2>2. size[i] \in 0 .. MAX_FILE_SIZE /\ size[i] \in Nat /\ offset \in Nat /\ n \in Nat
    BY <2>0, <2>1, VfsConstants DEF Runs
  <2>3. [FS!FNext]_(FS!fvars)
    <3>3. Store' = Store  BY <2>1, SameStore
    <3>4. Answer' = IF Whole(p) THEN bytes ELSE <<>>
      <4>1. p # Outside  BY VfsConstants DEF Outside
      <4>2. reply'.of = p /\ reply'.data = bytes
        <5> HIDE DEF bytes
        <5> QED  BY <2>1
      <4>3. Answer' = IF p \in WholePaths THEN bytes ELSE <<>>
        <5> HIDE DEF bytes
        <5> QED  BY <4>1, <4>2 DEF Answer, WholePaths, Whole
      <4> HIDE DEF bytes
      <4> QED  BY <4>3 DEF WholePaths
    <3>5. len \in Nat /\ offset + len <= size[i]  BY <2>1
    <3>8. server' = "runs"  BY <2>0, <2>1 DEF Runs
    <3>6. CASE Whole(p)
      <4>1. p \in DOMAIN Store  BY <2>1, <3>6, StoreIs
      <4>2. Store[p] = [k \in 1 .. size[i] |-> data[i][k - 1]]  BY <2>1, <4>1, StoreIs DEF Bytes
      <4> HIDE DEF i, len
      <4>3. Len(Store[p]) = size[i]  BY <2>2, <4>2
      <4>4. ASSUME NEW k \in offset + 1 .. offset + len
            PROVE  k \in 1 .. size[i] /\ Store[p][k] = data[i][k - 1] /\ data[i][k - 1] \in Byte
        <5>1. k \in 1 .. size[i] /\ k - 1 \in Offsets  BY <2>0, <2>2, <3>5 DEF Offsets
        <5> QED  BY <2>0, <2>1, <4>2, <5>1 DEF Runs
      <4>5. /\ SubSeq(Store[p], offset + 1, offset + len) \in Seq(Byte)
            /\ Len(SubSeq(Store[p], offset + 1, offset + len)) = len
            /\ \A k \in 1 .. len : SubSeq(Store[p], offset + 1, offset + len)[k] = Store[p][offset + k]
        <5>1. offset + 1 \in Int /\ offset + len \in Int /\ len \in Nat  BY <2>2, <3>5
        <5>2. \A k \in offset + 1 .. offset + len : Store[p][k] \in Byte  BY <4>4
        <5>4. offset \in Nat  BY <2>2
        <5>3. /\ SubSeq(Store[p], offset + 1, offset + len) \in Seq(Byte)
              /\ Len(SubSeq(Store[p], offset + 1, offset + len)) =
                   IF offset + 1 <= offset + len THEN offset + len - (offset + 1) + 1 ELSE 0
              /\ \A k \in 1 .. offset + len - (offset + 1) + 1 :
                   SubSeq(Store[p], offset + 1, offset + len)[k] = Store[p][offset + 1 + k - 1]
          BY ONLY <5>1, <5>2, <5>4, SubSeqProperties
        <5> QED  BY ONLY <5>1, <5>3, <5>4
      <4>6. bytes \in Seq(Byte) /\ Len(bytes) = len
        <5>1. \A k \in 1 .. len : data[i][offset + k - 1] \in Byte
          <6> SUFFICES ASSUME NEW k \in 1 .. len PROVE data[i][offset + k - 1] \in Byte  OBVIOUS
          <6>1. offset + k - 1 \in Offsets  BY <2>0, <2>2, <3>5 DEF Offsets
          <6> QED  BY <2>0, <2>1, <6>1 DEF Runs
        <5>2. len \in Nat  BY <2>2, <3>5
        <5> QED  BY <5>1, <5>2
      <4>7. ASSUME NEW k \in 1 .. len PROVE bytes[k] = Store[p][offset + k]
        <5>1. offset + k \in offset + 1 .. offset + len  BY <2>2, <3>5
        <5>2. Store[p][offset + k] = data[i][offset + k - 1]  BY <2>2, <4>4, <5>1
        <5> QED  BY <5>2
      <4>8. bytes = SubSeq(Store[p], offset + 1, offset + len)
        <5> HIDE DEF bytes
        <5> QED  BY <4>5, <4>6, <4>7, SeqEqual
      <4>9. FS!FRead(p, offset, len)
        <5> HIDE DEF bytes
        <5> QED  BY <3>3, <3>4, <3>5, <3>6, <4>1, <4>3, <4>8 DEF FS!FRead
      <4>10. len \in 0 .. MAX_FILE_SIZE  BY <2>0, <2>2, <3>5
      <4>11. offset \in 0 .. MAX_FILE_SIZE  BY <2>0, <2>2, <3>5
      <4>12. p \in WholePaths  BY <3>6 DEF WholePaths
      <4>13. FS!FServe  BY <4>9, <4>10, <4>11, <4>12 DEF FS!FServe
      <4> QED  BY <3>8, <4>13, ServeIs
    <3>7. CASE ~Whole(p)
      <4>1. FS!FServe  BY <3>3, <3>4, <3>7 DEF FS!FServe
      <4> QED  BY <3>8, <4>1, ServeIs
    <3> QED  BY <3>6, <3>7
  <2> QED  BY <2>3
<1>5. reply'.of = Outside /\ wild' = TRUE => Refused \/ Lost \/ UNCHANGED <<table, server, reused>>
  BY ReadEffect
<1> QED  BY <1>1, <1>2, <1>3, <1>4, <1>5

LEMMA StoreInit == Init => FS!FInit
<1> SUFFICES ASSUME Init PROVE FS!FInit  OBVIOUS
<1>1. DOMAIN Store \subseteq WholePaths  BY DEF Store, Init
<1>2. Answer = <<>>
  <2>1. reply.of # Outside  BY DEF Init, NoData, NoName, Outside
  <2>2. reply.of \notin Path  BY VfsConstants DEF Init, NoData, NoName
  <2> QED  BY <2>1, <2>2 DEF Answer, WholePaths
<1>3. ~wild /\ ~(server = "spoiled")  BY DEF Init
<1> QED  BY <1>1, <1>2, <1>3 DEF FS!FInit

LEMMA StepRefines == ASSUME IInv, [Next]_vars PROVE [FS!FNext]_(FS!fvars)
<1>1. CASE Next
  <2>1. Sound /\ (Sound' \/ Lost)  BY <1>1, InvSound, NextFine DEF Next, Fine
  <2>2. ASSUME \/ \E p \in Path : handle_stat(p) \/ handle_open(p)
               \/ handle_readdir \/ handle_close \/ handle_seek
        PROVE  [FS!FNext]_(FS!fvars)
    BY <2>1, <2>2, AsksAreQuiet, QuietRefines
  <2>3. CASE Lost  BY <2>1, <2>3, LostRefines
  <2>4. CASE Sound'
    BY <1>1, <2>1, <2>2, <2>4, ReadRefines, WriteRefines, CreateRefines, DeleteRefines,
       TruncateRefines DEF Next
  <2> QED  BY <2>1, <2>3, <2>4
<1>2. CASE UNCHANGED vars
  <2>1. Store' = Store  BY <1>2, SameStore DEF vars, table
  <2>2. Answer' = Answer  BY <1>2 DEF vars, Answer, WholePaths, Whole
  <2> QED  BY <1>2, <2>1, <2>2 DEF FS!fvars, vars
<1> QED  BY <1>1, <1>2

\* For the paths it stores whole, the file server is a store of files by path: a
\* request changes the file it names and no other, a write never shortens it, and
\* handle_read answers with what is there (vfs.c:121-240); only a request for bytes
\* that are not there may be answered otherwise or lose the store.
THEOREM VfsIsFileStore == Spec => IsFileStore
<1>1. IInv /\ [Next]_vars => [FS!FNext]_(FS!fvars)  BY StepRefines
<1> QED  BY <1>1, StoreInit, VfsInv, PTL DEF Spec, IsFileStore, FS!FSpec
=============================================================================
