-------------------------------- MODULE Vfs --------------------------------
(***************************************************************************)
(* The file server (servers/vfs/vfs.c): a table of files in memory.  The   *)
(* server handles one message at a time, each handler is one action, and   *)
(* its reply ends it.                                                      *)
(*                                                                         *)
(* Offsets and lengths are words of the client's message, and sums and     *)
(* differences of them wrap at WORD.  After a wrap a copy may leave the    *)
(* bytes of its file: a write then lands on other fields of the table, a   *)
(* read of more than a reply holds on the server's stack.  From there on   *)
(* the server is "spoiled": it may stop in isr_handler or go on with what  *)
(* is left, and its later requests are not followed.                       *)
(***************************************************************************)
EXTENDS Integers, Sequences, SequencesExt, FiniteSetsExt

CONSTANTS
  MAX_FILES, MAX_FILE_SIZE,
  Path,        \* the paths clients use
  Stored,      \* Stored[p]: the first 63 characters of p
  Payload,     \* what a client puts in a message behind the path
  WORD,        \* 2^64
  Words,       \* the words clients put in arg0 and arg1
  MSG_DATA,    \* the bytes of msg->data, 512
  READDIR_MAX, \* names that fit in the 512 bytes of a reply
  RamFiles     \* the files of vfs_init_ramfs

ASSUME VfsConstants ==
  /\ MAX_FILES \in Nat /\ MAX_FILE_SIZE \in Nat \ {0} /\ READDIR_MAX \in Nat
  /\ WORD \in Nat /\ MAX_FILE_SIZE < WORD /\ Words \subseteq 0 .. WORD - 1 /\ MSG_DATA \in Nat
  /\ {"none", "other", "outside"} \intersect Path = {}
  /\ Stored \in [Path -> Path]
  /\ \A p \in Path : Stored[Stored[p]] = Stored[p]
  /\ RamFiles \in Seq(Path) /\ Len(RamFiles) <= MAX_FILES
  /\ \A i, j \in 1 .. Len(RamFiles) : RamFiles[i] = RamFiles[j] => i = j

Files == 0 .. MAX_FILES - 1
Offsets == 0 .. MAX_FILE_SIZE - 1
Zero == "0"
Other == "other"  \* a byte, or a name, that comes from somewhere else in memory
Byte == {Zero, Other} \union Path \union Payload

VARIABLES
  name, data, size, used,  \* the fields of file_table[i] (flags is only kept for stat)
  reply,   \* the last reply: arg0, arg1, the bytes read and the path they were read from
  server,  \* "runs", or "spoiled" by a copy that left its file or its reply
  reused,  \* entries that held another file before
  wild     \* the last request asked for bytes that are not there
table == <<name, data, size, used>>
vars == <<name, data, size, used, reply, server, reused, wild>>

NoName == "none"
Outside == "outside"  \* the bytes of a reply that were not read from the file
NoData(a0, a1) == [arg0 |-> a0, arg1 |-> a1, of |-> NoName, data |-> <<>>]
Reply(a0, a1) == reply' = NoData(a0, a1)
Error == Reply(-1, -1)

\* vfs_init_ramfs: some files with contents of their own, here one byte each.
Init ==
  /\ name = [i \in Files |-> IF i < Len(RamFiles) THEN RamFiles[i + 1] ELSE NoName]
  /\ \E x \in Payload : data = [i \in Files |-> [k \in Offsets |->
                                 IF i < Len(RamFiles) /\ k = 0 THEN x ELSE Zero]]
  /\ size = [i \in Files |-> IF i < Len(RamFiles) THEN 1 ELSE 0]
  /\ used = [i \in Files |-> i < Len(RamFiles)]
  /\ reply = NoData(0, 0)
  /\ server = "runs"
  /\ reused = {}
  /\ wild = FALSE

\* file_find: the first entry with this name, -1 if there is none.
FirstOr(s) == IF s = {} THEN -1 ELSE Min(s)
file_find(p) == FirstOr({i \in Files : used[i] /\ name[i] = p})
file_find_free == FirstOr({i \in Files : ~used[i]})

\* if (offset + size > limit) size = limit - offset, in 64 bits.
ClipSwapped(offset, n, limit) ==
  IF (offset + n) % WORD > limit THEN (limit - n) % WORD ELSE n
Clip(offset, n, limit) ==
  IF (offset + n) % WORD > limit THEN (limit - offset) % WORD ELSE n

\* A copy of len bytes to data + offset of entry i that is not inside its data: the
\* address runs past the end, or wraps to before the data.  In the table name, data,
\* size and used of an entry follow each other, then those of the next entry; what is
\* hit holds bytes of the message, for which Other, WORD - 1 and TRUE stand here.
WriteAstray(i, offset, len) ==
  LET Hit(j, c) == ((j - i) * (MAX_FILE_SIZE + 3) + c - offset) % WORD < len
      end == (offset + len) % WORD
  IN  /\ name' = [j \in Files |-> IF Hit(j, -1) THEN Other ELSE name[j]]
      /\ data' = [j \in Files |-> [k \in Offsets |-> IF Hit(j, k) THEN Other ELSE data[j][k]]]
      /\ size' = [j \in Files |-> IF Hit(j, MAX_FILE_SIZE) THEN WORD - 1
                                  ELSE IF j = i /\ end > size[j] THEN end ELSE size[j]]
      /\ used' = [j \in Files |-> Hit(j, MAX_FILE_SIZE + 1) \/ used[j]]
      /\ server' = "spoiled"
      /\ Reply(len, 0)
      /\ UNCHANGED reused

-----------------------------------------------------------------------------
\* What a client may ask for.  A read starts inside the file, and what is left of the
\* file, or what is asked for, fits in a reply; a write starts inside MAX_FILE_SIZE;
\* and neither offset + size wraps.
MayRead(p, offset, n) ==
  LET i == file_find(p)
  IN  i >= 0 => /\ offset <= size[i] /\ offset + n < WORD
                /\ n <= MSG_DATA \/ size[i] - offset <= MSG_DATA
MayWrite(p, offset, n) == file_find(p) >= 0 => offset <= MAX_FILE_SIZE /\ offset + n < WORD

\* The reply holds MSG_DATA bytes; the copy may go on behind it.
ReadPastReply ==
  /\ server' = "spoiled"
  /\ UNCHANGED <<table, reply, reused>>
ReadFile(p, i, offset, len) ==
  LET inside == offset + len <= size[i]
  IN  /\ reply' = [arg0 |-> len, arg1 |-> 0, of |-> IF inside THEN p ELSE Outside,
                   data |-> [k \in 1 .. len |-> IF inside THEN data[i][offset + k - 1] ELSE Other]]
      /\ UNCHANGED <<table, server, reused>>
handle_read(p, offset, n) ==
  LET i == file_find(p)
      len == Clip(offset, n, size[i])
  IN  /\ wild' = ~MayRead(p, offset, n)
      /\ \/ i < 0 /\ Error /\ UNCHANGED <<table, server, reused>>
         \/ i >= 0 /\ len > MSG_DATA /\ ReadPastReply
         \/ i >= 0 /\ len <= MSG_DATA /\ ReadFile(p, i, offset, len)

\* The bytes come from msg->data, where the path is too: the path is the first of
\* them, then what the client put behind it, then what is behind the message.
MsgByte(p, x, k) == IF k = 0 THEN p ELSE IF k < MSG_DATA THEN x ELSE Other

WriteShrinks(p, x, i, offset, len) ==
  /\ data' = [data EXCEPT ![i] = [k \in Offsets |->
       IF k \in offset .. offset + len - 1 THEN MsgByte(p, x, k - offset) ELSE @[k]]]
  /\ size' = [size EXCEPT ![i] = offset + len]
  /\ Reply(len, 0)
  /\ UNCHANGED <<name, used, server, reused>>
WriteFile(p, x, i, offset, len) ==
  /\ data' = [data EXCEPT ![i] = [k \in Offsets |->
       IF k \in offset .. offset + len - 1 THEN MsgByte(p, x, k - offset) ELSE @[k]]]
  /\ size' = [size EXCEPT ![i] = IF offset + len > @ THEN offset + len ELSE @]
  /\ Reply(len, 0)
  /\ UNCHANGED <<name, used, server, reused>>
handle_write(p, x, offset, n) ==
  LET i == file_find(p)
      len == Clip(offset, n, MAX_FILE_SIZE)
  IN  /\ wild' = ~MayWrite(p, offset, n)
      /\ \/ i < 0 /\ Error /\ UNCHANGED <<table, server, reused>>
         \/ i >= 0 /\ offset + len > MAX_FILE_SIZE /\ WriteAstray(i, offset, len)
         \/ i >= 0 /\ offset + len <= MAX_FILE_SIZE /\ WriteFile(p, x, i, offset, len)

\* Neither create nor delete clears the bytes of the entry.
CreateUnchecked(p) ==
  LET i == file_find_free
  IN  /\ IF i < 0 THEN Error /\ UNCHANGED table
         ELSE /\ name' = [name EXCEPT ![i] = Stored[p]]
              /\ size' = [size EXCEPT ![i] = 0]
              /\ used' = [used EXCEPT ![i] = TRUE]
              /\ Reply(0, 0)
              /\ UNCHANGED data
      /\ UNCHANGED <<server, reused>> /\ wild' = FALSE
handle_create(p) ==
  LET i == file_find_free
  IN  /\ IF file_find(p) >= 0 \/ i < 0 THEN Error /\ UNCHANGED table
         ELSE /\ name' = [name EXCEPT ![i] = Stored[p]]
              /\ size' = [size EXCEPT ![i] = 0]
              /\ used' = [used EXCEPT ![i] = TRUE]
              /\ Reply(0, 0)
              /\ UNCHANGED data
      /\ UNCHANGED <<server, reused>> /\ wild' = FALSE

handle_delete(p) ==
  LET i == file_find(p)
  IN  /\ IF i < 0 THEN Error /\ UNCHANGED <<table, reused>>
         ELSE /\ used' = [used EXCEPT ![i] = FALSE]
              /\ size' = [size EXCEPT ![i] = 0]
              /\ reused' = reused \union {i}
              /\ Reply(0, 0)
              /\ UNCHANGED <<name, data>>
      /\ UNCHANGED server /\ wild' = FALSE

TruncateKeeps(p, n) ==
  LET i == file_find(p)
      new == IF n > MAX_FILE_SIZE THEN MAX_FILE_SIZE ELSE n
  IN  /\ IF i < 0 THEN Error /\ UNCHANGED table
         ELSE /\ size' = [size EXCEPT ![i] = new]
              /\ Reply(0, 0)
              /\ UNCHANGED <<name, data, used>>
      /\ UNCHANGED <<server, reused>> /\ wild' = FALSE
TruncateUnclipped(p, n) ==
  LET i == file_find(p)
  IN  /\ IF i < 0 THEN Error /\ UNCHANGED table
         ELSE /\ data' = [data EXCEPT ![i] = [k \in Offsets |->
                   IF k \in n .. size[i] - 1 THEN Zero ELSE @[k]]]
              /\ size' = [size EXCEPT ![i] = n]
              /\ Reply(0, 0)
              /\ UNCHANGED <<name, used>>
      /\ UNCHANGED <<server, reused>> /\ wild' = FALSE
handle_truncate(p, n) ==
  LET i == file_find(p)
      new == IF n > MAX_FILE_SIZE THEN MAX_FILE_SIZE ELSE n
  IN  /\ IF i < 0 THEN Error /\ UNCHANGED table
         ELSE /\ data' = [data EXCEPT ![i] = [k \in Offsets |->
                   IF k \in new .. size[i] - 1 THEN Zero ELSE @[k]]]
              /\ size' = [size EXCEPT ![i] = new]
              /\ Reply(0, 0)
              /\ UNCHANGED <<name, used>>
      /\ UNCHANGED <<server, reused>> /\ wild' = FALSE

handle_stat(p) ==
  LET i == file_find(p)
  IN  /\ IF i < 0 THEN Error ELSE Reply(0, size[i])
      /\ UNCHANGED <<table, server, reused>> /\ wild' = FALSE

handle_open(p) ==
  LET i == file_find(p)
  IN  /\ IF i < 0 THEN Error ELSE Reply(i, 0)
      /\ UNCHANGED <<table, server, reused>> /\ wild' = FALSE

\* The names in table order, until one does not fit.
handle_readdir ==
  LET slots == SelectSeq([k \in 1 .. MAX_FILES |-> k - 1], LAMBDA i : used[i])
      listed == SubSeq(slots, 1, IF Len(slots) > READDIR_MAX THEN READDIR_MAX ELSE Len(slots))
  IN  /\ Reply(Len(listed), 0)
      /\ UNCHANGED <<table, server, reused>> /\ wild' = FALSE

handle_close == Reply(0, 0) /\ UNCHANGED <<table, server, reused>> /\ wild' = FALSE
\* handle_seek, and every message type that is not known (the type 0 of a
\* message that ipc_recv did not fill is one).
handle_seek == Error /\ UNCHANGED <<table, server, reused>> /\ wild' = FALSE

-----------------------------------------------------------------------------
Next ==
  /\ server = "runs"
  /\ \/ \E p \in Path, offset, n \in Words : handle_read(p, offset, n)
     \/ \E p \in Path, x \in Payload, offset, n \in Words : handle_write(p, x, offset, n)
     \/ \E p \in Path : handle_create(p)
     \/ \E p \in Path : handle_delete(p)
     \/ \E p \in Path, n \in Words : handle_truncate(p, n)
     \/ \E p \in Path : handle_stat(p)
     \/ \E p \in Path : handle_open(p)
     \/ handle_readdir
     \/ handle_close
     \/ handle_seek

Spec == Init /\ [][Next]_vars

-----------------------------------------------------------------------------
\* Type invariant: unless a copy went astray no file is longer than MAX_FILE_SIZE,
\* and names are those that handle_create stored.
TypeOK ==
  /\ name \in [Files -> Path \union {NoName, Other}]
  /\ data \in [Files -> [Offsets -> Byte]]
  /\ size \in [Files -> 0 .. WORD - 1]
  /\ used \in [Files -> BOOLEAN]
  /\ server \in {"runs", "spoiled"} /\ wild \in BOOLEAN
  /\ reused \subseteq Files
  /\ server = "runs" => \A i \in Files : name[i] # Other /\ size[i] <= MAX_FILE_SIZE

\* A copy leaves its file or its reply, and a read answers with bytes that are not the
\* file's, only when the client asked for bytes that are not there (vfs.c:131, :154):
\* whatever it may ask for, clipping keeps it inside, at every offset up to the last.
ServedInside == server = "spoiled" \/ reply.of = Outside => wild

\* A path that is stored whole and that no longer path is cut down to.
Whole(p) == \A q \in Path : Stored[q] = p <=> q = p
WholePaths == {p \in Path : Whole(p)}

\* Two files have the same name only if a longer path was cut down to it:
\* handle_create looks for the path, not for the name it will store.
NamesUnique ==
  server = "runs" => \A i, j \in Files :
    used[i] /\ used[j] /\ name[i] = name[j] /\ Whole(name[i]) => i = j

\* In an entry that never held another file every byte was written by a write to
\* this file or is 0, and behind the end there are only 0s, so that growing the file
\* again shows nothing old.
NothingOld ==
  server = "runs" => \A i \in Files \ reused : \A k \in Offsets :
    /\ data[i][k] \in {Zero, name[i], Other} \union Payload
    /\ k >= size[i] => data[i][k] = Zero

\* The inductive invariant: an entry that is free has no bytes, so that handle_create
\* finds 0s in one that was never used.
IInv ==
  /\ TypeOK /\ NamesUnique /\ NothingOld /\ ServedInside
  /\ server = "runs" => \A i \in Files : ~used[i] => size[i] = 0

\* For the paths that are stored whole the table implements a file store, until a
\* copy goes astray.
FileOf(p) == LET i == file_find(p) IN [k \in 1 .. size[i] |-> data[i][k - 1]]
Store == IF server = "spoiled" THEN <<>>
         ELSE [p \in {p \in WholePaths : file_find(p) >= 0} |-> FileOf(p)]
Answer == IF reply.of = Outside THEN <<Outside>>
          ELSE IF reply.of \in WholePaths THEN reply.data ELSE <<>>
FS == INSTANCE FileStore WITH
        Path <- WholePaths, MaxSize <- MAX_FILE_SIZE,
        files <- Store, answer <- Answer,
        astray <- wild, lost <- server = "spoiled"
IsFileStore == FS!FSpec
=============================================================================
