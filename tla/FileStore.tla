----------------------------- MODULE FileStore -----------------------------
(***************************************************************************)
(* What the file server promises a client: files named by their paths,     *)
(* each a sequence of bytes.  An operation changes the file it names and   *)
(* no other; a read returns what is there.  Bytes a file gains without     *)
(* being written to (a gap, a longer truncate) are unspecified.  All this  *)
(* is promised to clients that ask for bytes that are there: a request     *)
(* that does not may be answered with other bytes or lose the store.       *)
(***************************************************************************)
EXTENDS Integers, Sequences, FiniteSetsExt

CONSTANTS Path, Byte, MaxSize, Outside
VARIABLES
  files,  \* the contents of the files that exist
  answer, \* the bytes of the last reply
  astray, \* the last request asked for bytes that are not there
  lost    \* such a request has damaged the store
fvars == <<files, answer, astray, lost>>

\* The store starts with the files it was built with.
FInit == DOMAIN files \subseteq Path /\ answer = <<>> /\ ~astray /\ ~lost

FCreate(p) ==
  /\ p \notin DOMAIN files
  /\ files' = [q \in DOMAIN files \union {p} |-> IF q = p THEN <<>> ELSE files[q]]

FDelete(p) ==
  /\ p \in DOMAIN files
  /\ files' = [q \in DOMAIN files \ {p} |-> files[q]]

\* File p is rewritten to be n bytes long; its bytes at the positions in kept
\* stay, the others may be any.
Change(p, n, kept) ==
  /\ p \in DOMAIN files /\ DOMAIN files' = DOMAIN files
  /\ \A q \in DOMAIN files \ {p} : files'[q] = files[q]
  /\ files'[p] \in Seq(Byte) /\ Len(files'[p]) = n
  /\ \A k \in kept : k <= n /\ k <= Len(files[p]) => files'[p][k] = files[p][k]

\* n bytes are written from offset off on; the file never gets shorter.
FWrite(p, off, n) ==
  /\ off + n <= MaxSize
  /\ Change(p, Max({off + n, Len(files[p])}), 1 .. MaxSize \ (off + 1 .. off + n))

FTruncate(p, n) == Change(p, n, 1 .. MaxSize)

\* The answer to a read is a part of the file.
FRead(p, off, n) ==
  /\ p \in DOMAIN files /\ off + n <= Len(files[p])
  /\ answer' = SubSeq(files[p], off + 1, off + n)
  /\ UNCHANGED files

\* One request that is served.
FServe ==
  \/ /\ answer' = <<>>
     /\ \/ UNCHANGED files
        \/ \E p \in Path :
             \/ FCreate(p) \/ FDelete(p)
             \/ \E off, n \in 0 .. MaxSize : p \in DOMAIN files /\ FWrite(p, off, n)
             \/ \E n \in 0 .. MaxSize : FTruncate(p, n)
  \/ \E p \in Path, off, n \in 0 .. MaxSize : FRead(p, off, n)

\* One that asks for bytes that are not there may be answered with others, and may
\* lose the store.
FStray ==
  /\ astray'
  /\ \/ lost'
     \/ ~lost' /\ answer' = <<Outside>> /\ UNCHANGED files

FNext ==
  /\ ~lost
  /\ \/ FStray
     \/ ~lost' /\ FServe
FSpec == FInit /\ [][FNext]_fvars
=============================================================================
