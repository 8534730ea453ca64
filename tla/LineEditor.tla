----------------------------- MODULE LineEditor -----------------------------
(***************************************************************************)
(* What the shell promises the user: a line of at most MaxLen characters   *)
(* is edited on the screen, and Enter runs the command named by its first  *)
(* word with the words of the line, of which there are at most MaxWords.   *)
(***************************************************************************)
EXTENDS Integers, Sequences, FiniteSets, SequencesExt

CONSTANTS Char, Blank, MaxLen, MaxWords
VARIABLES
  line,   \* the characters behind the prompt
  words   \* the words of the command that ran last
lvars == <<line, words>>

\* The words of l: its longest stretches without a blank, in order.
IsBlank(l, k) == k < 1 \/ k > Len(l) \/ l[k] \in Blank
Starts(l) == {k \in DOMAIN l : ~IsBlank(l, k) /\ IsBlank(l, k - 1)}
WordAt(l, k) ==
  CHOOSE w \in {SubSeq(l, k, e) : e \in k .. Len(l)} :
    /\ \A c \in ToSet(w) : c \notin Blank
    /\ IsBlank(l, k + Len(w))
StartsUpTo(l, k) == {j \in Starts(l) : j <= k}
Words(l) ==
  [n \in 1 .. Cardinality(Starts(l)) |->
     WordAt(l, CHOOSE k \in Starts(l) : Cardinality(StartsUpTo(l, k)) = n)]

LInit == line = <<>> /\ words = <<>>

LType(c) ==
  /\ Len(line) < MaxLen
  /\ line' = Append(line, c)
  /\ UNCHANGED words

LErase ==
  /\ line # <<>>
  /\ line' = Front(line)
  /\ UNCHANGED words

\* A line without a word runs nothing.
LEnter ==
  /\ words' = IF Words(line) = <<>> THEN words
              ELSE SubSeq(Words(line), 1,
                     IF Len(Words(line)) > MaxWords THEN MaxWords ELSE Len(Words(line)))
  /\ line' = <<>>

LNext == (\E c \in Char : LType(c)) \/ LErase \/ LEnter
LSpec == LInit /\ [][LNext]_lvars
=============================================================================
