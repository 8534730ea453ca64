------------------------------- MODULE Shell -------------------------------
(***************************************************************************)
(* The shell (servers/shell/shell.c): it gets one key per message, keeps   *)
(* the line in cmd_buffer as a C string, and echoes it.  The handling of a *)
(* key is one step.  Messages that are not keys, and receives that fail,   *)
(* change nothing.                                                         *)
(***************************************************************************)
EXTENDS Integers, Sequences, SequencesExt, FiniteSetsExt

CONSTANTS
  SHELL_MAX_CMD_LEN, SHELL_MAX_ARGS,
  Char,       \* the printable characters (32 .. 126) that are typed
  Builtin     \* Builtin[b]: the name of builtin b, as characters

NUL == "NUL"
Space == " "
Tab == "tab"
Blank == {Space, Tab}
Keys == Char \union {"enter", "backspace", Tab}  \* \n or \r, \b or 127, \t

ASSUME ShellConstants ==
  /\ SHELL_MAX_CMD_LEN \in Nat \ {0}
  /\ SHELL_MAX_ARGS \in Nat /\ SHELL_MAX_ARGS >= 2
  /\ NUL \notin Char /\ Tab \notin Char
  /\ \A b \in DOMAIN Builtin : Builtin[b] \in Seq(Char \ Blank)

VARIABLES
  cmd_buffer,  \* its SHELL_MAX_CMD_LEN cells, counted from 0
  screen,      \* the characters behind the last prompt
  argv,        \* the words of the command that ran last
  ran          \* the builtin it was, "unknown" or "none"
vars == <<cmd_buffer, screen, argv, ran>>

Cells == 0 .. SHELL_MAX_CMD_LEN - 1
Zeros == [k \in Cells |-> NUL]

Init ==
  /\ cmd_buffer = Zeros
  /\ screen = <<>>
  /\ argv = <<>>
  /\ ran = "none"

\* The first cell from p on whose character is in stop; a search that leaves
\* the buffer stops at the cell behind it.
Scan(b, p, stop) ==
  Min({k \in p .. SHELL_MAX_CMD_LEN - 1 : b[k] \in stop} \union {SHELL_MAX_CMD_LEN})
strlen(b) == Scan(b, 0, {NUL})

-----------------------------------------------------------------------------
(* shell_parse_cmd: p walks over blanks to a word and over the word, whose *)
(* end is overwritten with NUL; argv[n] points to the start of word n.     *)
SkipOneBlank(b, p) == IF b[p] \in Blank THEN p + 1 ELSE p
SkipBlanks(b, p) == Scan(b, p, (Char \union {NUL}) \ Blank)
WordEnd(b, p) == Scan(b, p, Blank \union {NUL})
PastWord(b, p) == LET e == WordEnd(b, p) IN IF b[e] = NUL THEN e ELSE e + 1

\* One word more than argv has room for.
ParseOneMore(b) ==
  LET start[n \in 0 .. SHELL_MAX_ARGS] ==
        SkipBlanks(b, IF n = 0 THEN 0 ELSE PastWord(b, start[n - 1]))
      argc == Min({n \in 0 .. SHELL_MAX_ARGS - 1 : b[start[n]] = NUL} \union {SHELL_MAX_ARGS})
  IN  [n \in 1 .. argc |-> LET s == start[n - 1]
                           IN  [k \in 1 .. WordEnd(b, s) - s |-> b[s + k - 1]]]
shell_parse_cmd(b) ==
  LET start[n \in 0 .. SHELL_MAX_ARGS - 1] ==
        SkipBlanks(b, IF n = 0 THEN 0 ELSE PastWord(b, start[n - 1]))
      argc == Min({n \in 0 .. SHELL_MAX_ARGS - 2 : b[start[n]] = NUL} \union {SHELL_MAX_ARGS - 1})
  IN  [n \in 1 .. argc |-> LET s == start[n - 1]
                           IN  [k \in 1 .. WordEnd(b, s) - s |-> b[s + k - 1]]]

\* The builtin whose name is the first word.  reboot writes to a port that a
\* machine may not have, and the shell goes on.
shell_exec_builtin(args) ==
  IF \E b \in DOMAIN Builtin : Builtin[b] = args[1]
  THEN CHOOSE b \in DOMAIN Builtin : Builtin[b] = args[1]
  ELSE "unknown"

-----------------------------------------------------------------------------
\* With no word in the line (argc = 0) nothing runs.
Enter ==
  /\ LET args == shell_parse_cmd(cmd_buffer)
     IN  IF args = <<>> THEN UNCHANGED <<argv, ran>>
         ELSE argv' = args /\ ran' = shell_exec_builtin(args)
  /\ cmd_buffer' = Zeros
  /\ screen' = <<>>

\* An erase that is not echoed.
BackspaceSilent ==
  LET len == strlen(cmd_buffer)
  IN  /\ cmd_buffer' = IF len = 0 THEN cmd_buffer ELSE [cmd_buffer EXCEPT ![len - 1] = NUL]
      /\ UNCHANGED <<screen, argv, ran>>
Backspace ==
  LET len == strlen(cmd_buffer)
  IN  /\ IF len = 0 THEN UNCHANGED <<cmd_buffer, screen>>
         ELSE /\ cmd_buffer' = [cmd_buffer EXCEPT ![len - 1] = NUL]
              /\ screen' = Front(screen)
      /\ UNCHANGED <<argv, ran>>

\* The last cell, too, gets a character.
PrintableFills(c) ==
  LET len == strlen(cmd_buffer)
  IN  /\ IF len >= SHELL_MAX_CMD_LEN THEN UNCHANGED <<cmd_buffer, screen>>
         ELSE /\ cmd_buffer' = [cmd_buffer EXCEPT ![len] = c]
              /\ screen' = Append(screen, c)
      /\ UNCHANGED <<argv, ran>>
Printable(c) ==
  LET len == strlen(cmd_buffer)
  IN  /\ IF len >= SHELL_MAX_CMD_LEN - 1 THEN UNCHANGED <<cmd_buffer, screen>>
         ELSE /\ cmd_buffer' = [cmd_buffer EXCEPT ![len] = c, ![len + 1] = NUL]
              /\ screen' = Append(screen, c)
      /\ UNCHANGED <<argv, ran>>

\* shell_main's branches on the key; a tab is none of them.
Key(c) ==
  \/ c = "enter" /\ Enter
  \/ c = "backspace" /\ Backspace
  \/ c \in Char /\ Printable(c)

Next == \E c \in Keys : Key(c)
Spec == Init /\ [][Next]_vars

-----------------------------------------------------------------------------
\* Type invariant: the cells, and argv with the NULL behind its last word,
\* which needs a place of its own.
TypeOK ==
  /\ cmd_buffer \in [Cells -> Char \union {NUL}]
  /\ screen \in Seq(Char)
  /\ argv \in Seq(Seq(Char)) /\ Len(argv) < SHELL_MAX_ARGS
  /\ ran \in DOMAIN Builtin \union {"unknown", "none"}

\* The line ends inside the buffer and there is nothing behind its end, so that
\* no key, erase or parse runs off it or shows what was typed before.
Terminated ==
  /\ strlen(cmd_buffer) < SHELL_MAX_CMD_LEN
  /\ \A k \in Cells : k >= strlen(cmd_buffer) => cmd_buffer[k] = NUL

\* The shell is a line editor: what is on the screen is what runs, cut into
\* its words.
LE == INSTANCE LineEditor WITH
        line <- screen, words <- argv,
        MaxLen <- SHELL_MAX_CMD_LEN - 1, MaxWords <- SHELL_MAX_ARGS - 1
IsLineEditor == LE!LSpec

\* The line on the screen is the line in the buffer.
ScreenIsBuffer == screen = [k \in 1 .. strlen(cmd_buffer) |-> cmd_buffer[k - 1]]

\* The inductive invariant.
IInv == TypeOK /\ Terminated /\ ScreenIsBuffer
=============================================================================
