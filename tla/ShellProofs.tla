---------------------------- MODULE ShellProofs ----------------------------
(* Proofs about the shell's line buffer and its parser, for every length   *)
(* of the buffer and of argv, every character set and every set of         *)
(* builtins.                                                               *)
EXTENDS Shell, SequenceTheorems, FiniteSetTheorems, WellFoundedInduction, NaturalsInduction, TLAPS

\* A set of naturals that is not empty has a least element.
LEMMA LeastOf ==
  ASSUME NEW T, T \subseteq Nat, T # {}
  PROVE  Min(T) \in T /\ \A y \in T : Min(T) <= y
<1>1. IsWellFoundedOn(OpToRel(<, Nat), Nat)  BY NatLessThanWellFounded, Zenon
<1>2. \E x \in T : \A y \in T : ~(<<y, x>> \in OpToRel(<, Nat))  BY <1>1, WFMin, Zenon
<1>3. PICK x \in T : \A y \in T : ~(<<y, x>> \in OpToRel(<, Nat))  BY <1>2, Zenon
<1>4. ASSUME NEW a \in Nat, NEW b \in Nat, a < b PROVE <<a, b>> \in OpToRel(<, Nat)
  BY <1>4, Zenon DEF OpToRel
<1>5. ASSUME NEW y \in T PROVE x <= y
  <2>1. x \in Nat /\ y \in Nat  OBVIOUS
  <2>2. ~(y < x)  BY <1>3, <1>4, <2>1, Zenon
  <2> QED  BY <2>1, <2>2
<1>6. \E z \in T : \A y \in T : z <= y  BY <1>5
<1> QED  BY <1>6 DEF Min

\* Induction over the naturals up to m: what holds for 0 and is handed on holds for all.
LEMMA CountUp ==
  ASSUME NEW P, NEW m \in Nat, 0 \in P, \A n \in Nat : n \in P /\ n < m => n + 1 \in P
  PROVE  0 .. m \subseteq P
<1> DEFINE T == {n \in 0 .. m : n \notin P}
<1> SUFFICES ASSUME T # {} PROVE FALSE  OBVIOUS
<1>1. T \subseteq Nat  OBVIOUS
<1>2. Min(T) \in T /\ \A y \in T : Min(T) <= y  BY <1>1, LeastOf
<1> DEFINE x == Min(T)
<1> HIDE DEF x
<1>3. x \in 0 .. m /\ x \notin P /\ \A y \in T : x <= y  BY <1>2 DEF x
<1>4. x # 0 /\ x - 1 \in Nat /\ x - 1 < m /\ x - 1 \in 0 .. m  BY <1>3
<1>5. x - 1 \in P  BY <1>3, <1>4
<1>6. (x - 1) + 1 = x  BY <1>3
<1> QED  BY <1>3, <1>4, <1>5, <1>6

LEMMA ShellFacts ==
  /\ SHELL_MAX_CMD_LEN \in Nat \ {0} /\ SHELL_MAX_ARGS \in Nat /\ SHELL_MAX_ARGS >= 2
  /\ NUL \notin Char /\ NUL \notin Blank
<1>1. /\ SHELL_MAX_CMD_LEN \in Nat \ {0} /\ SHELL_MAX_ARGS \in Nat /\ SHELL_MAX_ARGS >= 2
      /\ NUL \notin Char
  BY ShellConstants, Zenon
<1>2. NUL \notin Blank  BY DEF NUL, Blank, Space, Tab
<1> QED  BY <1>1, <1>2

-----------------------------------------------------------------------------
(* Lines *)

\* Scan finds the first cell.
LEMMA ScanIs ==
  ASSUME NEW b, NEW p \in 0 .. SHELL_MAX_CMD_LEN, NEW stop
  PROVE  LET s == Scan(b, p, stop)
         IN  /\ s \in p .. SHELL_MAX_CMD_LEN
             /\ \A k \in p .. s - 1 : b[k] \notin stop
             /\ s # SHELL_MAX_CMD_LEN => b[s] \in stop
<1> DEFINE T == {k \in p .. SHELL_MAX_CMD_LEN - 1 : b[k] \in stop} \union {SHELL_MAX_CMD_LEN}
           s == Min(T)
<1>0. SHELL_MAX_CMD_LEN \in Nat  BY ShellFacts
<1>1. T \subseteq Nat /\ T # {}  BY <1>0
<1>2. s \in T /\ \A y \in T : s <= y  BY <1>1, LeastOf
<1>3. Scan(b, p, stop) = s  BY DEF Scan
<1>4. /\ SHELL_MAX_CMD_LEN \in T
      /\ \A k \in p .. SHELL_MAX_CMD_LEN - 1 : b[k] \in stop => k \in T
  OBVIOUS
<1>5. s \in p .. SHELL_MAX_CMD_LEN /\ (s # SHELL_MAX_CMD_LEN => b[s] \in stop)
  <2>1. CASE s = SHELL_MAX_CMD_LEN  BY <1>0, <2>1
  <2>2. CASE s # SHELL_MAX_CMD_LEN
    <3>1. s \in {k \in p .. SHELL_MAX_CMD_LEN - 1 : b[k] \in stop}  BY <1>2, <2>2
    <3> HIDE DEF s
    <3> QED  BY <1>0, <3>1
  <2> QED  BY <2>1, <2>2
<1> HIDE DEF s, T
<1>6. ASSUME NEW k \in p .. s - 1 PROVE b[k] \notin stop
  <2>1. k \in p .. SHELL_MAX_CMD_LEN - 1 /\ ~(s <= k)  BY <1>0, <1>5
  <2> QED  BY <1>2, <1>4, <2>1
<1> QED  BY <1>3, <1>5, <1>6

\* A buffer that holds a line of n characters, and nothing behind it.
IsLine(b, n) ==
  /\ b \in [Cells -> Char \union {NUL}] /\ n \in Cells
  /\ \A k \in Cells : IF k < n THEN b[k] \in Char ELSE b[k] = NUL

LEMMA LenOfLine == ASSUME NEW b, NEW n, IsLine(b, n) PROVE strlen(b) = n
<1> DEFINE s == Scan(b, 0, {NUL})
<1>0. SHELL_MAX_CMD_LEN \in Nat \ {0} /\ 0 \in 0 .. SHELL_MAX_CMD_LEN /\ NUL \notin Char
  BY ShellFacts
<1>1. /\ s \in 0 .. SHELL_MAX_CMD_LEN
      /\ \A k \in 0 .. s - 1 : b[k] \notin {NUL}
      /\ s # SHELL_MAX_CMD_LEN => b[s] \in {NUL}
  BY <1>0, ScanIs
<1> HIDE DEF s
<1>2. n \in 0 .. SHELL_MAX_CMD_LEN - 1 /\ b[n] = NUL  BY <1>0 DEF IsLine, Cells
<1>3. ~(n < s)  BY <1>0, <1>1, <1>2
<1>4. ~(s < n)
  <2> SUFFICES ASSUME s < n PROVE FALSE  OBVIOUS
  <2>1. s \in Cells /\ s # SHELL_MAX_CMD_LEN  BY <1>0, <1>1, <1>2 DEF Cells
  <2> QED  BY <1>0, <1>1, <2>1 DEF IsLine
<1> QED  BY <1>1, <1>2, <1>3, <1>4 DEF strlen, s

LEMMA BufferIsLine ==
  ASSUME cmd_buffer \in [Cells -> Char \union {NUL}], Terminated
  PROVE  IsLine(cmd_buffer, strlen(cmd_buffer))
<1> DEFINE s == strlen(cmd_buffer)
<1>0. SHELL_MAX_CMD_LEN \in Nat \ {0} /\ 0 \in 0 .. SHELL_MAX_CMD_LEN  BY ShellFacts
<1>1. /\ s \in 0 .. SHELL_MAX_CMD_LEN
      /\ \A k \in 0 .. s - 1 : cmd_buffer[k] \notin {NUL}
  BY <1>0, ScanIs DEF strlen
<1>2. s < SHELL_MAX_CMD_LEN /\ \A k \in Cells : k >= s => cmd_buffer[k] = NUL  BY DEF Terminated
<1> HIDE DEF s
<1>3. s \in Cells  BY <1>0, <1>1, <1>2 DEF Cells
<1>4. ASSUME NEW k \in Cells
      PROVE  IF k < s THEN cmd_buffer[k] \in Char ELSE cmd_buffer[k] = NUL
  <2>1. k \in Nat /\ (k < s => k \in 0 .. s - 1)  BY <1>0, <1>1 DEF Cells
  <2>2. CASE k < s  BY <1>1, <2>1, <2>2
  <2>3. CASE ~(k < s)  BY <1>1, <1>2, <2>1, <2>3
  <2> QED  BY <2>2, <2>3
<1>5. IsLine(cmd_buffer, s)  BY <1>3, <1>4 DEF IsLine
<1> QED  BY <1>5 DEF s

\* A line in the buffer is what Terminated says, and the other way round.
LEMMA LineTerminated ==
  ASSUME NEW b, NEW n, IsLine(b, n)
  PROVE  strlen(b) < SHELL_MAX_CMD_LEN /\ \A k \in Cells : k >= strlen(b) => b[k] = NUL
<1>1. strlen(b) = n  BY LenOfLine
<1>2. SHELL_MAX_CMD_LEN \in Nat  BY ShellFacts
<1> QED  BY <1>1, <1>2 DEF IsLine, Cells

-----------------------------------------------------------------------------
(* shell_parse_cmd: its two searches *)

LEMMA SkipBlanksIs ==
  ASSUME NEW b, NEW n, IsLine(b, n), NEW p \in 0 .. n
  PROVE  LET s == SkipBlanks(b, p)
         IN  s \in p .. n /\ b[s] \notin Blank /\ \A k \in p .. s - 1 : b[k] \in Blank
<1> DEFINE stop == (Char \union {NUL}) \ Blank
           s == Scan(b, p, stop)
<1>0. /\ SHELL_MAX_CMD_LEN \in Nat \ {0} /\ NUL \notin Blank /\ n \in 0 .. SHELL_MAX_CMD_LEN - 1
      /\ p \in 0 .. SHELL_MAX_CMD_LEN /\ b[n] = NUL
      /\ \A k \in 0 .. SHELL_MAX_CMD_LEN - 1 : b[k] \in Char \union {NUL}
  BY ShellFacts DEF IsLine, Cells
<1>1. /\ s \in p .. SHELL_MAX_CMD_LEN
      /\ \A k \in p .. s - 1 : b[k] \notin stop
      /\ s # SHELL_MAX_CMD_LEN => b[s] \in stop
  BY <1>0, ScanIs
<1> HIDE DEF s
<1>2. s \in p .. n
  <2> SUFFICES ASSUME n < s PROVE FALSE  BY <1>0, <1>1
  <2>1. n \in p .. s - 1  BY <1>0, <1>1
  <2> QED  BY <1>0, <1>1, <2>1
<1>3. b[s] \notin Blank  BY <1>0, <1>1, <1>2
<1>4. ASSUME NEW k \in p .. s - 1 PROVE b[k] \in Blank
  <2>1. k \in 0 .. SHELL_MAX_CMD_LEN - 1  BY <1>0, <1>2
  <2> QED  BY <1>0, <1>1, <2>1
<1> QED  BY <1>2, <1>3, <1>4 DEF SkipBlanks, s

LEMMA WordEndIs ==
  ASSUME NEW b, NEW n, IsLine(b, n), NEW p \in 0 .. n
  PROVE  LET e == WordEnd(b, p)
         IN  /\ e \in p .. n
             /\ \A k \in p .. e - 1 : b[k] \in Char \ Blank
             /\ IF e = n THEN b[e] = NUL ELSE b[e] \in Blank
             /\ PastWord(b, p) = IF e = n THEN n ELSE e + 1
<1> DEFINE stop == Blank \union {NUL}
           e == Scan(b, p, stop)
<1>0. /\ SHELL_MAX_CMD_LEN \in Nat \ {0} /\ NUL \notin Char /\ n \in 0 .. SHELL_MAX_CMD_LEN - 1
      /\ p \in 0 .. SHELL_MAX_CMD_LEN /\ b[n] = NUL
      /\ \A k \in 0 .. SHELL_MAX_CMD_LEN - 1 : IF k < n THEN b[k] \in Char ELSE b[k] = NUL
  BY ShellFacts DEF IsLine, Cells
<1>1. /\ e \in p .. SHELL_MAX_CMD_LEN
      /\ \A k \in p .. e - 1 : b[k] \notin stop
      /\ e # SHELL_MAX_CMD_LEN => b[e] \in stop
  BY <1>0, ScanIs
<1>2. WordEnd(b, p) = e  BY DEF WordEnd
<1> HIDE DEF e
<1>3. e \in p .. n
  <2> SUFFICES ASSUME n < e PROVE FALSE  BY <1>0, <1>1
  <2>1. n \in p .. e - 1  BY <1>0, <1>1
  <2> QED  BY <1>0, <1>1, <2>1
<1>4. ASSUME NEW k \in p .. e - 1 PROVE b[k] \in Char \ Blank
  <2>1. k \in 0 .. SHELL_MAX_CMD_LEN - 1 /\ k < n  BY <1>0, <1>3
  <2> QED  BY <1>0, <1>1, <2>1
<1>5. e # n => b[e] \in Char /\ b[e] \in Blank
  <2> SUFFICES ASSUME e # n PROVE b[e] \in Char /\ b[e] \in Blank  OBVIOUS
  <2>1. e \in 0 .. SHELL_MAX_CMD_LEN - 1 /\ e < n /\ e # SHELL_MAX_CMD_LEN  BY <1>0, <1>3
  <2> QED  BY <1>0, <1>1, <2>1
<1>6. PastWord(b, p) = IF e = n THEN n ELSE e + 1
  BY <1>0, <1>2, <1>5 DEF PastWord
<1> QED  BY <1>0, <1>2, <1>3, <1>4, <1>5, <1>6

-----------------------------------------------------------------------------
(* shell_parse_cmd: its loop *)

\* f[i] is where the i-th word starts, as in the recursive function of shell_parse_cmd.
StartFun(b, m, f) ==
  f = [i \in 0 .. m |-> SkipBlanks(b, IF i = 0 THEN 0 ELSE PastWord(b, f[i - 1]))]
Argc(b, f) ==
  Min({i \in 0 .. SHELL_MAX_ARGS - 2 : b[f[i]] = NUL} \union {SHELL_MAX_ARGS - 1})
Parsed(b, f) ==
  [i \in 1 .. Argc(b, f) |->
     [k \in 1 .. WordEnd(b, f[i - 1]) - f[i - 1] |-> b[f[i - 1] + k - 1]]]

LEMMA ParseIs ==
  ASSUME NEW b
  PROVE  shell_parse_cmd(b) = Parsed(b, CHOOSE f : StartFun(b, SHELL_MAX_ARGS - 1, f))
BY DEF shell_parse_cmd, StartFun, Parsed, Argc

LEMMA StartExists == ASSUME NEW b, NEW m \in Nat PROVE \E f : StartFun(b, m, f)
<1> DEFINE P == {j \in Nat : \E f : StartFun(b, j, f)}
<1>1. 0 \in P
  <2>1. StartFun(b, 0, [i \in 0 .. 0 |-> SkipBlanks(b, 0)])  BY DEF StartFun
  <2> QED  BY <2>1
<1>2. ASSUME NEW j \in Nat, j \in P PROVE j + 1 \in P
  <2>1. PICK f : StartFun(b, j, f)  BY <1>2
  <2> DEFINE g == [i \in 0 .. j + 1 |-> IF i = j + 1 THEN SkipBlanks(b, PastWord(b, f[j])) ELSE f[i]]
  <2>2. ASSUME NEW i \in 0 .. j + 1
        PROVE  g[i] = SkipBlanks(b, IF i = 0 THEN 0 ELSE PastWord(b, g[i - 1]))
    <3>1. CASE i = j + 1
      <4>1. i # 0 /\ i - 1 = j /\ j \in 0 .. j + 1 /\ j # j + 1  BY <3>1
      <4>2. g[i - 1] = f[j]  BY <4>1
      <4> QED  BY <3>1, <4>1, <4>2
    <3>2. CASE i # j + 1
      <4>1. i \in 0 .. j /\ (i # 0 => i - 1 \in 0 .. j + 1 /\ i - 1 # j + 1)  BY <3>2
      <4>2. f[i] = SkipBlanks(b, IF i = 0 THEN 0 ELSE PastWord(b, f[i - 1]))
        BY <2>1, <4>1 DEF StartFun
      <4> QED  BY <4>1, <4>2
    <3> QED  BY <3>1, <3>2
  <2>3. g = [i \in 0 .. j + 1 |-> g[i]]  OBVIOUS
  <2>4. StartFun(b, j + 1, g)
    <3> HIDE DEF g
    <3> QED  BY <2>2, <2>3 DEF StartFun
  <2> QED  BY <2>4
<1>3. m \in P
  <2> HIDE DEF P
  <2>1. 0 .. m \subseteq P  BY <1>1, <1>2, CountUp
  <2> QED  BY <2>1
<1> QED  BY <1>3

\* One round of the loop, from the place p where it looks for a word.
LEMMA StartStep ==
  ASSUME NEW b, NEW m \in Nat, NEW f, StartFun(b, m, f)
  PROVE  /\ f[0] = SkipBlanks(b, 0)
         /\ \A i \in 0 .. m : i # m => f[i + 1] = SkipBlanks(b, PastWord(b, f[i]))
<1>1. f[0] = SkipBlanks(b, 0)  BY DEF StartFun
<1>2. ASSUME NEW i \in 0 .. m, i # m PROVE f[i + 1] = SkipBlanks(b, PastWord(b, f[i]))
  <2>1. i + 1 \in 0 .. m /\ i + 1 # 0 /\ (i + 1) - 1 = i  BY <1>2
  <2> QED  BY <2>1 DEF StartFun
<1> QED  BY <1>1, <1>2

\* The loop stays in the line.
LEMMA StartInLine ==
  ASSUME NEW b, NEW n, IsLine(b, n), NEW m \in Nat, NEW f, StartFun(b, m, f)
  PROVE  \A i \in 0 .. m : f[i] \in 0 .. n /\ b[f[i]] \notin Blank
<1> DEFINE P == {i \in Nat : f[i] \in 0 .. n /\ b[f[i]] \notin Blank}
<1>0. n \in Nat /\ 0 \in 0 .. n  BY ShellFacts DEF IsLine, Cells
<1>1. 0 \in P
  <2>1. f[0] = SkipBlanks(b, 0)  BY StartStep
  <2>2. SkipBlanks(b, 0) \in 0 .. n /\ b[SkipBlanks(b, 0)] \notin Blank  BY <1>0, SkipBlanksIs
  <2> QED  BY <2>1, <2>2
<1>2. ASSUME NEW i \in Nat, i \in P, i < m PROVE i + 1 \in P
  <2>1. f[i + 1] = SkipBlanks(b, PastWord(b, f[i]))
    <3>1. i \in 0 .. m /\ i # m  BY <1>2
    <3> QED  BY <3>1, StartStep
  <2> DEFINE q == PastWord(b, f[i])
  <2>2. q \in 0 .. n
    <3>1. f[i] \in 0 .. n  BY <1>2
    <3> DEFINE e == WordEnd(b, f[i])
    <3>2. e \in f[i] .. n /\ q = IF e = n THEN n ELSE e + 1  BY <3>1, WordEndIs
    <3> HIDE DEF e, q
    <3> QED  BY <1>0, <3>1, <3>2
  <2> HIDE DEF q
  <2>3. SkipBlanks(b, q) \in q .. n /\ b[SkipBlanks(b, q)] \notin Blank  BY <2>2, SkipBlanksIs
  <2>4. SkipBlanks(b, q) \in 0 .. n  BY <1>0, <2>2, <2>3
  <2> QED  BY <2>1, <2>3, <2>4 DEF q
<1>3. 0 .. m \subseteq P
  <2> HIDE DEF P
  <2> QED  BY <1>1, <1>2, CountUp
<1> QED  BY <1>3

LEMMA ArgcIs ==
  ASSUME NEW b, NEW f
  PROVE  LET a == Argc(b, f)
         IN  /\ a \in 0 .. SHELL_MAX_ARGS - 1
             /\ \A i \in 0 .. a - 1 : b[f[i]] # NUL
             /\ a # SHELL_MAX_ARGS - 1 => b[f[a]] = NUL
<1> DEFINE T == {i \in 0 .. SHELL_MAX_ARGS - 2 : b[f[i]] = NUL} \union {SHELL_MAX_ARGS - 1}
           a == Min(T)
<1>0. SHELL_MAX_ARGS \in Nat /\ SHELL_MAX_ARGS >= 2  BY ShellFacts
<1>1. T \subseteq Nat /\ T # {}  BY <1>0
<1>2. a \in T /\ \A y \in T : a <= y  BY <1>1, LeastOf
<1>3. Argc(b, f) = a  BY DEF Argc
<1>4. \A i \in 0 .. SHELL_MAX_ARGS - 2 : b[f[i]] = NUL => i \in T  OBVIOUS
<1>5. /\ a \in 0 .. SHELL_MAX_ARGS - 1
      /\ a # SHELL_MAX_ARGS - 1 => b[f[a]] = NUL
  <2>1. CASE a = SHELL_MAX_ARGS - 1  BY <1>0, <2>1
  <2>2. CASE a # SHELL_MAX_ARGS - 1
    <3>1. a \in {i \in 0 .. SHELL_MAX_ARGS - 2 : b[f[i]] = NUL}  BY <1>2, <2>2
    <3> HIDE DEF a
    <3> QED  BY <1>0, <3>1
  <2> QED  BY <2>1, <2>2
<1> HIDE DEF a, T
<1>6. ASSUME NEW i \in 0 .. a - 1 PROVE b[f[i]] # NUL
  <2>1. i \in 0 .. SHELL_MAX_ARGS - 2 /\ ~(a <= i)  BY <1>0, <1>5
  <2> QED  BY <1>2, <1>4, <2>1
<1> QED  BY <1>3, <1>5, <1>6

\* What shell_parse_cmd leaves in argv: words of the line, and fewer than argv has places.
LEMMA ParsedType ==
  ASSUME NEW b, NEW n, IsLine(b, n)
  PROVE  shell_parse_cmd(b) \in Seq(Seq(Char)) /\ Len(shell_parse_cmd(b)) < SHELL_MAX_ARGS
<1> DEFINE f == CHOOSE g : StartFun(b, SHELL_MAX_ARGS - 1, g)
           a == Argc(b, f)
<1>0. SHELL_MAX_ARGS \in Nat /\ SHELL_MAX_ARGS >= 2 /\ SHELL_MAX_ARGS - 1 \in Nat /\ n \in Nat
  BY ShellFacts DEF IsLine, Cells
<1>1. StartFun(b, SHELL_MAX_ARGS - 1, f)
  <2>1. \E g : StartFun(b, SHELL_MAX_ARGS - 1, g)  BY <1>0, StartExists
  <2> QED  BY <2>1
<1>2. shell_parse_cmd(b) = Parsed(b, f)  BY ParseIs
<1> HIDE DEF f
<1>3. a \in 0 .. SHELL_MAX_ARGS - 1  BY ArgcIs
<1>4. ASSUME NEW i \in 1 .. a
      PROVE  [k \in 1 .. WordEnd(b, f[i - 1]) - f[i - 1] |-> b[f[i - 1] + k - 1]] \in Seq(Char)
  <2> DEFINE s == f[i - 1]
             e == WordEnd(b, s)
  <2>1. i - 1 \in 0 .. SHELL_MAX_ARGS - 1  BY <1>0, <1>3
  <2>2. s \in 0 .. n  BY <1>0, <1>1, <2>1, StartInLine
  <2>3. e \in s .. n /\ \A k \in s .. e - 1 : b[k] \in Char \ Blank  BY <2>2, WordEndIs
  <2> HIDE DEF s, e
  <2>4. e - s \in Nat /\ \A k \in 1 .. e - s : s + k - 1 \in s .. e - 1  BY <1>0, <2>2, <2>3
  <2>5. \A k \in 1 .. e - s : b[s + k - 1] \in Char  BY <2>3, <2>4
  <2>6. [k \in 1 .. e - s |-> b[s + k - 1]] \in Seq(Char)  BY <2>4, <2>5
  <2> QED  BY <2>6 DEF e, s
<1>5. Parsed(b, f) = [i \in 1 .. a |->
        [k \in 1 .. WordEnd(b, f[i - 1]) - f[i - 1] |-> b[f[i - 1] + k - 1]]]
  BY DEF Parsed
<1> HIDE DEF a
<1>6. a \in Nat /\ a < SHELL_MAX_ARGS  BY <1>0, <1>3
<1>7. Parsed(b, f) \in Seq(Seq(Char)) /\ Len(Parsed(b, f)) = a  BY <1>4, <1>5, <1>6
<1> QED  BY <1>2, <1>6, <1>7

-----------------------------------------------------------------------------
(* The line behind the prompt *)

Text(b, n) == [k \in 1 .. n |-> b[k - 1]]

LEMMA TextIs ==
  ASSUME NEW b, NEW n, IsLine(b, n)
  PROVE  /\ Text(b, n) \in Seq(Char) /\ Len(Text(b, n)) = n /\ DOMAIN Text(b, n) = 1 .. n
         /\ \A k \in 1 .. n : Text(b, n)[k] = b[k - 1] /\ b[k - 1] \in Char
<1>0. n \in Nat /\ n < SHELL_MAX_CMD_LEN /\ SHELL_MAX_CMD_LEN \in Nat
  BY ShellFacts DEF IsLine, Cells
<1>1. ASSUME NEW k \in 1 .. n PROVE b[k - 1] \in Char
  <2>1. k - 1 \in Cells /\ k - 1 < n  BY <1>0 DEF Cells
  <2> QED  BY <2>1 DEF IsLine
<1> QED  BY <1>0, <1>1 DEF Text

\* The invariant in terms of the line.
LEMMA LineNow ==
  ASSUME IInv
  PROVE  IsLine(cmd_buffer, strlen(cmd_buffer)) /\ screen = Text(cmd_buffer, strlen(cmd_buffer))
<1>1. IsLine(cmd_buffer, strlen(cmd_buffer))  BY BufferIsLine DEF IInv, TypeOK
<1> QED  BY <1>1 DEF IInv, ScreenIsBuffer, Text

LEMMA LineNext ==
  ASSUME NEW n, IsLine(cmd_buffer', n), screen' = Text(cmd_buffer', n),
         argv' \in Seq(Seq(Char)), Len(argv') < SHELL_MAX_ARGS,
         ran' \in DOMAIN Builtin \union {"unknown", "none"}
  PROVE  IInv'
<1>1. strlen(cmd_buffer') = n  BY LenOfLine
<1>2. Terminated'  BY LineTerminated DEF Terminated
<1>3. ScreenIsBuffer'  BY <1>1 DEF ScreenIsBuffer, Text
<1>4. TypeOK'  BY TextIs DEF TypeOK, IsLine
<1> QED  BY <1>2, <1>3, <1>4 DEF IInv

LEMMA EmptyLine == IsLine(Zeros, 0) /\ Text(Zeros, 0) = <<>>
<1>1. SHELL_MAX_CMD_LEN \in Nat \ {0}  BY ShellFacts
<1>2. 0 \in Cells /\ \A k \in Cells : ~(k < 0)  BY <1>1 DEF Cells
<1> QED  BY <1>2 DEF IsLine, Zeros, Text

LEMMA ShellInit == Init => IInv
<1> SUFFICES ASSUME Init PROVE IInv  OBVIOUS
<1>1. cmd_buffer = Zeros /\ screen = <<>> /\ argv = <<>> /\ ran = "none"  BY DEF Init
<1>2. strlen(cmd_buffer) = 0  BY <1>1, EmptyLine, LenOfLine
<1>3. Terminated  BY <1>1, EmptyLine, LineTerminated DEF Terminated
<1>4. ScreenIsBuffer
  <2>1. [k \in 1 .. 0 |-> cmd_buffer[k - 1]] = <<>>  OBVIOUS
  <2> QED  BY <1>1, <1>2, <2>1 DEF ScreenIsBuffer
<1>5. TypeOK  BY <1>1, EmptyLine, ShellFacts DEF TypeOK, IsLine
<1> QED  BY <1>3, <1>4, <1>5 DEF IInv

LEMMA EnterInv == ASSUME IInv, Enter PROVE IInv'
<1> DEFINE args == shell_parse_cmd(cmd_buffer)
<1>1. args \in Seq(Seq(Char)) /\ Len(args) < SHELL_MAX_ARGS  BY LineNow, ParsedType
<1>2. \/ UNCHANGED <<argv, ran>>
      \/ argv' = args /\ ran' = shell_exec_builtin(args)
  BY DEF Enter
<1> HIDE DEF args
<1>3. shell_exec_builtin(args) \in DOMAIN Builtin \union {"unknown"}
  <2>1. CASE \E b \in DOMAIN Builtin : Builtin[b] = args[1]
    <3>1. (CHOOSE b \in DOMAIN Builtin : Builtin[b] = args[1]) \in DOMAIN Builtin  BY <2>1
    <3> QED  BY <2>1, <3>1 DEF shell_exec_builtin
  <2>2. CASE ~(\E b \in DOMAIN Builtin : Builtin[b] = args[1])  BY <2>2 DEF shell_exec_builtin
  <2> QED  BY <2>1, <2>2
<1>4. /\ argv' \in Seq(Seq(Char)) /\ Len(argv') < SHELL_MAX_ARGS
      /\ ran' \in DOMAIN Builtin \union {"unknown", "none"}
  BY <1>1, <1>2, <1>3 DEF IInv, TypeOK
<1>5. cmd_buffer' = Zeros /\ screen' = <<>>  BY DEF Enter
<1> QED  BY <1>4, <1>5, EmptyLine, LineNext

LEMMA BackspaceInv == ASSUME IInv, Backspace PROVE IInv'
<1> DEFINE n == strlen(cmd_buffer)
<1>0. IsLine(cmd_buffer, n) /\ screen = Text(cmd_buffer, n)  BY LineNow
<1>1. UNCHANGED <<argv, ran>>
      /\ IF n = 0 THEN UNCHANGED <<cmd_buffer, screen>>
         ELSE cmd_buffer' = [cmd_buffer EXCEPT ![n - 1] = NUL] /\ screen' = Front(screen)
  BY DEF Backspace
<1> HIDE DEF n
<1>2. /\ argv' \in Seq(Seq(Char)) /\ Len(argv') < SHELL_MAX_ARGS
      /\ ran' \in DOMAIN Builtin \union {"unknown", "none"}
  BY <1>1 DEF IInv, TypeOK
<1>3. CASE n = 0  BY <1>0, <1>1, <1>2, <1>3, LineNext
<1>4. CASE n # 0
  <2>0. SHELL_MAX_CMD_LEN \in Nat \ {0} /\ n \in 0 .. SHELL_MAX_CMD_LEN - 1
    BY <1>0, ShellFacts DEF IsLine, Cells
  <2>1. cmd_buffer' = [cmd_buffer EXCEPT ![n - 1] = NUL] /\ screen' = Front(screen)
    BY <1>1, <1>4
  <2>2. n - 1 \in Cells /\ cmd_buffer \in [Cells -> Char \union {NUL}]
    BY <1>0, <1>4, <2>0 DEF IsLine, Cells
  <2>3. /\ cmd_buffer' \in [Cells -> Char \union {NUL}]
        /\ \A k \in Cells : cmd_buffer'[k] = IF k = n - 1 THEN NUL ELSE cmd_buffer[k]
    BY <2>1, <2>2
  <2>4. ASSUME NEW k \in Cells
        PROVE  IF k < n - 1 THEN cmd_buffer'[k] \in Char ELSE cmd_buffer'[k] = NUL
    <3>1. IF k < n THEN cmd_buffer[k] \in Char ELSE cmd_buffer[k] = NUL  BY <1>0 DEF IsLine
    <3>2. k \in Nat  BY <2>0 DEF Cells
    <3>3. k < n - 1 => k < n /\ k # n - 1  BY <2>0, <3>2
    <3>4. ~(k < n - 1) => k = n - 1 \/ ~(k < n)  BY <2>0, <3>2
    <3> QED  BY <2>3, <3>1, <3>3, <3>4
  <2>5. IsLine(cmd_buffer', n - 1)  BY <2>2, <2>3, <2>4 DEF IsLine
  <2>6. screen' = Text(cmd_buffer', n - 1)
    <3>1. screen \in Seq(Char) /\ Len(screen) = n /\ \A k \in 1 .. n : screen[k] = cmd_buffer[k - 1]
      BY <1>0, TextIs
    <3>2. 1 \in 1 .. n + 1 /\ n - 1 \in 0 .. n /\ n - 1 \in Nat  BY <1>4, <2>0
    <3>3. screen' = SubSeq(screen, 1, n - 1)  BY <2>1, <3>1 DEF Front
    <3>4. SubSeq(screen, 1, n - 1) = [k \in 1 .. n - 1 |-> screen[k]]  BY <3>1, <3>2
    <3>5. \A k \in 1 .. n - 1 : screen[k] = cmd_buffer'[k - 1]
      <4> SUFFICES ASSUME NEW k \in 1 .. n - 1 PROVE screen[k] = cmd_buffer'[k - 1]  OBVIOUS
      <4>1. k \in 1 .. n /\ k - 1 \in Cells /\ k - 1 # n - 1  BY <2>0 DEF Cells
      <4> QED  BY <2>3, <3>1, <4>1
    <3> QED  BY <3>3, <3>4, <3>5 DEF Text
  <2> QED  BY <1>2, <2>5, <2>6, LineNext
<1> QED  BY <1>3, <1>4

LEMMA PrintableInv == ASSUME IInv, NEW c \in Char, Printable(c) PROVE IInv'
<1> DEFINE n == strlen(cmd_buffer)
<1>0. IsLine(cmd_buffer, n) /\ screen = Text(cmd_buffer, n)  BY LineNow
<1>1. UNCHANGED <<argv, ran>>
      /\ IF n >= SHELL_MAX_CMD_LEN - 1 THEN UNCHANGED <<cmd_buffer, screen>>
         ELSE cmd_buffer' = [cmd_buffer EXCEPT ![n] = c, ![n + 1] = NUL]
              /\ screen' = Append(screen, c)
  BY DEF Printable
<1> HIDE DEF n
<1>2. /\ argv' \in Seq(Seq(Char)) /\ Len(argv') < SHELL_MAX_ARGS
      /\ ran' \in DOMAIN Builtin \union {"unknown", "none"}
  BY <1>1 DEF IInv, TypeOK
<1>3. CASE n >= SHELL_MAX_CMD_LEN - 1  BY <1>0, <1>1, <1>2, <1>3, LineNext
<1>4. CASE ~(n >= SHELL_MAX_CMD_LEN - 1)
  <2>0. SHELL_MAX_CMD_LEN \in Nat \ {0} /\ n \in 0 .. SHELL_MAX_CMD_LEN - 1
    BY <1>0, ShellFacts DEF IsLine, Cells
  <2>1. cmd_buffer' = [cmd_buffer EXCEPT ![n] = c, ![n + 1] = NUL] /\ screen' = Append(screen, c)
    BY <1>1, <1>4
  <2>2. n \in Cells /\ n + 1 \in Cells /\ n # n + 1 /\ cmd_buffer \in [Cells -> Char \union {NUL}]
    BY <1>0, <1>4, <2>0 DEF IsLine, Cells
  <2>3. /\ cmd_buffer' \in [Cells -> Char \union {NUL}]
        /\ \A k \in Cells :
             cmd_buffer'[k] = IF k = n + 1 THEN NUL ELSE IF k = n THEN c ELSE cmd_buffer[k]
    BY <2>1, <2>2
  <2>4. ASSUME NEW k \in Cells
        PROVE  IF k < n + 1 THEN cmd_buffer'[k] \in Char ELSE cmd_buffer'[k] = NUL
    <3>1. IF k < n THEN cmd_buffer[k] \in Char ELSE cmd_buffer[k] = NUL  BY <1>0 DEF IsLine
    <3>2. k \in Nat  BY <2>0 DEF Cells
    <3>3. k < n + 1 => k # n + 1 /\ (k = n \/ k < n)  BY <2>0, <3>2
    <3>4. ~(k < n + 1) => k # n /\ ~(k < n)  BY <2>0, <3>2
    <3> QED  BY <2>3, <3>1, <3>3, <3>4
  <2>5. IsLine(cmd_buffer', n + 1)  BY <2>2, <2>3, <2>4 DEF IsLine
  <2>6. screen' = Text(cmd_buffer', n + 1)
    <3>1. screen \in Seq(Char) /\ Len(screen) = n /\ \A k \in 1 .. n : screen[k] = cmd_buffer[k - 1]
      BY <1>0, TextIs
    <3>2. screen' = [k \in 1 .. n + 1 |-> IF k = n + 1 THEN c ELSE screen[k]]
      <4>1. /\ screen' \in Seq(Char) /\ Len(screen') = n + 1 /\ screen'[n + 1] = c
            /\ \A k \in 1 .. n : screen'[k] = screen[k]
        BY <2>1, <3>1, AppendProperties
      <4>2. screen' = [k \in 1 .. n + 1 |-> screen'[k]]  BY <4>1
      <4>3. \A k \in 1 .. n + 1 : screen'[k] = IF k = n + 1 THEN c ELSE screen[k]  BY <2>0, <4>1
      <4> QED  BY <4>2, <4>3
    <3>3. ASSUME NEW k \in 1 .. n + 1
          PROVE  (IF k = n + 1 THEN c ELSE screen[k]) = cmd_buffer'[k - 1]
      <4>1. k - 1 \in Cells /\ k - 1 # n + 1 /\ (k # n + 1 => k \in 1 .. n /\ k - 1 # n)
        BY <2>0, <2>2 DEF Cells
      <4>2. k = n + 1 => k - 1 = n  BY <2>0
      <4> QED  BY <2>3, <3>1, <4>1, <4>2
    <3> QED  BY <3>2, <3>3 DEF Text
  <2> QED  BY <1>2, <2>5, <2>6, LineNext
<1> QED  BY <1>3, <1>4

LEMMA ShellNextInv == IInv /\ [Next]_vars => IInv'
<1> SUFFICES ASSUME IInv, [Next]_vars PROVE IInv'  OBVIOUS
<1>1. ASSUME NEW c \in Keys, Key(c) PROVE IInv'
  BY <1>1, EnterInv, BackspaceInv, PrintableInv DEF Key
<1>2. CASE UNCHANGED vars
  BY <1>2 DEF vars, IInv, TypeOK, Terminated, ScreenIsBuffer
<1> QED  BY <1>1, <1>2 DEF Next

\* The line is well formed after every key, for every length of the buffer.
THEOREM ShellInv == Spec => []IInv
BY ShellInit, ShellNextInv, PTL DEF Spec

\* cmd_buffer and argv keep their types, argv with room for its NULL: shell_parse_cmd
\* (shell.c) never fills the last of its SHELL_MAX_ARGS places.
THEOREM ShellTypeOK == Spec => []TypeOK
<1>1. IInv => TypeOK  BY DEF IInv
<1> QED  BY <1>1, ShellInv, PTL

\* The string in cmd_buffer ends inside it, with nothing behind its end, so that
\* strlen and the parser's pointer never leave it.
THEOREM ShellTerminated == Spec => []Terminated
<1>1. IInv => Terminated  BY DEF IInv
<1> QED  BY <1>1, ShellInv, PTL

\* What shell_main has echoed is what it has in cmd_buffer.
THEOREM ShellScreenIsBuffer == Spec => []ScreenIsBuffer
<1>1. IInv => ScreenIsBuffer  BY DEF IInv
<1> QED  BY <1>1, ShellInv, PTL

-----------------------------------------------------------------------------
(* The words of a line *)

\* Where the words of a line start, in terms of the buffer.
LEMMA StartsIs ==
  ASSUME NEW b, NEW n, IsLine(b, n)
  PROVE  \A k : k \in LE!Starts(Text(b, n)) <=>
                  k \in 1 .. n /\ b[k - 1] \notin Blank /\ (k = 1 \/ b[k - 2] \in Blank)
<1> DEFINE l == Text(b, n)
<1>0. n \in Nat  BY ShellFacts DEF IsLine, Cells
<1>1. Len(l) = n /\ DOMAIN l = 1 .. n /\ \A k \in 1 .. n : l[k] = b[k - 1]  BY TextIs
<1> HIDE DEF l
<1>2. ASSUME NEW k \in 1 .. n PROVE LE!IsBlank(l, k) <=> b[k - 1] \in Blank
  BY <1>0, <1>1 DEF LE!IsBlank
<1>3. ASSUME NEW k \in 1 .. n PROVE LE!IsBlank(l, k - 1) <=> k = 1 \/ b[k - 2] \in Blank
  <2>1. CASE k = 1  BY <2>1 DEF LE!IsBlank
  <2>2. CASE k # 1
    <3>1. k - 1 \in 1 .. n /\ (k - 1) - 1 = k - 2  BY <1>0, <2>2
    <3> QED  BY <1>2, <2>2, <3>1
  <2> QED  BY <2>1, <2>2
<1>4. \A k : k \in LE!Starts(l) <=> k \in 1 .. n /\ ~LE!IsBlank(l, k) /\ LE!IsBlank(l, k - 1)
  BY <1>1 DEF LE!Starts
<1>5. \A k : k \in LE!Starts(l) <=>
               k \in 1 .. n /\ b[k - 1] \notin Blank /\ (k = 1 \/ b[k - 2] \in Blank)
  BY <1>2, <1>3, <1>4
<1> QED  BY <1>5 DEF l

LEMMA StartsFinite ==
  ASSUME NEW b, NEW n, IsLine(b, n)
  PROVE  LET S == LE!Starts(Text(b, n))
         IN  /\ S \subseteq 1 .. n /\ IsFiniteSet(S) /\ Cardinality(S) \in Nat
             /\ \A k : LE!StartsUpTo(Text(b, n), k) = {j \in S : j <= k}
             /\ \A k : /\ IsFiniteSet({j \in S : j <= k})
                       /\ Cardinality({j \in S : j <= k}) \in Nat
                       /\ Cardinality({j \in S : j <= k}) <= Cardinality(S)
<1> DEFINE S == LE!Starts(Text(b, n))
<1>0. n \in Nat  BY ShellFacts DEF IsLine, Cells
<1>1. S \subseteq 1 .. n  BY StartsIs
<1>2. IsFiniteSet(1 .. n)  BY <1>0, FS_Interval
<1>3. IsFiniteSet(S)  BY <1>1, <1>2, FS_Subset
<1> HIDE DEF S
<1>4. Cardinality(S) \in Nat  BY <1>3, FS_CardinalityType
<1>5. ASSUME NEW k
      PROVE  /\ IsFiniteSet({j \in S : j <= k}) /\ Cardinality({j \in S : j <= k}) \in Nat
             /\ Cardinality({j \in S : j <= k}) <= Cardinality(S)
  <2>1. {j \in S : j <= k} \in SUBSET S  OBVIOUS
  <2>2. IsFiniteSet({j \in S : j <= k}) /\ Cardinality({j \in S : j <= k}) <= Cardinality(S)
    BY <1>3, <2>1, FS_Subset
  <2> QED  BY <2>2, FS_CardinalityType
<1>6. \A k : LE!StartsUpTo(Text(b, n), k) = {j \in S : j <= k}  BY DEF LE!StartsUpTo, S
<1> QED  BY <1>1, <1>3, <1>4, <1>5, <1>6 DEF S

\* From the start of a word the loop comes to the next start, or to the end of the line.
LEMMA NextStart ==
  ASSUME NEW b, NEW n, IsLine(b, n), NEW s \in 0 .. n, s # n, b[s] \notin Blank
  PROVE  LET t == SkipBlanks(b, PastWord(b, s))
         IN  /\ t \in s + 1 .. n
             /\ t # n => t + 1 \in LE!Starts(Text(b, n))
             /\ \A j \in LE!Starts(Text(b, n)) : j <= s + 1 \/ j >= t + 1
<1> DEFINE e == WordEnd(b, s)
           q == PastWord(b, s)
           t == SkipBlanks(b, q)
           S == LE!Starts(Text(b, n))
<1>0. n \in Nat /\ s \in Nat  BY ShellFacts DEF IsLine, Cells
<1>1. /\ e \in s .. n
      /\ \A k \in s .. e - 1 : b[k] \in Char \ Blank
      /\ IF e = n THEN b[e] = NUL ELSE b[e] \in Blank
      /\ q = IF e = n THEN n ELSE e + 1
  BY WordEndIs
<1> HIDE DEF e, q
<1>2. e # s  BY <1>1
<1>3. q \in s + 1 .. n /\ q \in 0 .. n  BY <1>0, <1>1, <1>2
<1>4. t \in q .. n /\ b[t] \notin Blank /\ \A k \in q .. t - 1 : b[k] \in Blank
  BY <1>3, SkipBlanksIs
<1>5. \A k : k \in S <=> k \in 1 .. n /\ b[k - 1] \notin Blank /\ (k = 1 \/ b[k - 2] \in Blank)
  BY StartsIs
<1> HIDE DEF t, S
<1>6. t \in s + 1 .. n  BY <1>0, <1>3, <1>4
<1>7. ASSUME t # n PROVE t + 1 \in S
  <2>1. e # n  BY <1>0, <1>1, <1>4, <1>7
  <2>2. b[e] \in Blank /\ q = e + 1  BY <1>1, <2>1
  <2>3. t - 1 = e \/ t - 1 \in q .. t - 1  BY <1>0, <1>1, <1>4, <2>2
  <2>4. b[t - 1] \in Blank  BY <1>4, <2>2, <2>3
  <2>5. t + 1 \in 1 .. n /\ (t + 1) - 1 = t /\ (t + 1) - 2 = t - 1  BY <1>0, <1>6, <1>7
  <2> QED  BY <1>4, <1>5, <2>4, <2>5
<1>8. ASSUME NEW j \in S, ~(j <= s + 1), ~(j >= t + 1) PROVE FALSE
  <2>1. j \in 1 .. n /\ b[j - 1] \notin Blank /\ (j = 1 \/ b[j - 2] \in Blank)  BY <1>5
  <2>2. j - 1 \in s + 1 .. t - 1 /\ j # 1  BY <1>0, <1>6, <1>8, <2>1
  <2>3. CASE j - 1 < e
    <3>1. j - 2 \in s .. e - 1  BY <1>0, <1>1, <2>1, <2>2, <2>3
    <3> QED  BY <1>1, <2>1, <2>2, <3>1
  <2>4. CASE j - 1 = e
    <3>1. e # n  BY <1>0, <1>6, <2>2, <2>4
    <3> QED  BY <1>1, <2>1, <2>4, <3>1
  <2>5. CASE j - 1 > e
    <3>1. e # n  BY <1>0, <1>6, <2>2, <2>5
    <3>2. j - 1 \in q .. t - 1  BY <1>0, <1>1, <2>2, <2>5, <3>1
    <3> QED  BY <1>4, <2>1, <3>2
  <2> QED  BY <1>0, <1>1, <2>1, <2>3, <2>4, <2>5
<1>9. \A j \in S : j <= s + 1 \/ j >= t + 1  BY <1>8
<1> QED  BY <1>6, <1>7, <1>9 DEF t, q, S

\* The i-th round of the loop is at the i-th start, or the line has only i words.
LEMMA StartsCounted ==
  ASSUME NEW b, NEW n, IsLine(b, n), NEW m \in Nat, NEW f, StartFun(b, m, f)
  PROVE  LET S == LE!Starts(Text(b, n))
         IN  \A i \in 0 .. m :
               /\ f[i] # n => f[i] + 1 \in S /\ Cardinality({j \in S : j <= f[i] + 1}) = i + 1
               /\ f[i] = n /\ (i = 0 \/ f[i - 1] # n) => Cardinality(S) = i
<1> DEFINE S == LE!Starts(Text(b, n))
           Up(k) == {j \in S : j <= k}
           P == {i \in Nat :
                   /\ f[i] # n => f[i] + 1 \in S /\ Cardinality(Up(f[i] + 1)) = i + 1
                   /\ f[i] = n /\ (i = 0 \/ f[i - 1] # n) => Cardinality(S) = i}
<1>0. n \in Nat /\ 0 \in 0 .. n  BY ShellFacts DEF IsLine, Cells
<1>1. \A k : k \in S <=> k \in 1 .. n /\ b[k - 1] \notin Blank /\ (k = 1 \/ b[k - 2] \in Blank)
  BY StartsIs
<1>2. S \subseteq 1 .. n /\ IsFiniteSet(S) /\ \A k : IsFiniteSet(Up(k))  BY StartsFinite
<1>3. \A i \in 0 .. m : f[i] \in 0 .. n /\ b[f[i]] \notin Blank  BY StartInLine
<1>4. 0 \in P
  <2> DEFINE t == SkipBlanks(b, 0)
  <2>1. f[0] = t  BY StartStep
  <2>2. t \in 0 .. n /\ b[t] \notin Blank /\ \A k \in 0 .. t - 1 : b[k] \in Blank
    BY <1>0, SkipBlanksIs
  <2> HIDE DEF t, S
  <2>3. ASSUME NEW j \in S PROVE j >= t + 1
    <3>1. j \in 1 .. n /\ b[j - 1] \notin Blank  BY <1>1
    <3>2. ~(j - 1 \in 0 .. t - 1)  BY <2>2, <3>1
    <3> QED  BY <1>0, <2>2, <3>1, <3>2
  <2>4. CASE t = n
    <3>1. S = {}
      <4> SUFFICES ASSUME NEW j \in S PROVE FALSE  OBVIOUS
      <4>1. j \in 1 .. n /\ j >= n + 1  BY <1>2, <2>3, <2>4
      <4> QED  BY <1>0, <4>1
    <3>2. Cardinality(S) = 0  BY <3>1, FS_EmptySet
    <3> QED  BY <2>1, <2>4, <3>2
  <2>5. CASE t # n
    <3>1. t + 1 \in 1 .. n /\ (t + 1) - 1 = t /\ (t + 1) - 2 = t - 1  BY <1>0, <2>2, <2>5
    <3>2. t + 1 = 1 \/ t - 1 \in 0 .. t - 1  BY <1>0, <2>2
    <3>3. t + 1 \in S  BY <1>1, <2>2, <3>1, <3>2
    <3>4. Up(t + 1) = {t + 1}
      <4>1. \A j \in Up(t + 1) : j = t + 1
        <5> SUFFICES ASSUME NEW j \in S, j <= t + 1 PROVE j = t + 1  OBVIOUS
        <5>1. j \in 1 .. n /\ j >= t + 1  BY <1>2, <2>3
        <5> QED  BY <1>0, <2>2, <5>1
      <4>2. t + 1 \in Up(t + 1)  BY <2>2, <3>3
      <4> QED  BY <4>1, <4>2
    <3>5. Cardinality(Up(t + 1)) = 1  BY <3>4, FS_Singleton
    <3> QED  BY <2>1, <2>5, <3>3, <3>5
  <2> QED  BY <2>4, <2>5
<1>5. ASSUME NEW i \in Nat, i \in P, i < m PROVE i + 1 \in P
  <2> DEFINE s == f[i]
             t == SkipBlanks(b, PastWord(b, s))
  <2>0. i \in 0 .. m /\ i # m /\ (i + 1) - 1 = i /\ i + 1 # 0 /\ (i + 1) + 1 = i + 2  BY <1>5
  <2>1. f[i + 1] = t  BY <2>0, StartStep
  <2>2. s \in 0 .. n /\ b[s] \notin Blank  BY <1>3, <2>0
  <2>3. CASE s = n
    <3>1. t = n
      <4>1. WordEnd(b, s) \in s .. n /\ PastWord(b, s) = IF WordEnd(b, s) = n THEN n ELSE WordEnd(b, s) + 1
        BY <2>2, WordEndIs
      <4>2. WordEnd(b, s) = n  BY <1>0, <2>3, <4>1
      <4>3. PastWord(b, s) = n /\ n \in 0 .. n  BY <1>0, <4>1, <4>2
      <4>4. SkipBlanks(b, n) \in n .. n  BY <4>3, SkipBlanksIs
      <4> QED  BY <1>0, <4>3, <4>4
    <3> HIDE DEF t
    <3> QED  BY <2>0, <2>1, <2>3, <3>1
  <2>4. CASE s # n
    <3>1. /\ t \in s + 1 .. n
          /\ t # n => t + 1 \in S
          /\ \A j \in S : j <= s + 1 \/ j >= t + 1
      BY <2>2, <2>4, NextStart
    <3>2. s + 1 \in S /\ Cardinality(Up(s + 1)) = i + 1  BY <1>5, <2>4
    <3> HIDE DEF t, s, S
    <3>3. CASE t = n
      <4>1. Up(s + 1) = S
        <5> SUFFICES ASSUME NEW j \in S PROVE j <= s + 1  OBVIOUS
        <5>1. j \in 1 .. n  BY <1>2
        <5> QED  BY <1>0, <2>2, <3>1, <3>3, <5>1
      <4>2. Cardinality(S) = i + 1  BY <3>2, <4>1
      <4> QED  BY <2>0, <2>1, <3>3, <4>2
    <3>4. CASE t # n
      <4>1. Up(t + 1) = Up(s + 1) \union {t + 1}
        <5>1. ASSUME NEW j \in S PROVE j <= t + 1 <=> j <= s + 1 \/ j = t + 1
          <6>1. j \in 1 .. n /\ (j <= s + 1 \/ j >= t + 1)  BY <1>2, <3>1
          <6> QED  BY <1>0, <2>2, <3>1, <6>1
        <5> QED  BY <3>1, <3>4, <5>1
      <4>2. t + 1 \notin Up(s + 1)  BY <1>0, <2>2, <3>1
      <4>3. Cardinality(Up(t + 1)) = Cardinality(Up(s + 1)) + 1
        BY <1>2, <4>1, <4>2, FS_AddElement
      <4>4. Cardinality(Up(t + 1)) = (i + 1) + 1  BY <3>2, <4>3
      <4> QED  BY <2>0, <2>1, <3>1, <3>4, <4>4
    <3> QED  BY <3>3, <3>4
  <2> QED  BY <2>3, <2>4
<1>6. 0 .. m \subseteq P
  <2> HIDE DEF P
  <2> QED  BY <1>4, <1>5, CountUp
<1> QED  BY <1>6

\* The word at a start is what WordEnd delimits.
LEMMA WordIs ==
  ASSUME NEW b, NEW n, IsLine(b, n), NEW s \in 0 .. n, s # n, b[s] \notin Blank
  PROVE  LE!WordAt(Text(b, n), s + 1) = [k \in 1 .. WordEnd(b, s) - s |-> b[s + k - 1]]
<1> DEFINE e == WordEnd(b, s)
           l == Text(b, n)
           W == {SubSeq(l, s + 1, x) : x \in s + 1 .. Len(l)}
           word == [k \in 1 .. e - s |-> b[s + k - 1]]
           Good(w) == (\A c \in LE!ToSet(w) : c \notin Blank) /\ LE!IsBlank(l, s + 1 + Len(w))
<1>0. n \in Nat /\ s \in Nat  BY ShellFacts DEF IsLine, Cells
<1>1. /\ e \in s .. n
      /\ \A k \in s .. e - 1 : b[k] \in Char \ Blank
      /\ IF e = n THEN b[e] = NUL ELSE b[e] \in Blank
  BY WordEndIs
<1>2. /\ l \in Seq(Char) /\ Len(l) = n
      /\ \A k \in 1 .. n : l[k] = b[k - 1]
  BY TextIs
<1>3. LE!WordAt(l, s + 1) = CHOOSE w \in W : Good(w)  BY DEF LE!WordAt
<1> HIDE DEF e, l
<1>4. e \in s + 1 .. n  BY <1>0, <1>1
<1>5. ASSUME NEW x \in s + 1 .. n
      PROVE  /\ SubSeq(l, s + 1, x) = [k \in 1 .. x - s |-> b[s + k - 1]]
             /\ Len(SubSeq(l, s + 1, x)) = x - s
             /\ Good(SubSeq(l, s + 1, x)) <=> x = e
  <2> DEFINE w == SubSeq(l, s + 1, x)
  <2>1. s + 1 \in 1 .. n + 1 /\ x \in 0 .. n /\ x - (s + 1) + 1 = x - s /\ x - s \in Nat
        /\ s + 1 <= x + 1
    BY <1>0
  <2>2. Len(w) = x - s /\ w \in Seq(Char) /\ \A k \in 1 .. x - s : w[k] = l[s + 1 + k - 1]
    BY <1>2, <2>1, SubSeqProperties
  <2>3. ASSUME NEW k \in 1 .. x - s PROVE w[k] = b[s + k - 1]
    <3>1. s + 1 + k - 1 \in 1 .. n /\ (s + 1 + k - 1) - 1 = s + k - 1  BY <1>0
    <3> QED  BY <1>2, <2>2, <3>1
  <2> HIDE DEF w
  <2>4. w = [k \in 1 .. x - s |-> w[k]]  BY <2>2
  <2>5. w = [k \in 1 .. x - s |-> b[s + k - 1]]  BY <2>3, <2>4
  <2>6. DOMAIN w = 1 .. x - s  BY <2>2
  <2>7. ASSUME x = e PROVE Good(w)
    <3>1. ASSUME NEW k \in 1 .. x - s PROVE w[k] \notin Blank
      <4>1. s + k - 1 \in s .. e - 1  BY <1>0, <1>4, <2>7
      <4> QED  BY <1>1, <2>3, <4>1
    <3>2. \A c \in LE!ToSet(w) : c \notin Blank  BY <2>6, <3>1 DEF LE!ToSet
    <3>3. s + 1 + Len(w) = e + 1  BY <1>0, <1>4, <2>2, <2>7
    <3>4. LE!IsBlank(l, e + 1)
      <4>1. CASE e = n  BY <1>0, <1>2, <4>1 DEF LE!IsBlank
      <4>2. CASE e # n
        <5>1. e + 1 \in 1 .. n /\ (e + 1) - 1 = e  BY <1>0, <1>4, <4>2
        <5>2. l[e + 1] \in Blank  BY <1>1, <1>2, <4>2, <5>1
        <5> QED  BY <5>2 DEF LE!IsBlank
      <4> QED  BY <4>1, <4>2
    <3> QED  BY <3>2, <3>3, <3>4
  <2>8. ASSUME Good(w), x < e PROVE FALSE
    <3>1. s + 1 + Len(w) = x + 1 /\ x + 1 \in 1 .. n  BY <1>0, <1>4, <2>2, <2>8
    <3>2. l[x + 1] \in Blank  BY <1>0, <1>2, <2>8, <3>1 DEF LE!IsBlank
    <3>3. x \in s .. e - 1 /\ (x + 1) - 1 = x  BY <1>0, <1>4, <2>8
    <3> QED  BY <1>1, <1>2, <3>1, <3>2, <3>3
  <2>9. ASSUME Good(w), e < x PROVE FALSE
    <3>1. e + 1 - s \in 1 .. x - s /\ s + (e + 1 - s) - 1 = e /\ e # n  BY <1>0, <1>4, <2>9
    <3>2. w[e + 1 - s] = b[e]  BY <2>3, <3>1
    <3>3. w[e + 1 - s] \in LE!ToSet(w)  BY <2>6, <3>1 DEF LE!ToSet
    <3> QED  BY <1>1, <2>9, <3>1, <3>2, <3>3
  <2>10. x = e \/ x < e \/ e < x  BY <1>0, <1>4
  <2>11. Good(w) <=> x = e
    <3> HIDE DEF Good
    <3> QED  BY <2>7, <2>8, <2>9, <2>10
  <2> QED  BY <2>2, <2>5, <2>11 DEF w
<1>6. SubSeq(l, s + 1, e) = word /\ Good(SubSeq(l, s + 1, e)) /\ SubSeq(l, s + 1, e) \in W
  BY <1>2, <1>4, <1>5
<1>7. ASSUME NEW w \in W, Good(w) PROVE w = word
  <2>1. PICK x \in s + 1 .. n : w = SubSeq(l, s + 1, x)  BY <1>2
  <2>2. Good(SubSeq(l, s + 1, x))  BY <1>7, <2>1
  <2>3. x = e
    <3> HIDE DEF Good
    <3> QED  BY <1>5, <2>2
  <2> QED  BY <1>6, <2>1, <2>3
<1>8. (CHOOSE w \in W : Good(w)) = word
  <2> HIDE DEF W, Good, word
  <2> QED  BY <1>6, <1>7
<1> QED  BY <1>3, <1>8 DEF e, l

LEMMA SameCardinality == \A T : LE!Cardinality(T) = Cardinality(T)
BY DEF LE!Cardinality, Cardinality

\* shell_parse_cmd cuts the line into its words, and keeps as many as argv has room for.
LEMMA ParsedWords ==
  ASSUME NEW b, NEW n, IsLine(b, n)
  PROVE  LET W == LE!Words(Text(b, n))
             max == SHELL_MAX_ARGS - 1
         IN  /\ shell_parse_cmd(b) = <<>> <=> W = <<>>
             /\ shell_parse_cmd(b) = SubSeq(W, 1, IF Len(W) > max THEN max ELSE Len(W))
<1> DEFINE l == Text(b, n)
           W == LE!Words(l)
           max == SHELL_MAX_ARGS - 1
           S == LE!Starts(l)
           Up(k) == {j \in S : j <= k}
           f == CHOOSE g : StartFun(b, max, g)
           a == Argc(b, f)
           at(i) == CHOOSE k \in S : LE!Cardinality(LE!StartsUpTo(l, k)) = i
           word(i) == [k \in 1 .. WordEnd(b, f[i - 1]) - f[i - 1] |-> b[f[i - 1] + k - 1]]
<1>0. max \in Nat /\ max >= 1 /\ n \in Nat /\ NUL \notin Char
  BY ShellFacts DEF IsLine, Cells
<1>1. StartFun(b, max, f)
  <2>1. \E g : StartFun(b, max, g)  BY <1>0, StartExists
  <2> QED  BY <2>1
<1>2. shell_parse_cmd(b) = Parsed(b, f)  BY ParseIs
<1>3. W = [i \in 1 .. Cardinality(S) |-> LE!WordAt(l, at(i))]
  <2>1. W = [i \in 1 .. LE!Cardinality(S) |-> LE!WordAt(l, at(i))]  BY DEF LE!Words
  <2> HIDE DEF W, at, S, l
  <2> QED  BY <2>1, SameCardinality
<1> HIDE DEF f
<1>4. Parsed(b, f) = [i \in 1 .. a |-> word(i)]  BY DEF Parsed
<1>5. /\ S \subseteq 1 .. n /\ IsFiniteSet(S) /\ Cardinality(S) \in Nat
      /\ \A k : LE!StartsUpTo(l, k) = Up(k)
      /\ \A k : /\ IsFiniteSet(Up(k)) /\ Cardinality(Up(k)) \in Nat
                /\ Cardinality(Up(k)) <= Cardinality(S)
  BY StartsFinite
<1>6. \A i \in 0 .. max : f[i] \in 0 .. n /\ b[f[i]] \notin Blank  BY <1>0, <1>1, StartInLine
<1>7. /\ a \in 0 .. max
      /\ \A i \in 0 .. a - 1 : b[f[i]] # NUL
      /\ a # max => b[f[a]] = NUL
  BY ArgcIs
<1>8. \A i \in 0 .. max :
        /\ f[i] # n => f[i] + 1 \in S /\ Cardinality(Up(f[i] + 1)) = i + 1
        /\ f[i] = n /\ (i = 0 \/ f[i - 1] # n) => Cardinality(S) = i
  BY <1>0, <1>1, StartsCounted
<1> DEFINE C == Cardinality(S)
<1>9. \A i \in 0 .. max : b[f[i]] = NUL <=> f[i] = n
  <2> SUFFICES ASSUME NEW i \in 0 .. max PROVE b[f[i]] = NUL <=> f[i] = n  OBVIOUS
  <2>1. f[i] \in Cells /\ f[i] \in 0 .. n  BY <1>0, <1>6, ShellFacts DEF IsLine, Cells
  <2>2. f[i] = n \/ f[i] < n  BY <1>0, <2>1
  <2>3. ~(n < n)  BY <1>0
  <2> QED  BY <1>0, <2>1, <2>2, <2>3 DEF IsLine
<1> HIDE DEF S, a, l, W, max, word, at
<1>10. \A i \in 1 .. a : i - 1 \in 0 .. max /\ f[i - 1] # n
  <2> SUFFICES ASSUME NEW i \in 1 .. a PROVE i - 1 \in 0 .. max /\ f[i - 1] # n  OBVIOUS
  <2>1. i - 1 \in 0 .. max /\ i - 1 \in 0 .. a - 1  BY <1>0, <1>7
  <2> QED  BY <1>7, <1>9, <2>1
<1>11. a = IF C > max THEN max ELSE C
  <2>1. a # max => C = a
    <3> SUFFICES ASSUME a # max PROVE C = a  OBVIOUS
    <3>1. f[a] = n  BY <1>7, <1>9
    <3>2. a = 0 \/ a \in 1 .. a  BY <1>0, <1>7
    <3>3. a = 0 \/ f[a - 1] # n  BY <1>10, <3>2
    <3> QED  BY <1>7, <1>8, <3>1, <3>3
  <2>2. a <= C
    <3>1. CASE a = 0  BY <1>5, <3>1
    <3>2. CASE a # 0
      <4>1. a \in 1 .. a /\ (a - 1) + 1 = a  BY <1>0, <1>7, <3>2
      <4>2. a - 1 \in 0 .. max /\ f[a - 1] # n  BY <1>10, <4>1
      <4>3. Cardinality(Up(f[a - 1] + 1)) = a  BY <1>8, <4>1, <4>2
      <4> QED  BY <1>5, <4>3
    <3> QED  BY <3>1, <3>2
  <2> HIDE DEF C
  <2>3. C \in Nat  BY <1>5 DEF C
  <2> QED  BY <1>0, <1>7, <2>1, <2>2, <2>3
<1>12. ASSUME NEW i \in 1 .. a PROVE LE!WordAt(l, at(i)) = word(i)
  <2> DEFINE k == f[i - 1] + 1
  <2>1. i - 1 \in 0 .. max /\ f[i - 1] # n /\ (i - 1) + 1 = i  BY <1>0, <1>7, <1>10
  <2>2. k \in S /\ Cardinality(Up(k)) = i  BY <1>8, <2>1
  <2> HIDE DEF k
  <2>3. ASSUME NEW x \in S, NEW y \in S, Cardinality(Up(x)) = Cardinality(Up(y)), x < y PROVE FALSE
    <3>1. x \in Nat /\ y \in Nat  BY <1>0, <1>5
    <3>2. Up(x) \in SUBSET Up(y)
      <4> SUFFICES ASSUME NEW j \in S, j <= x PROVE j <= y  OBVIOUS
      <4>1. j \in Nat  BY <1>0, <1>5
      <4> QED  BY <2>3, <3>1, <4>1
    <3>3. Up(y) = Up(x)  BY <1>5, <2>3, <3>2, FS_Subset
    <3>4. y \in Up(y) /\ y \notin Up(x)  BY <2>3, <3>1
    <3> QED  BY <3>3, <3>4
  <2>4. ASSUME NEW x \in S, Cardinality(Up(x)) = i PROVE x = k
    <3>1. ~(x < k) /\ ~(k < x)  BY <2>2, <2>3, <2>4
    <3>2. x \in Nat /\ k \in Nat  BY <1>0, <1>5, <2>2
    <3> QED  BY <3>1, <3>2
  <2>5. at(i) = k
    <3>1. \A x : LE!Cardinality(LE!StartsUpTo(l, x)) = Cardinality(Up(x))
      BY <1>5, SameCardinality
    <3>2. LE!Cardinality(LE!StartsUpTo(l, k)) = i  BY <2>2, <3>1
    <3>3. at(i) \in S /\ LE!Cardinality(LE!StartsUpTo(l, at(i))) = i  BY <2>2, <3>2 DEF at
    <3> HIDE DEF Up
    <3> QED  BY <2>4, <3>1, <3>3
  <2>6. LE!WordAt(l, f[i - 1] + 1) = word(i)
    BY <1>6, <2>1, WordIs DEF l, word
  <2> QED  BY <2>5, <2>6 DEF k
<1>13. Len(W) = C /\ DOMAIN W = 1 .. C
  BY <1>3, <1>5
<1>14. shell_parse_cmd(b) = SubSeq(W, 1, a)
  <2>1. SubSeq(W, 1, a) = [i \in 1 .. a |-> W[i]]
    BY <1>0, <1>7
  <2>2. a <= C /\ C \in Nat /\ a \in Nat
    <3> HIDE DEF C
    <3>1. C \in Nat  BY <1>5 DEF C
    <3> QED  BY <1>0, <1>7, <1>11, <3>1
  <2>3. ASSUME NEW i \in 1 .. a PROVE W[i] = word(i)
    <3>1. i \in 1 .. C
      <4> HIDE DEF C
      <4> QED  BY <2>2
    <3> QED  BY <1>3, <1>12, <3>1
  <2> QED  BY <1>2, <1>4, <2>1, <2>3
<1>15. shell_parse_cmd(b) = <<>> <=> W = <<>>
  <2>1. shell_parse_cmd(b) = <<>> <=> a = 0
    <3>1. shell_parse_cmd(b) = [i \in 1 .. a |-> word(i)] /\ a \in Nat  BY <1>0, <1>2, <1>4, <1>7
    <3>2. Len(shell_parse_cmd(b)) = a  BY <3>1
    <3>3. a = 0 => [i \in 1 .. a |-> word(i)] = <<>>  OBVIOUS
    <3> QED  BY <3>1, <3>2, <3>3
  <2>2. W = <<>> <=> C = 0
    <3>1. C = 0 => W = <<>>  BY <1>3
    <3> QED  BY <1>13, <3>1
  <2>3. a = 0 <=> C = 0
    <3> HIDE DEF C
    <3>1. C \in Nat  BY <1>5 DEF C
    <3> QED  BY <1>0, <1>11, <3>1
  <2> QED  BY <2>1, <2>2, <2>3
<1>16. shell_parse_cmd(b) = SubSeq(W, 1, IF Len(W) > max THEN max ELSE Len(W))
  BY <1>11, <1>13, <1>14
<1> QED  BY <1>15, <1>16 DEF W, l, max

-----------------------------------------------------------------------------
(* The shell is a line editor *)

\* Keys that edit the line are steps of the editor, or change nothing.
LEMMA BackspaceErases == ASSUME IInv, Backspace PROVE LE!LErase \/ UNCHANGED LE!lvars
<1> DEFINE n == strlen(cmd_buffer)
<1>0. IsLine(cmd_buffer, n) /\ screen = Text(cmd_buffer, n)  BY LineNow
<1>1. UNCHANGED <<argv, ran>>
      /\ IF n = 0 THEN UNCHANGED <<cmd_buffer, screen>>
         ELSE cmd_buffer' = [cmd_buffer EXCEPT ![n - 1] = NUL] /\ screen' = Front(screen)
  BY DEF Backspace
<1>2. screen \in Seq(Char) /\ Len(screen) = n  BY <1>0, TextIs
<1> HIDE DEF n
<1>3. CASE n = 0  BY <1>1, <1>3 DEF LE!lvars
<1>4. CASE n # 0
  <2>1. screen # <<>>  BY <1>2, <1>4
  <2>2. screen' = LE!Front(screen)  BY <1>1, <1>4 DEF Front, LE!Front
  <2> QED  BY <1>1, <2>1, <2>2 DEF LE!LErase
<1> QED  BY <1>3, <1>4

LEMMA PrintableTypes ==
  ASSUME IInv, NEW c \in Char, Printable(c) PROVE LE!LType(c) \/ UNCHANGED LE!lvars
<1> DEFINE n == strlen(cmd_buffer)
<1>0. IsLine(cmd_buffer, n) /\ screen = Text(cmd_buffer, n)  BY LineNow
<1>1. UNCHANGED <<argv, ran>>
      /\ IF n >= SHELL_MAX_CMD_LEN - 1 THEN UNCHANGED <<cmd_buffer, screen>>
         ELSE cmd_buffer' = [cmd_buffer EXCEPT ![n] = c, ![n + 1] = NUL]
              /\ screen' = Append(screen, c)
  BY DEF Printable
<1>2. /\ Len(screen) = n /\ n \in Nat /\ SHELL_MAX_CMD_LEN \in Nat
  BY <1>0, TextIs, ShellFacts DEF IsLine, Cells
<1> HIDE DEF n
<1>3. CASE n >= SHELL_MAX_CMD_LEN - 1  BY <1>1, <1>3 DEF LE!lvars
<1>4. CASE ~(n >= SHELL_MAX_CMD_LEN - 1)
  <2>1. Len(screen) < SHELL_MAX_CMD_LEN - 1  BY <1>2, <1>4
  <2> QED  BY <1>1, <1>4, <2>1 DEF LE!LType
<1> QED  BY <1>3, <1>4

LEMMA EnterRuns == ASSUME IInv, Enter PROVE LE!LEnter
<1> DEFINE n == strlen(cmd_buffer)
           args == shell_parse_cmd(cmd_buffer)
           W == LE!Words(screen)
           max == SHELL_MAX_ARGS - 1
<1>0. IsLine(cmd_buffer, n) /\ screen = Text(cmd_buffer, n)  BY LineNow
<1>1. /\ args = <<>> <=> W = <<>>
      /\ args = SubSeq(W, 1, IF Len(W) > max THEN max ELSE Len(W))
  BY <1>0, ParsedWords
<1>2. argv' = (IF args = <<>> THEN argv ELSE args) /\ screen' = <<>>  BY DEF Enter
<1> HIDE DEF args
<1>3. argv' = IF W = <<>> THEN argv
              ELSE SubSeq(W, 1, IF Len(W) > max THEN max ELSE Len(W))
  BY <1>1, <1>2
<1> QED  BY <1>2, <1>3 DEF LE!LEnter

\* The shell implements the line editor: for every sequence of keys, what runs is what
\* is on the screen, cut into its words by a definition that knows nothing of cells,
\* pointers and NULs (shell_main and shell_parse_cmd, shell.c).
THEOREM ShellIsLineEditor == Spec => IsLineEditor
<1>1. Init => LE!LInit  BY DEF Init, LE!LInit
<1>2. IInv /\ [Next]_vars => [LE!LNext]_(LE!lvars)
  <2> SUFFICES ASSUME IInv, [Next]_vars PROVE LE!LNext \/ UNCHANGED LE!lvars  OBVIOUS
  <2>1. ASSUME NEW c \in Keys, Key(c) PROVE LE!LNext \/ UNCHANGED LE!lvars
    <3>1. CASE Enter  BY <3>1, EnterRuns DEF LE!LNext
    <3>2. CASE Backspace  BY <3>2, BackspaceErases DEF LE!LNext
    <3>3. CASE c \in Char /\ Printable(c)  BY <3>3, PrintableTypes DEF LE!LNext
    <3> QED  BY <2>1, <3>1, <3>2, <3>3 DEF Key
  <2>2. CASE UNCHANGED vars  BY <2>2 DEF vars, LE!lvars
  <2> QED  BY <2>1, <2>2 DEF Next
<1> QED  BY <1>1, <1>2, ShellInv, PTL DEF Spec, IsLineEditor, LE!LSpec
=============================================================================
