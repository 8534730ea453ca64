------------------------------ MODULE Keyboard ------------------------------
(***************************************************************************)
(* The PS/2 keyboard driver (kernel/src/keyboard.c): the interrupt handler *)
(* turns scancodes into characters and puts them in a ring that            *)
(* keyboard_get_key empties.  The handler runs with interrupts masked, so  *)
(* it is one step; it may come between any two steps of keyboard_get_key.  *)
(* With no scancode waiting (status bit clear) it returns at once: a       *)
(* stuttering step.                                                        *)
(***************************************************************************)
EXTENDS Integers, FiniteSets, Sequences, TLC

CONSTANTS
  KEYBOARD_BUFFER_SIZE,
  Keys,     \* the make codes of the keys that are used
  MAX_DOWN  \* bound: keys held at the same time

KEY_NONE == "none"
KEY_LCTRL == 29
KEY_LSHIFT == 42
KEY_RSHIFT == 54
KEY_LALT == 56
KEY_CAPSLOCK == 58
Modifiers == {KEY_LCTRL, KEY_LSHIFT, KEY_RSHIFT, KEY_LALT, KEY_CAPSLOCK}

\* The tables, for the keys in TableKeys; "none" is the entry 0.  From '\b' on
\* the shifted one has every entry one place too low.
TableKeys == {14, 15, 16, 17, 28} \union Modifiers
scancode_to_ascii ==
  14 :> "\\b" @@ 15 :> "\\t" @@ 16 :> "q" @@ 17 :> "w" @@ 28 :> "\\n" @@
  [k \in Modifiers |-> KEY_NONE]
scancode_to_ascii_shift ==
  14 :> "\\t" @@ 15 :> "Q" @@ 16 :> "W" @@ 17 :> "E" @@ 28 :> KEY_NONE @@
  KEY_LCTRL :> "A" @@ KEY_LSHIFT :> "|" @@ KEY_RSHIFT :> "*" @@ KEY_LALT :> " " @@
  KEY_CAPSLOCK :> KEY_NONE
Char == {t[k] : t \in {scancode_to_ascii, scancode_to_ascii_shift}, k \in Keys} \ {KEY_NONE}

ASSUME KeyboardConstants ==
  /\ KEYBOARD_BUFFER_SIZE \in Nat \ {0}
  /\ Keys \subseteq TableKeys
  /\ MAX_DOWN \in Nat

VARIABLES
  key_buffer, buffer_head, buffer_tail,  \* the ring
  shift_pressed, caps_lock, ctrl_pressed, alt_pressed,
  pc, key,  \* of the task in keyboard_get_key
  ret,      \* what keyboard_get_key returned last
  seen,     \* keyboard_has_key said yes and keyboard_get_key was not called since
  down      \* the keys held down
ring == <<key_buffer, buffer_head, buffer_tail>>
modifiers == <<shift_pressed, caps_lock, ctrl_pressed, alt_pressed>>
reader == <<pc, key, ret, seen>>
vars == <<ring, modifiers, reader, down>>

Slots == 0 .. KEYBOARD_BUFFER_SIZE - 1
Wrap(i) == i % KEYBOARD_BUFFER_SIZE

Init ==
  /\ key_buffer = [i \in Slots |-> KEY_NONE]
  /\ buffer_head = 0 /\ buffer_tail = 0
  /\ shift_pressed = FALSE /\ caps_lock = FALSE
  /\ ctrl_pressed = FALSE /\ alt_pressed = FALSE
  /\ pc = "idle" /\ key = KEY_NONE /\ ret = KEY_NONE /\ seen = FALSE
  /\ down = {}

-----------------------------------------------------------------------------
(* keyboard_handler *)

ModifierSticks(code, released) ==
  /\ shift_pressed' = (shift_pressed \/ code \in {KEY_LSHIFT, KEY_RSHIFT})
  /\ caps_lock' = IF code = KEY_CAPSLOCK /\ ~released THEN ~caps_lock ELSE caps_lock
  /\ ctrl_pressed' = IF code = KEY_LCTRL THEN ~released ELSE ctrl_pressed
  /\ alt_pressed' = IF code = KEY_LALT THEN ~released ELSE alt_pressed
Modifier(code, released) ==
  /\ shift_pressed' = IF code \in {KEY_LSHIFT, KEY_RSHIFT} THEN ~released ELSE shift_pressed
  /\ caps_lock' = IF code = KEY_CAPSLOCK /\ ~released THEN ~caps_lock ELSE caps_lock
  /\ ctrl_pressed' = IF code = KEY_LCTRL THEN ~released ELSE ctrl_pressed
  /\ alt_pressed' = IF code = KEY_LALT THEN ~released ELSE alt_pressed

\* No test for a full ring; a ring that is full one slot early.
PutAlways(c) ==
  /\ key_buffer' = [key_buffer EXCEPT ![buffer_tail] = c]
  /\ buffer_tail' = Wrap(buffer_tail + 1)
  /\ UNCHANGED buffer_head
PutEarlyFull(c) ==
  IF Wrap(buffer_tail + 2) = buffer_head THEN UNCHANGED ring
  ELSE PutAlways(c)
Put(c) ==
  LET next == Wrap(buffer_tail + 1)
  IN  IF next = buffer_head THEN UNCHANGED ring
      ELSE /\ key_buffer' = [key_buffer EXCEPT ![buffer_tail] = c]
           /\ buffer_tail' = next
           /\ UNCHANGED buffer_head

\* The modifiers are set before the character is looked up.
Translate(code) ==
  IF shift_pressed' # caps_lock' THEN scancode_to_ascii_shift[code] ELSE scancode_to_ascii[code]

keyboard_handler(code, released) ==
  /\ Modifier(code, released)
  /\ IF released \/ Translate(code) = KEY_NONE THEN UNCHANGED ring ELSE Put(Translate(code))
  /\ UNCHANGED reader

\* A key goes down, or stays down and repeats; a key comes up.
Press(k) ==
  /\ Cardinality(down \union {k}) <= MAX_DOWN
  /\ down' = down \union {k}
  /\ keyboard_handler(k, FALSE)
Release(k) ==
  /\ k \in down
  /\ down' = down \ {k}
  /\ keyboard_handler(k, TRUE)

-----------------------------------------------------------------------------
(* keyboard_has_key and keyboard_get_key, called by one task *)

keyboard_has_key ==
  /\ pc = "idle"
  /\ seen' = (buffer_head # buffer_tail)
  /\ UNCHANGED <<ring, modifiers, pc, key, ret, down>>

GetCheck ==
  /\ pc = "idle"
  /\ IF buffer_head = buffer_tail
     THEN ret' = KEY_NONE /\ seen' = FALSE /\ UNCHANGED pc
     ELSE pc' = "read" /\ UNCHANGED <<ret, seen>>
  /\ UNCHANGED <<ring, modifiers, key, down>>

GetRead ==
  /\ pc = "read"
  /\ pc' = "advance"
  /\ key' = key_buffer[buffer_head]
  /\ UNCHANGED <<ring, modifiers, ret, seen, down>>

GetAdvanceNoWrap ==
  /\ pc = "advance"
  /\ pc' = "idle"
  /\ buffer_head' = buffer_head + 1
  /\ ret' = key /\ seen' = FALSE
  /\ UNCHANGED <<key_buffer, buffer_tail, modifiers, key, down>>
GetAdvance ==
  /\ pc = "advance"
  /\ pc' = "idle"
  /\ buffer_head' = Wrap(buffer_head + 1)
  /\ ret' = key /\ seen' = FALSE
  /\ UNCHANGED <<key_buffer, buffer_tail, modifiers, key, down>>

Next ==
  \/ \E k \in Keys : Press(k)
  \/ \E k \in Keys : Release(k)
  \/ keyboard_has_key
  \/ GetCheck
  \/ GetRead
  \/ GetAdvance

Spec == Init /\ [][Next]_vars

-----------------------------------------------------------------------------
\* Type invariant.
TypeOK ==
  /\ key_buffer \in [Slots -> Char \union {KEY_NONE}]
  /\ buffer_head \in Slots /\ buffer_tail \in Slots
  /\ {shift_pressed, caps_lock, ctrl_pressed, alt_pressed, seen} \subseteq BOOLEAN
  /\ pc \in {"idle", "read", "advance"}
  /\ key \in Char \union {KEY_NONE} /\ ret \in Char \union {KEY_NONE}
  /\ down \subseteq Keys

\* The characters in the ring, oldest first.
Count == Wrap(buffer_tail - buffer_head + KEYBOARD_BUFFER_SIZE)
Contents == [i \in 1 .. Count |-> key_buffer[Wrap(buffer_head + i - 1)]]

\* The ring is a queue for KEYBOARD_BUFFER_SIZE - 1 characters: an interrupt in
\* the middle of keyboard_get_key never makes it return a character twice, out
\* of order or one that was overwritten.
KQ == INSTANCE KeyQueue WITH
        Capacity <- KEYBOARD_BUFFER_SIZE - 1, queue <- Contents, got <- ret
IsKeyQueue == KQ!KSpec

\* A character is dropped only when the ring is full.
DropsOnlyWhenFull ==
  [][\A k \in Keys :
       Press(k) /\ Translate(k) # KEY_NONE /\ Count < KEYBOARD_BUFFER_SIZE - 1
       => Contents' = Append(Contents, Translate(k))]_vars

\* Once keyboard_has_key has said yes, the next keyboard_get_key has a key,
\* whatever interrupts come between: a full ring never looks empty.
HasKeyStands == seen => buffer_head # buffer_tail

\* A modifier is on only while its key is held; ctrl and alt exactly then.
ModifiersHeld ==
  /\ shift_pressed => down \intersect {KEY_LSHIFT, KEY_RSHIFT} # {}
  /\ ctrl_pressed <=> KEY_LCTRL \in down
  /\ alt_pressed <=> KEY_LALT \in down

\* The inductive invariant: behind its test keyboard_get_key has a key to take, and
\* what it has read is still the oldest one.
IInv ==
  /\ TypeOK /\ HasKeyStands /\ ModifiersHeld
  /\ pc # "idle" => buffer_head # buffer_tail
  /\ pc = "advance" => key = key_buffer[buffer_head]

\* A modifier key types no character.
ModifiersAreSilent ==
  [][\A k \in Modifiers \intersect Keys : Press(k) => UNCHANGED ring]_vars
=============================================================================
