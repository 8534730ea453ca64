--------------------------- MODULE KeyboardProofs ---------------------------
(* Proofs about the keyboard's ring and modifiers, for every size of the   *)
(* ring, every choice of keys and any number of keys held.                 *)
EXTENDS Keyboard, SequenceTheorems, TLAPS

\* The places the driver computes lie less than twice round the ring.
LEMMA WrapIs ==
  ASSUME NEW i \in 0 .. 2 * KEYBOARD_BUFFER_SIZE - 1
  PROVE  Wrap(i) = IF i < KEYBOARD_BUFFER_SIZE THEN i ELSE i - KEYBOARD_BUFFER_SIZE
BY KeyboardConstants DEF Wrap

LEMMA WrapInSlots == ASSUME NEW i \in Nat PROVE Wrap(i) \in Slots
BY KeyboardConstants DEF Wrap, Slots

\* What is looked up in a table is a character or the entry 0.
LEMMA TranslateType ==
  ASSUME NEW k \in Keys PROVE Translate(k) \in Char \union {KEY_NONE}
BY DEF Translate, Char

\* A character the handler puts in the ring: the ring keeps its type, the head and
\* the cell at the head stay, and a ring that held something is not empty.
LEMMA PutEffect ==
  ASSUME TypeOK, NEW c \in Char, Put(c)
  PROVE  /\ key_buffer' \in [Slots -> Char \union {KEY_NONE}]
         /\ buffer_head' = buffer_head /\ buffer_tail' \in Slots
         /\ buffer_head # buffer_tail =>
              buffer_head' # buffer_tail' /\ key_buffer'[buffer_head] = key_buffer[buffer_head]
<1>1. buffer_tail \in Nat /\ buffer_tail + 1 \in Nat  BY KeyboardConstants DEF TypeOK, Slots
<1>2. Wrap(buffer_tail + 1) \in Slots  BY <1>1, WrapInSlots
<1> QED  BY <1>2 DEF Put, ring, TypeOK

LEMMA InitInv == Init => IInv
<1> SUFFICES ASSUME Init PROVE IInv  OBVIOUS
<1>1. TypeOK
  <2>1. 0 \in Slots  BY KeyboardConstants DEF Slots
  <2> QED  BY <2>1, Zenon DEF Init, TypeOK
<1>2. HasKeyStands  BY DEF Init, HasKeyStands
<1>3. ModifiersHeld  BY DEF Init, ModifiersHeld
<1> QED  BY <1>1, <1>2, <1>3 DEF IInv, Init

\* The handler's effect on the ring: as PutEffect, or none.
LEMMA HandlerRing ==
  ASSUME TypeOK, NEW k \in Keys, NEW released \in BOOLEAN, keyboard_handler(k, released)
  PROVE  /\ key_buffer' \in [Slots -> Char \union {KEY_NONE}]
         /\ buffer_head' = buffer_head /\ buffer_tail' \in Slots
         /\ buffer_head # buffer_tail =>
              buffer_head' # buffer_tail' /\ key_buffer'[buffer_head] = key_buffer[buffer_head]
<1>1. CASE UNCHANGED ring  BY <1>1 DEF ring, TypeOK
<1>2. CASE Translate(k) # KEY_NONE /\ Put(Translate(k))
  <2>1. Translate(k) \in Char  BY <1>2, TranslateType
  <2> HIDE DEF Translate
  <2> QED  BY <1>2, <2>1, PutEffect
<1> QED  BY <1>1, <1>2 DEF keyboard_handler

\* The flags follow the keys held: a release of either shift key clears the flag.
LEMMA HandlerModifiers ==
  ASSUME TypeOK, ModifiersHeld, NEW k \in Keys, NEW released \in BOOLEAN,
         Modifier(k, released),
         down' = IF released THEN down \ {k} ELSE down \union {k}
  PROVE  /\ {shift_pressed, caps_lock, ctrl_pressed, alt_pressed}' \subseteq BOOLEAN
         /\ down' \subseteq Keys
         /\ ModifiersHeld'
<1>1. down' \subseteq Keys  BY DEF TypeOK
<1>2. {shift_pressed, caps_lock, ctrl_pressed, alt_pressed}' \subseteq BOOLEAN
  BY Zenon DEF TypeOK, Modifier
<1>3. KEY_LCTRL # KEY_LALT /\ KEY_LCTRL \notin {KEY_LSHIFT, KEY_RSHIFT}
      /\ KEY_LALT \notin {KEY_LSHIFT, KEY_RSHIFT}
  BY DEF KEY_LCTRL, KEY_LALT, KEY_LSHIFT, KEY_RSHIFT
<1>4. shift_pressed' => (down \intersect {KEY_LSHIFT, KEY_RSHIFT})' # {}
  <2>1. CASE released  BY <2>1, <1>3, Zenon DEF Modifier, ModifiersHeld
  <2>2. CASE ~released  BY <2>2, <1>3, Zenon DEF Modifier, ModifiersHeld
  <2> QED  BY <2>1, <2>2
<1>5. ctrl_pressed' <=> KEY_LCTRL \in down'
  BY <1>3, Zenon DEF Modifier, ModifiersHeld
<1>6. alt_pressed' <=> KEY_LALT \in down'
  BY <1>3, Zenon DEF Modifier, ModifiersHeld
<1> QED  BY <1>1, <1>2, <1>4, <1>5, <1>6, Zenon DEF ModifiersHeld

\* The interrupt handler, whatever keyboard_get_key is doing.
LEMMA HandlerInv ==
  ASSUME IInv, NEW k \in Keys, NEW released \in BOOLEAN, keyboard_handler(k, released),
         down' = IF released THEN down \ {k} ELSE down \union {k}
  PROVE  IInv'
<1>1. TypeOK /\ HasKeyStands /\ ModifiersHeld  BY DEF IInv
<1>2. /\ key_buffer' \in [Slots -> Char \union {KEY_NONE}]
      /\ buffer_head' = buffer_head /\ buffer_tail' \in Slots
      /\ buffer_head # buffer_tail =>
           buffer_head' # buffer_tail' /\ key_buffer'[buffer_head] = key_buffer[buffer_head]
  BY <1>1, HandlerRing
<1>3. /\ {shift_pressed, caps_lock, ctrl_pressed, alt_pressed}' \subseteq BOOLEAN
      /\ down' \subseteq Keys /\ ModifiersHeld'
  <2>1. Modifier(k, released)  BY DEF keyboard_handler
  <2> QED  BY <1>1, <2>1, HandlerModifiers
<1>4. pc' = pc /\ key' = key /\ ret' = ret /\ seen' = seen  BY DEF keyboard_handler, reader
<1>5. TypeOK'  BY <1>1, <1>2, <1>3, <1>4, Zenon DEF TypeOK
<1>6. HasKeyStands'  BY <1>1, <1>2, <1>4, Zenon DEF HasKeyStands
<1> QED  BY <1>2, <1>3, <1>4, <1>5, <1>6 DEF IInv

\* keyboard_has_key and the steps of keyboard_get_key.
LEMMA ReaderInv ==
  ASSUME IInv, keyboard_has_key \/ GetCheck \/ GetRead \/ GetAdvance PROVE IInv'
<1>1. CASE keyboard_has_key
  <2> USE <1>1 DEF IInv, keyboard_has_key, ring, modifiers
  <2>1. TypeOK'  BY Zenon DEF TypeOK
  <2>2. HasKeyStands' /\ ModifiersHeld'  BY DEF HasKeyStands, ModifiersHeld
  <2> QED  BY <2>1, <2>2
<1>2. CASE GetCheck
  <2> USE <1>2 DEF IInv, GetCheck, ring, modifiers
  <2>1. TypeOK'  BY Zenon DEF TypeOK
  <2>2. HasKeyStands' /\ ModifiersHeld'  BY DEF HasKeyStands, ModifiersHeld
  <2> QED  BY <2>1, <2>2
<1>3. CASE GetRead
  <2> USE <1>3 DEF IInv, GetRead, ring, modifiers
  <2>1. TypeOK'  BY Zenon DEF TypeOK
  <2>2. HasKeyStands' /\ ModifiersHeld'  BY DEF HasKeyStands, ModifiersHeld
  <2> QED  BY <2>1, <2>2
<1>4. CASE GetAdvance
  <2>1. Wrap(buffer_head + 1) \in Slots
    <3>1. buffer_head + 1 \in Nat  BY KeyboardConstants DEF IInv, TypeOK, Slots
    <3> QED  BY <3>1, WrapInSlots
  <2>2. TypeOK'  BY <1>4, <2>1, Zenon DEF IInv, TypeOK, GetAdvance, modifiers
  <2>3. HasKeyStands' /\ ModifiersHeld'
    BY <1>4 DEF IInv, GetAdvance, modifiers, HasKeyStands, ModifiersHeld
  <2> QED  BY <1>4, <2>2, <2>3 DEF IInv, GetAdvance
<1> QED  BY <1>1, <1>2, <1>3, <1>4

\* Every interrupt and every step of the reader keeps the invariant.
LEMMA NextInv == ASSUME IInv, [Next]_vars PROVE IInv'
<1>1. ASSUME NEW k \in Keys, Press(k) PROVE IInv'
  <2>1. keyboard_handler(k, FALSE) /\ down' = IF FALSE THEN down \ {k} ELSE down \union {k}
    BY <1>1 DEF Press
  <2> QED  BY <2>1, HandlerInv, Zenon
<1>2. ASSUME NEW k \in Keys, Release(k) PROVE IInv'
  <2>1. keyboard_handler(k, TRUE) /\ down' = IF TRUE THEN down \ {k} ELSE down \union {k}
    BY <1>2 DEF Release
  <2> QED  BY <2>1, HandlerInv, Zenon
<1>3. CASE UNCHANGED vars
  BY <1>3 DEF vars, ring, modifiers, reader, IInv, TypeOK, HasKeyStands, ModifiersHeld
<1> QED  BY <1>1, <1>2, <1>3, ReaderInv, Zenon DEF Next

\* The invariant of the driver, through every interleaving of interrupts with the
\* steps of keyboard_get_key (keyboard.c:52, keyboard.c:95).
THEOREM KeyboardInv == Spec => []IInv
BY InitInv, NextInv, PTL DEF Spec

\* The indices stay in the ring and every cell holds a character or 0.
THEOREM KeyboardTypeOK == Spec => []TypeOK
<1>1. IInv => TypeOK  BY DEF IInv
<1> QED  BY <1>1, KeyboardInv, PTL

\* keyboard_has_key's answer holds until keyboard_get_key is called: the interrupts
\* in between only add keys.
THEOREM KeyboardHasKeyStands == Spec => []HasKeyStands
<1>1. IInv => HasKeyStands  BY DEF IInv
<1> QED  BY <1>1, KeyboardInv, PTL

\* ctrl and alt are on exactly while their key is held, shift only while one of its
\* keys is, for every order of presses, repeats and releases.
THEOREM KeyboardModifiersHeld == Spec => []ModifiersHeld
<1>1. IInv => ModifiersHeld  BY DEF IInv
<1> QED  BY <1>1, KeyboardInv, PTL

-----------------------------------------------------------------------------
(* The ring is a queue. *)

\* The number of characters between two places of the ring.
LEMMA CountOf ==
  ASSUME NEW h \in Slots, NEW t \in Slots
  PROVE  LET n == Wrap(t - h + KEYBOARD_BUFFER_SIZE)
         IN  /\ n = IF t >= h THEN t - h ELSE t - h + KEYBOARD_BUFFER_SIZE
             /\ n \in 0 .. KEYBOARD_BUFFER_SIZE - 1
<1>1. t - h + KEYBOARD_BUFFER_SIZE \in 0 .. 2 * KEYBOARD_BUFFER_SIZE - 1
  BY KeyboardConstants DEF Slots
<1> QED  BY <1>1, WrapIs, KeyboardConstants DEF Slots

LEMMA CountIs ==
  ASSUME TypeOK
  PROVE  /\ Count = IF buffer_tail >= buffer_head THEN buffer_tail - buffer_head
                    ELSE buffer_tail - buffer_head + KEYBOARD_BUFFER_SIZE
         /\ Count \in 0 .. KEYBOARD_BUFFER_SIZE - 1
BY CountOf DEF Count, TypeOK

\* The characters read off n cells of a ring from the place h on.
LEMMA RingSeq ==
  ASSUME NEW b \in [Slots -> Char \union {KEY_NONE}], NEW h \in Slots, NEW n \in Nat
  PROVE  LET s == [i \in 1 .. n |-> b[Wrap(h + i - 1)]]
         IN  /\ s \in Seq(Char \union {KEY_NONE})
             /\ Len(s) = n
             /\ \A i \in 1 .. n : s[i] = b[Wrap(h + i - 1)]
<1> DEFINE s == [i \in 1 .. n |-> b[Wrap(h + i - 1)]]
<1>1. ASSUME NEW i \in 1 .. n PROVE b[Wrap(h + i - 1)] \in Char \union {KEY_NONE}
  <2>1. h + i - 1 \in Nat  BY KeyboardConstants DEF Slots
  <2>2. Wrap(h + i - 1) \in Slots  BY <2>1, WrapInSlots
  <2> QED  BY <2>2
<1>2. s \in [1 .. n -> Char \union {KEY_NONE}]  BY <1>1
<1> QED  BY <1>2

LEMMA ContentsType ==
  ASSUME TypeOK
  PROVE  /\ Contents \in Seq(Char \union {KEY_NONE})
         /\ Len(Contents) = Count
         /\ \A i \in 1 .. Count : Contents[i] = key_buffer[Wrap(buffer_head + i - 1)]
<1>1. Count \in Nat  BY CountIs, KeyboardConstants
<1> QED  BY <1>1, RingSeq DEF Contents, TypeOK

\* The same two facts of the ring after a step.
LEMMA ContentsTypeNext ==
  ASSUME TypeOK'
  PROVE  /\ Count' = IF buffer_tail' >= buffer_head' THEN buffer_tail' - buffer_head'
                     ELSE buffer_tail' - buffer_head' + KEYBOARD_BUFFER_SIZE
         /\ Contents' \in Seq(Char \union {KEY_NONE})
         /\ Len(Contents') = Count'
         /\ \A i \in 1 .. Count' : Contents'[i] = key_buffer'[Wrap(buffer_head' + i - 1)]
<1>1. Count' \in 0 .. KEYBOARD_BUFFER_SIZE - 1
      /\ Count' = IF buffer_tail' >= buffer_head' THEN buffer_tail' - buffer_head'
                  ELSE buffer_tail' - buffer_head' + KEYBOARD_BUFFER_SIZE
  BY CountOf DEF Count, TypeOK
<1>2. Count' \in Nat  BY <1>1, KeyboardConstants
<1> QED  BY <1>1, <1>2, RingSeq DEF Contents, TypeOK

\* Put appends, unless the ring is full, and it is full with one slot left free.
LEMMA PutAppends ==
  ASSUME TypeOK, TypeOK', NEW c \in Char, Put(c)
  PROVE  IF Count < KEYBOARD_BUFFER_SIZE - 1
         THEN Contents' = Append(Contents, c) ELSE UNCHANGED ring
<1> DEFINE N == KEYBOARD_BUFFER_SIZE
           next == Wrap(buffer_tail + 1)
<1>0. N \in Nat \ {0}  BY KeyboardConstants
<1>1. buffer_tail \in 0 .. N - 1 /\ buffer_head \in 0 .. N - 1  BY DEF TypeOK, Slots
<1>2. next = IF buffer_tail + 1 < N THEN buffer_tail + 1 ELSE buffer_tail + 1 - N
  BY <1>0, <1>1, WrapIs
<1>3. next = buffer_head <=> Count = N - 1  BY <1>0, <1>1, <1>2, CountIs
<1>4. CASE next # buffer_head
  <2>1. /\ key_buffer' = [key_buffer EXCEPT ![buffer_tail] = c]
        /\ buffer_tail' = next /\ buffer_head' = buffer_head
    BY <1>4 DEF Put
  <2>2. Count' = Count + 1 /\ Count \in Nat
    <3>1. Count' = IF buffer_tail' >= buffer_head' THEN buffer_tail' - buffer_head'
                   ELSE buffer_tail' - buffer_head' + N
      BY ContentsTypeNext
    <3> QED  BY <1>0, <1>1, <1>2, <1>4, <2>1, <3>1, CountIs
  <2>3. /\ Contents' \in Seq(Char \union {KEY_NONE}) /\ Len(Contents') = Count'
        /\ \A i \in 1 .. Count' : Contents'[i] = key_buffer'[Wrap(buffer_head' + i - 1)]
    BY ContentsTypeNext
  <2>4. ASSUME NEW i \in 1 .. Count PROVE Contents'[i] = Contents[i]
    <3>1. Wrap(buffer_head + i - 1) # buffer_tail /\ Wrap(buffer_head + i - 1) \in Slots
      <4>1. buffer_head + i - 1 \in 0 .. 2 * N - 1  BY <1>0, <1>1, CountIs
      <4> QED  BY <1>0, <1>1, <4>1, CountIs, WrapIs DEF Slots
    <3> QED  BY <2>1, <2>2, <2>3, <3>1, ContentsType DEF TypeOK
  <2>5. Contents'[Count + 1] = c
    <3>1. Wrap(buffer_head + (Count + 1) - 1) = buffer_tail
      <4>1. buffer_head + (Count + 1) - 1 \in 0 .. 2 * N - 1  BY <1>0, <1>1, CountIs
      <4> QED  BY <1>0, <1>1, <4>1, CountIs, WrapIs
    <3> QED  BY <2>1, <2>2, <2>3, <3>1 DEF TypeOK
  <2>6. /\ Append(Contents, c) \in Seq(Char \union {KEY_NONE})
        /\ Len(Append(Contents, c)) = Count + 1
        /\ \A i \in 1 .. Count : Append(Contents, c)[i] = Contents[i]
        /\ Append(Contents, c)[Count + 1] = c
    BY ContentsType, AppendProperties
  <2>7. Contents' = Append(Contents, c)
    BY <2>2, <2>3, <2>4, <2>5, <2>6, SeqEqual
  <2> QED  BY <1>0, <1>3, <1>4, <2>7, CountIs
<1>5. CASE next = buffer_head  BY <1>0, <1>3, <1>5, CountIs DEF Put
<1> QED  BY <1>4, <1>5

\* keyboard_get_key's last step takes the oldest character off.
LEMMA AdvanceTakesHead ==
  ASSUME TypeOK, TypeOK', buffer_head # buffer_tail, GetAdvance
  PROVE  Contents # <<>> /\ Contents' = Tail(Contents) /\ Head(Contents) = key_buffer[buffer_head]
<1> DEFINE N == KEYBOARD_BUFFER_SIZE
<1>0. N \in Nat \ {0}  BY KeyboardConstants
<1>1. buffer_tail \in 0 .. N - 1 /\ buffer_head \in 0 .. N - 1  BY DEF TypeOK, Slots
<1>2. /\ buffer_head' = IF buffer_head + 1 < N THEN buffer_head + 1 ELSE buffer_head + 1 - N
      /\ buffer_tail' = buffer_tail /\ key_buffer' = key_buffer
  BY <1>0, <1>1, WrapIs DEF GetAdvance
<1>3. Count > 0 /\ Count' = Count - 1 /\ Count \in 1 .. N - 1
  <2>1. Count' = IF buffer_tail' >= buffer_head' THEN buffer_tail' - buffer_head'
                 ELSE buffer_tail' - buffer_head' + N
    BY ContentsTypeNext
  <2> QED  BY <1>0, <1>1, <1>2, <2>1, CountIs
<1>4. /\ Contents' \in Seq(Char \union {KEY_NONE}) /\ Len(Contents') = Count'
      /\ \A i \in 1 .. Count' : Contents'[i] = key_buffer'[Wrap(buffer_head' + i - 1)]
  BY ContentsTypeNext
<1>5. Contents # <<>>  BY <1>3, ContentsType
<1>6. /\ Tail(Contents) \in Seq(Char \union {KEY_NONE})
      /\ Len(Tail(Contents)) = Count - 1
      /\ \A i \in 1 .. Count - 1 : Tail(Contents)[i] = Contents[i + 1]
  BY <1>5, ContentsType, HeadTailProperties
<1>7. ASSUME NEW i \in 1 .. Count - 1 PROVE Contents'[i] = Tail(Contents)[i]
  <2>1. Wrap(buffer_head' + i - 1) = Wrap(buffer_head + (i + 1) - 1)
    <3>1. buffer_head' + i - 1 \in 0 .. 2 * N - 1 /\ buffer_head + (i + 1) - 1 \in 0 .. 2 * N - 1
      BY <1>0, <1>1, <1>2, <1>3
    <3>2. buffer_head + 1 >= N => buffer_head + (i + 1) - 1 >= N  BY <1>0, <1>1, <1>3
    <3> QED  BY <1>0, <1>1, <1>2, <1>3, <3>1, <3>2, WrapIs
  <2>2. Contents'[i] = key_buffer[Wrap(buffer_head' + i - 1)]  BY <1>2, <1>3, <1>4
  <2>3. Contents[i + 1] = key_buffer[Wrap(buffer_head + (i + 1) - 1)]  BY <1>3, ContentsType
  <2> QED  BY <1>6, <2>1, <2>2, <2>3
<1>8. Contents' = Tail(Contents)  BY <1>3, <1>4, <1>6, <1>7, SeqEqual
<1>9. Head(Contents) = key_buffer[buffer_head]
  <2>1. Wrap(buffer_head + 1 - 1) = buffer_head  BY <1>0, <1>1, WrapIs
  <2> QED  BY <1>3, <2>1, ContentsType
<1> QED  BY <1>5, <1>8, <1>9

\* The ring as the steps that leave it alone see it.
LEMMA SameRing == ASSUME UNCHANGED ring PROVE Contents' = Contents
<1>1. key_buffer' = key_buffer /\ buffer_head' = buffer_head /\ buffer_tail' = buffer_tail
  BY DEF ring
<1>2. Count' = Count  BY <1>1 DEF Count
<1> QED  BY <1>1, <1>2 DEF Contents

LEMMA QueueInit == Init => KQ!KInit
<1> SUFFICES ASSUME Init PROVE KQ!KInit  OBVIOUS
<1>1. TypeOK /\ buffer_head = buffer_tail  BY InitInv DEF IInv, Init
<1>2. Count = 0  BY <1>1, CountIs DEF TypeOK, Slots
<1>3. Contents = <<>>  BY <1>1, <1>2, ContentsType
<1>4. ret \notin Char  BY DEF Init, Char
<1> QED  BY <1>3, <1>4 DEF KQ!KInit

\* An interrupt types its character, or, with the ring full, a release or a key
\* without a character, leaves the queue as it is.
LEMMA HandlerRefines ==
  ASSUME TypeOK, TypeOK', NEW k \in Keys, NEW released \in BOOLEAN,
         keyboard_handler(k, released)
  PROVE  [KQ!KNext]_(KQ!kvars)
<1>1. ret' = ret  BY DEF keyboard_handler, reader
<1>2. CASE UNCHANGED ring  BY <1>1, <1>2, SameRing DEF KQ!kvars
<1>3. CASE Translate(k) # KEY_NONE /\ Put(Translate(k))
  <2>1. PICK c \in Char : Put(c)  BY <1>3, TranslateType
  <2>2. CASE Count < KEYBOARD_BUFFER_SIZE - 1
    <3>1. Contents' = Append(Contents, c)  BY <2>1, <2>2, PutAppends
    <3>2. Len(Contents) < KEYBOARD_BUFFER_SIZE - 1  BY <2>2, ContentsType
    <3>3. KQ!Type(c)  BY <1>1, <3>1, <3>2 DEF KQ!Type
    <3> QED  BY <3>3 DEF KQ!KNext
  <2>3. CASE ~(Count < KEYBOARD_BUFFER_SIZE - 1)
    <3>1. UNCHANGED ring  BY <2>1, <2>3, PutAppends
    <3> QED  BY <1>1, <3>1, SameRing DEF KQ!kvars
  <2> QED  BY <2>2, <2>3
<1> QED  BY <1>2, <1>3 DEF keyboard_handler

\* Of the reader's steps the last one takes the head; the test of an empty ring is
\* a read of nothing.
LEMMA ReaderRefines ==
  ASSUME IInv, IInv', keyboard_has_key \/ GetCheck \/ GetRead \/ GetAdvance
  PROVE  [KQ!KNext]_(KQ!kvars)
<1>1. TypeOK /\ TypeOK'  BY DEF IInv
<1>2. CASE UNCHANGED <<ring, ret>>  BY <1>2, SameRing DEF KQ!kvars
<1>3. CASE GetCheck /\ buffer_head = buffer_tail
  <2>1. Contents' = Contents  BY <1>3, SameRing DEF GetCheck
  <2>2. Count = 0  BY <1>1, <1>3, CountIs DEF TypeOK, Slots
  <2>3. Contents = <<>>  BY <1>1, <2>2, ContentsType
  <2>4. ret' \notin Char  BY <1>3 DEF GetCheck, Char
  <2>5. KQ!GetNone  BY <2>1, <2>3, <2>4 DEF KQ!GetNone
  <2> QED  BY <2>5 DEF KQ!KNext
<1>4. CASE GetAdvance
  <2>1. buffer_head # buffer_tail /\ ret' = key_buffer[buffer_head]  BY <1>4 DEF IInv, GetAdvance
  <2>2. Contents # <<>> /\ Contents' = Tail(Contents) /\ Head(Contents) = key_buffer[buffer_head]
    BY <1>1, <1>4, <2>1, AdvanceTakesHead
  <2>3. KQ!Get  BY <2>1, <2>2 DEF KQ!Get
  <2> QED  BY <2>3 DEF KQ!KNext
<1> QED  BY <1>2, <1>3, <1>4 DEF keyboard_has_key, GetCheck, GetRead

LEMMA StepRefines == ASSUME IInv, IInv', [Next]_vars PROVE [KQ!KNext]_(KQ!kvars)
<1>1. TypeOK /\ TypeOK'  BY DEF IInv
<1>2. ASSUME NEW k \in Keys, Press(k) PROVE [KQ!KNext]_(KQ!kvars)
  <2>1. keyboard_handler(k, FALSE)  BY <1>2 DEF Press
  <2> QED  BY <1>1, <2>1, HandlerRefines
<1>3. ASSUME NEW k \in Keys, Release(k) PROVE [KQ!KNext]_(KQ!kvars)
  <2>1. keyboard_handler(k, TRUE)  BY <1>3 DEF Release
  <2> QED  BY <1>1, <2>1, HandlerRefines
<1>4. CASE UNCHANGED vars
  <2>1. UNCHANGED ring /\ ret' = ret  BY <1>4 DEF vars, reader
  <2> QED  BY <2>1, SameRing DEF KQ!kvars
<1> QED  BY <1>2, <1>3, <1>4, ReaderRefines DEF Next

\* The ring with its interrupt handler and its reader in three steps is a first-in
\* first-out queue for KEYBOARD_BUFFER_SIZE - 1 characters (keyboard.c:52-89,
\* keyboard.c:95-100): nothing accepted is lost, repeated or reordered.
THEOREM KeyboardIsKeyQueue == Spec => IsKeyQueue
<1>1. IInv /\ IInv' /\ [Next]_vars => [KQ!KNext]_(KQ!kvars)  BY StepRefines
<1> QED  BY <1>1, QueueInit, KeyboardInv, PTL DEF Spec, IsKeyQueue, KQ!KSpec

\* The handler's test for a full ring (keyboard.c:81) drops a character only with
\* KEYBOARD_BUFFER_SIZE - 1 of them waiting.
THEOREM KeyboardDropsOnlyWhenFull == Spec => DropsOnlyWhenFull
<1> DEFINE Drops == \A k \in Keys :
             Press(k) /\ Translate(k) # KEY_NONE /\ Count < KEYBOARD_BUFFER_SIZE - 1
             => Contents' = Append(Contents, Translate(k))
<1>1. ASSUME IInv, IInv', NEW k \in Keys, Press(k), Translate(k) # KEY_NONE,
             Count < KEYBOARD_BUFFER_SIZE - 1
      PROVE  Contents' = Append(Contents, Translate(k))
  <2>1. TypeOK /\ TypeOK'  BY <1>1 DEF IInv
  <2>2. Translate(k) \in Char  BY <1>1, TranslateType
  <2>3. Put(Translate(k))  BY <1>1 DEF Press, keyboard_handler
  <2> HIDE DEF Translate
  <2> QED  BY <1>1, <2>1, <2>2, <2>3, PutAppends
<1>2. IInv /\ IInv' => Drops  BY <1>1
<1> HIDE DEF Drops
<1>3. []IInv => [][Drops]_vars  BY <1>2, PTL
<1> QED  BY <1>3, KeyboardInv DEF DropsOnlyWhenFull, Drops
=============================================================================
