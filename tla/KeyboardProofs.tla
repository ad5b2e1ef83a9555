--------------------------- MODULE KeyboardProofs ---------------------------
(***************************************************************************)
(* The keyboard ring, for every ring size, key set, keyboard map and number *)
(* of keys: it is well typed, its consumer is never overtaken, and it       *)
(* implements the bounded FIFO.                                             *)
(***************************************************************************)
EXTENDS Keyboard, SequenceTheorems, TLAPS

(***************************************************************************)
(* Arithmetic on slots.                                                     *)
(***************************************************************************)

\* kbd.c's increment modulo the ring's size wraps exactly at the last slot.
LEMMA SuccWraps ==
    ASSUME NEW i \in Slot
    PROVE  /\ Succ(i) \in Slot
           /\ Succ(i) = IF i = KBD_BUFFER_SIZE - 1 THEN 0 ELSE i + 1
BY BufferSizeAssumption DEF Succ, Slot

\* The ring never holds KBD_BUFFER_SIZE characters, and head = tail means empty.
LEMMA CountBounds ==
    ASSUME TypeOK
    PROVE  /\ Count \in 0..(KBD_BUFFER_SIZE - 1)
           /\ Count = 0 <=> bufferHead = bufferTail
           /\ Full <=> Count = KBD_BUFFER_SIZE - 1
<1> DEFINE n == Succ(bufferHead)
<1>1. n = IF bufferHead = KBD_BUFFER_SIZE - 1 THEN 0 ELSE bufferHead + 1
  BY SuccWraps DEF TypeOK
<1>2. Full <=> n = bufferTail
  BY DEF Full
<1> QED
  BY <1>1, <1>2, BufferSizeAssumption DEF Count, TypeOK, Slot

\* The i-th waiting character is in the ring, and each in a slot of its own.
LEMMA SlotAtInjective ==
    ASSUME TypeOK, NEW i \in 1..KBD_BUFFER_SIZE, NEW j \in 1..KBD_BUFFER_SIZE
    PROVE  /\ SlotAt(i) \in Slot
           /\ SlotAt(i) = SlotAt(j) => i = j
BY BufferSizeAssumption DEF SlotAt, TypeOK, Slot

\* Advancing the head makes the character just written the last one waiting.
LEMMA CountAfterWrite ==
    ASSUME TypeOK, ~Full,
           bufferHead' = Succ(bufferHead), bufferTail' = bufferTail
    PROVE  /\ Count' = Count + 1
           /\ SlotAt(Count + 1) = bufferHead
           /\ \A i \in 1..KBD_BUFFER_SIZE : SlotAt(i)' = SlotAt(i)
<1>1. bufferHead' = IF bufferHead = KBD_BUFFER_SIZE - 1 THEN 0 ELSE bufferHead + 1
  BY SuccWraps DEF TypeOK
<1>2. bufferHead' # bufferTail
  BY DEF Full
<1>3. Count' = Count + 1
  BY <1>1, <1>2, BufferSizeAssumption DEF Count, TypeOK, Slot
<1>4. SlotAt(Count + 1) = bufferHead
  BY BufferSizeAssumption DEF Count, SlotAt, TypeOK, Slot
<1>5. \A i \in 1..KBD_BUFFER_SIZE : SlotAt(i)' = SlotAt(i)
  BY DEF SlotAt
<1> QED
  BY <1>3, <1>4, <1>5

\* Advancing the tail makes the second character waiting the first one.
LEMMA CountAfterRead ==
    ASSUME TypeOK, Count > 0,
           bufferTail' = Succ(bufferTail), bufferHead' = bufferHead
    PROVE  /\ Count' = Count - 1
           /\ \A i \in 1..(Count - 1) : SlotAt(i)' = SlotAt(i + 1)
<1>1. bufferTail' = IF bufferTail = KBD_BUFFER_SIZE - 1 THEN 0 ELSE bufferTail + 1
  BY SuccWraps DEF TypeOK
<1>2. Count' = Count - 1
  BY <1>1, BufferSizeAssumption DEF Count, TypeOK, Slot
<1>3. ASSUME NEW i \in 1..(Count - 1)
      PROVE  SlotAt(i)' = SlotAt(i + 1)
  <2>1. i \in Nat /\ i + 1 <= KBD_BUFFER_SIZE
    BY CountBounds, BufferSizeAssumption
  <2> QED
    BY <1>1, <2>1, BufferSizeAssumption DEF SlotAt, TypeOK, Slot
<1> QED
  BY <1>2, <1>3

(***************************************************************************)
(* Types and the consumer's view.                                           *)
(***************************************************************************)

\* The map has a character for every index kbd_handler forms.
LEMMA HandlerCharacter ==
    ASSUME NEW sc \in Scancode, sc < 128, TypeOK
    PROVE  CharOf(sc) \in Char
<1>1. sc \in 0..255 /\ sc + 128 \in 0..255
  BY ScancodeAssumption
<1>2. \A k \in 0..255 : kbdMapUS[k] \in Char
  BY MapAssumption DEF Char
<1>3. CASE ShiftAfter(sc)
  <2>1. CharOf(sc) = kbdMapUS[sc + 128]
    BY <1>3, Zenon DEF CharOf
  <2> QED
    BY <1>1, <1>2, <2>1
<1>4. CASE ~ShiftAfter(sc)
  <2>1. CharOf(sc) = kbdMapUS[sc]
    BY <1>4, Zenon DEF CharOf
  <2> QED
    BY <1>1, <1>2, <2>1
<1> QED
  BY <1>3, <1>4

\* The shift and caps-lock updates of kbd_handler stay Boolean.
LEMMA TogglesTyped ==
    ASSUME TypeOK, NEW sc \in Scancode
    PROVE  ShiftAfter(sc) \in BOOLEAN /\ CapsAfter(sc) \in BOOLEAN
BY DEF TypeOK, ShiftAfter, CapsAfter

Inv == TypeOK /\ ReadNotOvertaken

\* The invariant holds of the device kbd_init leaves.
LEMMA InitEstablishesInv == Init => Inv
<1> SUFFICES ASSUME Init PROVE Inv
  OBVIOUS
<1>1. <<>> \in Seq(Char)
  BY EmptySeq
<1>2. /\ 0 \in Slot /\ 0 \in Char /\ 0 \in Nat
      /\ [i \in Slot |-> 0] \in [Slot -> Char]
  BY BufferSizeAssumption DEF Slot, Char
<1>3. TypeOK
  BY <1>1, <1>2 DEF Init, TypeOK
<1>4. ReadNotOvertaken
  BY DEF Init, ReadNotOvertaken
<1> QED
  BY <1>3, <1>4 DEF Inv

\* Neither the interrupt handler nor a step of kbd_buffer breaks the invariant.
LEMMA NextPreservesInv == Inv /\ [Next]_vars => Inv'
<1> SUFFICES ASSUME Inv, [Next]_vars PROVE Inv'
  OBVIOUS
<1> USE BufferSizeAssumption DEF Inv
<1>1. ASSUME NEW sc \in Scancode, kbd_handler(sc)
      PROVE  Inv'
  <2> DEFINE ch == CharOf(sc)
  <2>1. /\ keys' \in Nat /\ toggleShift' \in BOOLEAN /\ toggleCaps' \in BOOLEAN
        /\ pc' = pc /\ c' = c /\ kernel_shell' = kernel_shell /\ taken' = taken
    BY <1>1, TogglesTyped DEF kbd_handler, TypeOK, readerVars
  <2>2. CASE UNCHANGED <<deviceVars, sent, lost>>
    BY <2>1, <2>2 DEF TypeOK, ReadNotOvertaken, deviceVars, Count
  <2>3. CASE /\ sc < 128 /\ ~Full
             /\ buffer' = [buffer EXCEPT ![bufferHead] = ch]
             /\ bufferHead' = Succ(bufferHead)
             /\ UNCHANGED <<bufferTail, lost>>
             /\ sent' = Append(sent, ch)
    <3>1. ch \in Char
      BY <2>3, HandlerCharacter
    <3>2. Succ(bufferHead) \in Slot
      BY SuccWraps DEF TypeOK
    <3>3. TypeOK'
      BY <2>1, <2>3, <3>1, <3>2, AppendProperties DEF TypeOK
    <3>4. ASSUME pc \in {"fetch", "advance"}
          PROVE  /\ Count' > 0
                 /\ bufferHead # bufferTail
      <4>1. Count > 0
        BY <3>4 DEF ReadNotOvertaken
      <4>2. Count' = Count + 1
        BY <2>3, CountAfterWrite
      <4> QED
        BY <4>1, <4>2, CountBounds
    <3>5. pc = "advance" => buffer'[bufferTail] = c
      BY <2>3, <3>4 DEF ReadNotOvertaken, TypeOK
    <3> QED
      BY <2>1, <2>3, <3>3, <3>4, <3>5 DEF ReadNotOvertaken
  <2>4. CASE /\ sc < 128 /\ Full /\ lost' = lost + 1 /\ UNCHANGED deviceVars
             /\ sent' = Append(sent, ch)
    BY <2>1, <2>4, HandlerCharacter, AppendProperties DEF TypeOK, ReadNotOvertaken, deviceVars, Count
  <2>5. sc \in 0..255
    BY ScancodeAssumption
  <2>6. CASE sc >= 128
    BY <1>1, <2>2, <2>6 DEF kbd_handler
  <2>7. CASE ~(sc >= 128)
    <3>1. sc < 128
      BY <2>5, <2>7
    <3>2. kbd_device_write(ch) /\ sent' = Append(sent, ch)
      BY <1>1, <2>7 DEF kbd_handler
    <3> QED
      BY <2>3, <2>4, <3>1, <3>2 DEF kbd_device_write
  <2> QED
    BY <2>6, <2>7
<1>2. CASE ReadEmptyTest
  <2>1. TypeOK'
    BY <1>2 DEF ReadEmptyTest, TypeOK, deviceVars, toggleVars, Char
  <2>2. Count' = Count /\ (bufferHead # bufferTail => Count > 0)
    BY <1>2, CountBounds DEF ReadEmptyTest, Count, deviceVars
  <2> QED
    BY <1>2, <2>1, <2>2 DEF ReadEmptyTest, ReadNotOvertaken
<1>3. CASE ReadFetch
  BY <1>3 DEF ReadFetch, TypeOK, ReadNotOvertaken, deviceVars, toggleVars, Count
<1>4. CASE ReadAdvance
  <2>1. Succ(bufferTail) \in Slot
    BY SuccWraps DEF TypeOK
  <2>2. Append(taken, c) \in Seq(Char)
    BY DEF TypeOK
  <2> QED
    BY <1>4, <2>1, <2>2 DEF ReadAdvance, TypeOK, ReadNotOvertaken, toggleVars
<1>5. CASE ReadReturn
  BY <1>5 DEF ReadReturn, TypeOK, ReadNotOvertaken, deviceVars, toggleVars
<1>6. CASE UNCHANGED vars
  BY <1>6 DEF vars, deviceVars, toggleVars, readerVars, TypeOK, ReadNotOvertaken, Count
<1> QED
  BY <1>1, <1>2, <1>3, <1>4, <1>5, <1>6 DEF Next, Reader

\* The invariant of the keyboard device and its reader.
LEMMA InvHolds == Spec => []Inv
BY InitEstablishesInv, NextPreservesInv, PTL DEF Spec

\* Every field of the keyboard device and every local of its reader keeps its type.
THEOREM KeyboardTyped == Spec => []TypeOK
<1>1. Inv => TypeOK
  BY DEF Inv
<1> QED
  BY <1>1, InvHolds, PTL

\* kbd_buffer's slot is not refilled between its test and its increment.
THEOREM ReaderNotOvertaken == Spec => []ReadNotOvertaken
<1>1. Inv => ReadNotOvertaken
  BY DEF Inv
<1> QED
  BY <1>1, InvHolds, PTL

(***************************************************************************)
(* The ring implements the bounded FIFO.                                    *)
(***************************************************************************)

\* The mapped queue is a sequence of as many characters as the ring holds.
WaitingOk ==
    /\ Waiting \in Seq(Char)
    /\ Len(Waiting) = Count
    /\ \A i \in 1..Count : Waiting[i] = buffer[SlotAt(i)]

\* The waiting characters form a sequence of characters as long as Count.
LEMMA WaitingIsSeq == TypeOK => WaitingOk
<1> SUFFICES ASSUME TypeOK PROVE WaitingOk
  OBVIOUS
<1>1. Count \in Nat /\ Count <= KBD_BUFFER_SIZE
  BY CountBounds, BufferSizeAssumption
<1>2. \A i \in 1..Count : SlotAt(i) \in Slot
  BY <1>1, SlotAtInjective, BufferSizeAssumption
<1>3. \A i \in 1..Count : buffer[SlotAt(i)] \in Char
  BY <1>2 DEF TypeOK
<1>4. Waiting \in [1..Count -> Char]
  BY <1>3 DEF Waiting
<1>5. Waiting \in Seq(Char)
  BY <1>1, <1>4, SeqDef
<1>6. DOMAIN Waiting = 1..Count
  BY <1>4
<1>7. Len(Waiting) = Count
  BY <1>1, <1>5, <1>6, LenProperties
<1> QED
  BY <1>5, <1>7 DEF Waiting, WaitingOk

\* The same, of the state after a step.
LEMMA WaitingIsSeqNext == TypeOK' => WaitingOk'
BY WaitingIsSeq, PTL

\* An empty ring is the empty FIFO.
LEMMA InitIsFifoInit == Init => Fifo!FifoInit
<1> SUFFICES ASSUME Init PROVE Fifo!FifoInit
  OBVIOUS
<1>1. TypeOK
  BY InitEstablishesInv DEF Inv
<1>2. Count = 0
  BY <1>1, CountBounds DEF Init
<1>3. Waiting = <<>>
  BY <1>1, <1>2, WaitingIsSeq, EmptySeq DEF WaitingOk
<1> QED
  BY <1>3 DEF Init, Fifo!FifoInit

\* A character the handler stores is put at the end of the FIFO.
LEMMA WriteIsPut ==
    ASSUME Inv, Inv', NEW ch \in Char, ~Full,
           buffer' = [buffer EXCEPT ![bufferHead] = ch],
           bufferHead' = Succ(bufferHead),
           sent' = Append(sent, ch),
           UNCHANGED <<bufferTail, lost, taken>>
    PROVE  Fifo!Put(ch)
<1> USE DEF Inv
<1>1. /\ Count' = Count + 1
      /\ SlotAt(Count + 1) = bufferHead
      /\ \A i \in 1..KBD_BUFFER_SIZE : SlotAt(i)' = SlotAt(i)
  BY CountAfterWrite
<1>2. Count \in Nat /\ Count < KBD_BUFFER_SIZE - 1
  BY CountBounds, BufferSizeAssumption
<1>3. /\ Waiting \in Seq(Char) /\ Len(Waiting) = Count
      /\ \A i \in 1..Count : Waiting[i] = buffer[SlotAt(i)]
  BY WaitingIsSeq DEF WaitingOk
<1>4. /\ Waiting' \in Seq(Char) /\ Len(Waiting') = Count + 1
      /\ \A i \in 1..(Count + 1) : Waiting'[i] = buffer'[SlotAt(i)']
  <2>1. \A i \in 1..(Count + 1) : i \in 1..KBD_BUFFER_SIZE
    BY <1>2, BufferSizeAssumption
  <2>2. \A i \in 1..(Count + 1) : SlotAt(i)' = SlotAt(i)
    BY <1>1, <2>1
  <2> QED
    BY <1>1, <2>2, WaitingIsSeqNext DEF WaitingOk
<1>5. ASSUME NEW i \in 1..(Count + 1)
      PROVE  Waiting'[i] = Append(Waiting, ch)[i]
  <2>1. i \in 1..KBD_BUFFER_SIZE /\ Count + 1 \in 1..KBD_BUFFER_SIZE
    BY <1>2, BufferSizeAssumption
  <2>2. SlotAt(i) \in Slot /\ (SlotAt(i) = bufferHead => i = Count + 1)
    BY <1>1, <2>1, SlotAtInjective
  <2>3. Waiting'[i] = IF i = Count + 1 THEN ch ELSE buffer[SlotAt(i)]
    BY <1>1, <1>4, <2>1, <2>2 DEF TypeOK
  <2> QED
    BY <1>2, <1>3, <2>3, AppendProperties
<1>6. Waiting' = Append(Waiting, ch)
  BY <1>2, <1>3, <1>4, <1>5, AppendProperties, SeqEqual
<1> QED
  BY <1>2, <1>3, <1>6 DEF Fifo!Put

\* Freeing a slot takes the oldest character, the one kbd_buffer copied.
LEMMA AdvanceIsTake ==
    ASSUME Inv, Inv', ReadAdvance
    PROVE  Fifo!Take
<1> USE DEF Inv
<1>1. /\ Count > 0 /\ buffer[bufferTail] = c
      /\ bufferTail' = Succ(bufferTail) /\ bufferHead' = bufferHead
      /\ buffer' = buffer /\ sent' = sent /\ lost' = lost /\ taken' = Append(taken, c)
  BY DEF ReadAdvance, ReadNotOvertaken
<1>2. /\ Count' = Count - 1
      /\ \A i \in 1..(Count - 1) : SlotAt(i)' = SlotAt(i + 1)
  BY <1>1, CountAfterRead
<1>3. Count \in Nat /\ SlotAt(1) = bufferTail
  BY CountBounds, BufferSizeAssumption DEF SlotAt, TypeOK, Slot
<1>4. /\ Waiting \in Seq(Char) /\ Len(Waiting) = Count
      /\ \A i \in 1..Count : Waiting[i] = buffer[SlotAt(i)]
  BY WaitingIsSeq DEF WaitingOk
<1>5. /\ Waiting' \in Seq(Char) /\ Len(Waiting') = Count - 1
      /\ \A i \in 1..(Count - 1) : Waiting'[i] = buffer[SlotAt(i)']
  BY <1>1, <1>2, WaitingIsSeqNext DEF WaitingOk
<1>6. Waiting # <<>> /\ Head(Waiting) = c
  <2>1. Waiting # <<>>
    BY <1>1, <1>4, EmptySeq
  <2>2. Waiting[1] = c
    BY <1>1, <1>3, <1>4
  <2> QED
    BY <2>1, <2>2, <1>4
<1>7. /\ Tail(Waiting) \in Seq(Char) /\ Len(Tail(Waiting)) = Count - 1
      /\ \A i \in 1..(Count - 1) : Tail(Waiting)[i] = Waiting[i + 1]
  BY <1>4, <1>6, HeadTailProperties
<1>8. \A i \in 1..(Count - 1) : Waiting'[i] = Tail(Waiting)[i]
  BY <1>2, <1>3, <1>4, <1>5, <1>7
<1>9. Waiting' = Tail(Waiting)
  BY <1>5, <1>7, <1>8, SeqEqual
<1> QED
  BY <1>1, <1>6, <1>9 DEF Fifo!Take

\* Every step of the device is a step of the FIFO, or changes nothing it shows.
LEMMA StepIsFifoStep ==
    Inv /\ Inv' /\ [Next]_vars => [Fifo!FifoNext]_(Fifo!fifoVars)
<1> SUFFICES ASSUME Inv, Inv', [Next]_vars
             PROVE  [Fifo!FifoNext]_(Fifo!fifoVars)
  OBVIOUS
<1>1. ASSUME UNCHANGED <<deviceVars, sent, taken, lost>>
      PROVE  UNCHANGED Fifo!fifoVars
  BY <1>1 DEF Fifo!fifoVars, Waiting, Count, SlotAt, deviceVars
<1>2. ASSUME NEW sc \in Scancode, kbd_handler(sc)
      PROVE  [Fifo!FifoNext]_(Fifo!fifoVars)
  <2> DEFINE ch == CharOf(sc)
  <2>1. CASE sc >= 128
    BY <1>1, <1>2, <2>1 DEF kbd_handler
  <2>2. CASE ~(sc >= 128) /\ Full
    <3>1. Len(Waiting) = KBD_BUFFER_SIZE - 1
      BY <2>2, WaitingIsSeq, CountBounds DEF Inv, WaitingOk
    <3>2. /\ sent' = Append(sent, ch) /\ lost' = lost + 1
          /\ UNCHANGED <<deviceVars, taken>>
      BY <1>2, <2>2 DEF kbd_handler, kbd_device_write
    <3>3. Waiting' = Waiting
      BY <3>2 DEF Waiting, Count, SlotAt, deviceVars
    <3>4. ch \in Char
      BY <2>2, ScancodeAssumption, HandlerCharacter DEF Inv
    <3> QED
      BY <3>1, <3>2, <3>3, <3>4 DEF Fifo!FifoNext, Fifo!Refuse
  <2>3. CASE ~(sc >= 128) /\ ~Full
    <3>1. sc < 128
      BY <2>3, ScancodeAssumption
    <3>2. ch \in Char
      BY <3>1, HandlerCharacter DEF Inv
    <3>3. /\ buffer' = [buffer EXCEPT ![bufferHead] = ch]
          /\ bufferHead' = Succ(bufferHead)
          /\ sent' = Append(sent, ch)
          /\ UNCHANGED <<bufferTail, lost, taken>>
      BY <1>2, <2>3 DEF kbd_handler, kbd_device_write
    <3>4. Fifo!Put(ch)
      BY <2>3, <3>2, <3>3, WriteIsPut
    <3> QED
      BY <3>2, <3>4 DEF Fifo!FifoNext
  <2> QED
    BY <2>1, <2>2, <2>3
<1>3. CASE ReadEmptyTest
  BY <1>1, <1>3 DEF ReadEmptyTest
<1>4. CASE ReadFetch
  BY <1>1, <1>4 DEF ReadFetch
<1>5. CASE ReadAdvance
  BY <1>5, AdvanceIsTake DEF Fifo!FifoNext
<1>6. CASE ReadReturn
  BY <1>1, <1>6 DEF ReadReturn
<1>7. CASE UNCHANGED vars
  BY <1>1, <1>7 DEF vars
<1> QED
  BY <1>2, <1>3, <1>4, <1>5, <1>6, <1>7 DEF Next, Reader

\* The keyboard buffer is a FIFO, of the characters of the keys pressed, that
\* refuses one only when KBD_BUFFER_SIZE - 1 are waiting: kbd_device_write and kbd_buffer lose,
\* repeat and reorder nothing.
THEOREM RingImplementsFifo == Spec => RingIsFifo
<1>1. Spec => Init /\ [][Next]_vars
  BY PTL DEF Spec
<1> QED
  BY <1>1, InvHolds, InitIsFifoInit, StepIsFifoStep, PTL DEF RingIsFifo, Fifo!FifoSpec
=============================================================================
