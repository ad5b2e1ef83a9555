------------------------------ MODULE Keyboard ------------------------------
(***************************************************************************)
(* kmod/kbd/kbd.c: the ring buffer between the keyboard interrupt and the   *)
(* kernel shell's polling loop.                                             *)
(*                                                                          *)
(* The interrupt handler is the only producer.  It runs with interrupts     *)
(* off and before its end-of-interrupt, so it is one step; it may fall      *)
(* between any two steps of the only consumer, the thread that calls        *)
(* kbd_buffer or kbd_device_read (the two bodies are the same).             *)
(***************************************************************************)
EXTENDS Integers, Sequences

CONSTANTS
    KBD_BUFFER_SIZE,   \* slots of the ring
    Scancode,          \* the scancodes the keyboard sends
    kbdMapUS,          \* scancode + 128 if shifted -> character, 0 for none
    MaxKeys            \* bound: how many scancodes are sent in a behaviour

ASSUME BufferSizeAssumption == KBD_BUFFER_SIZE \in Nat \ {0}
ASSUME ScancodeAssumption == Scancode \subseteq 0..255
ASSUME MapAssumption == kbdMapUS \in [0..255 -> 0..127]

VARIABLES
    buffer, bufferHead, bufferTail,   \* struct kbd_device
    toggleShift, toggleCaps,
    pc, c,                            \* the consumer's place in kbd_buffer, or "hang"
                                      \* if the shell never comes back; its local c
    kernel_shell,                     \* FALSE once the polling loop has been left
    keys,                             \* scancodes sent so far
    sent, taken, lost                 \* history: characters of the keys pressed,
                                      \* characters removed, number refused

deviceVars == <<buffer, bufferHead, bufferTail>>
toggleVars == <<toggleShift, toggleCaps>>
readerVars == <<pc, c, kernel_shell>>
vars == <<deviceVars, toggleVars, readerVars, keys, sent, taken, lost>>

Slot == 0..(KBD_BUFFER_SIZE - 1)
Char == 0..127
NEWLINE == 10
PERCENT == 37

TypeOK ==
    /\ buffer \in [Slot -> Char]
    /\ bufferHead \in Slot
    /\ bufferTail \in Slot
    /\ toggleShift \in BOOLEAN
    /\ toggleCaps \in BOOLEAN
    /\ pc \in {"poll", "fetch", "advance", "return", "hang"}
    /\ c \in Char
    /\ kernel_shell \in BOOLEAN
    /\ keys \in Nat
    /\ sent \in Seq(Char)
    /\ taken \in Seq(Char)
    /\ lost \in Nat

\* kbd_init leaves toggleCaps alone: it is still zero from .bss.
Init ==
    /\ buffer = [i \in Slot |-> 0]
    /\ bufferHead = 0
    /\ bufferTail = 0
    /\ toggleShift = FALSE
    /\ toggleCaps = FALSE
    /\ pc = "poll"
    /\ c = 0
    /\ kernel_shell = TRUE
    /\ keys = 0
    /\ sent = <<>>
    /\ taken = <<>>
    /\ lost = 0

SuccUnwrapped(i) == i + 1                  \* mutant: the index never wraps

Succ(i) == (i + 1) % KBD_BUFFER_SIZE

(***************************************************************************)
(* The producer.                                                            *)
(***************************************************************************)
ShiftAfter(sc) ==
    CASE sc \in {42, 54}   -> TRUE               \* 0x2A, 0x36: shift down
      [] sc \in {170, 182} -> FALSE              \* 0xAA, 0xB6: shift up
      [] sc = 58           -> ~toggleCaps        \* 0x3A: caps lock
      [] OTHER             -> toggleShift

CapsAfter(sc) == IF sc = 58 THEN ~toggleCaps ELSE toggleCaps

FullNever == FALSE                         \* mutant: no test for a full ring

Full == Succ(bufferHead) = bufferTail

kbd_write_ahead(ch) ==                     \* mutant: the head moves before the store
    IF Full
    THEN /\ lost' = lost + 1
         /\ UNCHANGED deviceVars
    ELSE /\ buffer' = [buffer EXCEPT ![Succ(bufferHead)] = ch]
         /\ bufferHead' = Succ(bufferHead)
         /\ UNCHANGED <<bufferTail, lost>>

kbd_device_write(ch) ==
    IF Full
    THEN /\ lost' = lost + 1
         /\ UNCHANGED deviceVars
    ELSE /\ buffer' = [buffer EXCEPT ![bufferHead] = ch]
         /\ bufferHead' = Succ(bufferHead)
         /\ UNCHANGED <<bufferTail, lost>>

\* A key that has no character (shift itself, say) has the character 0.
CharOf(sc) == kbdMapUS[IF ShiftAfter(sc) THEN sc + 128 ELSE sc]

kbd_handler(sc) ==
    /\ keys < MaxKeys
    /\ keys' = keys + 1
    /\ toggleShift' = ShiftAfter(sc)
    /\ toggleCaps' = CapsAfter(sc)
    /\ IF sc >= 128
       THEN UNCHANGED <<deviceVars, sent, lost>>
       ELSE kbd_device_write(CharOf(sc)) /\ sent' = Append(sent, CharOf(sc))
    /\ UNCHANGED <<readerVars, taken>>

(***************************************************************************)
(* The consumer: kbd_buffer, called in a loop by kshell_init.               *)
(***************************************************************************)
ReadEmptyTest ==
    /\ pc = "poll"
    /\ kernel_shell
    /\ c' = 0
    /\ pc' = IF bufferHead # bufferTail THEN "fetch" ELSE "return"
    /\ UNCHANGED <<deviceVars, toggleVars, kernel_shell, keys, sent, taken, lost>>

ReadFetch ==
    /\ pc = "fetch"
    /\ c' = buffer[bufferTail]
    /\ pc' = "advance"
    /\ UNCHANGED <<deviceVars, toggleVars, kernel_shell, keys, sent, taken, lost>>

ReadAdvanceFlushes ==                      \* mutant: the tail catches up with the head
    /\ pc = "advance"
    /\ bufferTail' = bufferHead
    /\ taken' = Append(taken, c)
    /\ pc' = "return"
    /\ UNCHANGED <<buffer, bufferHead, toggleVars, c, kernel_shell, keys, sent, lost>>

ReadAdvance ==
    /\ pc = "advance"
    /\ bufferTail' = Succ(bufferTail)
    /\ taken' = Append(taken, c)
    /\ pc' = "return"
    /\ UNCHANGED <<buffer, bufferHead, toggleVars, c, kernel_shell, keys, sent, lost>>

\* The shell handles what it got.  A whole line may be the command that ends its
\* loop, or one that does not come back; an echoed % makes kprintf read on behind
\* its format, for as long as it finds no zero.
ReadReturn ==
    /\ pc = "return"
    /\ pc' \in {"poll"} \cup (IF c \in {NEWLINE, PERCENT} THEN {"hang"} ELSE {})
    /\ kernel_shell' \in IF c = NEWLINE THEN BOOLEAN ELSE {TRUE}
    /\ UNCHANGED <<deviceVars, toggleVars, c, keys, sent, taken, lost>>

Reader == ReadEmptyTest \/ ReadFetch \/ ReadAdvance \/ ReadReturn

Next == (\E sc \in Scancode : kbd_handler(sc)) \/ Reader

\* The polling loop keeps running unless the shell hangs (then no reader's step is
\* enabled, and fairness asks for none); nobody has to press a key.
Spec == Init /\ [][Next]_vars /\ WF_vars(Reader)

(***************************************************************************)
(* Properties.                                                              *)
(***************************************************************************)
Count == IF bufferTail <= bufferHead
         THEN bufferHead - bufferTail
         ELSE bufferHead - bufferTail + KBD_BUFFER_SIZE

\* The slot of the i-th waiting character, i counted from 1.
SlotAt(i) == IF bufferTail + i - 1 < KBD_BUFFER_SIZE
             THEN bufferTail + i - 1
             ELSE bufferTail + i - 1 - KBD_BUFFER_SIZE

Waiting == [i \in 1..Count |-> buffer[SlotAt(i)]]

\* The consumer tests the ring, copies the character and frees the slot in
\* three steps, and interrupts fall between them: until it frees the slot,
\* the slot is still counted as waiting and still holds what it copied.
ReadNotOvertaken ==
    /\ pc \in {"fetch", "advance"} => Count > 0
    /\ pc = "advance" => buffer[bufferTail] = c

Fifo == INSTANCE BoundedFifo WITH
            Item <- Char, Capacity <- KBD_BUFFER_SIZE - 1, queue <- Waiting

\* The ring is a FIFO, of the characters of the keys pressed, with room for one
\* fewer than it has slots: nothing is altered, reordered, duplicated or
\* overwritten, and a character is refused only when all but one of the slots
\* are waiting to be read.
RingIsFifo == Fifo!FifoSpec

\* Every character the interrupt handler accepted is read, unless what the shell
\* did with an earlier one ends the polling loop first: a command leaves it, or a
\* line or a % is never handled to the end.
AcceptedIsRead ==
    \A n \in 1..MaxKeys :
        (Len(taken) + Count >= n) ~>
            (Len(taken) >= n \/ ~kernel_shell \/ pc = "hang")
=============================================================================
