------------------------------ MODULE Display ------------------------------
(***************************************************************************)
(* kdebug/debug.c, kmod/tty/tty.c and kmod/vga/vga.c: one text memory and   *)
(* one hardware cursor, written through two cursors.  The kernel's putch    *)
(* runs here in its separate accesses to csr_x, csr_y, the memory and the   *)
(* ports; the terminal's tty_write in its accesses to the memory and the    *)
(* ports.  Into either falls the first timer interrupt after task_init, for *)
(* which switch_task prints its log with the same putch.  What is printed   *)
(* with interrupts off, that log and the text of the boot, is pending and   *)
(* goes through Screen's putch, a character a step.  tty.c's reads and      *)
(* writes of the whole memory, and memcpy, are one step each.               *)
(***************************************************************************)
EXTENDS Screen

CONSTANTS
    SHORT,      \* 2^16: cursorOffset is an unsigned short
    BYTE,       \* 2^8: what one of the two cursor registers holds
    Starts,     \* the texts printed before, from which the start is chosen
    Chars,      \* the characters printed
    MaxChars,   \* bound: how many
    Log         \* what switch_task prints

ASSUME ShortAssumption == SHORT \in Nat \ {0}

\* An offset that has left the text by a row is still an unsigned short.
ASSUME OffsetAssumption == WIDTH * (HEIGHT + 1) <= SHORT

ASSUME TextAssumption ==
    /\ Chars \subseteq Nat
    /\ Starts \cup {Log} \subseteq Seq(Nat \ {BACKSPACE})

VARIABLES
    printer,    \* who prints: "kernel" (kprintf) or "program" (tty_write)
    scr,        \* the text memory, csr_x and csr_y
    pending,    \* what is left to print with interrupts off
    crt,        \* the controller's selected register and its two cursor registers
    cursorOffset, buffer,             \* of the terminal, and tty_scroll's local
    pc, ch, reg,                      \* the place in putch, its c, a value read
    erasing,                          \* the stage of a backspace in putch
    start, printed,                   \* history: the text before, the text since
    stray, above, hit                 \* history: a store was outside the text; the
                                      \* terminal's cursor went above the screen;
                                      \* where the timer interrupt fell

termVars == <<cursorOffset, buffer>>
history == <<start, printed, stray, above, hit>>
vars == <<printer, scr, pending, crt, termVars, pc, ch, reg, erasing, history>>

Shown(position) == [index |-> 15, high |-> (position \div BYTE) % BYTE, low |-> position % BYTE]

\* kdbg_init's cls, then everything printed while booting.
Init ==
    /\ printer \in {"kernel", "program"}
    /\ start \in Starts
    /\ scr = cls
    /\ pending = start
    /\ crt = Shown(Position(scr))
    /\ cursorOffset = 0
    /\ buffer = <<>>
    /\ pc = "rest" /\ ch = BLANK /\ reg = 0 /\ erasing = "no"
    /\ printed = <<>> /\ stray = FALSE /\ above = FALSE /\ hit = "none"

Interruptible == pending = <<>> /\ UNCHANGED pending

PrintPending ==
    /\ pending # <<>>
    /\ pending' = Tail(pending)
    /\ stray' = (stray \/ (Head(pending) >= BLANK /\ Position(scr) \notin Text))
    /\ scr' = putch(scr, Head(pending))
    /\ crt' = Shown(Position(scr'))
    /\ UNCHANGED <<printer, termVars, pc, ch, reg, erasing, start, printed, above, hit>>

(***************************************************************************)
(* putch, an access a step.  The call of putch(' ') within a backspace goes *)
(* through the same steps with erasing = "blank".                           *)
(***************************************************************************)
c == IF erasing = "blank" THEN BLANK ELSE ch

\* The step at p goes to q with r in the register, and leaves the screen s.
Do(p, q, r, s) ==
    /\ Interruptible
    /\ pc = p /\ pc' = q /\ reg' = r /\ scr' = s
    /\ UNCHANGED <<printer, crt, termVars, ch, start, printed, above, hit>>

Quiet == UNCHANGED <<erasing, stray>>

Room == Len(printed) < MaxChars + (IF hit # "none" /\ printer = "kernel" THEN Len(Log) ELSE 0)

Call ==
    /\ Interruptible
    /\ printer = "kernel" /\ pc = "rest" /\ Room
    /\ \E char \in Chars :
          /\ ch' = char
          /\ printed' = Append(printed, char)
          /\ pc' = CASE char = BACKSPACE           -> "test"
                     [] char = HTAB                -> "xload"
                     [] char \in {RETURN, NEWLINE} -> "home"
                     [] char >= BLANK              -> "drawy"
                     [] OTHER                      -> "wrap"
    /\ UNCHANGED <<printer, scr, crt, termVars, reg, erasing, start, stray, above, hit>>

Test ==
    /\ Do("test", IF scr.x # 0 THEN "xload" ELSE "wrap", reg, scr)
    /\ erasing' = IF scr.x # 0 THEN "first" ELSE "no"
    /\ UNCHANGED stray

Draw ==
    \/ Do("drawy", "drawx", scr.y * WIDTH, scr) /\ Quiet
    \/ Do("drawx", "draw", reg + scr.x, scr) /\ Quiet
    \/ /\ Do("draw", "xload", reg, [scr EXCEPT !.cell = Store(@, reg, c)])
       /\ stray' = (stray \/ reg \notin Text)
       /\ UNCHANGED erasing

ChangeX ==
    \/ /\ Do("xload", "xstore",
             CASE c = BACKSPACE -> scr.x - 1
               [] c = HTAB      -> NextTabStop(scr.x)
               [] OTHER         -> scr.x + 1,
             scr)
       /\ Quiet
    \/ /\ Do("xstore", IF erasing = "first" THEN "drawy" ELSE "wrap", reg,
             [scr EXCEPT !.x = reg])
       /\ erasing' = CASE erasing = "first"  -> "blank"
                       [] erasing = "second" -> "no"
                       [] OTHER              -> erasing
       /\ UNCHANGED stray

\* A newline, in the text or because the line is full.
NextLine ==
    /\ \/ Do("wrap", IF LineFull(scr) THEN "home" ELSE "full", reg, scr)
       \/ Do("home", IF c = RETURN THEN "wrap" ELSE "yload", reg, [scr EXCEPT !.x = 0])
       \/ Do("yload", "ystore", scr.y + 1, scr)
       \/ Do("ystore", IF c = NEWLINE THEN "wrap" ELSE "full", reg, [scr EXCEPT !.y = reg])
    /\ Quiet

Scroll ==
    \/ Do("full", IF PageFull(scr) THEN "temp" ELSE "movey", reg, scr) /\ Quiet
    \/ Do("temp", "copy", scr.y - HEIGHT + 1, scr) /\ Quiet
    \/ /\ Do("copy", "last", reg, [scr EXCEPT !.cell = ScrolledBy(@, reg)])
       /\ stray' = (stray \/ reg = 0)       \* the row that is cleared is behind the text
       /\ UNCHANGED erasing
    \/ Do("last", "movey", reg, [scr EXCEPT !.y = HEIGHT - 1]) /\ Quiet

\* move_csr up to its temp.
MoveCsr ==
    /\ \/ Do("movey", "movex", scr.y * WIDTH, scr)
       \/ Do("movex", "select high", reg + scr.x, scr)
    /\ Quiet

PutchStep == Test \/ Draw \/ ChangeX \/ NextLine \/ Scroll \/ MoveCsr

(***************************************************************************)
(* The four writes to the controller, by move_csr and vga_set_cursor_offset *)
(***************************************************************************)
Selected(value) == IF crt.index = 14 THEN [crt EXCEPT !.high = value]
                                     ELSE [crt EXCEPT !.low = value]

OutPort(p, q, crtAfter) ==
    /\ Interruptible
    /\ pc = p /\ pc' = q
    /\ crt' = crtAfter
    /\ UNCHANGED <<printer, scr, termVars, ch, reg, history>>

PortWrites ==
    \/ /\ \/ OutPort("select high", "high", [crt EXCEPT !.index = 14])
          \/ OutPort("high", "select low", Selected((reg \div BYTE) % BYTE))
          \/ OutPort("select low", "low", [crt EXCEPT !.index = 15])
       /\ UNCHANGED erasing
    \/ /\ OutPort("low", IF erasing = "blank" THEN "xload" ELSE "rest", Selected(reg % BYTE))
       /\ erasing' = IF erasing = "blank" THEN "second" ELSE "no"

(***************************************************************************)
(* The terminal, for a program's write of one character or more.            *)
(***************************************************************************)
\* Where tty_putc leaves cursorOffset, before it scrolls.
OffsetAfter(offset, char) ==
    (CASE char = BACKSPACE -> offset - 1
       [] char = HTAB      -> NextTabStop(offset)
       [] char = RETURN    -> offset - (offset % WIDTH)
       [] char = NEWLINE   -> offset + WIDTH - (offset % WIDTH)
       [] char >= BLANK    -> offset + 1
       [] OTHER            -> offset) % SHORT

SIZE == WIDTH * HEIGHT

\* Both loops stop at the cell behind the text, and only there.
Within(offset, count) ==
    IF offset <= SIZE /\ offset + count > SIZE THEN SIZE - offset ELSE count

vga_read_framebuffer(cell, offset, count) ==
    [j \in 1..Within(offset, count) |-> cell[offset + j - 1]]

vga_write_framebuffer(cell, offset, text) ==
    [i \in Memory |-> IF i - offset \in 0..(Within(offset, Len(text)) - 1)
                      THEN text[i - offset + 1] ELSE cell[i]]

tty_putc ==
    /\ Interruptible
    /\ printer = "program" /\ pc \in {"rest", "loop"} /\ Room
    /\ \E char \in Chars :
          LET text == IF char >= BLANK THEN <<char>> ELSE <<>>
          IN  /\ printed' = Append(printed, char)
              /\ scr' = [scr EXCEPT !.cell = vga_write_framebuffer(@, cursorOffset, text)]
              /\ stray' = (stray \/ (text # <<>> /\ cursorOffset > SIZE))
              /\ above' = (above \/ (char = BACKSPACE /\ cursorOffset = 0))
              /\ cursorOffset' = OffsetAfter(cursorOffset, char)
              /\ pc' = IF cursorOffset' >= SIZE THEN "read" ELSE "loop"
    /\ UNCHANGED <<printer, crt, buffer, ch, reg, erasing, start, hit>>

tty_scroll ==
    /\ Interruptible
    /\ \/ /\ pc = "read" /\ pc' = "write"
          /\ buffer' = vga_read_framebuffer(scr.cell, WIDTH, SIZE - WIDTH)
                         \o [j \in 1..WIDTH |-> BLANK]
          /\ UNCHANGED <<scr, cursorOffset>>
       \/ /\ pc = "write" /\ pc' = "loop"
          /\ scr' = [scr EXCEPT !.cell = vga_write_framebuffer(@, 0, buffer)]
          /\ cursorOffset' = (cursorOffset - WIDTH) % SHORT
          /\ buffer' = <<>>
    /\ UNCHANGED <<printer, crt, ch, reg, erasing, history>>

\* The end of tty_write: the cursor's node gets cursorOffset.
tty_cursor ==
    /\ Interruptible
    /\ pc = "loop" /\ pc' = "select high"
    /\ reg' = cursorOffset
    /\ UNCHANGED <<printer, scr, crt, termVars, ch, erasing, history>>

(***************************************************************************)
(* The first timer interrupt: switch_task's log.                            *)
(***************************************************************************)
OnScreen(s) == s.x \in 0..(WIDTH - 1) /\ s.y \in 0..(HEIGHT - 1)

\* putch has used nothing yet: the log comes before its character.
Untouched ==
    \/ pc = "test"
    \/ /\ erasing = "no" /\ OnScreen(scr)
       /\ pc = CASE c = HTAB                 -> "xload"
                 [] c \in {RETURN, NEWLINE} -> "home"
                 [] OTHER                    -> "drawy"

\* putch has only its tests left: the log comes after its character.
Done == pc \in {"wrap", "full", "movey"} /\ erasing = "no" /\ OnScreen(scr)

Tick ==
    /\ hit = "none" /\ pending = <<>>
    /\ hit' = IF pc = "rest" \/ Untouched \/ Done THEN "between"
              ELSE IF erasing # "no" THEN "erasing"
              ELSE IF ~OnScreen(scr) THEN "off" ELSE "inside"
    /\ printed' = IF printer = "program" THEN printed
                  ELSE IF Untouched THEN Front(printed) \o Log \o <<ch>>
                  ELSE printed \o Log
    /\ pending' = Log
    /\ UNCHANGED <<printer, scr, crt, termVars, pc, ch, reg, erasing, start, stray, above>>

Next == PrintPending \/ Call \/ PutchStep \/ PortWrites \/ tty_putc \/ tty_scroll \/ tty_cursor \/ Tick

Spec == Init /\ [][Next]_vars

(***************************************************************************)
(* What a screen promises: it shows the end of an endless page.  `at' is    *)
(* the place of the cursor on the page, `top' the first row still shown.    *)
(***************************************************************************)
Typed(who, page, char) ==
    LET at == page.at
        back == who = "program" \/ at % WIDTH # 0
        to == CASE char = BACKSPACE -> IF back THEN at - 1 ELSE at
                [] char = HTAB      -> at + TAB - (at % TAB)
                [] char = RETURN    -> at - (at % WIDTH)
                [] char = NEWLINE   -> at + WIDTH - (at % WIDTH)
                [] char >= BLANK    -> at + 1
                [] OTHER            -> at
        row == to \div WIDTH - HEIGHT + 1
    IN  [cell  |-> [i \in DOMAIN page.cell |->
                       IF char >= BLANK /\ i = at THEN char
                       ELSE IF char = BACKSPACE /\ who = "kernel" /\ back /\ i = to
                       THEN BLANK ELSE page.cell[i]],
         at    |-> to,
         top   |-> IF row > page.top THEN row ELSE page.top]

PrintedOn(who, page, text) == FoldLeft(LAMBDA p, char : Typed(who, p, char), page, text)

\* The page before anything is printed on it.  The terminal starts on it at the top left,
\* over what the boot has left on the screen.
Blank(who, booted, size) ==
    [cell |-> [i \in 0..(size - 1) |-> IF i \in Text /\ who = "program"
                                      THEN booted.cell[i] ELSE BLANK],
     at |-> 0, top |-> 0]

\* As much of it as the text can fill: a character moves at most a row on.
Paper ==
    LET blank == Blank(printer, kprintf(cls, start),
                       WIDTH * (HEIGHT + Len(start) + Len(printed)))
    IN  PrintedOn(printer, blank, IF printer = "kernel" THEN start \o printed ELSE printed)

AtRest == pc = "rest" /\ pending = <<>>

\* Between two characters the kernel's cursor is on the screen, wherever in a putch the
\* timer's log fell, but for a backspace, which tests csr_x and then decrements it twice
\* (debug.c:70-74): there the log can leave it at -1.
CursorOnScreen == AtRest /\ hit # "erasing" => OnScreen(scr)

\* Nothing is stored outside the text, unless the log found the cursor past the edge, before
\* putch had scrolled (debug.c:96-102), or in a backspace; and by the terminal only
\* after a backspace in the first cell of the screen (tty.c:33).
StoresOnScreen ==
    stray => IF printer = "kernel" THEN hit \in {"off", "erasing"} ELSE above

\* Between two characters the text is the end of the page on which everything was printed
\* in turn, the log among it, with cursor and hardware cursor at its end: if the timer
\* found putch with nothing half done (the terminal: if it did not come), and the
\* terminal's cursor was not moved above the screen.
ShowsPaper ==
    AtRest /\ (hit = "none" \/ (hit = "between" /\ printer = "kernel")) /\ ~above =>
        LET page == Paper
            shown == page.at - page.top * WIDTH
        IN  /\ \A i \in Text : scr.cell[i] = page.cell[page.top * WIDTH + i]
            /\ (IF printer = "kernel" THEN Position(scr) ELSE cursorOffset) = shown
            /\ printer = "kernel" \/ printed # <<>> => crt = Shown(shown)
=============================================================================
