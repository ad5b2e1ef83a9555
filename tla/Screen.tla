------------------------------- MODULE Screen -------------------------------
(***************************************************************************)
(* kdebug/debug.c, the screen of the kernel: what putch, with scroll, does  *)
(* when nothing interrupts it.  A screen is the text memory, by cell, and   *)
(* the cursor csr_x, csr_y.  The memory behind the text belongs to it for   *)
(* one row, which is as far as the code can write by mistake; colours are   *)
(* left out.                                                                *)
(***************************************************************************)
EXTENDS Integers, Sequences, SequencesExt

CONSTANTS WIDTH, HEIGHT,   \* 80 and 25 in the code
          TAB              \* 8 in the code

ASSUME ScreenAssumption ==
    /\ WIDTH \in Nat \ {0} /\ HEIGHT \in Nat \ {0} /\ TAB \in Nat \ {0}
    /\ WIDTH % TAB = 0

BACKSPACE == 8
HTAB == 9
NEWLINE == 10
RETURN == 13
BLANK == 32
UNTOUCHED == 0             \* what is behind the text

Text == 0..(WIDTH * HEIGHT - 1)
Memory == 0..(WIDTH * (HEIGHT + 1) - 1)

Store(cell, i, ch) == [j \in Memory |-> IF j = i THEN ch ELSE cell[j]]

\* Rows from temp on move to the top, and the row behind them is cleared.
ScrolledUncleared(cell, temp) ==           \* mutant: the last row is not cleared
    [i \in Memory |-> IF i < (HEIGHT - temp) * WIDTH THEN cell[i + temp * WIDTH]
                      ELSE cell[i]]

ScrolledBy(cell, temp) ==
    LET kept == (HEIGHT - temp) * WIDTH
    IN  [i \in Memory |-> IF i < kept THEN cell[i + temp * WIDTH]
                          ELSE IF i < kept + WIDTH THEN BLANK
                          ELSE cell[i]]

PageFullLate(s) == s.y > HEIGHT            \* mutant: one row more fits

PageFull(s) == s.y >= HEIGHT

scroll(s) ==
    IF PageFull(s)
    THEN [cell |-> ScrolledBy(s.cell, s.y - HEIGHT + 1), x |-> s.x, y |-> HEIGHT - 1]
    ELSE s

NextTabStop(x) == (x \div TAB + 1) * TAB

LineFullLate(s) == s.x > WIDTH             \* mutant: one column more fits

LineFull(s) == s.x >= WIDTH

\* The end of putch: go to the next line when this one is full, then scroll.
Settled(s) == scroll(IF LineFull(s) THEN [s EXCEPT !.x = 0, !.y = @ + 1] ELSE s)

Drawn(s, ch) == [s EXCEPT !.cell = Store(@, s.y * WIDTH + s.x, ch), !.x = @ + 1]

Erased(s) ==
    LET blanked == Settled(Drawn([s EXCEPT !.x = @ - 1], BLANK))
    IN  [blanked EXCEPT !.x = @ - 1]

Placed(s, ch) ==
    CASE ch = BACKSPACE -> IF s.x # 0 THEN Erased(s) ELSE s
      [] ch = HTAB      -> [s EXCEPT !.x = NextTabStop(@)]
      [] ch = RETURN    -> [s EXCEPT !.x = 0]
      [] ch = NEWLINE   -> [s EXCEPT !.x = 0, !.y = @ + 1]
      [] ch >= BLANK    -> Drawn(s, ch)
      [] OTHER          -> s

putch(s, ch) == Settled(Placed(s, ch))

\* What kprintf does with the text it makes of its format (Format).
kprintf(s, string) == FoldLeft(putch, s, string)

\* move_csr: where the hardware shows the cursor.
Position(s) == s.y * WIDTH + s.x

cls == [cell |-> [i \in Memory |-> IF i \in Text THEN BLANK ELSE UNTOUCHED],
        x |-> 0, y |-> 0]
=============================================================================
