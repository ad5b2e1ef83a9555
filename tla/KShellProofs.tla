---------------------------- MODULE KShellProofs ----------------------------
(* Theorems about KShell: timer_wait, for any width of the counter and any    *)
(* time to sleep; the echo of a line, for any screen, prompt and buffer; and  *)
(* that the buffer and the parser implement CommandLine.                      *)
EXTENDS KShell, WellFoundedInduction, SequenceTheorems, FiniteSetTheorems, TLAPS

(***************************************************************************)
(* The invariant: when the target has not wrapped, the counter has not      *)
(* either, and lacks exactly the ticks that the sleep still has to last.     *)
(* While the target has wrapped nothing is known, and nothing promised.      *)
(***************************************************************************)
Counters ==
    /\ pit_counter \in 0..(TICKS - 1)
    /\ eticks \in 0..(TICKS - 1)
    /\ slept \in 0..PERIOD

Lacking ==
    pc = "wait" /\ eticks >= PERIOD /\ slept < PERIOD =>
        pit_counter + (PERIOD - slept) = eticks

IInv == Counters /\ Lacking

(* A sum of two values of the counter wraps once at most. *)
LEMMA WrapsOnce ==
    ASSUME NEW n \in Nat, n < 2 * TICKS
    PROVE  n % TICKS = IF n < TICKS THEN n ELSE n - TICKS
<1>1. TICKS \in Nat \ {0}
    BY TimerAssumption
<1>2. n = (n \div TICKS) * TICKS + (n % TICKS) /\ n \div TICKS \in Nat /\ n % TICKS \in 0..(TICKS - 1)
    BY <1>1, SMT
<1>3. n \div TICKS <= 1
    BY <1>1, <1>2, SMTT(30)
<1>4. CASE n \div TICKS = 0
    BY <1>1, <1>2, <1>4
<1>5. CASE n \div TICKS = 1
    BY <1>1, <1>2, <1>5
<1> QED
    BY <1>2, <1>3, <1>4, <1>5

(* timer.c:13: the target is a value of the counter, below the time to sleep just *)
(* when the sum wrapped.                                                         *)
LEMMA TargetOfNow ==
    ASSUME NEW now \in 0..(TICKS - 1)
    PROVE  /\ Target(now) \in 0..(TICKS - 1)
           /\ Target(now) >= PERIOD => Target(now) = now + PERIOD
<1>1. now + PERIOD \in Nat /\ now + PERIOD < 2 * TICKS /\ PERIOD \in Int /\ TICKS \in Nat \ {0}
    BY TimerAssumption
<1>2. (now + PERIOD) % TICKS =
          IF now + PERIOD < TICKS THEN now + PERIOD ELSE now + PERIOD - TICKS
    BY <1>1, WrapsOnce
<1> QED
    BY <1>1, <1>2 DEF Target

(* A step that leaves the wait and its counters alone keeps the invariant. *)
LEMMA UntouchedKeeps ==
    ASSUME IInv, UNCHANGED waitVars, pc' = "wait" => pc = "wait"
    PROVE  IInv'
BY DEF IInv, Counters, Lacking, waitVars

LEMMA NewlineKeeps == IInv /\ HandleNewline => IInv'
<1> SUFFICES ASSUME IInv, HandleNewline PROVE IInv'
    OBVIOUS
<1>1. pc = "poll"
    BY DEF HandleNewline, Take
<1>2. CASE pc' = "wait"
    <2>1. PICK now \in 0..(TICKS - 1) :
              pit_counter' = now /\ eticks' = Target(now) /\ slept' = 0
        BY <1>2 DEF HandleNewline
    <2>2. Counters'
        BY <2>1, TargetOfNow, TimerAssumption DEF Counters
    <2>3. Lacking'
        BY <2>1, TargetOfNow, TimerAssumption DEF Lacking
    <2> QED
        BY <2>2, <2>3 DEF IInv
<1>3. CASE pc' # "wait"
    BY <1>3, UntouchedKeeps DEF HandleNewline
<1> QED
    BY <1>2, <1>3

(* A tick before the target cannot wrap the counter. *)
LEMMA TickKeeps == IInv /\ Tick => IInv'
<1> SUFFICES ASSUME IInv, Tick PROVE IInv'
    OBVIOUS
<1>1. /\ pc = "wait" /\ pc' = pc /\ eticks' = eticks
      /\ pit_counter' = (pit_counter + 1) % TICKS
      /\ slept' = IF slept < PERIOD THEN slept + 1 ELSE slept
    BY DEF Tick
<1>2. /\ pit_counter \in Nat /\ pit_counter + 1 < 2 * TICKS
      /\ TICKS \in Nat \ {0} /\ PERIOD \in Nat
    BY TimerAssumption DEF IInv, Counters
<1>3. (pit_counter + 1) % TICKS = IF pit_counter + 1 < TICKS THEN pit_counter + 1
                                  ELSE pit_counter + 1 - TICKS
    BY <1>2, WrapsOnce
<1>4. Counters'
    BY <1>1, <1>2, <1>3 DEF IInv, Counters
<1>5. Lacking'
    BY <1>1, <1>2, <1>3 DEF IInv, Counters, Lacking
<1> QED
    BY <1>4, <1>5 DEF IInv

LEMMA StepKeeps == IInv /\ [Next]_vars => IInv'
<1> SUFFICES ASSUME IInv, [Next]_vars PROVE IInv'
    OBVIOUS
<1>1. CASE HandleTab
    BY <1>1, UntouchedKeeps DEF HandleTab
<1>2. CASE HandleBackspace
    BY <1>2, UntouchedKeeps DEF HandleBackspace
<1>3. CASE HandleNewline
    BY <1>3, NewlineKeeps
<1>4. CASE HandleHelp
    BY <1>4, UntouchedKeeps DEF HandleHelp
<1>5. CASE HandleChar
    <2>1. pc' \in {pc, "hang"}
        BY <1>5 DEF HandleChar
    <2> QED
        BY <1>5, <2>1, UntouchedKeeps DEF HandleChar
<1>6. CASE WaitEnd
    BY <1>6, UntouchedKeeps DEF WaitEnd
<1>7. CASE Tick
    BY <1>7, TickKeeps
<1>8. CASE Press
    BY <1>8, UntouchedKeeps DEF Press
<1>9. CASE UNCHANGED vars
    BY <1>9, UntouchedKeeps DEF vars
<1> QED
    BY <1>1, <1>2, <1>3, <1>4, <1>5, <1>6, <1>7, <1>8, <1>9 DEF Next, Poll

LEMMA InitCounted == Init => IInv
BY TimerAssumption DEF Init, IInv, Counters, Lacking

(* timer_wait (timer.c:11): for any counter and any time, a wait whose target   *)
(* has not wrapped lasts at least that many ticks.                              *)
THEOREM SleepLasts == Spec => SleepsItsTime
<1>1. ASSUME IInv, [Next]_vars, pc = "wait", pc' = "poll"
      PROVE  slept >= PERIOD \/ eticks < PERIOD
    <2>1. WaitOver
        <3>1. CASE WaitEnd
            BY <3>1 DEF WaitEnd
        <3>2. CASE Poll
            BY <1>1, <3>2 DEF Poll, HandleTab, HandleBackspace, HandleNewline, HandleHelp,
                              HandleChar, Take
        <3>3. CASE Tick \/ Press \/ UNCHANGED vars
            BY <1>1, <3>3 DEF Tick, Press, vars
        <3> QED
            BY <1>1, <3>1, <3>2, <3>3 DEF Next
    <2> QED
        BY <1>1, <2>1, TimerAssumption DEF WaitOver, IInv, Counters, Lacking
<1>2. Spec => []IInv
    BY InitCounted, StepKeeps, PTL DEF Spec
<1> QED
    BY <1>1, <1>2, PTL DEF Spec, SleepsItsTime

(***************************************************************************)
(* putch, uninterrupted, and kprintf.  A screen of this kind is one that    *)
(* printing leaves.                                                         *)
(***************************************************************************)
Screens == [cell : [Memory -> Nat], x : 0..(WIDTH - 1), y : 0..(HEIGHT - 1)]

(* Before the line is wrapped and the page scrolled. *)
Placings == [cell : [Memory -> Nat], x : Nat, y : 0..HEIGHT]

LEMMA Sizes ==
    /\ WIDTH \in Nat \ {0} /\ HEIGHT \in Nat \ {0}
    /\ Memory \subseteq Nat
    /\ Screens \subseteq Placings
<1>1. WIDTH \in Nat \ {0} /\ HEIGHT \in Nat \ {0}
    BY ScreenAssumption
<1>2. WIDTH * (HEIGHT + 1) \in Nat
    BY <1>1
<1> QED
    BY <1>1, <1>2 DEF Memory, Screens, Placings

(* What is needed of the parts of a screen. *)
LEMMA PlacingIs ==
    ASSUME NEW cell \in [Memory -> Nat], NEW x \in Nat, NEW y \in 0..HEIGHT
    PROVE  LET s == [cell |-> cell, x |-> x, y |-> y]
           IN  s \in Placings /\ (x < WIDTH /\ y < HEIGHT => s \in Screens)
BY Sizes DEF Placings, Screens

(* A screen is its three parts, also when some have changed. *)
LEMMA OfParts ==
    ASSUME NEW a, NEW b, NEW d, NEW t \in [cell : {a}, x : {b}, y : {d}]
    PROVE  t = [cell |-> a, x |-> b, y |-> d]
OBVIOUS

LEMMA ChangedParts ==
    ASSUME NEW s \in Placings, NEW u, NEW v
    PROVE  /\ [s EXCEPT !.x = u, !.y = v] = [cell |-> s.cell, x |-> u, y |-> v]
           /\ [s EXCEPT !.cell = u, !.x = v] = [cell |-> u, x |-> v, y |-> s.y]
           /\ [s EXCEPT !.x = u] = [cell |-> s.cell, x |-> u, y |-> s.y]
           /\ s = [cell |-> s.cell, x |-> s.x, y |-> s.y]
           /\ s.cell \in [Memory -> Nat] /\ s.x \in Nat /\ s.y \in 0..HEIGHT
<1> DEFINE C == [Memory -> Nat]
<1>1. s \in [cell : C, x : Nat, y : 0..HEIGHT]
    BY DEF Placings
<1> HIDE DEF C
<1>2. /\ s \in [cell : {s.cell}, x : {s.x}, y : {s.y}]
      /\ s.cell \in C /\ s.x \in Nat /\ s.y \in 0..HEIGHT
    BY <1>1
<1>3. [s EXCEPT !.x = u, !.y = v] \in [cell : {s.cell}, x : {u}, y : {v}]
    BY <1>1
<1>4. [s EXCEPT !.cell = u, !.x = v] \in [cell : {u}, x : {v}, y : {s.y}]
    BY <1>1
<1>5. [s EXCEPT !.x = u] \in [cell : {s.cell}, x : {u}, y : {s.y}]
    BY <1>1
<1>6. s = [cell |-> s.cell, x |-> s.x, y |-> s.y]
    BY <1>2, OfParts
<1>7. [s EXCEPT !.x = u, !.y = v] = [cell |-> s.cell, x |-> u, y |-> v]
    BY <1>3, OfParts
<1>8. [s EXCEPT !.cell = u, !.x = v] = [cell |-> u, x |-> v, y |-> s.y]
    BY <1>4, OfParts
<1>9. [s EXCEPT !.x = u] = [cell |-> s.cell, x |-> u, y |-> s.y]
    BY <1>5, OfParts
<1> QED
    BY <1>2, <1>6, <1>7, <1>8, <1>9 DEF C

(* A store writes one cell, or none. *)
LEMMA StoreTyped ==
    ASSUME NEW cell \in [Memory -> Nat], NEW i, NEW char \in Nat
    PROVE  Store(cell, i, char) \in [Memory -> Nat]
BY DEF Store

(* One row scrolled is in the memory. *)
LEMMA ScrolledTyped ==
    ASSUME NEW cell \in [Memory -> Nat]
    PROVE  ScrolledBy(cell, 1) \in [Memory -> Nat]
<1>1. /\ WIDTH \in Nat \ {0} /\ HEIGHT \in Nat \ {0}
      /\ (HEIGHT - 1) * WIDTH \in Nat
      /\ (HEIGHT - 1) * WIDTH + 2 * WIDTH = WIDTH * (HEIGHT + 1)
    BY Sizes
<1>2. ASSUME NEW i \in Memory, i < (HEIGHT - 1) * WIDTH
      PROVE  i + 1 * WIDTH \in Memory
    BY <1>1, <1>2 DEF Memory
<1> QED
    BY <1>2 DEF ScrolledBy, BLANK

(* A cursor behind its row or below the page comes back into it. *)
LEMMA SettledIs ==
    ASSUME NEW s \in Placings, s.x >= WIDTH => s.y < HEIGHT
    PROVE  /\ Settled(s) \in Screens
           /\ s \in Screens => Settled(s) = s
           /\ s.x = 0 => Settled(s).x = 0
<1> DEFINE t == IF LineFull(s) THEN [s EXCEPT !.x = 0, !.y = @ + 1] ELSE s
<1>0. WIDTH \in Nat \ {0} /\ HEIGHT \in Nat \ {0}
    BY Sizes
<1>1. /\ t \in Placings /\ t.x < WIDTH
      /\ s \in Screens => t = s
      /\ s.x = 0 => t.x = 0
    <2>1. CASE LineFull(s)
        <3>1. s.y + 1 \in 0..HEIGHT /\ s.x >= WIDTH
            BY <1>0, <2>1 DEF LineFull, Placings
        <3>2. t = [s EXCEPT !.x = 0, !.y = s.y + 1]
            BY <2>1
        <3>3. t = [cell |-> s.cell, x |-> 0, y |-> s.y + 1]
            BY <3>2, ChangedParts
        <3>4. s.cell \in [Memory -> Nat]
            BY ChangedParts
        <3>5. t \in Placings
            BY <3>1, <3>3, <3>4, PlacingIs
        <3>6. t.x = 0
            BY <3>3
        <3>7. s \notin Screens
            BY <1>0, <3>1 DEF Screens
        <3> QED
            BY <1>0, <3>5, <3>6, <3>7
    <2>2. CASE ~LineFull(s)
        <3>1. t = s
            BY <2>2
        <3> HIDE DEF t
        <3> QED
            BY <1>0, <2>2, <3>1 DEF LineFull, Placings
    <2> QED
        BY <2>1, <2>2
<1>2. Settled(s) = scroll(t)
    BY Zenon DEF Settled
<1> HIDE DEF t
<1>3. CASE PageFull(t)
    <2>1. t.y = HEIGHT /\ t.y - HEIGHT + 1 = 1
        BY <1>0, <1>1, <1>3 DEF PageFull, Placings
    <2>2. scroll(t) = [cell |-> ScrolledBy(t.cell, 1), x |-> t.x, y |-> HEIGHT - 1]
        BY <1>3, <2>1, Zenon DEF scroll
    <2>3. ScrolledBy(t.cell, 1) \in [Memory -> Nat]
        BY <1>1, ScrolledTyped DEF Placings
    <2>4. t.x \in 0..(WIDTH - 1) /\ HEIGHT - 1 \in 0..(HEIGHT - 1)
        BY <1>0, <1>1 DEF Placings
    <2>5. t \notin Screens
        BY <1>0, <2>1 DEF Screens
    <2>6. scroll(t) \in Screens /\ scroll(t).x = t.x
        BY <2>2, <2>3, <2>4 DEF Screens
    <2> QED
        BY <1>1, <1>2, <2>5, <2>6
<1>4. CASE ~PageFull(t)
    <2>1. scroll(t) = t
        BY <1>4, Zenon DEF scroll
    <2>2. t \in Screens
        BY <1>0, <1>1, <1>4 DEF PageFull, Placings, Screens
    <2> QED
        BY <1>1, <1>2, <2>1, <2>2
<1> QED
    BY <1>3, <1>4

LEMMA DrawnIs ==
    ASSUME NEW s \in Screens, NEW char \in Nat
    PROVE  /\ Drawn(s, char) \in Placings
           /\ Drawn(s, char).x = s.x + 1 /\ Drawn(s, char).y = s.y
           /\ Drawn(s, char).cell = Store(s.cell, s.y * WIDTH + s.x, char)
<1> DEFINE v == Store(s.cell, s.y * WIDTH + s.x, char)
<1>1. v \in [Memory -> Nat]
    BY StoreTyped DEF Screens
<1>2. Drawn(s, char) = [s EXCEPT !.cell = v, !.x = @ + 1]
    BY DEF Drawn
<1> HIDE DEF v
<1>3. Drawn(s, char) \in Placings /\ Drawn(s, char).x = s.x + 1 /\ Drawn(s, char).y = s.y
      /\ Drawn(s, char).cell = v
    <2>1. s \in Placings /\ s.x + 1 \in Nat
        BY Sizes DEF Screens
    <2>2. Drawn(s, char) = [s EXCEPT !.cell = v, !.x = s.x + 1]
        BY <1>2
    <2>3. Drawn(s, char) = [cell |-> v, x |-> s.x + 1, y |-> s.y]
        BY <2>1, <2>2, ChangedParts
    <2>4. s.y \in 0..HEIGHT
        BY <2>1, ChangedParts
    <2> QED
        BY <1>1, <2>1, <2>3, <2>4, PlacingIs
<1> QED
    BY <1>3 DEF v

(* A character with a picture, where the row has room behind it. *)
LEMMA PutchDraws ==
    ASSUME NEW s \in Screens, NEW char \in Nat, char >= BLANK
    PROVE  /\ putch(s, char) \in Screens
           /\ s.x + 1 < WIDTH =>
                /\ putch(s, char).x = s.x + 1 /\ putch(s, char).y = s.y
                /\ putch(s, char).cell = Store(s.cell, s.y * WIDTH + s.x, char)
<1> DEFINE t == Drawn(s, char)
<1>1. putch(s, char) = Settled(t)
    <2>1. char # BACKSPACE /\ char # HTAB /\ char # RETURN /\ char # NEWLINE
        BY DEF BACKSPACE, HTAB, RETURN, NEWLINE, BLANK
    <2>2. Placed(s, char) = t
        BY <2>1, Zenon DEF Placed
    <2> QED
        BY <2>2, Zenon DEF putch
<1>2. /\ t \in Placings /\ t.x = s.x + 1 /\ t.y = s.y
      /\ t.cell = Store(s.cell, s.y * WIDTH + s.x, char)
    BY DrawnIs
<1> HIDE DEF t
<1>3. s.y < HEIGHT
    BY Sizes DEF Screens
<1>4. Settled(t) \in Screens /\ (t \in Screens => Settled(t) = t)
    BY <1>2, <1>3, SettledIs
<1>5. s.x + 1 < WIDTH => t \in Screens
    BY <1>2, <1>3, Sizes DEF Screens, Placings
<1> QED
    BY <1>1, <1>2, <1>4, <1>5

LEMMA PutchNewline ==
    ASSUME NEW s \in Screens
    PROVE  putch(s, NEWLINE) \in Screens /\ putch(s, NEWLINE).x = 0
<1> DEFINE t == [s EXCEPT !.x = 0, !.y = @ + 1]
<1>1. putch(s, NEWLINE) = Settled(t)
    BY DEF putch, Placed, BACKSPACE, HTAB, RETURN, NEWLINE, BLANK
<1>2. t \in Placings /\ t.x = 0 /\ ~(t.x >= WIDTH)
    <2>1. s \in Placings /\ s.y + 1 \in 0..HEIGHT
        BY Sizes DEF Screens
    <2>2. t = [s EXCEPT !.x = 0, !.y = s.y + 1]
        OBVIOUS
    <2> HIDE DEF t
    <2>3. t = [cell |-> s.cell, x |-> 0, y |-> s.y + 1]
        BY <2>1, <2>2, ChangedParts
    <2>4. s.cell \in [Memory -> Nat]
        BY <2>1, ChangedParts
    <2> QED
        BY <2>1, <2>3, <2>4, PlacingIs, Sizes
<1> HIDE DEF t
<1> QED
    BY <1>1, <1>2, SettledIs

(* A backspace blanks the cell before the cursor, and the cursor goes there. *)
LEMMA PutchErases ==
    ASSUME NEW s \in Screens
    PROVE  /\ putch(s, BACKSPACE) \in Screens
           /\ s.x # 0 =>
                /\ putch(s, BACKSPACE).x = s.x - 1 /\ putch(s, BACKSPACE).y = s.y
                /\ putch(s, BACKSPACE).cell = Store(s.cell, s.y * WIDTH + (s.x - 1), BLANK)
<1>1. CASE s.x = 0
    <2>1. putch(s, BACKSPACE) = Settled(s)
        <3>1. Placed(s, BACKSPACE) = s
            BY <1>1 DEF Placed, BACKSPACE, HTAB, RETURN, NEWLINE, BLANK
        <3> QED
            BY <3>1, Zenon DEF putch
    <2>2. s \in Placings /\ (s.x >= WIDTH => s.y < HEIGHT)
        BY Sizes DEF Screens
    <2> QED
        BY <1>1, <2>1, <2>2, SettledIs
<1>2. CASE s.x # 0
    <2> DEFINE back == [s EXCEPT !.x = @ - 1]
               drawn == Drawn(back, BLANK)
               blanked == Settled(drawn)
               end == [blanked EXCEPT !.x = @ - 1]
    <2>1. back \in Screens /\ back.x = s.x - 1 /\ back.y = s.y /\ back.cell = s.cell
        BY <1>2, Sizes DEF Screens
    <2>2. /\ drawn \in Placings /\ drawn.x = s.x /\ drawn.y = s.y
          /\ drawn.cell = Store(s.cell, s.y * WIDTH + (s.x - 1), BLANK)
        <3> HIDE DEF back
        <3>1. /\ drawn \in Placings /\ drawn.x = back.x + 1 /\ drawn.y = back.y
              /\ drawn.cell = Store(back.cell, back.y * WIDTH + back.x, BLANK)
            BY <2>1, DrawnIs DEF BLANK
        <3>2. back.x + 1 = s.x
            BY <2>1 DEF Screens
        <3> QED
            BY <2>1, <3>1, <3>2
    <2>3. drawn \in Screens /\ blanked = drawn
        <3> HIDE DEF drawn
        <3>1. drawn \in Screens
            BY <2>2 DEF Screens, Placings
        <3>2. drawn.x >= WIDTH => drawn.y < HEIGHT
            BY <3>1, Sizes DEF Screens
        <3> QED
            BY <2>2, <3>1, <3>2, SettledIs
    <2>4. end \in Screens /\ end.x = s.x - 1 /\ end.y = s.y /\ end.cell = drawn.cell
        <3> HIDE DEF drawn, blanked
        <3> QED
            BY <1>2, <2>2, <2>3, Sizes DEF Screens
    <2>5. Placed(s, BACKSPACE) = end
        BY <1>2 DEF Placed, Erased, BACKSPACE, HTAB, RETURN, NEWLINE, BLANK
    <2>6. putch(s, BACKSPACE) = end
        <3> HIDE DEF end
        <3>1. end.x >= WIDTH => end.y < HEIGHT
            BY <2>4, Sizes DEF Screens
        <3>2. end \in Placings
            BY <2>4, Sizes
        <3>3. Settled(end) = end
            BY <2>4, <3>1, <3>2, SettledIs
        <3> QED
            BY <2>5, <3>3, Zenon DEF putch
    <2> QED
        <3> HIDE DEF end, drawn
        <3> QED
            BY <1>2, <2>2, <2>4, <2>6
<1> QED
    BY <1>1, <1>2

(* Any character leaves such a screen. *)
LEMMA PutchTyped ==
    ASSUME NEW s \in Screens, NEW char \in Nat
    PROVE  putch(s, char) \in Screens
<1>1. CASE char = BACKSPACE
    BY <1>1, PutchErases
<1>2. CASE char = NEWLINE
    BY <1>2, PutchNewline
<1>3. CASE char >= BLANK
    BY <1>3, PutchDraws
<1>4. CASE char \notin {BACKSPACE, NEWLINE} /\ ~(char >= BLANK)
    <2>1. Placed(s, char) \in {[s EXCEPT !.x = NextTabStop(@)], [s EXCEPT !.x = 0], s}
        <3>1. CASE char = HTAB
            <4>1. Placed(s, char) = [s EXCEPT !.x = NextTabStop(@)]
                BY <3>1 DEF Placed, BACKSPACE, HTAB, RETURN, NEWLINE, BLANK
            <4> QED
                BY <4>1, Zenon
        <3>2. CASE char = RETURN
            <4>1. Placed(s, char) = [s EXCEPT !.x = 0]
                BY <3>2 DEF Placed, BACKSPACE, HTAB, RETURN, NEWLINE, BLANK
            <4> QED
                BY <4>1, Zenon
        <3>3. CASE char # HTAB /\ char # RETURN
            <4>1. Placed(s, char) = s
                BY <1>4, <3>3, Zenon DEF Placed
            <4> QED
                BY <4>1, Zenon
        <3> QED
            BY <3>1, <3>2, <3>3
    <2>2. NextTabStop(s.x) \in Nat
        <3>1. s.x \in Nat /\ TAB \in Nat \ {0}
            BY Sizes, ScreenAssumption DEF Screens
        <3>2. s.x \div TAB \in Nat
            BY <3>1
        <3> QED
            BY <3>1, <3>2 DEF NextTabStop
    <2>3. Placed(s, char) \in Placings /\ Placed(s, char).y < HEIGHT
        <3>1. [s EXCEPT !.x = NextTabStop(@)] \in Placings
              /\ [s EXCEPT !.x = NextTabStop(@)].y < HEIGHT
            <4> DEFINE v == NextTabStop(s.x)
            <4>1. v \in Nat
                BY <2>2
            <4>2. [s EXCEPT !.x = NextTabStop(@)] = [s EXCEPT !.x = v]
                OBVIOUS
            <4> HIDE DEF v
            <4>3. [s EXCEPT !.x = v] \in Placings /\ [s EXCEPT !.x = v].y < HEIGHT
                BY <4>1, Sizes DEF Screens, Placings
            <4> QED
                BY <4>2, <4>3
        <3>2. [s EXCEPT !.x = 0] \in Placings /\ [s EXCEPT !.x = 0].y < HEIGHT
            BY Sizes DEF Screens, Placings
        <3>3. s \in Placings /\ s.y < HEIGHT
            BY Sizes DEF Screens
        <3> QED
            BY <2>1, <3>1, <3>2, <3>3, Zenon
    <2> QED
        BY <2>3, SettledIs, Zenon DEF putch
<1> QED
    BY <1>1, <1>2, <1>3, <1>4

(***************************************************************************)
(* Induction, for the fold that kprintf is.                                 *)
(***************************************************************************)

(* A set of naturals has a least element. *)
LEMMA LeastOf ==
    ASSUME NEW S, S \subseteq Nat, S # {}
    PROVE  \E e \in S : \A x \in S : e <= x
<1>1. PICK e \in S : \A x \in S : ~(<<x, e>> \in OpToRel(<, Nat))
    BY NatLessThanWellFounded, WFMin
<1>2. \A x \in S : ~(x < e)
    BY <1>1, Zenon DEF OpToRel
<1> QED
    BY <1>2

(* Induction up to n, with the set of those for which it holds. *)
LEMMA UpTo ==
    ASSUME NEW n \in Nat, NEW P, 0 \in P, \A i \in 1..n : i - 1 \in P => i \in P
    PROVE  \A i \in 0..n : i \in P
<1> DEFINE Bad == {i \in 0..n : i \notin P}
<1>1. ASSUME Bad # {} PROVE FALSE
    <2>1. Bad \subseteq Nat
        OBVIOUS
    <2>2. PICK b \in Bad : \A x \in Bad : b <= x
        BY <1>1, <2>1, LeastOf
    <2>3. b \in 1..n /\ b - 1 \in 0..n /\ ~(b <= b - 1)
        BY <2>2
    <2>4. b - 1 \in P
        BY <2>2, <2>3
    <2> QED
        BY <2>2, <2>3, <2>4
<1> QED
    BY <1>1

(* The element that a fold takes first. *)
LEMMA MaxIs ==
    ASSUME NEW n \in Nat, NEW u, u \subseteq 1..n, u # {}
    PROVE  Max(u) \in u /\ (n \in u => Max(u) = n)
<1> DEFINE Below == {k \in 0..n : n - k \in u}
<1>1. Below \subseteq Nat /\ Below # {}
    <2>1. PICK x \in u : TRUE
        OBVIOUS
    <2>2. n - x \in 0..n /\ n - (n - x) = x
        BY <2>1
    <2>3. n - x \in Below
        BY <2>1, <2>2
    <2>4. Below \subseteq Nat
        OBVIOUS
    <2> HIDE DEF Below
    <2> QED
        BY <2>3, <2>4
<1>2. PICK b \in Below : \A k \in Below : b <= k
    BY <1>1, LeastOf
<1>3. ASSUME NEW x \in u PROVE n - b >= x
    <2>1. x \in 1..n /\ n - x \in 0..n /\ n - (n - x) = x
        OBVIOUS
    <2>2. n - x \in Below
        BY <2>1
    <2> QED
        BY <1>2, <2>1, <2>2
<1>4. \E e \in u : \A x \in u : e >= x
    BY <1>2, <1>3
<1> DEFINE m == Max(u)
<1>5. m \in u /\ \A x \in u : m >= x
    BY <1>4 DEF Max
<1> HIDE DEF m
<1>6. m \in u /\ (n \in u => m = n)
    BY <1>5
<1> QED
    BY <1>6 DEF m

(* The function that a fold recurses with, for a step that keeps to V. *)
Folded(h, V, base, n, step) ==
    /\ h \in [SUBSET (1..n) -> V]
    /\ \A u \in SUBSET (1..n) :
          h[u] = IF u = {} THEN base ELSE step[Max(u)][h[u \ {Max(u)}]]

LEMMA FoldExists ==
    ASSUME NEW V, NEW base \in V, NEW n \in Nat, NEW step \in [1..n -> [V -> V]]
    PROVE  \E h : Folded(h, V, base, n, step)
<1> DEFINE P == {m \in 0..n : \E h : Folded(h, V, base, m, step)}
<1>1. 0 \in P
    <2> DEFINE h == [u \in SUBSET (1..0) |-> base]
    <2>1. Folded(h, V, base, 0, step)
        BY DEF Folded
    <2> HIDE DEF h
    <2>2. 0 \in 0..n
        OBVIOUS
    <2> QED
        BY <2>1, <2>2
<1>2. ASSUME NEW m \in 1..n, m - 1 \in P PROVE m \in P
    <2>1. PICK h : Folded(h, V, base, m - 1, step)
        BY <1>2
    <2> DEFINE g == [u \in SUBSET (1..m) |-> IF m \in u THEN step[m][h[u \ {m}]] ELSE h[u]]
    <2>2. /\ h \in [SUBSET (1..(m - 1)) -> V]
          /\ \A u \in SUBSET (1..(m - 1)) :
                h[u] = IF u = {} THEN base ELSE step[Max(u)][h[u \ {Max(u)}]]
        BY <2>1 DEF Folded
    <2>3. m \in Nat /\ step[m] \in [V -> V]
        OBVIOUS
    <2>4. ASSUME NEW u \in SUBSET (1..m)
          PROVE  /\ g[u] \in V
                 /\ g[u] = IF u = {} THEN base ELSE step[Max(u)][g[u \ {Max(u)}]]
        <3>1. CASE m \in u
            <4>1. Max(u) = m /\ u # {}
                BY <2>3, <3>1, MaxIs
            <4>2. u \ {m} \in SUBSET (1..(m - 1)) /\ u \ {m} \in SUBSET (1..m) /\ m \notin u \ {m}
                OBVIOUS
            <4>3. g[u \ {m}] = h[u \ {m}] /\ h[u \ {m}] \in V
                BY <2>2, <4>2
            <4>4. g[u] = step[m][h[u \ {m}]]
                BY <3>1
            <4>5. g[u] \in V
                BY <2>3, <4>3, <4>4
            <4> HIDE DEF g
            <4> QED
                BY <4>1, <4>3, <4>4, <4>5
        <3>2. CASE m \notin u
            <4>1. u \in SUBSET (1..(m - 1))
                BY <3>2
            <4>2. g[u] = h[u] /\ h[u] \in V
                BY <2>2, <3>2, <4>1
            <4>3. u # {} => g[u \ {Max(u)}] = h[u \ {Max(u)}]
                <5>1. u \ {Max(u)} \in SUBSET (1..m) /\ m \notin u \ {Max(u)}
                    BY <3>2
                <5> QED
                    BY <5>1
            <4> HIDE DEF g
            <4> QED
                BY <2>2, <4>1, <4>2, <4>3
        <3> QED
            BY <3>1, <3>2
    <2>5. Folded(g, V, base, m, step)
        <3>1. g \in [SUBSET (1..m) -> V]
            BY <2>4
        <3> HIDE DEF g
        <3> QED
            BY <2>4, <3>1 DEF Folded
    <2> HIDE DEF g
    <2>6. m \in 0..n
        OBVIOUS
    <2> QED
        BY <2>5, <2>6
<1>3. n \in P
    <2> HIDE DEF P
    <2>1. n \in 0..n
        OBVIOUS
    <2> QED
        BY <1>1, <1>2, <2>1, UpTo
<1> QED
    BY <1>3

(* The screens of a text as it is printed, a character at a time. *)
Printed(g, s, string) ==
    /\ g \in [0..Len(string) -> Screens]
    /\ g[0] = s
    /\ \A i \in 1..Len(string) : g[i] = putch(g[i - 1], string[i])
    /\ kprintf(s, string) = g[Len(string)]

LEMMA KprintfRuns ==
    ASSUME NEW s \in Screens, NEW string \in Seq(Nat)
    PROVE  \E g : Printed(g, s, string)
<1> DEFINE n == Len(string)
           Unfolded(h) == [u \in SUBSET (DOMAIN string) |->
                           IF u = {} THEN s ELSE putch(h[u \ {Max(u)}], string[Max(u)])]
           iter == CHOOSE h : h = Unfolded(h)
           step == [i \in 1..n |-> [v \in Screens |-> putch(v, string[i])]]
<1>1. n \in Nat /\ DOMAIN string = 1..n /\ \A i \in 1..n : string[i] \in Nat
    OBVIOUS
<1>2. kprintf(s, string) = iter[DOMAIN string]
    BY Zenon DEF kprintf, FoldLeft, MapThenFoldSet
<1> HIDE DEF n
<1>3. step \in [1..n -> [Screens -> Screens]]
    <2>1. \A i \in 1..n : [v \in Screens |-> putch(v, string[i])] \in [Screens -> Screens]
        BY <1>1, PutchTyped
    <2> QED
        BY <2>1
<1>4. PICK h : Folded(h, Screens, s, n, step)
    <2> HIDE DEF step
    <2> QED
        BY <1>1, <1>3, FoldExists
<1>5. /\ h \in [SUBSET (1..n) -> Screens]
      /\ \A u \in SUBSET (1..n) :
            h[u] = IF u = {} THEN s ELSE putch(h[u \ {Max(u)}], string[Max(u)])
    <2>1. /\ h \in [SUBSET (1..n) -> Screens]
          /\ \A u \in SUBSET (1..n) : h[u] = IF u = {} THEN s ELSE step[Max(u)][h[u \ {Max(u)}]]
        BY <1>4 DEF Folded
    <2>2. ASSUME NEW u \in SUBSET (1..n), u # {}
          PROVE  step[Max(u)][h[u \ {Max(u)}]] = putch(h[u \ {Max(u)}], string[Max(u)])
        <3>1. Max(u) \in 1..n
            BY <1>1, <2>2, MaxIs
        <3>2. h[u \ {Max(u)}] \in Screens
            BY <2>1
        <3> QED
            BY <3>1, <3>2
    <2> HIDE DEF step
    <2> QED
        BY <2>1, <2>2
<1>6. h = Unfolded(h)
    <2>1. h = [u \in SUBSET (1..n) |-> h[u]]
        BY <1>5
    <2>2. Unfolded(h) = [u \in SUBSET (1..n) |-> h[u]]
        <3>1. \A u \in SUBSET (1..n) :
                  (IF u = {} THEN s ELSE putch(h[u \ {Max(u)}], string[Max(u)])) = h[u]
            BY <1>5
        <3>2. DOMAIN string = 1..n
            BY <1>1
        <3> QED
            BY <3>1, <3>2
    <2> QED
        BY <2>1, <2>2
<1>7. iter = Unfolded(iter)
    <2> HIDE DEF Unfolded
    <2> QED
        BY <1>6
<1>8. \A u \in SUBSET (1..n) :
          iter[u] = IF u = {} THEN s ELSE putch(iter[u \ {Max(u)}], string[Max(u)])
    <2> HIDE DEF iter
    <2> QED
        BY <1>1, <1>7
<1> HIDE DEF iter
<1> DEFINE g == [i \in 0..n |-> iter[1..i]]
<1>9. g[0] = s
    <2>1. 1..0 = {} /\ {} \in SUBSET (1..n) /\ 0 \in 0..n
        BY <1>1
    <2>2. iter[{}] = s
        BY <1>8, <2>1
    <2> QED
        BY <2>1, <2>2
<1>10. ASSUME NEW i \in 1..n
       PROVE  g[i] = putch(g[i - 1], string[i])
    <2> HIDE DEF g
    <2>0. i \in Nat /\ i >= 1 /\ i <= n /\ n \in Nat
        BY <1>1
    <2>1. i \in Nat /\ 1..i \in SUBSET (1..n) /\ i \in 1..i /\ 1..i # {} /\ i \in 0..n /\ i - 1 \in 0..n
        <3>1. \A j \in 1..i : j \in 1..n
            BY <2>0
        <3>2. i \in 1..i /\ i \in 0..n /\ i - 1 \in 0..n
            BY <2>0
        <3> QED
            BY <2>0, <3>1, <3>2
    <2>2. Max(1..i) = i
        BY <2>1, MaxIs
    <2>3. (1..i) \ {i} = 1..(i - 1)
        BY <2>1
    <2>4. iter[1..i] = putch(iter[1..(i - 1)], string[i])
        BY <1>8, <2>1, <2>2, <2>3
    <2>5. g[i] = iter[1..i] /\ g[i - 1] = iter[1..(i - 1)]
        BY <2>1 DEF g
    <2> QED
        BY <2>4, <2>5
<1>11. g \in [0..n -> Screens]
    <2> DEFINE P == {i \in 0..n : g[i] \in Screens}
    <2>1. 0 \in P
        BY <1>1, <1>9
    <2>2. ASSUME NEW i \in 1..n, i - 1 \in P PROVE i \in P
        <3>1. i - 1 \in 0..n /\ i \in 0..n /\ string[i] \in Nat
            BY <1>1
        <3>2. g[i - 1] \in Screens /\ g[i] = putch(g[i - 1], string[i])
            BY <1>10, <2>2
        <3> HIDE DEF g
        <3>3. g[i] \in Screens
            BY <3>1, <3>2, PutchTyped
        <3> QED
            BY <3>1, <3>3
    <2>3. \A i \in 0..n : i \in P
        <3> HIDE DEF P
        <3> QED
            BY <1>1, <2>1, <2>2, UpTo
    <2> QED
        BY <2>3
<1>12. kprintf(s, string) = g[n]
    BY <1>1, <1>2
<1> HIDE DEF g
<1> QED
    BY <1>9, <1>10, <1>11, <1>12 DEF Printed, n

LEMMA KprintfTyped ==
    ASSUME NEW s \in Screens, NEW string \in Seq(Nat)
    PROVE  kprintf(s, string) \in Screens
<1>1. PICK g : Printed(g, s, string)
    BY KprintfRuns
<1>2. Len(string) \in 0..Len(string)
    OBVIOUS
<1> QED
    BY <1>1, <1>2 DEF Printed

(* What is printed for a command leaves the cursor at the left. *)
LEMMA ReplyEnds ==
    ASSUME NEW s \in Screens
    PROVE  kprintf(s, Reply) \in Screens /\ kprintf(s, Reply).x = 0
<1>1. PICK g : Printed(g, s, Reply)
    BY KprintfRuns, EchoAssumption
<1> DEFINE n == Len(Reply)
<1>2. n \in 1..n /\ n - 1 \in 0..n /\ Reply[n] = NEWLINE
    BY EchoAssumption
<1> HIDE DEF n
<1>3. g[n] = putch(g[n - 1], NEWLINE) /\ g[n - 1] \in Screens /\ kprintf(s, Reply) = g[n]
    BY <1>1, <1>2 DEF Printed, n
<1> QED
    BY <1>3, PutchNewline

(* An empty text leaves the screen as it is. *)
LEMMA NothingPrinted ==
    ASSUME NEW s \in Screens
    PROVE  kprintf(s, <<>>) = s
<1>1. <<>> \in Seq(Nat) /\ Len(<<>>) = 0
    OBVIOUS
<1>2. PICK g : Printed(g, s, <<>>)
    BY <1>1, KprintfRuns
<1> QED
    BY <1>1, <1>2 DEF Printed

(* The first k characters of a text stand in a row from the left. *)
Written(s, string, k) == \A i \in 1..k : s.cell[s.y * WIDTH + i - 1] = string[i]

(* One more is written behind those of the row, in its own cell. *)
LEMMA CellsDiffer ==
    ASSUME NEW y \in 0..(HEIGHT - 1), NEW x \in 0..(WIDTH - 1), NEW w \in 0..(WIDTH - 1)
    PROVE  /\ y * WIDTH + x \in Memory
           /\ y * WIDTH + x = y * WIDTH + w => x = w
<1>1. y * WIDTH \in Nat /\ (HEIGHT - 1 - y) * WIDTH \in Nat
    BY ScreenAssumption
<1>2. (HEIGHT - 1 - y) * WIDTH = WIDTH * (HEIGHT + 1) - 2 * WIDTH - y * WIDTH
    BY ScreenAssumption
<1>3. WIDTH * (HEIGHT + 1) \in Nat
    BY ScreenAssumption
<1> QED
    BY <1>1, <1>2, <1>3, ScreenAssumption DEF Memory

WroteCell(s, t, x, char) ==
    /\ s \in Screens /\ t \in Screens /\ x \in 0..(WIDTH - 1)
    /\ t.y = s.y /\ t.cell = Store(s.cell, s.y * WIDTH + x, char)

LEMMA OneMoreWritten ==
    ASSUME NEW s, NEW t, NEW x, NEW char, WroteCell(s, t, x, char)
    PROVE  /\ t.cell[t.y * WIDTH + x] = char
           /\ \A w \in 0..(WIDTH - 1) : w # x =>
                 t.cell[t.y * WIDTH + w] = s.cell[s.y * WIDTH + w]
<1>0. /\ s \in Screens /\ t \in Screens /\ x \in 0..(WIDTH - 1)
      /\ t.y = s.y /\ t.cell = Store(s.cell, s.y * WIDTH + x, char)
    BY DEF WroteCell
<1>1. s.y \in 0..(HEIGHT - 1)
    BY <1>0 DEF Screens
<1>2. s.y * WIDTH + x \in Memory
    BY <1>0, <1>1, CellsDiffer
<1>3. ASSUME NEW w \in 0..(WIDTH - 1), w # x
      PROVE  s.y * WIDTH + w \in Memory /\ s.y * WIDTH + w # s.y * WIDTH + x
    BY <1>0, <1>1, <1>3, CellsDiffer
<1>4. s.cell \in [Memory -> Nat]
    BY <1>0 DEF Screens
<1> QED
    BY <1>0, <1>2, <1>3, <1>4 DEF Store

LEMMA OneMoreDrawn ==
    ASSUME NEW s \in Screens, NEW string, NEW k \in Nat \ {0}, k < WIDTH,
           string[k] \in Nat, string[k] >= BLANK,
           s.x = k - 1, Written(s, string, k - 1)
    PROVE  LET t == putch(s, string[k])
           IN  t \in Screens /\ t.x = k /\ Written(t, string, k)
<1>1. PICK t : t = putch(s, string[k])
    OBVIOUS
<1>2. PICK x : x = k - 1
    OBVIOUS
<1>3. x \in 0..(WIDTH - 1) /\ s.x + 1 < WIDTH /\ s.x + 1 = k /\ s.x = x
    BY <1>2, Sizes
<1>4. /\ t \in Screens /\ t.x = k /\ t.y = s.y
      /\ t.cell = Store(s.cell, s.y * WIDTH + s.x, string[k])
    BY <1>1, <1>3, PutchDraws
<1>5. WroteCell(s, t, x, string[k])
    BY <1>3, <1>4 DEF WroteCell
<1>6. /\ t.cell[t.y * WIDTH + x] = string[k]
      /\ \A w \in 0..(WIDTH - 1) : w # x =>
            t.cell[t.y * WIDTH + w] = s.cell[s.y * WIDTH + w]
    BY <1>5, OneMoreWritten
<1>7. Written(t, string, k)
    <2>1. SUFFICES ASSUME NEW i \in 1..k
                   PROVE  t.cell[t.y * WIDTH + i - 1] = string[i]
        BY DEF Written
    <2>2. t.y \in Int /\ t.y * WIDTH \in Int /\ s.y * WIDTH \in Int
        BY <1>4, Sizes DEF Screens
    <2>3. /\ t.y * WIDTH + i - 1 = t.y * WIDTH + (i - 1)
          /\ s.y * WIDTH + i - 1 = s.y * WIDTH + (i - 1)
        BY <2>2
    <2>4. CASE i = k
        BY <1>2, <1>6, <2>3, <2>4
    <2>5. CASE i # k
        <3>1. i \in 1..(k - 1) /\ i - 1 \in 0..(WIDTH - 1) /\ i - 1 # x
            BY <1>2, <2>5, Sizes
        <3>2. s.cell[s.y * WIDTH + i - 1] = string[i]
            BY <3>1 DEF Written
        <3> QED
            BY <1>6, <2>3, <3>1, <3>2
    <2> QED
        BY <2>4, <2>5
<1> QED
    BY <1>1, <1>4, <1>7

(* A backspace erases the last of them. *)
LEMMA LastErased ==
    ASSUME NEW s \in Screens, NEW string, NEW k \in Nat \ {0},
           s.x = k, Written(s, string, k)
    PROVE  LET t == putch(s, BACKSPACE)
           IN  t \in Screens /\ t.x = k - 1 /\ Written(t, string, k - 1)
<1>1. PICK t : t = putch(s, BACKSPACE)
    OBVIOUS
<1>2. PICK x : x = k - 1
    OBVIOUS
<1>3. x \in 0..(WIDTH - 1) /\ s.x # 0 /\ s.x - 1 = x
    BY <1>2, Sizes DEF Screens
<1>4. /\ t \in Screens /\ t.x = x /\ t.y = s.y
      /\ t.cell = Store(s.cell, s.y * WIDTH + x, BLANK)
    BY <1>1, <1>3, PutchErases
<1>5. WroteCell(s, t, x, BLANK)
    BY <1>3, <1>4 DEF WroteCell
<1>6. \A w \in 0..(WIDTH - 1) : w # x =>
          t.cell[t.y * WIDTH + w] = s.cell[s.y * WIDTH + w]
    BY <1>5, OneMoreWritten
<1>7. Written(t, string, k - 1)
    <2>1. SUFFICES ASSUME NEW i \in 1..(k - 1)
                   PROVE  t.cell[t.y * WIDTH + i - 1] = string[i]
        BY DEF Written
    <2>2. t.y \in Int /\ t.y * WIDTH \in Int /\ s.y * WIDTH \in Int
        BY <1>4, Sizes DEF Screens
    <2>3. /\ t.y * WIDTH + i - 1 = t.y * WIDTH + (i - 1)
          /\ s.y * WIDTH + i - 1 = s.y * WIDTH + (i - 1)
        BY <2>2
    <2>4. i \in 1..k /\ i - 1 \in 0..(WIDTH - 1) /\ i - 1 # x
        BY <1>2, <1>3, Sizes DEF Screens
    <2>5. s.cell[s.y * WIDTH + i - 1] = string[i]
        BY <2>4 DEF Written
    <2> QED
        BY <1>6, <2>3, <2>4, <2>5
<1> QED
    BY <1>1, <1>2, <1>4, <1>7

(* The prompt stands at the left of its row. *)
LEMMA PromptShown ==
    ASSUME NEW s \in Screens, s.x = 0
    PROVE  /\ Prompted(s) \in Screens
           /\ Prompted(s).x = Len(Prompt)
           /\ Written(Prompted(s), Prompt, Len(Prompt))
<1> DEFINE n == Len(Prompt)
<1>1. PICK g : Printed(g, s, Prompt)
    BY KprintfRuns, EchoAssumption
<1>2. /\ n \in Nat /\ n < WIDTH /\ WIDTH \in Nat
      /\ \A i \in 1..n : Prompt[i] \in Nat /\ Prompt[i] >= BLANK
    BY EchoAssumption, Sizes
<1>3. /\ g \in [0..n -> Screens] /\ g[0] = s /\ Prompted(s) = g[n]
      /\ \A i \in 1..n : g[i] = putch(g[i - 1], Prompt[i])
    BY <1>1 DEF Printed, Prompted
<1> HIDE DEF n
<1> DEFINE P == {k \in 0..n : g[k].x = k /\ Written(g[k], Prompt, k)}
<1>4. 0 \in P
    BY <1>2, <1>3 DEF Written
<1>5. ASSUME NEW k \in 1..n, k - 1 \in P PROVE k \in P
    <2>1. k \in Nat \ {0} /\ k < WIDTH /\ k - 1 \in 0..n /\ k \in 0..n
        BY <1>2
    <2>2. PICK before : before = g[k - 1]
        OBVIOUS
    <2>3. before \in Screens /\ before.x = k - 1 /\ Written(before, Prompt, k - 1)
        BY <1>3, <1>5, <2>1, <2>2
    <2>4. g[k] = putch(before, Prompt[k]) /\ Prompt[k] \in Nat /\ Prompt[k] >= BLANK
        BY <1>2, <1>3, <2>2
    <2>5. putch(before, Prompt[k]).x = k /\ Written(putch(before, Prompt[k]), Prompt, k)
        BY <2>1, <2>3, <2>4, OneMoreDrawn
    <2> QED
        BY <2>1, <2>4, <2>5
<1>6. n \in 0..n /\ \A k \in 0..n : k \in P
    <2> HIDE DEF P
    <2> QED
        BY <1>2, <1>4, <1>5, UpTo
<1> QED
    BY <1>3, <1>6 DEF n

(***************************************************************************)
(* The invariant: the screen is one that printing leaves; the cursor waits  *)
(* at the left while a command runs, so that the next prompt starts there;  *)
(* behind the prompt stands the line.                                       *)
(***************************************************************************)
Shown(buffer) == [i \in 1..(Len(Prompt) + LINE) |->
                     IF i <= Len(Prompt) THEN Prompt[i] ELSE buffer[i - Len(Prompt) - 1]]

BufferIs == shell_buffer_pos \in 0..LINE /\ DOMAIN shell_buffer = 0..(LINE - 1)

LineStands ==
    pc = "poll" /\ neat =>
        /\ scr.x = Len(Prompt) + shell_buffer_pos
        /\ Written(scr, Shown(shell_buffer), scr.x)

EchoInv ==
    /\ scr \in Screens
    /\ BufferIs
    /\ pc = "wait" => scr.x = 0
    /\ LineStands

LEMMA PromptLength == Len(Prompt) \in Nat /\ Len(Prompt) < WIDTH /\ LINE \in Nat
BY EchoAssumption

(* Behind the prompt stands an empty line, whatever the buffer holds. *)
LEMMA EmptyLine ==
    ASSUME NEW s \in Screens, s.x = 0, NEW buffer
    PROVE  /\ Prompted(s) \in Screens /\ Prompted(s).x = Len(Prompt) + 0
           /\ Written(Prompted(s), Shown(buffer), Prompted(s).x)
<1>1. /\ Prompted(s) \in Screens /\ Prompted(s).x = Len(Prompt)
      /\ Written(Prompted(s), Prompt, Len(Prompt))
    BY PromptShown
<1>2. ASSUME NEW i \in 1..Len(Prompt) PROVE Shown(buffer)[i] = Prompt[i]
    BY PromptLength DEF Shown
<1> QED
    BY <1>1, <1>2, PromptLength DEF Written

(* The line depends on the buffer up to its end only. *)
LEMMA SameLine ==
    ASSUME NEW s, NEW k \in Nat, NEW p, NEW q, Written(s, p, k),
           \A i \in 1..k : p[i] = q[i]
    PROVE  Written(s, q, k)
BY DEF Written

(* A key's character leaves the screen one that can be printed on. *)
LEMMA KeyPrinted ==
    ASSUME NEW c \in Nat, EchoInv
    PROVE  putch(scr, c) \in Screens
BY PutchTyped DEF EchoInv

LEMMA TabShows == EchoInv /\ HandleTab => EchoInv'
<1> SUFFICES ASSUME EchoInv, HandleTab PROVE EchoInv'
    OBVIOUS
<1>1. scr' = putch(scr, HTAB) /\ HTAB \in Nat
    BY DEF HandleTab, HTAB
<1>2. scr' \in Screens
    BY <1>1, KeyPrinted
<1>3. pc = "poll" /\ pc' = pc /\ ~neat'
    BY DEF HandleTab, Take
<1>4. BufferIs'
    BY DEF HandleTab, bufferVars, EchoInv, BufferIs
<1> QED
    BY <1>2, <1>3, <1>4 DEF EchoInv, LineStands

LEMMA BackspaceShows == EchoInv /\ HandleBackspace => EchoInv'
<1> SUFFICES ASSUME EchoInv, HandleBackspace PROVE EchoInv'
    OBVIOUS
<1>1. /\ pc = "poll" /\ pc' = pc /\ (neat' <=> neat) /\ shell_buffer' = shell_buffer
      /\ BufferIs /\ scr \in Screens /\ LineStands
    BY DEF HandleBackspace, Take, EchoInv
<1>2. CASE shell_buffer_pos > 0
    <2>1. shell_buffer_pos' = shell_buffer_pos - 1 /\ scr' = putch(scr, BACKSPACE)
        BY <1>2 DEF HandleBackspace
    <2>2. scr' \in Screens
        BY <1>1, <2>1, PutchErases
    <2>3. BufferIs'
        BY <1>1, <1>2, <2>1, PromptLength DEF BufferIs
    <2>4. ASSUME neat
          PROVE  /\ scr'.x = Len(Prompt) + shell_buffer_pos'
                 /\ Written(scr', Shown(shell_buffer'), scr'.x)
        <3>1. PICK k : k = scr.x
            OBVIOUS
        <3>2. PICK string : string = Shown(shell_buffer)
            OBVIOUS
        <3>3. k = Len(Prompt) + shell_buffer_pos /\ Written(scr, string, k)
            BY <1>1, <2>4, <3>1, <3>2 DEF LineStands
        <3>4. k \in Nat \ {0} /\ k - 1 = Len(Prompt) + (shell_buffer_pos - 1)
            BY <1>1, <1>2, <3>3, PromptLength DEF BufferIs
        <3>5. scr'.x = k - 1 /\ Written(scr', string, k - 1)
            BY <1>1, <2>1, <3>1, <3>3, <3>4, LastErased
        <3> QED
            BY <1>1, <2>1, <3>2, <3>4, <3>5
    <2> QED
        BY <1>1, <2>2, <2>3, <2>4 DEF EchoInv, LineStands
<1>3. CASE ~(shell_buffer_pos > 0)
    <2>1. shell_buffer_pos' = shell_buffer_pos /\ scr' = scr
        BY <1>3 DEF HandleBackspace
    <2> QED
        BY <1>1, <2>1 DEF EchoInv, LineStands, BufferIs
<1> QED
    BY <1>2, <1>3

(* A line is answered with nothing or with lines, and the wait with nothing. *)
LEMMA AnswerSays ==
    ASSUME NEW memory, NEW result \in shell_parse(memory)
    PROVE  result.says \in {<<>>, Reply} /\ (result.pc = "wait" => result.says = <<>>)
<1>1. ASSUME NEW m, NEW arg0, NEW arg1
      PROVE  /\ Answer(m, arg0, arg1).says \in {<<>>, Reply}
             /\ Answer(m, arg0, arg1).pc = "wait" => Answer(m, arg0, arg1).says = <<>>
    <2> DEFINE kind == IF arg0 \in DOMAIN Command THEN Command[arg0] ELSE "none"
               core == IF kind = "use" /\ arg1 \in Core THEN arg1 ELSE current_core
               Then(place, running, text) ==
                   [pc |-> place, shell |-> running, core |-> core, says |-> text, mem |-> m]
    <2>1. Answer(m, arg0, arg1) \in
              {Then("hang", TRUE, <<>>), Then("poll", TRUE, <<>>), Then("wait", TRUE, <<>>),
               Then("reset", TRUE, <<>>), Then("poll", FALSE, <<>>), Then("poll", TRUE, Reply)}
        <3>1. CASE arg0 = Nowhere
            BY <3>1, Zenon DEF Answer
        <3>2. CASE arg0 # Nowhere
            <4>1. Answer(m, arg0, arg1) =
                    CASE kind = "none"   -> Then("poll", TRUE, <<>>)
                      [] kind = "sleep"  -> Then("wait", TRUE, <<>>)
                      [] kind = "reboot" -> Then("reset", TRUE, <<>>)
                      [] kind = "exit"   -> Then("poll", FALSE, <<>>)
                      [] OTHER           -> IF arg1 = Nowhere THEN Then("hang", TRUE, <<>>)
                                            ELSE Then("poll", TRUE, Reply)
                BY <3>2, Zenon DEF Answer
            <4> HIDE DEF kind, Then
            <4> QED
                BY <4>1
        <3> QED
            BY <3>1, <3>2
    <2> HIDE DEF kind, core
    <2> QED
        BY <2>1
<1> DEFINE split == strsplt(memory, 0, SPACE)
           argc == Len(split.out)
           stale == {Nowhere, <<>>} \cup {StringAt(split.mem, a) : a \in 0..(LINE - 1)}
           Arg(i) == IF i < argc THEN {StringAt(split.mem, split.out[i + 1])} ELSE stale
           smashed == [pc |-> "smashed", shell |-> TRUE, core |-> current_core,
                       says |-> <<>>, mem |-> split.mem]
<1>2. shell_parse(memory) =
          IF argc > ARGS THEN {smashed}
          ELSE {Answer(split.mem, arg0, arg1) : arg0 \in Arg(0), arg1 \in Arg(1)}
    BY DEF shell_parse
<1> HIDE DEF split, Arg
<1>3. CASE result = smashed
    BY <1>3
<1>4. CASE \E arg0 \in Arg(0), arg1 \in Arg(1) : result = Answer(split.mem, arg0, arg1)
    <2>1. PICK arg0, arg1 : result = Answer(split.mem, arg0, arg1)
        BY <1>4
    <2> QED
        BY <1>1, <2>1
<1> QED
    BY <1>2, <1>3, <1>4

LEMMA NewlineShows == EchoInv /\ HandleNewline => EchoInv'
<1> SUFFICES ASSUME EchoInv, HandleNewline PROVE EchoInv'
    OBVIOUS
<1>0. PICK memory : \E result \in shell_parse(memory) :
          LET said == kprintf(putch(scr, NEWLINE), result.says)
          IN  /\ shell_buffer' = [i \in 0..(LINE - 1) |-> result.mem[i]]
              /\ pc' = result.pc
              /\ scr' = IF result.pc = "poll" THEN Prompted(said) ELSE said
    BY Zenon DEF HandleNewline
<1>1. PICK result \in shell_parse(memory) :
          LET said == kprintf(putch(scr, NEWLINE), result.says)
          IN  /\ shell_buffer' = [i \in 0..(LINE - 1) |-> result.mem[i]]
              /\ pc' = result.pc
              /\ scr' = IF result.pc = "poll" THEN Prompted(said) ELSE said
    BY <1>0
<1>2. PICK said : said = kprintf(putch(scr, NEWLINE), result.says)
    OBVIOUS
<1>3. /\ pc' = result.pc
      /\ scr' = IF result.pc = "poll" THEN Prompted(said) ELSE said
    BY <1>1, <1>2
<1>4. said \in Screens /\ said.x = 0
    <2>1. PICK s : s = putch(scr, NEWLINE)
        OBVIOUS
    <2>2. s \in Screens /\ s.x = 0
        BY <2>1, PutchNewline DEF EchoInv
    <2>3. result.says \in {<<>>, Reply}
        BY AnswerSays
    <2>4. CASE result.says = <<>>
        BY <1>2, <2>1, <2>2, <2>4, NothingPrinted
    <2>5. CASE result.says = Reply
        BY <1>2, <2>1, <2>2, <2>5, ReplyEnds
    <2> QED
        BY <2>3, <2>4, <2>5
<1>5. BufferIs'
    <2>1. shell_buffer_pos' \in {0, shell_buffer_pos}
        BY DEF HandleNewline
    <2>2. DOMAIN shell_buffer' = 0..(LINE - 1)
        BY <1>1
    <2> QED
        BY <2>1, <2>2, PromptLength DEF EchoInv, BufferIs
<1>6. CASE pc' = "poll"
    <2>1. scr' = Prompted(said) /\ shell_buffer_pos' = 0
        BY <1>3, <1>6 DEF HandleNewline
    <2>2. /\ scr' \in Screens /\ scr'.x = Len(Prompt) + 0
          /\ Written(scr', Shown(shell_buffer'), scr'.x)
        BY <1>4, <2>1, EmptyLine
    <2> QED
        BY <1>5, <1>6, <2>1, <2>2 DEF EchoInv, LineStands
<1>7. CASE pc' # "poll"
    BY <1>3, <1>4, <1>5, <1>7 DEF EchoInv, LineStands
<1> QED
    BY <1>6, <1>7

(* shell_stack_push changes one character of the buffer. *)
LEMMA PushedIs ==
    ASSUME NEW c, BufferIs
    PROVE  /\ DOMAIN Pushed(c) = 0..(LINE - 1)
           /\ Room => /\ Pushed(c)[shell_buffer_pos] = c
                      /\ \A i \in 0..(LINE - 1) :
                            i # shell_buffer_pos => Pushed(c)[i] = shell_buffer[i]
<1>1. CASE Room
    <2>1. shell_buffer_pos \in DOMAIN shell_buffer
        BY <1>1, PromptLength DEF Room, BufferIs
    <2>2. Pushed(c) = [shell_buffer EXCEPT ![shell_buffer_pos] = c]
        BY <1>1 DEF Pushed
    <2> QED
        BY <2>1, <2>2 DEF BufferIs
<1>2. CASE ~Room
    BY <1>2 DEF Pushed, BufferIs
<1> QED
    BY <1>1, <1>2

LEMMA HelpShows == EchoInv /\ HandleHelp => EchoInv'
<1> SUFFICES ASSUME EchoInv, HandleHelp PROVE EchoInv'
    OBVIOUS
<1>1. PICK said : said = kprintf(putch(scr, HELP), Reply)
    OBVIOUS
<1>2. /\ scr' = Prompted(said) /\ shell_buffer_pos' = 0 /\ shell_buffer' = Pushed(HELP)
      /\ pc = "poll" /\ pc' = pc
    BY <1>1 DEF HandleHelp, Take
<1>3. said \in Screens /\ said.x = 0
    <2>1. PICK s : s = putch(scr, HELP)
        OBVIOUS
    <2>2. s \in Screens
        BY <2>1, KeyPrinted DEF HELP
    <2> QED
        BY <1>1, <2>1, <2>2, ReplyEnds
<1>4. /\ scr' \in Screens /\ scr'.x = Len(Prompt) + 0
      /\ Written(scr', Shown(shell_buffer'), scr'.x)
    BY <1>2, <1>3, EmptyLine
<1>5. BufferIs'
    BY <1>2, PushedIs, PromptLength DEF EchoInv, BufferIs
<1> QED
    BY <1>2, <1>4, <1>5 DEF EchoInv, LineStands

(* A character with a picture, with room in the buffer and on the row. *)
LEMMA CharEchoed ==
    ASSUME NEW c \in Nat, c >= BLANK, EchoInv, pc = "poll", neat, Room,
           Len(Prompt) + shell_buffer_pos + 1 < WIDTH
    PROVE  LET t == putch(scr, c)
           IN  /\ t.x = Len(Prompt) + (shell_buffer_pos + 1)
               /\ Written(t, Shown(Pushed(c)), t.x)
<1>1. /\ scr \in Screens /\ BufferIs /\ scr.x = Len(Prompt) + shell_buffer_pos
      /\ Written(scr, Shown(shell_buffer), scr.x)
    BY DEF EchoInv, LineStands
<1>2. PICK k : k = scr.x + 1
    OBVIOUS
<1>3. PICK string : string = Shown(Pushed(c))
    OBVIOUS
<1>4. /\ k \in Nat \ {0} /\ k < WIDTH /\ scr.x = k - 1 /\ k - 1 \in Nat
      /\ k = Len(Prompt) + (shell_buffer_pos + 1)
      /\ shell_buffer_pos \in 0..(LINE - 1) /\ k \in 1..(Len(Prompt) + LINE)
    BY <1>1, <1>2, PromptLength DEF BufferIs, Room
<1>5. string[k] = c
    <2>1. ~(k <= Len(Prompt)) /\ k - Len(Prompt) - 1 = shell_buffer_pos
        BY <1>4, PromptLength
    <2>2. string[k] = Pushed(c)[k - Len(Prompt) - 1]
        BY <1>3, <1>4, <2>1 DEF Shown
    <2> QED
        BY <1>1, <2>1, <2>2, PushedIs
<1>6. ASSUME NEW i \in 1..(k - 1)
      PROVE  Shown(shell_buffer)[i] = string[i]
    <2>1. i \in 1..(Len(Prompt) + LINE)
        BY <1>4, PromptLength
    <2>2. CASE i <= Len(Prompt)
        BY <1>3, <2>1, <2>2 DEF Shown
    <2>3. CASE ~(i <= Len(Prompt))
        <3>1. PICK j : j = i - Len(Prompt) - 1
            OBVIOUS
        <3>2. j \in 0..(LINE - 1) /\ j # shell_buffer_pos
            BY <1>4, <2>3, <3>1, PromptLength
        <3>3. Shown(shell_buffer)[i] = shell_buffer[j] /\ string[i] = Pushed(c)[j]
            BY <1>3, <2>1, <2>3, <3>1 DEF Shown
        <3> QED
            BY <1>1, <3>2, <3>3, PushedIs
    <2> QED
        BY <2>2, <2>3
<1>7. Written(scr, string, k - 1)
    <2>1. PICK p : p = Shown(shell_buffer)
        OBVIOUS
    <2>2. Written(scr, p, k - 1) /\ \A i \in 1..(k - 1) : p[i] = string[i]
        BY <1>1, <1>4, <1>6, <2>1
    <2> QED
        BY <1>4, <2>2, SameLine
<1>8. putch(scr, c).x = k /\ Written(putch(scr, c), string, k)
    BY <1>1, <1>4, <1>5, <1>7, OneMoreDrawn
<1> QED
    BY <1>3, <1>4, <1>8

LEMMA CharShows == EchoInv /\ HandleChar => EchoInv'
<1> SUFFICES ASSUME EchoInv, HandleChar PROVE EchoInv'
    OBVIOUS
<1>1. PICK c \in Key \ {HTAB, BACKSPACE, NEWLINE, HELP} :
          /\ Take(c)
          /\ shell_buffer' = Pushed(c)
          /\ shell_buffer_pos' = IF Room THEN shell_buffer_pos + 1 ELSE shell_buffer_pos
          /\ IF c = PERCENT
             THEN \/ pc' = pc /\ \E garbage \in Garbage : scr' = kprintf(scr, garbage)
                  \/ pc' = "hang" /\ scr' = scr
             ELSE pc' = pc /\ scr' = putch(scr, c)
          /\ neat' = /\ neat /\ Room /\ c >= BLANK /\ c # PERCENT
                     /\ Len(Prompt) + shell_buffer_pos + 1 < WIDTH
    BY Zenon DEF HandleChar
<1>2. pc = "poll" /\ c \in Nat /\ scr \in Screens /\ BufferIs
    BY <1>1, EchoAssumption DEF Take, EchoInv
<1>3. BufferIs'
    <2>1. DOMAIN shell_buffer' = 0..(LINE - 1)
        BY <1>1, <1>2, PushedIs
    <2>2. shell_buffer_pos' \in 0..LINE
        BY <1>1, <1>2, PromptLength DEF BufferIs, Room
    <2> QED
        BY <2>1, <2>2 DEF BufferIs
<1>4. scr' \in Screens /\ pc' # "wait"
    <2>1. CASE c # PERCENT
        BY <1>1, <1>2, <2>1, PutchTyped
    <2>2. CASE c = PERCENT
        <3>1. CASE pc' = "hang" /\ scr' = scr
            BY <1>2, <3>1
        <3>2. CASE pc' = pc /\ \E garbage \in Garbage : scr' = kprintf(scr, garbage)
            <4>1. PICK garbage \in Garbage : scr' = kprintf(scr, garbage)
                BY <3>2
            <4>2. garbage \in Seq(Nat)
                BY EchoAssumption
            <4> QED
                BY <1>2, <3>2, <4>1, <4>2, KprintfTyped
        <3> QED
            BY <1>1, <2>2, <3>1, <3>2
    <2> QED
        BY <2>1, <2>2
<1>5. LineStands'
    <2>1. SUFFICES ASSUME neat'
                   PROVE  /\ scr'.x = Len(Prompt) + shell_buffer_pos'
                          /\ Written(scr', Shown(shell_buffer'), scr'.x)
        BY DEF LineStands
    <2>2. /\ neat /\ Room /\ c >= BLANK /\ c # PERCENT
          /\ Len(Prompt) + shell_buffer_pos + 1 < WIDTH
        BY <1>1, <2>1, Zenon
    <2>3. scr' = putch(scr, c) /\ shell_buffer_pos' = shell_buffer_pos + 1
          /\ shell_buffer' = Pushed(c)
        BY <1>1, <2>2
    <2>4. /\ putch(scr, c).x = Len(Prompt) + (shell_buffer_pos + 1)
          /\ Written(putch(scr, c), Shown(Pushed(c)), putch(scr, c).x)
        BY <1>2, <2>2, CharEchoed
    <2> QED
        BY <2>3, <2>4
<1> QED
    BY <1>3, <1>4, <1>5 DEF EchoInv

LEMMA WaitEndShows == EchoInv /\ WaitEnd => EchoInv'
<1> SUFFICES ASSUME EchoInv, WaitEnd PROVE EchoInv'
    OBVIOUS
<1>1. /\ pc = "wait" /\ pc' = "poll" /\ shell_buffer_pos' = 0 /\ scr' = Prompted(scr)
      /\ shell_buffer' = shell_buffer
    BY DEF WaitEnd
<1>2. scr \in Screens /\ scr.x = 0 /\ BufferIs
    BY <1>1 DEF EchoInv
<1>3. /\ scr' \in Screens /\ scr'.x = Len(Prompt) + 0
      /\ Written(scr', Shown(shell_buffer'), scr'.x)
    BY <1>1, <1>2, EmptyLine
<1>4. BufferIs'
    BY <1>1, <1>2, PromptLength DEF BufferIs
<1> QED
    BY <1>1, <1>3, <1>4 DEF EchoInv, LineStands

LEMMA EchoUntouched ==
    ASSUME EchoInv, UNCHANGED <<bufferVars, scr, pc, neat>>
    PROVE  EchoInv'
BY DEF EchoInv, BufferIs, LineStands, bufferVars

LEMMA EchoKept == EchoInv /\ [Next]_vars => EchoInv'
<1> SUFFICES ASSUME EchoInv, [Next]_vars PROVE EchoInv'
    OBVIOUS
<1>1. CASE HandleTab
    BY <1>1, TabShows
<1>2. CASE HandleBackspace
    BY <1>2, BackspaceShows
<1>3. CASE HandleNewline
    BY <1>3, NewlineShows
<1>4. CASE HandleHelp
    BY <1>4, HelpShows
<1>5. CASE HandleChar
    BY <1>5, CharShows
<1>6. CASE WaitEnd
    BY <1>6, WaitEndShows
<1>7. CASE Tick
    BY <1>7, EchoUntouched DEF Tick
<1>8. CASE Press
    BY <1>8, EchoUntouched DEF Press
<1>9. CASE UNCHANGED vars
    BY <1>9, EchoUntouched DEF vars
<1> QED
    BY <1>1, <1>2, <1>3, <1>4, <1>5, <1>6, <1>7, <1>8, <1>9 DEF Next, Poll

LEMMA EchoAtStart == Init => EchoInv
<1> SUFFICES ASSUME Init PROVE EchoInv
    OBVIOUS
<1>1. cls \in Screens
    <2>1. 0 \in 0..(WIDTH - 1) /\ 0 \in 0..(HEIGHT - 1) /\ BLANK \in Nat
          /\ UNTOUCHED \in Nat
        BY Sizes DEF BLANK, UNTOUCHED
    <2>2. [i \in Memory |-> IF i \in Text THEN BLANK ELSE UNTOUCHED] \in [Memory -> Nat]
        BY <2>1
    <2> QED
        BY <2>1, <2>2 DEF cls, Screens
<1>2. PICK said : said = kprintf(cls, Reply)
    OBVIOUS
<1>3. said \in Screens /\ said.x = 0
    BY <1>1, <1>2, ReplyEnds
<1>4. /\ scr = Prompted(said) /\ shell_buffer_pos = 0 /\ pc = "poll"
      /\ shell_buffer = [i \in 0..(LINE - 1) |-> 0]
    BY <1>2 DEF Init
<1>5. /\ scr \in Screens /\ scr.x = Len(Prompt) + 0
      /\ Written(scr, Shown(shell_buffer), scr.x)
    BY <1>3, <1>4, EmptyLine
<1>6. BufferIs
    BY <1>4, PromptLength DEF BufferIs
<1> QED
    BY <1>4, <1>5, <1>6 DEF EchoInv, LineStands

(* The prompt with the line behind it, as one text. *)
LEMMA PromptAndLine ==
    ASSUME BufferIs
    PROVE  /\ Len(Prompt \o Line) = Len(Prompt) + shell_buffer_pos
           /\ \A i \in 1..Len(Prompt \o Line) : (Prompt \o Line)[i] = Shown(shell_buffer)[i]
<1> DEFINE S == Nat \cup {shell_buffer[i] : i \in 0..(LINE - 1)}
<1>1. shell_buffer_pos \in 0..LINE /\ shell_buffer_pos \in Nat
    BY PromptLength DEF BufferIs
<1>2. ASSUME NEW i \in 1..shell_buffer_pos PROVE shell_buffer[i - 1] \in S
    <2>1. i - 1 \in 0..(LINE - 1)
        BY <1>1, PromptLength
    <2> QED
        BY <2>1
<1>3. Nat \subseteq S
    OBVIOUS
<1> HIDE DEF S
<1>4. Line \in [1..shell_buffer_pos -> S]
    BY <1>2 DEF Line
<1>5. Line \in Seq(S) /\ Len(Line) = shell_buffer_pos
    BY <1>1, <1>4
<1>6. Prompt \in Seq(S)
    BY <1>3, EchoAssumption
<1>7. Len(Prompt \o Line) = Len(Prompt) + shell_buffer_pos
    BY <1>5, <1>6
<1>8. ASSUME NEW i \in 1..(Len(Prompt) + shell_buffer_pos)
      PROVE  (Prompt \o Line)[i] = Shown(shell_buffer)[i]
    <2>1. i \in 1..(Len(Prompt) + LINE)
        BY <1>1, PromptLength
    <2>2. CASE i <= Len(Prompt)
        <3>1. (Prompt \o Line)[i] = Prompt[i]
            BY <1>5, <1>6, <2>2
        <3> QED
            BY <2>1, <2>2, <3>1 DEF Shown
    <2>3. CASE ~(i <= Len(Prompt))
        <3>1. PICK j : j = i - Len(Prompt)
            OBVIOUS
        <3>2. j \in 1..shell_buffer_pos /\ i - Len(Prompt) - 1 = j - 1
            BY <1>1, <2>3, <3>1, PromptLength
        <3>3. (Prompt \o Line)[i] = Line[j]
            BY <1>5, <1>6, <2>3, <3>1
        <3>4. Line[j] = shell_buffer[j - 1]
            BY <3>2 DEF Line
        <3>5. Shown(shell_buffer)[i] = shell_buffer[i - Len(Prompt) - 1]
            BY <2>1, <2>3 DEF Shown
        <3> QED
            BY <3>2, <3>3, <3>4, <3>5
    <2> QED
        BY <2>2, <2>3
<1> QED
    BY <1>7, <1>8

(* handle_char with putch (kshell.c:225, vga.c): for any screen, prompt and       *)
(* buffer, the row shows the prompt and the line that is in the buffer, and the   *)
(* cursor stands behind it, until something is typed that makes them differ.      *)
THEOREM EchoIsLine == Spec => []EchoShowsLine
<1>1. ASSUME EchoInv PROVE EchoShowsLine
    <2>1. SUFFICES ASSUME pc = "poll", neat
                   PROVE  /\ scr.x = Len(Prompt \o Line)
                          /\ \A i \in 1..Len(Prompt \o Line) :
                                scr.cell[scr.y * WIDTH + i - 1] = (Prompt \o Line)[i]
        BY Zenon DEF EchoShowsLine, AtPrompt
    <2>2. /\ scr.x = Len(Prompt) + shell_buffer_pos
          /\ Written(scr, Shown(shell_buffer), scr.x)
        BY <1>1, <2>1 DEF EchoInv, LineStands
    <2>3. /\ Len(Prompt \o Line) = Len(Prompt) + shell_buffer_pos
          /\ \A i \in 1..Len(Prompt \o Line) : (Prompt \o Line)[i] = Shown(shell_buffer)[i]
        BY <1>1, PromptAndLine DEF EchoInv
    <2> QED
        BY <2>2, <2>3 DEF Written
<1>2. Spec => []EchoInv
    BY EchoAtStart, EchoKept, PTL DEF Spec
<1> QED
    BY <1>1, <1>2, PTL

(***************************************************************************)
(* Words in a memory: strlen, and strsplt, which is a fold over positions.  *)
(***************************************************************************)

(* The least element is the one that is below the others. *)
LEMMA MinIs ==
    ASSUME NEW S, S \subseteq Nat, NEW e \in S, \A x \in S : e <= x
    PROVE  Min(S) = e
<1> DEFINE m == Min(S)
<1>1. m \in S /\ \A x \in S : m <= x
    BY DEF Min
<1> HIDE DEF m
<1>2. m <= e /\ e <= m /\ m \in Nat /\ e \in Nat
    BY <1>1
<1>3. m = e
    BY <1>2
<1> QED
    BY <1>3 DEF m

(* A memory that ends in a zero, and a string in it from p up to its zero at k. *)
IsMemory(mem, m) == m \in Nat /\ mem \in [0..m -> Nat] /\ mem[m] = 0

Ends(mem, m, p, k) ==
    /\ p \in 0..m /\ k \in p..m
    /\ mem[k] = 0 /\ \A i \in p..(k - 1) : mem[i] # 0

LEMMA HasEnd ==
    ASSUME NEW mem, NEW m, IsMemory(mem, m), NEW p \in 0..m
    PROVE  \E k : Ends(mem, m, p, k)
<1> DEFINE Zeros == {q \in p..m : mem[q] = 0}
<1>0. m \in Nat /\ mem[m] = 0
    BY DEF IsMemory
<1>1. m \in Zeros
    BY <1>0
<1>2. Zeros \subseteq Nat
    OBVIOUS
<1>3. PICK k \in Zeros : \A x \in Zeros : k <= x
    <2> HIDE DEF Zeros
    <2> QED
        BY <1>1, <1>2, LeastOf
<1>4. ASSUME NEW i \in p..(k - 1) PROVE mem[i] # 0
    <2>1. i \in p..m /\ ~(k <= i)
        BY <1>0, <1>3
    <2> QED
        BY <1>3, <2>1
<1> QED
    BY <1>0, <1>3, <1>4 DEF Ends

LEMMA StringIs ==
    ASSUME NEW mem, NEW m, IsMemory(mem, m), NEW p, NEW k, Ends(mem, m, p, k)
    PROVE  /\ strlen(mem, p) = k - p
           /\ StringAt(mem, p) \in Seq(Nat) /\ Len(StringAt(mem, p)) = k - p
           /\ \A i \in 1..(k - p) : StringAt(mem, p)[i] = mem[p + i - 1]
<1>1. /\ m \in Nat /\ mem \in [0..m -> Nat] /\ p \in 0..m /\ k \in p..m
      /\ mem[k] = 0 /\ \A i \in p..(k - 1) : mem[i] # 0
    BY DEF IsMemory, Ends
<1> DEFINE Zeros == {q \in DOMAIN mem : q >= p /\ mem[q] = 0}
<1>2. k \in Zeros /\ Zeros \subseteq Nat
    BY <1>1
<1>3. ASSUME NEW q \in Zeros PROVE k <= q
    <2>1. q \in 0..m /\ q >= p /\ mem[q] = 0
        BY <1>1
    <2>2. q \notin p..(k - 1)
        BY <1>1, <2>1
    <2> QED
        BY <1>1, <2>1, <2>2
<1>4. Min(Zeros) = k
    <2> HIDE DEF Zeros
    <2> QED
        BY <1>2, <1>3, MinIs
<1>5. strlen(mem, p) = k - p
    BY <1>4 DEF strlen, End
<1>6. PICK n : n = k - p
    OBVIOUS
<1>7. n \in Nat /\ \A i \in 1..n : mem[p + i - 1] \in Nat
    BY <1>1, <1>6
<1>8. StringAt(mem, p) = [i \in 1..n |-> mem[p + i - 1]]
    BY <1>5, <1>6 DEF StringAt
<1>9. StringAt(mem, p) \in [1..n -> Nat]
    BY <1>7, <1>8
<1>10. StringAt(mem, p) \in Seq(Nat) /\ Len(StringAt(mem, p)) = n
    BY <1>7, <1>9
<1> QED
    BY <1>5, <1>6, <1>8, <1>10

(* The separators before position i, counted from 1, and the memory with them cut. *)
Spaces(mem, i) == {j \in 1..i : mem[j - 1] = SPACE}

CutUpTo(mem, m, i) == [q \in 0..m |-> IF q < i /\ mem[q] = SPACE THEN 0 ELSE mem[q]]

IsLeast(p, S) == p \in S /\ \A q \in S : p <= q

SplitUpTo(s, mem, m, i) ==
    /\ s.mem = CutUpTo(mem, m, i)
    /\ s.out \in Seq(Nat) /\ Len(s.out) = 1 + Cardinality(Spaces(mem, i))
    /\ s.out[1] = 0
    /\ \A p \in Spaces(mem, i) : IsLeast(p, Spaces(mem, i)) => s.out[2] = p

LEMMA SpacesFinite ==
    ASSUME NEW mem, NEW i \in Nat
    PROVE  /\ IsFiniteSet(Spaces(mem, i)) /\ Cardinality(Spaces(mem, i)) \in Nat
           /\ Cardinality(Spaces(mem, i)) = 0 <=> Spaces(mem, i) = {}
<1>1. IsFiniteSet(1..i)
    BY FS_Interval
<1>2. Spaces(mem, i) \subseteq 1..i
    BY DEF Spaces
<1>3. IsFiniteSet(Spaces(mem, i))
    BY <1>1, <1>2, FS_Subset
<1> QED
    BY <1>3, FS_CardinalityType, FS_EmptySet

(* One round of strsplt's loop. *)
Cut(s, i) == IF s.mem[i - 1] = SPACE
             THEN [mem |-> [s.mem EXCEPT ![i - 1] = 0], out |-> Append(s.out, i)]
             ELSE s

LEMMA CutStep ==
    ASSUME NEW m \in Nat, NEW mem \in [0..m -> Nat], NEW i \in 1..m,
           NEW s, SplitUpTo(s, mem, m, i - 1)
    PROVE  SplitUpTo(Cut(s, i), mem, m, i)
<1>1. /\ s.mem = CutUpTo(mem, m, i - 1) /\ s.out \in Seq(Nat)
      /\ Len(s.out) = 1 + Cardinality(Spaces(mem, i - 1))
      /\ s.out[1] = 0
      /\ \A p \in Spaces(mem, i - 1) : IsLeast(p, Spaces(mem, i - 1)) => s.out[2] = p
    BY DEF SplitUpTo
<1>2. i - 1 \in 0..m /\ i - 1 \in Nat /\ i \in Nat
    OBVIOUS
<1>3. s.mem[i - 1] = mem[i - 1]
    BY <1>1, <1>2 DEF CutUpTo
<1>4. CASE mem[i - 1] = SPACE
    <2>1. PICK t : t = Cut(s, i)
        OBVIOUS
    <2>2. t = [mem |-> [s.mem EXCEPT ![i - 1] = 0], out |-> Append(s.out, i)]
        BY <1>3, <1>4, <2>1 DEF Cut
    <2>3. t.mem = [s.mem EXCEPT ![i - 1] = 0] /\ t.out = Append(s.out, i)
        BY <2>2
    <2>4. t.mem = CutUpTo(mem, m, i)
        <3>1. t.mem = [q \in 0..m |-> IF q = i - 1 THEN 0 ELSE CutUpTo(mem, m, i - 1)[q]]
            BY <1>1, <2>3 DEF CutUpTo
        <3>2. ASSUME NEW q \in 0..m
              PROVE  (IF q = i - 1 THEN 0 ELSE CutUpTo(mem, m, i - 1)[q])
                         = (IF q < i /\ mem[q] = SPACE THEN 0 ELSE mem[q])
            BY <1>4 DEF CutUpTo
        <3> QED
            BY <3>1, <3>2 DEF CutUpTo
    <2>5. Spaces(mem, i) = Spaces(mem, i - 1) \cup {i} /\ i \notin Spaces(mem, i - 1)
        BY <1>2, <1>4 DEF Spaces
    <2>6. Cardinality(Spaces(mem, i)) = Cardinality(Spaces(mem, i - 1)) + 1
        BY <1>2, <2>5, SpacesFinite, FS_AddElement
    <2>7. PICK n : n = Len(s.out)
        OBVIOUS
    <2>8. n \in Nat \ {0} /\ n = 1 + Cardinality(Spaces(mem, i - 1))
        BY <1>1, <1>2, <2>7, SpacesFinite
    <2>9. /\ t.out \in Seq(Nat) /\ Len(t.out) = n + 1 /\ t.out[n + 1] = i
          /\ \A j \in 1..n : t.out[j] = s.out[j]
        BY <1>1, <1>2, <2>3, <2>7, AppendProperties
    <2>10. ASSUME NEW p \in Spaces(mem, i), IsLeast(p, Spaces(mem, i))
           PROVE  t.out[2] = p
        <3>1. CASE Spaces(mem, i - 1) = {}
            <4>1. p = i
                BY <2>5, <3>1
            <4>2. n = 1
                BY <1>2, <2>8, <3>1, SpacesFinite
            <4> QED
                BY <2>9, <4>1, <4>2
        <3>2. CASE Spaces(mem, i - 1) # {}
            <4>1. PICK q \in Spaces(mem, i - 1) : TRUE
                BY <3>2
            <4>2. q \in Spaces(mem, i) /\ q < i /\ p <= q
                BY <2>5, <2>10, <4>1 DEF IsLeast, Spaces
            <4>3. p \in Spaces(mem, i - 1)
                BY <2>5, <2>10, <4>2 DEF Spaces
            <4>4. IsLeast(p, Spaces(mem, i - 1))
                BY <2>5, <2>10, <4>3 DEF IsLeast
            <4>5. n >= 2
                <5>1. Cardinality(Spaces(mem, i - 1)) \in Nat \ {0}
                    BY <1>2, <3>2, SpacesFinite
                <5> QED
                    BY <2>8, <5>1
            <4>6. s.out[2] = p
                BY <1>1, <4>3, <4>4
            <4>7. 2 \in 1..n
                BY <2>8, <4>5
            <4> QED
                BY <2>9, <4>6, <4>7
        <3> QED
            BY <3>1, <3>2
    <2>11. t.out[1] = 0 /\ Len(t.out) = 1 + Cardinality(Spaces(mem, i))
        <3>1. 1 \in 1..n
            BY <2>8
        <3>2. Cardinality(Spaces(mem, i - 1)) \in Nat
            BY <1>2, SpacesFinite
        <3>3. t.out[1] = s.out[1]
            BY <2>9, <3>1
        <3>4. Len(t.out) = n + 1
            BY <2>9
        <3>5. n + 1 = 1 + Cardinality(Spaces(mem, i))
            BY <2>6, <2>8, <3>2
        <3> QED
            BY <1>1, <3>3, <3>4, <3>5
    <2> QED
        BY <2>1, <2>4, <2>9, <2>10, <2>11 DEF SplitUpTo
<1>5. CASE mem[i - 1] # SPACE
    <2>1. Cut(s, i) = s
        BY <1>3, <1>5 DEF Cut
    <2>2. CutUpTo(mem, m, i) = CutUpTo(mem, m, i - 1)
        <3>1. ASSUME NEW q \in 0..m
              PROVE  (q < i /\ mem[q] = SPACE) <=> (q < i - 1 /\ mem[q] = SPACE)
            BY <1>5
        <3> QED
            BY <3>1 DEF CutUpTo
    <2>3. Spaces(mem, i) = Spaces(mem, i - 1)
        BY <1>2, <1>5 DEF Spaces
    <2> QED
        BY <1>1, <2>1, <2>2, <2>3 DEF SplitUpTo
<1> QED
    BY <1>4, <1>5

(* A fold's states, from the function that it recurses with. *)
FoldRun(g, V, base, n, step) ==
    /\ g \in [0..n -> V] /\ g[0] = base
    /\ \A i \in 1..n : g[i] = step[i][g[i - 1]]

FoldsWhileIn(iter, V, base, n, step) ==
    /\ iter[{}] = base
    /\ \A u \in SUBSET (1..n) : u # {} /\ iter[u \ {Max(u)}] \in V =>
          iter[u] = step[Max(u)][iter[u \ {Max(u)}]]

LEMMA FoldRuns ==
    ASSUME NEW V, NEW n \in Nat, NEW base \in V, NEW step \in [1..n -> [V -> V]], NEW iter,
           FoldsWhileIn(iter, V, base, n, step)
    PROVE  \E g : FoldRun(g, V, base, n, step) /\ g[n] = iter[1..n]
<1>0. /\ iter[{}] = base
      /\ \A u \in SUBSET (1..n) : u # {} /\ iter[u \ {Max(u)}] \in V =>
            iter[u] = step[Max(u)][iter[u \ {Max(u)}]]
    BY DEF FoldsWhileIn
<1> DEFINE g == [i \in 0..n |-> iter[1..i]]
<1>1. g[0] = base
    <2>1. 1..0 = {} /\ 0 \in 0..n
        OBVIOUS
    <2> QED
        BY <1>0, <2>1
<1>2. ASSUME NEW i \in 1..n, g[i - 1] \in V
      PROVE  g[i] = step[i][g[i - 1]] /\ g[i] \in V
    <2> HIDE DEF g
    <2>0. i \in Nat /\ i >= 1 /\ i <= n /\ n \in Nat
        OBVIOUS
    <2>1. /\ i \in Nat /\ 1..i \in SUBSET (1..n) /\ i \in 1..i /\ 1..i # {}
          /\ i \in 0..n /\ i - 1 \in 0..n
        <3>1. \A j \in 1..i : j \in 1..n
            BY <2>0
        <3>2. i \in 1..i /\ i \in 0..n /\ i - 1 \in 0..n
            BY <2>0
        <3> QED
            BY <2>0, <3>1, <3>2
    <2>2. Max(1..i) = i
        BY <2>1, MaxIs
    <2>3. (1..i) \ {i} = 1..(i - 1)
        BY <2>1
    <2>4. g[i] = iter[1..i] /\ g[i - 1] = iter[1..(i - 1)]
        BY <2>1 DEF g
    <2>5. iter[1..i] = step[i][iter[1..(i - 1)]]
        BY <1>0, <1>2, <2>1, <2>2, <2>3, <2>4
    <2>6. step[i] \in [V -> V]
        OBVIOUS
    <2> QED
        BY <1>2, <2>4, <2>5, <2>6
<1>3. g \in [0..n -> V]
    <2> DEFINE P == {i \in 0..n : g[i] \in V}
    <2>1. 0 \in P
        BY <1>1
    <2>2. ASSUME NEW i \in 1..n, i - 1 \in P PROVE i \in P
        <3>1. i - 1 \in 0..n /\ i \in 0..n
            OBVIOUS
        <3>2. g[i - 1] \in V
            BY <2>2
        <3>3. g[i] \in V
            BY <1>2, <3>2
        <3> QED
            BY <3>1, <3>3
    <2>3. \A i \in 0..n : i \in P
        <3> HIDE DEF P
        <3> QED
            BY <2>1, <2>2, UpTo
    <2> QED
        BY <2>3
<1>4. n \in 0..n
    OBVIOUS
<1>5. g[n] = iter[1..n]
    BY <1>4
<1> HIDE DEF g
<1>6. ASSUME NEW i \in 1..n PROVE g[i] = step[i][g[i - 1]]
    <2>1. i - 1 \in 0..n
        OBVIOUS
    <2> QED
        BY <1>2, <1>3, <2>1
<1> QED
    BY <1>1, <1>3, <1>5, <1>6 DEF FoldRun

(* strsplt of a string that is not empty. *)
LEMMA SplitIs ==
    ASSUME NEW mem, NEW m, IsMemory(mem, m), NEW k, Ends(mem, m, 0, k), k # 0
    PROVE  SplitUpTo(strsplt(mem, 0, SPACE), mem, m, k - 1)
<1>0. /\ m \in Nat /\ mem \in [0..m -> Nat] /\ k \in 1..m /\ mem[0] # 0
    BY DEF IsMemory, Ends
<1> DEFINE n == k - 1
           V == [mem : [0..m -> Nat], out : Seq(Nat)]
           base == [mem |-> mem, out |-> <<0>>]
           order == Upward(0 + 1, strlen(mem, 0) - 1)
           Unfolded(h) == [u \in SUBSET (DOMAIN order) |->
                              IF u = {} THEN base
                              ELSE Cut(h[u \ {Max(u)}], order[Max(u)])]
           iter == CHOOSE h : h = Unfolded(h)
           step == [i \in 1..n |-> [v \in V |-> Cut(v, i)]]
<1>1. strsplt(mem, 0, SPACE) = iter[DOMAIN order]
    BY <1>0, Zenon DEF strsplt, FoldLeft, MapThenFoldSet, Cut
<1>2. n \in Nat /\ n < m /\ strlen(mem, 0) - 1 = n
    BY <1>0, StringIs
<1> HIDE DEF n
<1>3. DOMAIN order = 1..n /\ \A i \in 1..n : order[i] = i
    BY <1>2 DEF Upward
<1> HIDE DEF order
<1>4. ASSUME NEW i \in 1..n, NEW v \in V PROVE Cut(v, i) \in V
    <2>1. i \in Nat /\ i - 1 \in 0..m
        BY <1>0, <1>2
    <2>2. Append(v.out, i) \in Seq(Nat)
        BY <2>1, AppendProperties
    <2>3. [v.mem EXCEPT ![i - 1] = 0] \in [0..m -> Nat]
        BY <2>1
    <2> QED
        BY <2>2, <2>3 DEF Cut
<1>5. base \in V
    BY <1>0
<1>6. step \in [1..n -> [V -> V]]
    <2>1. \A i \in 1..n : [v \in V |-> Cut(v, i)] \in [V -> V]
        BY <1>4
    <2> QED
        BY <2>1
<1>7. \A i \in 1..n, v \in V : step[i][v] = Cut(v, i)
    OBVIOUS
<1> HIDE DEF step, base, V
<1>8. PICK h : Folded(h, V, base, n, step)
    BY <1>2, <1>5, <1>6, FoldExists
<1>9. ASSUME NEW u \in SUBSET (1..n), u # {}
      PROVE  Max(u) \in 1..n /\ order[Max(u)] = Max(u)
    BY <1>2, <1>3, <1>9, MaxIs
<1>10. h = Unfolded(h)
    <2>1. /\ h \in [SUBSET (1..n) -> V]
          /\ \A u \in SUBSET (1..n) :
                h[u] = IF u = {} THEN base ELSE step[Max(u)][h[u \ {Max(u)}]]
        BY <1>8 DEF Folded
    <2>2. ASSUME NEW u \in SUBSET (1..n)
          PROVE  (IF u = {} THEN base ELSE Cut(h[u \ {Max(u)}], order[Max(u)])) = h[u]
        <3>1. CASE u = {}
            BY <2>1, <3>1
        <3>2. CASE u # {}
            <4>1. h[u \ {Max(u)}] \in V
                BY <2>1
            <4> QED
                BY <1>7, <1>9, <2>1, <3>2, <4>1
        <3> QED
            BY <3>1, <3>2
    <2>3. h = [u \in SUBSET (1..n) |-> h[u]]
        BY <2>1
    <2>4. Unfolded(h) = [u \in SUBSET (1..n) |-> h[u]]
        BY <1>3, <2>2
    <2> QED
        BY <2>3, <2>4
<1>11. iter = Unfolded(iter)
    <2> HIDE DEF Unfolded
    <2> QED
        BY <1>10
<1>12. \A u \in SUBSET (1..n) :
           iter[u] = IF u = {} THEN base ELSE Cut(iter[u \ {Max(u)}], order[Max(u)])
    <2> HIDE DEF iter
    <2> QED
        BY <1>3, <1>11
<1> HIDE DEF iter
<1>13. iter[{}] = base
    BY <1>12
<1>14. FoldsWhileIn(iter, V, base, n, step)
    <2>1. ASSUME NEW u \in SUBSET (1..n), u # {}, iter[u \ {Max(u)}] \in V
          PROVE  iter[u] = step[Max(u)][iter[u \ {Max(u)}]]
        <3>1. PICK w : w = iter[u \ {Max(u)}]
            OBVIOUS
        <3>2. iter[u] = Cut(w, order[Max(u)])
            BY <1>12, <2>1, <3>1
        <3>3. Max(u) \in 1..n /\ order[Max(u)] = Max(u)
            BY <1>9, <2>1
        <3>4. step[Max(u)][w] = Cut(w, Max(u))
            BY <1>7, <2>1, <3>1, <3>3
        <3> QED
            BY <3>1, <3>2, <3>3, <3>4
    <2> QED
        BY <1>13, <2>1 DEF FoldsWhileIn
<1>15. PICK g : FoldRun(g, V, base, n, step) /\ g[n] = iter[1..n]
    BY <1>2, <1>5, <1>6, <1>14, FoldRuns
<1>16. /\ g \in [0..n -> V] /\ g[0] = base
       /\ \A i \in 1..n : g[i] = step[i][g[i - 1]]
    BY <1>15 DEF FoldRun
<1> DEFINE P == {i \in 0..n : SplitUpTo(g[i], mem, m, i)}
<1>17. 0 \in P
    <2>1. g[0].mem = mem /\ g[0].out = <<0>>
        BY <1>16 DEF base
    <2>2. Spaces(mem, 0) = {} /\ Cardinality(Spaces(mem, 0)) = 0
        BY SpacesFinite DEF Spaces
    <2>3. CutUpTo(mem, m, 0) = mem
        BY <1>0 DEF CutUpTo
    <2>4. <<0>> \in Seq(Nat) /\ Len(<<0>>) = 1 /\ <<0>>[1] = 0
        OBVIOUS
    <2>5. 0 \in 0..n
        BY <1>2
    <2>6. SplitUpTo(g[0], mem, m, 0)
        BY <2>1, <2>2, <2>3, <2>4 DEF SplitUpTo
    <2> QED
        BY <2>5, <2>6
<1>18. ASSUME NEW i \in 1..n, i - 1 \in P PROVE i \in P
    <2>1. i \in 1..m /\ i - 1 \in 0..n /\ i \in 0..n
        BY <1>0, <1>2
    <2>2. PICK s : s = g[i - 1]
        OBVIOUS
    <2>3. SplitUpTo(s, mem, m, i - 1)
        BY <1>18, <2>2
    <2>4. g[i] = Cut(s, i)
        BY <1>7, <1>16, <2>1, <2>2
    <2>5. SplitUpTo(Cut(s, i), mem, m, i)
        BY <1>0, <2>1, <2>3, CutStep
    <2> QED
        BY <2>1, <2>4, <2>5
<1>19. n \in P
    <2> HIDE DEF P
    <2>1. n \in 0..n
        BY <1>2
    <2> QED
        BY <1>2, <1>17, <1>18, <2>1, UpTo
<1>20. strsplt(mem, 0, SPACE) = g[n]
    BY <1>1, <1>3, <1>15
<1> QED
    BY <1>19, <1>20 DEF n

(***************************************************************************)
(* The words that shell_parse compares, in terms of the line.               *)
(***************************************************************************)
Letter == Nat \ {0, SPACE}

Call(w) == Use \o <<SPACE>> \o w

ChosenBy(text) ==
    {k \in Core : \/ text = Call(k)
                  \/ IsPrefix(Call(k) \o <<SPACE>>, text) /\ Len(text) > Len(Call(k)) + 1}

LEMMA WordIs ==
    ASSUME NEW w \in Core \cup {Use}
    PROVE  /\ w \in Seq(Nat) /\ Len(w) \in Nat \ {0}
           /\ \A i \in 1..Len(w) : w[i] \in Nat /\ w[i] # 0 /\ w[i] # SPACE
<1>1. w \in Seq(Letter) /\ w # <<>>
    BY WordsAssumption DEF Letter
<1>2. Letter \subseteq Nat
    BY DEF Letter
<1> HIDE DEF Letter
<1>3. w \in Seq(Nat) /\ Len(w) \in Nat \ {0} /\ \A i \in 1..Len(w) : w[i] \in Letter
    <2>1. w \in Seq(Nat)
        BY <1>1, <1>2, SeqMonotonic
    <2>2. Len(w) \in Nat \ {0}
        BY <1>1, EmptySeq
    <2>3. \A i \in 1..Len(w) : w[i] \in Letter
        BY <1>1, ElementOfSeq
    <2> QED
        BY <2>1, <2>2, <2>3
<1> QED
    BY <1>3 DEF Letter

LEMMA CallIs ==
    ASSUME NEW w \in Core
    PROVE  /\ Call(w) \in Seq(Nat) /\ Len(Call(w)) = Len(Use) + 1 + Len(w)
           /\ \A i \in 1..(Len(Use) + 1 + Len(w)) :
                 Call(w)[i] = IF i <= Len(Use) THEN Use[i]
                              ELSE IF i = Len(Use) + 1 THEN SPACE ELSE w[i - Len(Use) - 1]
<1>1. /\ w \in Seq(Nat) /\ Use \in Seq(Nat) /\ Len(w) \in Nat /\ Len(Use) \in Nat
    BY WordIs
<1>2. <<SPACE>> \in Seq(Nat) /\ Len(<<SPACE>>) = 1 /\ <<SPACE>>[1] = SPACE
    BY DEF SPACE
<1>3. PICK h : h = Use \o <<SPACE>>
    OBVIOUS
<1>4. /\ h \in Seq(Nat) /\ Len(h) = Len(Use) + 1
      /\ \A i \in 1..(Len(Use) + 1) : h[i] = IF i <= Len(Use) THEN Use[i] ELSE SPACE
    <2>1. /\ h \in Seq(Nat) /\ Len(h) = Len(Use) + 1
          /\ \A i \in 1..(Len(Use) + 1) :
                h[i] = IF i <= Len(Use) THEN Use[i] ELSE <<SPACE>>[i - Len(Use)]
        BY <1>1, <1>2, <1>3, ConcatProperties
    <2>2. ASSUME NEW i \in 1..(Len(Use) + 1), ~(i <= Len(Use)) PROVE h[i] = SPACE
        <3>1. i - Len(Use) = 1
            BY <1>1, <2>2
        <3> QED
            BY <1>2, <2>1, <2>2, <3>1
    <2> QED
        BY <2>1, <2>2
<1>5. /\ Call(w) \in Seq(Nat) /\ Len(Call(w)) = Len(Use) + 1 + Len(w)
      /\ \A i \in 1..(Len(Use) + 1 + Len(w)) :
            Call(w)[i] = IF i <= Len(Use) + 1 THEN h[i] ELSE w[i - (Len(Use) + 1)]
    BY <1>1, <1>3, <1>4, ConcatProperties DEF Call
<1>6. ASSUME NEW i \in 1..(Len(Use) + 1 + Len(w))
      PROVE  Call(w)[i] = IF i <= Len(Use) THEN Use[i]
                          ELSE IF i = Len(Use) + 1 THEN SPACE ELSE w[i - Len(Use) - 1]
    <2>1. CASE i <= Len(Use) + 1
        <3>1. i \in 1..(Len(Use) + 1) /\ (~(i <= Len(Use)) => i = Len(Use) + 1)
            BY <1>1, <2>1
        <3>2. Call(w)[i] = h[i]
            BY <1>5, <2>1
        <3> QED
            BY <1>4, <3>1, <3>2
    <2>2. CASE ~(i <= Len(Use) + 1)
        <3>1. i - (Len(Use) + 1) = i - Len(Use) - 1
            BY <1>1
        <3>2. Call(w)[i] = w[i - (Len(Use) + 1)]
            BY <1>5, <2>2
        <3>3. ~(i <= Len(Use)) /\ i # Len(Use) + 1
            BY <1>1, <2>2
        <3> QED
            BY <3>1, <3>2, <3>3
    <2> QED
        BY <2>1, <2>2
<1> QED
    BY <1>5, <1>6

(* A line calls for the core w, in its characters. *)
CallsFor(text, w) ==
    /\ Len(text) >= Len(Use) + 1 + Len(w)
    /\ \A i \in 1..(Len(Use) + 1 + Len(w)) : text[i] = Call(w)[i]
    /\ \/ Len(text) = Len(Use) + 1 + Len(w)
       \/ /\ Len(text) > Len(Use) + 1 + Len(w) + 1
          /\ text[Len(Use) + 1 + Len(w) + 1] = SPACE

LEMMA CallsForIs ==
    ASSUME NEW text \in Seq(Nat), NEW w \in Core
    PROVE  w \in ChosenBy(text) <=> CallsFor(text, w)
<1>1. PICK call : call = Call(w)
    OBVIOUS
<1>2. PICK n : n = Len(Use) + 1 + Len(w)
    OBVIOUS
<1>3. call \in Seq(Nat) /\ Len(call) = n /\ n \in Nat /\ Len(text) \in Nat
    BY <1>1, <1>2, CallIs, WordIs
<1>4. PICK more : more = call \o <<SPACE>>
    OBVIOUS
<1>5. /\ more \in Seq(Nat) /\ Len(more) = n + 1 /\ more[n + 1] = SPACE
      /\ \A i \in 1..n : more[i] = call[i]
    <2>1. <<SPACE>> \in Seq(Nat) /\ Len(<<SPACE>>) = 1 /\ <<SPACE>>[1] = SPACE
        BY DEF SPACE
    <2>2. /\ more \in Seq(Nat) /\ Len(more) = n + 1
          /\ \A i \in 1..(n + 1) : more[i] = IF i <= n THEN call[i] ELSE <<SPACE>>[i - n]
        BY <1>3, <1>4, <2>1, ConcatProperties
    <2>3. n + 1 \in 1..(n + 1) /\ ~(n + 1 <= n) /\ (n + 1) - n = 1
        BY <1>3
    <2>4. more[n + 1] = SPACE
        BY <2>1, <2>2, <2>3
    <2> QED
        BY <1>3, <2>2, <2>4
<1>6. text = call <=> Len(text) = n /\ \A i \in 1..n : text[i] = call[i]
    <2>1. ASSUME Len(text) = n, \A i \in 1..n : text[i] = call[i] PROVE text = call
        BY <1>3, <2>1, SeqEqual
    <2> QED
        BY <1>3, <2>1
<1>7. IsPrefix(more, text) <=>
          Len(text) >= n + 1 /\ \A i \in 1..(n + 1) : text[i] = more[i]
    <2>1. ASSUME Len(text) >= n + 1
          PROVE  /\ SubSeq(text, 1, n + 1) \in Seq(Nat) /\ Len(SubSeq(text, 1, n + 1)) = n + 1
                 /\ \A i \in 1..(n + 1) : SubSeq(text, 1, n + 1)[i] = text[i]
        <3>1. \A i \in 1..(n + 1) : text[i] \in Nat
            BY <1>3, <2>1
        <3>2. n + 1 \in Int /\ 1 \in Int /\ (n + 1) - 1 + 1 = n + 1 /\ 1 <= n + 1
            BY <1>3
        <3>3. /\ SubSeq(text, 1, n + 1) \in Seq(Nat)
              /\ Len(SubSeq(text, 1, n + 1)) = IF 1 <= n + 1 THEN (n + 1) - 1 + 1 ELSE 0
              /\ \A i \in 1..((n + 1) - 1 + 1) : SubSeq(text, 1, n + 1)[i] = text[1 + i - 1]
            BY <3>1, <3>2, SubSeqProperties
        <3> QED
            BY <1>3, <3>2, <3>3
    <2>2. SubSeq(more, 1, n + 1) = more
        BY <1>5, SubSeqFull
    <2>3. ASSUME IsPrefix(more, text)
          PROVE  Len(text) >= n + 1 /\ \A i \in 1..(n + 1) : text[i] = more[i]
        <3>1. Len(text) >= n + 1 /\ SubSeq(more, 1, n + 1) = SubSeq(text, 1, n + 1)
            BY <1>3, <1>5, <2>3 DEF IsPrefix
        <3> QED
            BY <2>1, <2>2, <3>1
    <2>4. ASSUME Len(text) >= n + 1, \A i \in 1..(n + 1) : text[i] = more[i]
          PROVE  IsPrefix(more, text)
        <3>1. PICK head : head = SubSeq(text, 1, n + 1)
            OBVIOUS
        <3>2. head \in Seq(Nat) /\ Len(head) = n + 1 /\ \A i \in 1..(n + 1) : head[i] = text[i]
            BY <2>1, <2>4, <3>1
        <3>3. head = more
            BY <1>5, <2>4, <3>2, SeqEqual
        <3> QED
            BY <1>3, <1>5, <2>2, <2>4, <3>1, <3>3 DEF IsPrefix
    <2> QED
        BY <2>3, <2>4
<1>8. w \in ChosenBy(text) <=> text = call \/ (IsPrefix(more, text) /\ Len(text) > n + 1)
    BY <1>1, <1>3, <1>4 DEF ChosenBy
<1>9. CallsFor(text, w) <=>
          /\ Len(text) >= n
          /\ \A i \in 1..n : text[i] = call[i]
          /\ Len(text) = n \/ (Len(text) > n + 1 /\ text[n + 1] = SPACE)
    BY <1>1, <1>2 DEF CallsFor
<1>10. IsPrefix(more, text) <=>
           Len(text) >= n + 1 /\ text[n + 1] = SPACE /\ \A i \in 1..n : text[i] = call[i]
    <2>1. (\A i \in 1..(n + 1) : text[i] = more[i])
              <=> text[n + 1] = more[n + 1] /\ \A i \in 1..n : text[i] = more[i]
        BY <1>3
    <2> QED
        BY <1>5, <1>7, <2>1
<1> QED
    BY <1>3, <1>6, <1>8, <1>9, <1>10

(* The separators at which strsplt cuts a line. *)
Separators(text) == {i \in 1..(Len(text) - 1) : text[i] = SPACE}

(* In a line that calls for a core the first separator is behind the command. *)
LEMMA CallSeparated ==
    ASSUME NEW text \in Seq(Nat), NEW w \in Core, CallsFor(text, w)
    PROVE  /\ IsLeast(Len(Use) + 1, Separators(text))
           /\ \A i \in 1..Len(Use) : text[i] = Use[i]
           /\ \A i \in 1..Len(w) : text[Len(Use) + 1 + i] = w[i]
<1>1. PICK u : u = Len(Use)
    OBVIOUS
<1>2. /\ u \in Nat \ {0} /\ Len(w) \in Nat \ {0} /\ Len(text) \in Nat
      /\ Len(text) >= u + 1 + Len(w)
    BY <1>1, WordIs DEF CallsFor
<1>3. ASSUME NEW i \in 1..(u + 1 + Len(w))
      PROVE  text[i] = IF i <= u THEN Use[i]
                       ELSE IF i = u + 1 THEN SPACE ELSE w[i - u - 1]
    BY <1>1, CallIs DEF CallsFor
<1>4. ASSUME NEW i \in 1..u PROVE text[i] = Use[i]
    <2>1. i \in 1..(u + 1 + Len(w)) /\ i <= u
        BY <1>2
    <2> QED
        BY <1>3, <2>1
<1>5. ASSUME NEW i \in 1..Len(w) PROVE text[u + 1 + i] = w[i]
    <2>1. /\ u + 1 + i \in 1..(u + 1 + Len(w)) /\ ~(u + 1 + i <= u) /\ u + 1 + i # u + 1
          /\ (u + 1 + i) - u - 1 = i
        BY <1>2
    <2> QED
        BY <1>3, <2>1
<1>6. u + 1 \in Separators(text)
    <2>1. u + 1 \in 1..(u + 1 + Len(w)) /\ ~(u + 1 <= u) /\ u + 1 \in 1..(Len(text) - 1)
        BY <1>2
    <2>2. text[u + 1] = SPACE
        BY <1>3, <2>1
    <2> QED
        BY <2>1, <2>2 DEF Separators
<1>7. ASSUME NEW q \in Separators(text) PROVE u + 1 <= q
    <2>1. q \in Nat \ {0} /\ text[q] = SPACE
        BY DEF Separators
    <2>2. q \notin 1..u
        BY <1>1, <1>4, <2>1, WordIs
    <2> QED
        BY <1>2, <2>1, <2>2
<1> QED
    BY <1>1, <1>4, <1>5, <1>6, <1>7 DEF IsLeast

(* A line of one word, or with another word than the command, chooses nothing. *)
LEMMA NothingChosen ==
    ASSUME NEW text \in Seq(Nat),
           \A a \in Nat : IsLeast(a, Separators(text)) =>
               a # Len(Use) + 1 \/ \E i \in 1..Len(Use) : text[i] # Use[i]
    PROVE  ChosenBy(text) = {}
<1>1. ASSUME NEW w \in ChosenBy(text) PROVE FALSE
    <2>1. w \in Core
        BY DEF ChosenBy
    <2>2. CallsFor(text, w)
        BY <2>1, CallsForIs
    <2>3. /\ IsLeast(Len(Use) + 1, Separators(text))
          /\ \A i \in 1..Len(Use) : text[i] = Use[i]
        BY <2>1, <2>2, CallSeparated
    <2>4. Len(Use) + 1 \in Nat
        BY WordIs
    <2> QED
        BY <2>3, <2>4
<1> QED
    BY <1>1

(* The second word, from behind a to e, is what a line with the command chooses. *)
SecondWord(text, a, e, word) ==
    /\ e \in a..Len(text)
    /\ \A q \in (a + 1)..e : q \notin Separators(text)
    /\ e = Len(text) \/ e + 1 \in Separators(text)
    /\ word \in Seq(Nat) /\ Len(word) = e - a
    /\ \A i \in 1..(e - a) : word[i] = text[a + i]

LEMMA SecondChosen ==
    ASSUME NEW text \in Seq(Nat), NEW e, NEW word,
           IsLeast(Len(Use) + 1, Separators(text)),
           \A i \in 1..Len(Use) : text[i] = Use[i],
           SecondWord(text, Len(Use) + 1, e, word),
           NEW w \in Core
    PROVE  w \in ChosenBy(text) <=> w = word
<1>1. PICK a : a = Len(Use) + 1
    OBVIOUS
<1>2. /\ a \in Nat /\ a >= 2 /\ Len(w) \in Nat \ {0} /\ Len(text) \in Nat /\ w \in Seq(Nat)
      /\ \A i \in 1..Len(w) : w[i] # SPACE
    BY <1>1, WordIs
<1>3. /\ e \in a..Len(text)
      /\ \A q \in (a + 1)..e : q \notin Separators(text)
      /\ e = Len(text) \/ e + 1 \in Separators(text)
      /\ word \in Seq(Nat) /\ Len(word) = e - a
      /\ \A i \in 1..(e - a) : word[i] = text[a + i]
    BY <1>1 DEF SecondWord
<1>4. PICK n, t : n = Len(w) /\ t = Len(text)
    OBVIOUS
<1>5. /\ a \in Nat /\ a >= 2 /\ n \in Nat /\ n >= 1 /\ t \in Nat
       /\ e \in Nat /\ a <= e /\ e <= t
    BY <1>4, <1>2, <1>3
<1>6. \A q : q \in Separators(text) <=> q \in 1..(Len(text) - 1) /\ text[q] = SPACE
    BY DEF Separators
<1>7. ASSUME CallsFor(text, w) PROVE w = word
    <2>1. \A i \in 1..Len(w) : text[a + i] = w[i]
        BY <1>1, <1>7, CallSeparated
    <2>2. /\ Len(text) >= a + Len(w)
          /\ Len(text) = a + Len(w) \/ (/\ Len(text) > a + Len(w) + 1
                                        /\ text[a + Len(w) + 1] = SPACE)
        BY <1>1, <1>2, <1>7 DEF CallsFor
    <2>3. ~(e < a + Len(w))
        <3>1. SUFFICES ASSUME e < a + Len(w) PROVE FALSE
            OBVIOUS
        <3>2. e + 1 \in Separators(text)
            BY <1>2, <1>3, <2>2, <3>1
        <3>3. text[e + 1] = SPACE
            BY <1>6, <3>2
        <3>4. PICK i : i = e + 1 - a
            OBVIOUS
        <3>5. i \in 1..Len(w) /\ a + i = e + 1
            <4>1. e < a + n
                BY <1>4, <3>1
            <4>2. i \in 1..n /\ a + i = e + 1
                BY <1>5, <3>4, <4>1
            <4> QED
                BY <1>4, <4>2
        <3> QED
            BY <1>2, <2>1, <3>3, <3>5
    <2>4. ~(e > a + Len(w))
        <3>1. SUFFICES ASSUME e > a + Len(w) PROVE FALSE
            OBVIOUS
        <3>2. PICK q : q = a + Len(w) + 1
            OBVIOUS
        <3>3. q \in (a + 1)..e /\ q \in 1..(Len(text) - 1) /\ text[q] = SPACE
            <4>1. e > a + n /\ q = a + n + 1
                BY <1>4, <3>1, <3>2
            <4>2. t = a + n \/ (t > a + n + 1 /\ text[a + n + 1] = SPACE)
                BY <1>4, <2>2
            <4>3. t > a + n + 1 /\ text[q] = SPACE
                BY <1>5, <4>1, <4>2
            <4>4. q \in (a + 1)..e /\ q \in 1..(t - 1)
                BY <1>5, <4>1, <4>3
            <4> QED
                BY <1>4, <4>3, <4>4
        <3> QED
            BY <1>3, <1>6, <3>3
    <2>5. Len(w) = e - a
        <3>1. ~(e < a + n) /\ ~(e > a + n)
            BY <1>4, <2>3, <2>4
        <3>2. n = e - a
            BY <1>5, <3>1
        <3> QED
            BY <1>4, <3>2
    <2>6. \A i \in 1..Len(w) : w[i] = word[i]
        BY <1>3, <2>1, <2>5
    <2>7. w \in Seq(Nat) /\ word \in Seq(Nat) /\ Len(w) = Len(word)
        BY <1>2, <1>3, <2>5
    <2> QED
        BY <2>6, <2>7, SeqEqual
<1>8. ASSUME w = word PROVE CallsFor(text, w)
    <2>1. Len(w) = e - a /\ a + Len(w) = e
        BY <1>2, <1>3, <1>8
    <2>2. ASSUME NEW i \in 1..(a + Len(w)) PROVE text[i] = Call(w)[i]
        <3>1. Call(w)[i] = IF i <= Len(Use) THEN Use[i]
                           ELSE IF i = Len(Use) + 1 THEN SPACE ELSE w[i - Len(Use) - 1]
            BY <1>1, CallIs
        <3>2. CASE i <= Len(Use)
            <4>1. i \in 1..Len(Use)
                BY <1>1, <1>2, <3>2
            <4> QED
                BY <3>1, <3>2, <4>1
        <3>3. CASE i = Len(Use) + 1
            <4>1. text[a] = SPACE
                BY <1>1, <1>6 DEF IsLeast
            <4> QED
                BY <1>1, <1>2, <3>1, <3>3, <4>1, WordIs
        <3>4. CASE ~(i <= Len(Use)) /\ i # Len(Use) + 1
            <4>1. PICK j : j = i - Len(Use) - 1
                OBVIOUS
            <4>2. j \in 1..(e - a) /\ a + j = i
                <5>1. i \in 1..(a + n) /\ e - a = n /\ j = i - a
                    BY <1>1, <1>4, <1>5, <2>1, <4>1
                <5>2. ~(i <= a)
                    BY <1>1, <1>2, <3>4
                <5> QED
                    BY <1>5, <5>1, <5>2
            <4>3. Call(w)[i] = w[j]
                BY <3>1, <3>4, <4>1
            <4>4. word[j] = text[i]
                BY <1>3, <4>2
            <4> QED
                BY <1>8, <4>3, <4>4
        <3> QED
            BY <3>2, <3>3, <3>4
    <2>3. e = Len(text) \/ (Len(text) > e + 1 /\ text[e + 1] = SPACE)
        BY <1>2, <1>3, <1>6
    <2>4. Len(text) >= e
        BY <1>4, <1>5
    <2> QED
        BY <1>1, <2>1, <2>2, <2>3, <2>4 DEF CallsFor
<1> QED
    BY <1>7, <1>8, CallsForIs

(* What an answer does to the core, and that it leaves the memory alone. *)
LEMMA AnswerCore ==
    ASSUME NEW memory, NEW arg0, NEW arg1
    PROVE  /\ Answer(memory, arg0, arg1).core =
                  IF arg0 = Use /\ arg1 \in Core THEN arg1 ELSE current_core
           /\ Answer(memory, arg0, arg1).mem = memory
<1> DEFINE kind == IF arg0 \in DOMAIN Command THEN Command[arg0] ELSE "none"
           core == IF kind = "use" /\ arg1 \in Core THEN arg1 ELSE current_core
           Then(place, running, text) ==
               [pc |-> place, shell |-> running, core |-> core, says |-> text, mem |-> memory]
<1>1. core = IF arg0 = Use /\ arg1 \in Core THEN arg1 ELSE current_core
    BY WordsAssumption
<1>2. Answer(memory, arg0, arg1) \in
          {Then("hang", TRUE, <<>>), Then("poll", TRUE, <<>>), Then("wait", TRUE, <<>>),
           Then("reset", TRUE, <<>>), Then("poll", FALSE, <<>>), Then("poll", TRUE, Reply)}
    <2>1. CASE arg0 = Nowhere
        BY <2>1, Zenon DEF Answer
    <2>2. CASE arg0 # Nowhere
        <3>1. Answer(memory, arg0, arg1) =
                CASE kind = "none"   -> Then("poll", TRUE, <<>>)
                  [] kind = "sleep"  -> Then("wait", TRUE, <<>>)
                  [] kind = "reboot" -> Then("reset", TRUE, <<>>)
                  [] kind = "exit"   -> Then("poll", FALSE, <<>>)
                  [] OTHER           -> IF arg1 = Nowhere THEN Then("hang", TRUE, <<>>)
                                        ELSE Then("poll", TRUE, Reply)
            BY <2>2, Zenon DEF Answer
        <3> HIDE DEF kind, Then
        <3> QED
            BY <3>1
    <2> QED
        BY <2>1, <2>2
<1> HIDE DEF kind, core
<1>3. Answer(memory, arg0, arg1).core = core /\ Answer(memory, arg0, arg1).mem = memory
    BY <1>2
<1> QED
    BY <1>1, <1>3

(* What shell_parse hands to Answer. *)
Args(split, i) ==
    IF i < Len(split.out) THEN {StringAt(split.mem, split.out[i + 1])}
    ELSE {Nowhere, <<>>} \cup {StringAt(split.mem, a) : a \in 0..(LINE - 1)}

LEMMA ParseIs ==
    ASSUME NEW mem, NEW result \in shell_parse(mem), NEW split,
           split = strsplt(mem, 0, SPACE)
    PROVE  /\ result.mem = split.mem
           /\ Len(split.out) > ARGS => result.core = current_core
           /\ ~(Len(split.out) > ARGS) =>
                 \E arg0 \in Args(split, 0), arg1 \in Args(split, 1) :
                    result.core = IF arg0 = Use /\ arg1 \in Core THEN arg1 ELSE current_core
<1> DEFINE smashed == [pc |-> "smashed", shell |-> TRUE, core |-> current_core,
                       says |-> <<>>, mem |-> split.mem]
<1>1. shell_parse(mem) =
          IF Len(split.out) > ARGS THEN {smashed}
          ELSE {Answer(split.mem, arg0, arg1) : arg0 \in Args(split, 0), arg1 \in Args(split, 1)}
    BY DEF shell_parse, Args
<1>2. CASE Len(split.out) > ARGS
    <2>1. result = smashed
        BY <1>1, <1>2
    <2> QED
        BY <1>2, <2>1
<1>3. CASE ~(Len(split.out) > ARGS)
    <2>1. PICK arg0 \in Args(split, 0), arg1 \in Args(split, 1) :
              result = Answer(split.mem, arg0, arg1)
        BY <1>1, <1>3
    <2>2. /\ result.core = IF arg0 = Use /\ arg1 \in Core THEN arg1 ELSE current_core
          /\ result.mem = split.mem
        BY <2>1, AnswerCore
    <2> QED
        BY <1>3, <2>2
<1> QED
    BY <1>2, <1>3

(* A line that is not empty, as text, with its separators cut in the memory. *)
Parsed(mem, m, k, text, fm) ==
    /\ IsMemory(mem, m) /\ Ends(mem, m, 0, k) /\ k # 0
    /\ text = StringAt(mem, 0) /\ fm = CutUpTo(mem, m, k - 1)

LEMMA ParsedIs ==
    ASSUME NEW mem, NEW m, NEW k, NEW text, NEW fm, Parsed(mem, m, k, text, fm)
    PROVE  /\ m \in Nat /\ k \in 1..m /\ IsMemory(fm, m)
           /\ text \in Seq(Nat) /\ Len(text) = k
           /\ Spaces(mem, k - 1) = Separators(text)
           /\ \A q \in 0..(k - 1) :
                 fm[q] = IF q + 1 \in Separators(text) THEN 0 ELSE text[q + 1]
           /\ \A q \in 0..(k - 1) : text[q + 1] # 0
           /\ fm[k] = 0
<1>1. /\ IsMemory(mem, m) /\ Ends(mem, m, 0, k) /\ k # 0
      /\ text = StringAt(mem, 0) /\ fm = CutUpTo(mem, m, k - 1)
    BY DEF Parsed
<1>2. /\ m \in Nat /\ mem \in [0..m -> Nat] /\ mem[m] = 0 /\ k \in 1..m
      /\ mem[k] = 0 /\ \A i \in 0..(k - 1) : mem[i] # 0
    BY <1>1 DEF IsMemory, Ends
<1>3. /\ text \in Seq(Nat) /\ Len(text) = k - 0
      /\ \A i \in 1..(k - 0) : text[i] = mem[0 + i - 1]
    BY <1>1, StringIs
<1>4. /\ Len(text) = k
      /\ \A q \in 0..(k - 1) : text[q + 1] = mem[q]
    <2>1. k - 0 = k
        BY <1>2
    <2>2. ASSUME NEW q \in 0..(k - 1) PROVE text[q + 1] = mem[q]
        <3>1. q + 1 \in 1..k /\ 0 + (q + 1) - 1 = q
            BY <1>2
        <3> QED
            BY <1>3, <2>1, <3>1
    <2> QED
        BY <1>3, <2>1, <2>2
<1>5. Spaces(mem, k - 1) = Separators(text)
    <2>1. ASSUME NEW j \in 1..(k - 1) PROVE mem[j - 1] = text[j]
        <3>1. j - 1 \in 0..(k - 1) /\ (j - 1) + 1 = j
            BY <1>2
        <3> QED
            BY <1>4, <3>1
    <2> QED
        BY <1>4, <2>1 DEF Spaces, Separators
<1>6. /\ fm \in [0..m -> Nat] /\ fm[m] = 0 /\ fm[k] = 0
      /\ \A q \in 0..m : fm[q] = IF q < k - 1 /\ mem[q] = SPACE THEN 0 ELSE mem[q]
    BY <1>1, <1>2 DEF CutUpTo
<1>7. ASSUME NEW q \in 0..(k - 1)
      PROVE  fm[q] = IF q + 1 \in Separators(text) THEN 0 ELSE text[q + 1]
    <2>1. q \in 0..m /\ text[q + 1] = mem[q]
        BY <1>2, <1>4
    <2>2. q + 1 \in Separators(text) <=> q < k - 1 /\ mem[q] = SPACE
        BY <1>2, <1>4, <2>1 DEF Separators
    <2> QED
        BY <1>6, <2>1, <2>2
<1>8. IsMemory(fm, m)
    BY <1>2, <1>6 DEF IsMemory
<1>9. \A q \in 0..(k - 1) : text[q + 1] # 0
    BY <1>2, <1>4
<1> QED
    BY <1>2, <1>3, <1>4, <1>5, <1>6, <1>7, <1>8, <1>9

(* The first word is the line, or ends at its first separator. *)
LEMMA FirstWordIs ==
    ASSUME NEW mem, NEW m, NEW k, NEW text, NEW fm, Parsed(mem, m, k, text, fm)
    PROVE  /\ Separators(text) = {} => StringAt(fm, 0) = text
           /\ \A a : IsLeast(a, Separators(text)) =>
                 /\ StringAt(fm, 0) \in Seq(Nat) /\ Len(StringAt(fm, 0)) = a - 1
                 /\ \A i \in 1..(a - 1) : StringAt(fm, 0)[i] = text[i]
<1>1. /\ m \in Nat /\ k \in 1..m /\ IsMemory(fm, m)
      /\ text \in Seq(Nat) /\ Len(text) = k
      /\ \A q \in 0..(k - 1) : fm[q] = IF q + 1 \in Separators(text) THEN 0 ELSE text[q + 1]
      /\ \A q \in 0..(k - 1) : text[q + 1] # 0
      /\ fm[k] = 0
    BY ParsedIs
<1>2. ASSUME NEW e \in 0..k, fm[e] = 0,
             \A q \in 0..(e - 1) : q + 1 \notin Separators(text)
      PROVE  /\ StringAt(fm, 0) \in Seq(Nat) /\ Len(StringAt(fm, 0)) = e
             /\ \A i \in 1..e : StringAt(fm, 0)[i] = text[i]
    <2>1. \A q \in 0..(e - 1) : fm[q] = text[q + 1] /\ fm[q] # 0
        <3>1. ASSUME NEW q \in 0..(e - 1) PROVE q \in 0..(k - 1)
            BY <1>1
        <3> QED
            BY <1>1, <1>2, <3>1
    <2>2. Ends(fm, m, 0, e)
        BY <1>1, <1>2, <2>1 DEF Ends
    <2>3. /\ StringAt(fm, 0) \in Seq(Nat) /\ Len(StringAt(fm, 0)) = e - 0
          /\ \A i \in 1..(e - 0) : StringAt(fm, 0)[i] = fm[0 + i - 1]
        <3>1. PICK p : p = 0
            OBVIOUS
        <3>2. Ends(fm, m, p, e)
            BY <2>2, <3>1
        <3>3. /\ StringAt(fm, p) \in Seq(Nat) /\ Len(StringAt(fm, p)) = e - p
              /\ \A i \in 1..(e - p) : StringAt(fm, p)[i] = fm[p + i - 1]
            BY <1>1, <3>2, StringIs
        <3> QED
            BY <3>1, <3>3
    <2>4. e - 0 = e
        OBVIOUS
    <2>5. ASSUME NEW i \in 1..e PROVE StringAt(fm, 0)[i] = text[i]
        <3>1. 0 + i - 1 \in 0..(e - 1) /\ (0 + i - 1) + 1 = i
            BY <1>1
        <3> QED
            BY <2>1, <2>3, <2>4, <3>1
    <2> QED
        BY <2>3, <2>4, <2>5
<1>3. ASSUME Separators(text) = {} PROVE StringAt(fm, 0) = text
    <2>1. k \in 0..k
        BY <1>1
    <2>2. /\ StringAt(fm, 0) \in Seq(Nat) /\ Len(StringAt(fm, 0)) = k
          /\ \A i \in 1..k : StringAt(fm, 0)[i] = text[i]
        BY <1>1, <1>2, <1>3, <2>1
    <2> QED
        BY <1>1, <2>2, SeqEqual
<1>4. ASSUME NEW a, IsLeast(a, Separators(text))
      PROVE  /\ StringAt(fm, 0) \in Seq(Nat) /\ Len(StringAt(fm, 0)) = a - 1
             /\ \A i \in 1..(a - 1) : StringAt(fm, 0)[i] = text[i]
    <2>1. a \in 1..(k - 1) /\ a \in Separators(text)
        BY <1>1, <1>4 DEF IsLeast, Separators
    <2>2. PICK e : e = a - 1
        OBVIOUS
    <2>3. e \in 0..k /\ e \in 0..(k - 1) /\ e + 1 = a
        BY <1>1, <2>1, <2>2
    <2>4. fm[e] = 0
        BY <1>1, <2>1, <2>3
    <2>5. ASSUME NEW q \in 0..(e - 1) PROVE q + 1 \notin Separators(text)
        BY <1>4, <2>1, <2>3 DEF IsLeast
    <2>6. /\ StringAt(fm, 0) \in Seq(Nat) /\ Len(StringAt(fm, 0)) = e
          /\ \A i \in 1..e : StringAt(fm, 0)[i] = text[i]
        BY <1>2, <2>3, <2>4, <2>5
    <2> QED
        BY <2>2, <2>6
<1> QED
    BY <1>3, <1>4

(* The second word is what stands between it and the next, or the end. *)
LEMMA SecondWordIs ==
    ASSUME NEW mem, NEW m, NEW k, NEW text, NEW fm, Parsed(mem, m, k, text, fm),
           NEW a, IsLeast(a, Separators(text))
    PROVE  \E e : SecondWord(text, a, e, StringAt(fm, a))
<1>1. /\ m \in Nat /\ k \in 1..m /\ IsMemory(fm, m)
      /\ text \in Seq(Nat) /\ Len(text) = k
      /\ \A q \in 0..(k - 1) : fm[q] = IF q + 1 \in Separators(text) THEN 0 ELSE text[q + 1]
      /\ \A q \in 0..(k - 1) : text[q + 1] # 0
      /\ fm[k] = 0
    BY ParsedIs
<1>2. a \in 1..(k - 1) /\ a \in 0..m /\ a \in Nat /\ k \in Nat
    BY <1>1 DEF IsLeast, Separators
<1>3. PICK e : Ends(fm, m, a, e)
    BY <1>1, <1>2, HasEnd
<1>4. /\ e \in a..m /\ fm[e] = 0 /\ \A q \in a..(e - 1) : fm[q] # 0
    BY <1>3 DEF Ends
<1>5. e \in a..k
    <2>1. ~(e > k)
        <3>1. SUFFICES ASSUME e > k PROVE FALSE
            OBVIOUS
        <3>2. k \in a..(e - 1)
            BY <1>1, <1>2, <1>4, <3>1
        <3> QED
            BY <1>1, <1>4, <3>2
    <2> QED
        BY <1>1, <1>2, <1>4, <2>1
<1>6. ASSUME NEW q \in a..(e - 1)
      PROVE  q \in 0..(k - 1) /\ q + 1 \notin Separators(text) /\ fm[q] = text[q + 1]
    <2>1. q \in 0..(k - 1)
        BY <1>2, <1>5
    <2> QED
        BY <1>1, <1>4, <2>1
<1>7. ASSUME NEW q \in (a + 1)..e PROVE q \notin Separators(text)
    <2>1. q - 1 \in a..(e - 1) /\ (q - 1) + 1 = q
        BY <1>2, <1>5
    <2> QED
        BY <1>6, <2>1
<1>8. e = Len(text) \/ e + 1 \in Separators(text)
    <2>1. SUFFICES ASSUME e # k PROVE e + 1 \in Separators(text)
        BY <1>1
    <2>2. e \in 0..(k - 1)
        BY <1>2, <1>5, <2>1
    <2> QED
        BY <1>1, <1>4, <2>2
<1>9. PICK word : word = StringAt(fm, a)
    OBVIOUS
<1>10. /\ word \in Seq(Nat) /\ Len(word) = e - a
       /\ \A i \in 1..(e - a) : word[i] = fm[a + i - 1]
    BY <1>1, <1>3, <1>9, StringIs
<1>11. ASSUME NEW i \in 1..(e - a) PROVE word[i] = text[a + i]
    <2>1. a + i - 1 \in a..(e - 1) /\ (a + i - 1) + 1 = a + i
        BY <1>2, <1>5
    <2> QED
        BY <1>6, <1>10, <2>1
<1>12. SecondWord(text, a, e, word)
    BY <1>1, <1>5, <1>7, <1>8, <1>10, <1>11 DEF SecondWord
<1> QED
    BY <1>9, <1>12

(* What a line that is not empty chooses, if it does not have too many words. *)
LEMMA ParseChooses ==
    ASSUME NEW mem, NEW m, NEW k, NEW text, NEW fm, Parsed(mem, m, k, text, fm),
           NEW result \in shell_parse(mem)
    PROVE  /\ 1 + Cardinality(Separators(text)) > ARGS => result.core = current_core
           /\ ~(1 + Cardinality(Separators(text)) > ARGS) /\ text # Use =>
                  result.core \in IF ChosenBy(text) # {} THEN ChosenBy(text)
                                  ELSE {current_core}
<1>1. /\ m \in Nat /\ k \in 1..m /\ IsMemory(fm, m)
      /\ text \in Seq(Nat) /\ Len(text) = k
      /\ Spaces(mem, k - 1) = Separators(text)
    BY ParsedIs
<1>2. PICK split : split = strsplt(mem, 0, SPACE)
    OBVIOUS
<1>3. SplitUpTo(split, mem, m, k - 1)
    BY <1>2, SplitIs DEF Parsed
<1>4. /\ split.mem = fm /\ Len(split.out) = 1 + Cardinality(Separators(text))
      /\ split.out[1] = 0
      /\ \A p \in Separators(text) : IsLeast(p, Separators(text)) => split.out[2] = p
    BY <1>1, <1>3 DEF SplitUpTo, Parsed
<1>5. /\ Cardinality(Separators(text)) \in Nat
      /\ Cardinality(Separators(text)) = 0 <=> Separators(text) = {}
    <2>1. k - 1 \in Nat
        BY <1>1
    <2> QED
        BY <1>1, <2>1, SpacesFinite
<1>6. CASE Len(split.out) > ARGS
    BY <1>2, <1>4, <1>6, ParseIs
<1>7. CASE ~(Len(split.out) > ARGS)
    <2>1. PICK arg0 \in Args(split, 0), arg1 \in Args(split, 1) :
              result.core = IF arg0 = Use /\ arg1 \in Core THEN arg1 ELSE current_core
        BY <1>2, <1>7, ParseIs
    <2>2. arg0 = StringAt(fm, 0)
        <3>1. 0 < Len(split.out) /\ 0 + 1 = 1
            BY <1>4, <1>5
        <3> QED
            BY <1>4, <2>1, <3>1 DEF Args
    <2>3. SUFFICES ASSUME text # Use
                   PROVE  result.core \in IF ChosenBy(text) # {} THEN ChosenBy(text)
                                          ELSE {current_core}
        BY <1>4, <1>7
    <2>4. CASE Separators(text) = {}
        <3>1. arg0 = text
            BY <2>2, <2>4, FirstWordIs
        <3>2. ChosenBy(text) = {}
            BY <1>1, <2>4, NothingChosen DEF IsLeast
        <3> QED
            BY <2>1, <2>3, <3>1, <3>2
    <2>5. CASE Separators(text) # {}
        <3>1. PICK a \in Separators(text) : IsLeast(a, Separators(text))
            <4>1. Separators(text) \subseteq Nat
                BY DEF Separators
            <4> QED
                BY <2>5, <4>1, LeastOf DEF IsLeast
        <3>2. a \in Nat \ {0} /\ \A b : IsLeast(b, Separators(text)) => b = a
            BY <3>1 DEF IsLeast, Separators
        <3>3. arg1 = StringAt(fm, a)
            <4>1. 1 < Len(split.out) /\ 1 + 1 = 2
                BY <1>4, <1>5, <2>5
            <4>2. split.out[2] = a
                BY <1>4, <3>1
            <4> QED
                BY <1>4, <2>1, <4>1, <4>2 DEF Args
        <3>4. /\ arg0 \in Seq(Nat) /\ Len(arg0) = a - 1
              /\ \A i \in 1..(a - 1) : arg0[i] = text[i]
            BY <2>2, <3>1, FirstWordIs
        <3>5. Use \in Seq(Nat) /\ Len(Use) \in Nat
            BY WordIs
        <3>6. CASE arg0 = Use
            <4>1. a = Len(Use) + 1 /\ \A i \in 1..Len(Use) : text[i] = Use[i]
                BY <3>2, <3>4, <3>6
            <4>2. PICK e : SecondWord(text, a, e, arg1)
                BY <3>1, <3>3, SecondWordIs
            <4>3. \A w \in Core : w \in ChosenBy(text) <=> w = arg1
                BY <1>1, <3>1, <4>1, <4>2, SecondChosen
            <4>4. ChosenBy(text) \subseteq Core
                BY DEF ChosenBy
            <4> QED
                BY <2>1, <3>6, <4>3, <4>4
        <3>7. CASE arg0 # Use
            <4>1. ~(a = Len(Use) + 1 /\ \A i \in 1..Len(Use) : text[i] = Use[i])
                <5>1. SUFFICES ASSUME a = Len(Use) + 1, \A i \in 1..Len(Use) : text[i] = Use[i]
                               PROVE  arg0 = Use
                    BY <3>7
                <5>2. Len(arg0) = Len(Use) /\ \A i \in 1..Len(arg0) : arg0[i] = Use[i]
                    BY <3>4, <3>5, <5>1
                <5> QED
                    BY <3>4, <3>5, <5>2, SeqEqual
            <4>2. ChosenBy(text) = {}
                BY <1>1, <3>2, <4>1, NothingChosen
            <4> QED
                BY <2>1, <3>7, <4>2
        <3> QED
            BY <3>6, <3>7
    <2> QED
        BY <2>4, <2>5
<1> QED
    BY <1>6, <1>7

(***************************************************************************)
(* The refinement of CommandLine.  The invariant types the buffer and what  *)
(* was run; while a line is being typed there is no zero in it.             *)
(***************************************************************************)
Stored ==
    /\ shell_buffer \in [0..(LINE - 1) -> Nat] /\ shell_buffer_pos \in 0..LINE
    /\ ran \in Seq(Seq(Nat))
    /\ pc = "poll" => \A i \in 0..(shell_buffer_pos - 1) : shell_buffer[i] # 0

TheLine == IF pc = "poll" THEN Line ELSE <<>>

LEMMA LineIs ==
    ASSUME Stored
    PROVE  /\ Line \in Seq(Nat) /\ Len(Line) = shell_buffer_pos
           /\ \A i \in 1..shell_buffer_pos : Line[i] = shell_buffer[i - 1]
<1>1. shell_buffer_pos \in 0..LINE /\ shell_buffer_pos \in Nat
    BY PromptLength DEF Stored
<1>2. \A i \in 1..shell_buffer_pos : shell_buffer[i - 1] \in Nat
    <2>1. ASSUME NEW i \in 1..shell_buffer_pos PROVE i - 1 \in 0..(LINE - 1)
        BY <1>1, PromptLength
    <2> QED
        BY <2>1 DEF Stored
<1>3. Line \in [1..shell_buffer_pos -> Nat]
    BY <1>2 DEF Line
<1> QED
    BY <1>1, <1>3 DEF Line

LEMMA PushedStored ==
    ASSUME Stored, NEW c \in Nat
    PROVE  /\ Pushed(c) \in [0..(LINE - 1) -> Nat]
           /\ Room => Pushed(c)[shell_buffer_pos] = c
           /\ \A i \in 0..(shell_buffer_pos - 1) : Pushed(c)[i] = shell_buffer[i]
<1>1. /\ shell_buffer \in [0..(LINE - 1) -> Nat] /\ shell_buffer_pos \in 0..LINE
      /\ BufferIs
    BY DEF Stored, BufferIs
<1>2. Pushed(c) \in [0..(LINE - 1) -> Nat]
    BY <1>1 DEF Pushed
<1>3. ASSUME NEW i \in 0..(shell_buffer_pos - 1) PROVE Pushed(c)[i] = shell_buffer[i]
    <2>1. i \in 0..(LINE - 1) /\ i # shell_buffer_pos
        BY <1>1, PromptLength
    <2> QED
        BY <1>1, <2>1 DEF Pushed
<1> QED
    BY <1>1, <1>2, <1>3, PushedIs

(* The memory that shell_parse gets: the buffer with the line's end, and what is behind. *)
MemoryOf(behind) ==
    [i \in 0..(LINE + Len(behind)) |->
        IF i < LINE THEN Pushed(0)[i]
        ELSE IF i < LINE + Len(behind) THEN behind[i - LINE + 1] ELSE 0]

LEMMA MemoryIs ==
    ASSUME Stored, pc = "poll", NEW behind \in Behind
    PROVE  /\ IsMemory(MemoryOf(behind), LINE + Len(behind))
           /\ LINE <= LINE + Len(behind)
           /\ \A i \in 0..(shell_buffer_pos - 1) :
                 MemoryOf(behind)[i] = shell_buffer[i] /\ MemoryOf(behind)[i] # 0
           /\ Room => MemoryOf(behind)[shell_buffer_pos] = 0
<1>1. behind \in Seq(Nat) /\ Len(behind) \in Nat /\ LINE \in Nat
    BY WordsAssumption, PromptLength
<1>2. PICK n : n = Len(behind)
    OBVIOUS
<1>3. PICK mem : mem = MemoryOf(behind)
    OBVIOUS
<1>4. mem = [i \in 0..(LINE + n) |->
                IF i < LINE THEN Pushed(0)[i]
                ELSE IF i < LINE + n THEN behind[i - LINE + 1] ELSE 0]
    BY <1>2, <1>3 DEF MemoryOf
<1>5. /\ n \in Nat /\ LINE + n \in Nat
      /\ Pushed(0) \in [0..(LINE - 1) -> Nat]
      /\ Room => Pushed(0)[shell_buffer_pos] = 0
      /\ \A i \in 0..(shell_buffer_pos - 1) : Pushed(0)[i] = shell_buffer[i]
      /\ shell_buffer_pos \in 0..LINE
    <2>1. n \in Nat /\ LINE + n \in Nat /\ 0 \in Nat
        BY <1>1, <1>2
    <2>2. PICK zero : zero = 0
        OBVIOUS
    <2>3. /\ Pushed(zero) \in [0..(LINE - 1) -> Nat]
          /\ Room => Pushed(zero)[shell_buffer_pos] = zero
          /\ \A i \in 0..(shell_buffer_pos - 1) : Pushed(zero)[i] = shell_buffer[i]
        BY <2>1, <2>2, PushedStored
    <2> QED
        BY <2>1, <2>2, <2>3 DEF Stored
<1>6. mem \in [0..(LINE + n) -> Nat]
    <2>1. ASSUME NEW i \in 0..(LINE + n)
          PROVE  (IF i < LINE THEN Pushed(0)[i]
                  ELSE IF i < LINE + n THEN behind[i - LINE + 1] ELSE 0) \in Nat
        <3>1. CASE i < LINE
            <4>1. i \in 0..(LINE - 1)
                BY <1>1, <3>1
            <4> QED
                BY <1>5, <3>1, <4>1
        <3>2. CASE ~(i < LINE) /\ i < LINE + n
            <4>1. i - LINE + 1 \in 1..n
                BY <1>1, <1>5, <3>2
            <4>2. behind[i - LINE + 1] \in Nat
                BY <1>1, <1>2, <4>1, ElementOfSeq
            <4> QED
                BY <3>2, <4>2
        <3>3. CASE ~(i < LINE) /\ ~(i < LINE + n)
            BY <3>3
        <3> QED
            BY <3>1, <3>2, <3>3
    <2> QED
        BY <1>4, <2>1
<1>7. mem[LINE + n] = 0
    BY <1>1, <1>4, <1>5
<1>8. ASSUME NEW i \in 0..(shell_buffer_pos - 1)
      PROVE  mem[i] = shell_buffer[i] /\ mem[i] # 0
    <2>1. i \in 0..(LINE + n) /\ i < LINE
        BY <1>1, <1>5
    <2>2. mem[i] = Pushed(0)[i]
        BY <1>4, <2>1
    <2> QED
        BY <1>5, <2>2 DEF Stored
<1>9. ASSUME Room PROVE mem[shell_buffer_pos] = 0
    <2>1. shell_buffer_pos \in 0..(LINE + n) /\ shell_buffer_pos < LINE
        BY <1>1, <1>5, <1>9 DEF Room
    <2> QED
        BY <1>4, <1>5, <1>9, <2>1
<1> QED
    BY <1>1, <1>2, <1>3, <1>5, <1>6, <1>7, <1>8, <1>9 DEF IsMemory

(* A line that does not fill the buffer is what is run. *)
LEMMA RunAsTyped ==
    ASSUME Stored, pc = "poll", NEW behind \in Behind, Room
    PROVE  /\ Ends(MemoryOf(behind), LINE + Len(behind), 0, shell_buffer_pos)
           /\ StringAt(MemoryOf(behind), 0) = Line
<1>1. PICK mem, m : mem = MemoryOf(behind) /\ m = LINE + Len(behind)
    OBVIOUS
<1>2. /\ IsMemory(mem, m) /\ LINE <= m
      /\ \A i \in 0..(shell_buffer_pos - 1) : mem[i] = shell_buffer[i] /\ mem[i] # 0
      /\ mem[shell_buffer_pos] = 0
    BY <1>1, MemoryIs
<1>3. m \in Nat /\ shell_buffer_pos \in 0..m
    <2>1. m \in Nat
        BY <1>2 DEF IsMemory
    <2> QED
        BY <1>2, <2>1, PromptLength DEF Stored
<1>4. Ends(mem, m, 0, shell_buffer_pos)
    BY <1>2, <1>3 DEF Ends
<1>5. PICK p : p = 0
    OBVIOUS
<1>6. /\ StringAt(mem, p) \in Seq(Nat) /\ Len(StringAt(mem, p)) = shell_buffer_pos - p
      /\ \A i \in 1..(shell_buffer_pos - p) : StringAt(mem, p)[i] = mem[p + i - 1]
    BY <1>2, <1>4, <1>5, StringIs
<1>7. /\ StringAt(mem, 0) \in Seq(Nat) /\ Len(StringAt(mem, 0)) = shell_buffer_pos
      /\ \A i \in 1..shell_buffer_pos : StringAt(mem, 0)[i] = Line[i]
    <2>1. shell_buffer_pos - p = shell_buffer_pos
        BY <1>3, <1>5
    <2>2. ASSUME NEW i \in 1..shell_buffer_pos PROVE StringAt(mem, 0)[i] = Line[i]
        <3>1. p + i - 1 = i - 1 /\ i - 1 \in 0..(shell_buffer_pos - 1)
            BY <1>3, <1>5
        <3>2. StringAt(mem, p)[i] = mem[i - 1]
            BY <1>6, <2>1, <3>1
        <3> QED
            BY <1>2, <1>5, <3>1, <3>2, LineIs
    <2> QED
        BY <1>5, <1>6, <2>1, <2>2
<1>8. StringAt(mem, 0) = Line
    BY <1>7, LineIs, SeqEqual
<1> QED
    BY <1>1, <1>4, <1>8

(* A line that fills it is followed by what is behind. *)
LEMMA RunOverFull ==
    ASSUME Stored, pc = "poll", NEW behind \in Behind
    PROVE  /\ StringAt(MemoryOf(behind), 0) \in Seq(Nat)
           /\ ~Room => IsPrefix(Line, StringAt(MemoryOf(behind), 0))
<1>1. PICK mem, m : mem = MemoryOf(behind) /\ m = LINE + Len(behind)
    OBVIOUS
<1>2. /\ IsMemory(mem, m) /\ LINE <= m
      /\ \A i \in 0..(shell_buffer_pos - 1) : mem[i] = shell_buffer[i] /\ mem[i] # 0
    BY <1>1, MemoryIs
<1>3. m \in Nat /\ shell_buffer_pos \in 0..LINE
    BY <1>2 DEF IsMemory, Stored
<1>4. PICK p : p = 0
    OBVIOUS
<1>5. PICK k : Ends(mem, m, p, k)
    <2>1. p \in 0..m
        BY <1>3, <1>4
    <2> QED
        BY <1>2, <2>1, HasEnd
<1>6. PICK string : string = StringAt(mem, 0)
    OBVIOUS
<1>7. /\ string \in Seq(Nat) /\ Len(string) = k - p
      /\ \A i \in 1..(k - p) : string[i] = mem[p + i - 1]
    BY <1>2, <1>4, <1>5, <1>6, StringIs
<1>8. k \in 0..m /\ mem[k] = 0
    BY <1>4, <1>5 DEF Ends
<1>9. ASSUME ~Room PROVE IsPrefix(Line, string)
    <2>1. shell_buffer_pos = LINE /\ k >= LINE /\ LINE \in Nat
        <3>1. shell_buffer_pos = LINE /\ LINE \in Nat
            BY <1>3, <1>9, PromptLength DEF Room
        <3>2. k \notin 0..(LINE - 1)
            BY <1>2, <1>8, <3>1
        <3> QED
            BY <1>3, <1>8, <3>1, <3>2
    <2>2. Line \in Seq(Nat) /\ Len(Line) = LINE /\ \A i \in 1..LINE : Line[i] = shell_buffer[i - 1]
        BY <2>1, LineIs
    <2>3. Len(string) >= LINE
        BY <1>3, <1>4, <1>7, <1>8, <2>1
    <2>4. ASSUME NEW i \in 1..LINE PROVE string[i] = Line[i] /\ string[i] \in Nat
        <3>1. i \in 1..(k - p) /\ p + i - 1 = i - 1 /\ i - 1 \in 0..(shell_buffer_pos - 1)
            BY <1>4, <1>8, <2>1
        <3>2. string[i] = mem[i - 1]
            BY <1>7, <3>1
        <3>3. string[i] = Line[i]
            BY <1>2, <2>2, <3>1, <3>2
        <3>4. Line[i] \in Nat
            BY <2>2, ElementOfSeq
        <3> QED
            BY <3>3, <3>4
    <2>5. PICK head : head = SubSeq(string, 1, LINE)
        OBVIOUS
    <2>6. /\ head \in Seq(Nat) /\ Len(head) = IF 1 <= LINE THEN LINE - 1 + 1 ELSE 0
          /\ \A i \in 1..(LINE - 1 + 1) : head[i] = string[1 + i - 1]
        BY <2>1, <2>4, <2>5, SubSeqProperties
    <2>7. Len(head) = LINE /\ \A i \in 1..LINE : head[i] = string[i]
        BY <2>1, <2>6
    <2>8. head = Line
        BY <2>2, <2>4, <2>6, <2>7, SeqEqual
    <2>9. SubSeq(Line, 1, LINE) = Line
        BY <2>2, SubSeqFull
    <2> QED
        BY <2>2, <2>3, <2>5, <2>8, <2>9 DEF IsPrefix
<1> QED
    BY <1>1, <1>6, <1>7, <1>9

(* The core a step may leave, as CommandLine says. *)
MayChoose(text, before, after) ==
    after \in IF 1 + Cardinality(Separators(text)) > ARGS THEN {before}
              ELSE IF ChosenBy(text) # {} THEN ChosenBy(text)
              ELSE IF text \in {<<>>, Use} THEN Core \cup {before}
              ELSE {before}

LEMMA EmptyChooses == ChosenBy(<<>>) = {} /\ ~(1 + Cardinality(Separators(<<>>)) > ARGS)
<1>1. <<>> \in Seq(Nat) /\ Len(<<>>) = 0
    OBVIOUS
<1>2. Separators(<<>>) = {}
    BY <1>1 DEF Separators
<1>3. ChosenBy(<<>>) = {}
    BY <1>1, <1>2, NothingChosen DEF IsLeast
<1>4. Cardinality(Separators(<<>>)) = 0
    BY <1>2, FS_EmptySet
<1>5. ARGS \in Nat \ {0}
    BY WordsAssumption
<1> QED
    BY <1>3, <1>4, <1>5

LEMMA ParseKeeps ==
    ASSUME NEW mem, NEW m, IsMemory(mem, m), NEW result \in shell_parse(mem)
    PROVE  /\ result.core \in Core \cup {current_core}
           /\ result.mem \in [0..m -> Nat]
<1>1. PICK split : split = strsplt(mem, 0, SPACE)
    OBVIOUS
<1>2. /\ result.mem = split.mem
      /\ Len(split.out) > ARGS => result.core = current_core
      /\ ~(Len(split.out) > ARGS) =>
            \E arg0 \in Args(split, 0), arg1 \in Args(split, 1) :
               result.core = IF arg0 = Use /\ arg1 \in Core THEN arg1 ELSE current_core
    BY <1>1, ParseIs
<1>3. result.core \in Core \cup {current_core}
    BY <1>2
<1>4. split.mem \in [0..m -> Nat]
    <2>1. m \in Nat /\ mem \in [0..m -> Nat]
        BY DEF IsMemory
    <2>2. CASE mem[0] = 0
        <3>1. split = [mem |-> mem, out |-> <<>>]
            BY <1>1, <2>2 DEF strsplt
        <3> QED
            BY <2>1, <3>1
    <2>3. CASE mem[0] # 0
        <3>1. PICK k : Ends(mem, m, 0, k)
            BY <2>1, HasEnd
        <3>2. k # 0
            BY <2>3, <3>1 DEF Ends
        <3>3. SplitUpTo(split, mem, m, k - 1)
            BY <1>1, <3>1, <3>2, SplitIs
        <3> QED
            BY <2>1, <3>3 DEF SplitUpTo, CutUpTo
    <2> QED
        BY <2>2, <2>3
<1> QED
    BY <1>2, <1>3, <1>4

LEMMA LineChooses ==
    ASSUME Stored, pc = "poll", NEW behind \in Behind, Room,
           NEW result \in shell_parse(MemoryOf(behind))
    PROVE  MayChoose(Line, current_core, result.core)
<1>1. PICK mem, m : mem = MemoryOf(behind) /\ m = LINE + Len(behind)
    OBVIOUS
<1>2. IsMemory(mem, m) /\ Ends(mem, m, 0, shell_buffer_pos) /\ StringAt(mem, 0) = Line
    BY <1>1, MemoryIs, RunAsTyped
<1>3. result.core \in Core \cup {current_core}
    BY <1>1, <1>2, ParseKeeps
<1>4. Line \in Seq(Nat) /\ Len(Line) = shell_buffer_pos
    BY LineIs
<1>5. CASE shell_buffer_pos = 0
    <2>1. Line = <<>>
        BY <1>4, <1>5
    <2> QED
        BY <1>3, <2>1, EmptyChooses DEF MayChoose
<1>6. CASE shell_buffer_pos # 0
    <2>1. PICK fm : fm = CutUpTo(mem, m, shell_buffer_pos - 1)
        OBVIOUS
    <2>2. Parsed(mem, m, shell_buffer_pos, Line, fm)
        BY <1>2, <1>6, <2>1 DEF Parsed
    <2>3. /\ 1 + Cardinality(Separators(Line)) > ARGS => result.core = current_core
          /\ ~(1 + Cardinality(Separators(Line)) > ARGS) /\ Line # Use =>
                 result.core \in IF ChosenBy(Line) # {} THEN ChosenBy(Line) ELSE {current_core}
        BY <1>1, <2>2, ParseChooses
    <2>4. Line = Use => ChosenBy(Line) = {}
        <3>1. SUFFICES ASSUME Line = Use PROVE ChosenBy(Line) = {}
            OBVIOUS
        <3>2. ASSUME NEW w \in Core, CallsFor(Line, w) PROVE FALSE
            BY <3>1, <3>2, WordIs DEF CallsFor
        <3>3. ChosenBy(Line) \subseteq Core
            BY DEF ChosenBy
        <3> QED
            BY <1>4, <3>2, <3>3, CallsForIs
    <2> QED
        BY <1>3, <2>3, <2>4, Zenon DEF MayChoose
<1> QED
    BY <1>5, <1>6

(* What HandleNewline does to line, what was run, and core. *)
LEMMA NewlineRuns ==
    ASSUME Stored, HandleNewline
    PROVE  /\ pc = "poll" /\ TheLine' = <<>> /\ Stored'
           /\ Room => ran' = Append(ran, Line) /\ MayChoose(Line, current_core, current_core')
           /\ ~Room => /\ \E string \in Seq(Nat) :
                              ran' = Append(ran, string) /\ IsPrefix(Line, string)
                       /\ current_core' \in Core \cup {current_core}
<1>1. PICK behind \in Behind :
          /\ ran' = Append(ran, StringAt(MemoryOf(behind), 0))
          /\ \E result \in shell_parse(MemoryOf(behind)) :
                /\ shell_buffer' = [i \in 0..(LINE - 1) |-> result.mem[i]]
                /\ current_core' = result.core
                /\ pc' = result.pc
    BY Zenon DEF HandleNewline, MemoryOf
<1>2. PICK result \in shell_parse(MemoryOf(behind)) :
          /\ shell_buffer' = [i \in 0..(LINE - 1) |-> result.mem[i]]
          /\ current_core' = result.core
    BY <1>1
<1>3. pc = "poll" /\ shell_buffer_pos' = IF pc' = "poll" THEN 0 ELSE shell_buffer_pos
    BY DEF HandleNewline, Take
<1>4. StringAt(MemoryOf(behind), 0) \in Seq(Nat)
    BY <1>3, RunOverFull
<1>5. Stored'
    <2>1. PICK m : m = LINE + Len(behind)
        OBVIOUS
    <2>2. IsMemory(MemoryOf(behind), m) /\ LINE <= m
        BY <1>3, <2>1, MemoryIs
    <2>3. result.mem \in [0..m -> Nat] /\ m \in Nat
        BY <2>2, ParseKeeps DEF IsMemory
    <2>4. shell_buffer' \in [0..(LINE - 1) -> Nat]
        BY <1>2, <2>2, <2>3, PromptLength
    <2>5. ran' \in Seq(Seq(Nat))
        BY <1>1, <1>4, AppendProperties DEF Stored
    <2> QED
        BY <1>3, <2>4, <2>5, PromptLength DEF Stored
<1>6. TheLine' = <<>>
    <2>1. CASE pc' = "poll"
        <3>1. shell_buffer_pos' = 0
            BY <1>3, <2>1
        <3>2. 1..shell_buffer_pos' = {}
            BY <3>1
        <3>3. Line' = [i \in {} |-> shell_buffer'[i - 1]]
            BY <3>2 DEF Line
        <3>4. Line' = <<>>
            BY <3>3
        <3> QED
            BY <2>1, <3>4 DEF TheLine
    <2>2. CASE pc' # "poll"
        BY <2>2 DEF TheLine
    <2> QED
        BY <2>1, <2>2
<1>7. ASSUME Room PROVE ran' = Append(ran, Line) /\ MayChoose(Line, current_core, current_core')
    BY <1>1, <1>2, <1>3, <1>7, RunAsTyped, LineChooses
<1>8. ASSUME ~Room
      PROVE  /\ \E string \in Seq(Nat) : ran' = Append(ran, string) /\ IsPrefix(Line, string)
             /\ current_core' \in Core \cup {current_core}
    <2>1. IsPrefix(Line, StringAt(MemoryOf(behind), 0))
        BY <1>3, <1>8, RunOverFull
    <2>2. IsMemory(MemoryOf(behind), LINE + Len(behind))
        BY <1>3, MemoryIs
    <2>3. result.core \in Core \cup {current_core}
        BY <2>2, ParseKeeps
    <2> QED
        BY <1>1, <1>2, <1>4, <2>1, <2>3
<1> QED
    BY <1>3, <1>5, <1>6, <1>7, <1>8

(* The line that a buffer holds up to a place. *)
LineOf(buffer, n) == [i \in 1..n |-> buffer[i - 1]]

Buffers == [0..(LINE - 1) -> Nat]

LEMMA LineOfIs ==
    ASSUME NEW b \in Buffers, NEW n \in 0..LINE
    PROVE  /\ LineOf(b, n) \in Seq(Nat) /\ Len(LineOf(b, n)) = n
           /\ \A i \in 1..n : LineOf(b, n)[i] = b[i - 1]
<1>1. n \in Nat /\ n <= LINE /\ LINE \in Nat
    BY PromptLength
<1>2. ASSUME NEW i \in 1..n PROVE b[i - 1] \in Nat
    <2>1. i - 1 \in 0..(LINE - 1)
        BY <1>1
    <2> QED
        BY <2>1 DEF Buffers
<1>3. LineOf(b, n) \in [1..n -> Nat]
    BY <1>2 DEF LineOf
<1> QED
    BY <1>1, <1>3 DEF LineOf

LEMMA LineGrows ==
    ASSUME NEW b \in Buffers, NEW d \in Buffers, NEW n \in 0..LINE, n < LINE,
           \A i \in 0..(n - 1) : d[i] = b[i]
    PROVE  LineOf(d, n + 1) = Append(LineOf(b, n), d[n])
<1>1. PICK before : before = LineOf(b, n)
    OBVIOUS
<1>2. PICK after : after = LineOf(d, n + 1)
    OBVIOUS
<1>3. n \in Nat /\ n + 1 \in 0..LINE /\ n \in 0..(LINE - 1)
    BY PromptLength
<1>4. d[n] \in Nat
    BY <1>3 DEF Buffers
<1>5. before \in Seq(Nat) /\ Len(before) = n /\ \A i \in 1..n : before[i] = b[i - 1]
    BY <1>1, LineOfIs
<1>6. PICK m : m = n + 1
    OBVIOUS
<1>7. /\ after \in Seq(Nat) /\ Len(after) = m
      /\ \A i \in 1..m : after[i] = d[i - 1]
    BY <1>2, <1>3, <1>6, LineOfIs
<1>8. PICK grown : grown = Append(before, d[n])
    OBVIOUS
<1>9. /\ grown \in Seq(Nat) /\ Len(grown) = m
      /\ \A i \in 1..n : grown[i] = before[i]
      /\ grown[m] = d[n]
    BY <1>3, <1>4, <1>5, <1>6, <1>8, AppendProperties
<1>10. ASSUME NEW i \in 1..m PROVE after[i] = grown[i]
    <2>1. CASE i = m
        BY <1>3, <1>6, <1>7, <1>9, <2>1
    <2>2. CASE i # m
        <3>1. i \in 1..n /\ i - 1 \in 0..(n - 1)
            BY <1>3, <1>6, <2>2
        <3>2. grown[i] = b[i - 1]
            BY <1>5, <1>9, <3>1
        <3> QED
            BY <1>7, <3>1, <3>2
    <2> QED
        BY <2>1, <2>2
<1>11. after = grown
    BY <1>7, <1>9, <1>10, SeqEqual
<1> QED
    BY <1>1, <1>2, <1>8, <1>11

LEMMA LineShrinks ==
    ASSUME NEW b \in Buffers, NEW n \in 0..LINE, n > 0
    PROVE  /\ LineOf(b, n) # <<>>
           /\ LineOf(b, n - 1) = Front(LineOf(b, n))
<1>1. PICK m : m = n - 1
    OBVIOUS
<1>2. n \in Nat /\ m \in Nat /\ m \in 0..LINE /\ n = m + 1 /\ m < LINE
    BY <1>1, PromptLength
<1>3. PICK shorter, whole : shorter = LineOf(b, m) /\ whole = LineOf(b, n)
    OBVIOUS
<1>4. shorter \in Seq(Nat) /\ whole \in Seq(Nat) /\ Len(whole) = n
    BY <1>2, <1>3, LineOfIs
<1>5. whole = Append(shorter, b[m])
    BY <1>2, <1>3, LineGrows
<1>6. b[m] \in Nat
    BY <1>2, PromptLength DEF Buffers
<1>7. Front(whole) = shorter
    <2>1. Len(shorter) = m /\ \A i \in 1..m : shorter[i] = b[i - 1]
        BY <1>2, <1>3, LineOfIs
    <2>2. \A i \in 1..n : whole[i] = b[i - 1]
        BY <1>2, <1>3, LineOfIs
    <2>3. PICK front : front = SubSeq(whole, 1, m)
        OBVIOUS
    <2>4. \A i \in 1..m : whole[i] \in Nat
        BY <1>2, <1>4, ElementOfSeq
    <2>5. /\ front \in Seq(Nat) /\ Len(front) = IF 1 <= m THEN m - 1 + 1 ELSE 0
          /\ \A i \in 1..(m - 1 + 1) : front[i] = whole[1 + i - 1]
        BY <1>2, <2>3, <2>4, SubSeqProperties
    <2>6. Len(front) = m /\ \A i \in 1..m : front[i] = whole[i]
        BY <1>2, <2>5
    <2>7. \A i \in 1..m : front[i] = shorter[i]
        BY <1>2, <2>1, <2>2, <2>6
    <2>8. front = shorter
        BY <1>4, <2>1, <2>5, <2>6, <2>7, SeqEqual
    <2> QED
        BY <1>1, <1>2, <1>4, <2>3, <2>8 DEF Front
<1>8. whole # <<>>
    BY <1>2, <1>4
<1> QED
    BY <1>1, <1>3, <1>7, <1>8

(* Each action keeps the invariant and is a step of the abstract line, or none. *)
LineUntouched == TheLine' = TheLine /\ ran' = ran /\ current_core' = current_core

LEMMA UntouchedLine ==
    ASSUME Stored, UNCHANGED <<bufferVars, current_core, pc, ran>>
    PROVE  Stored' /\ LineUntouched
<1>1. Stored'
    BY DEF Stored, bufferVars
<1>2. TheLine' = TheLine
    BY DEF TheLine, Line, bufferVars
<1> QED
    BY <1>1, <1>2 DEF LineUntouched

LEMMA PolledLine ==
    ASSUME Stored, pc = "poll"
    PROVE  /\ TheLine = LineOf(shell_buffer, shell_buffer_pos)
           /\ Len(TheLine) = shell_buffer_pos /\ (Room <=> Len(TheLine) < LINE)
           /\ shell_buffer \in Buffers /\ shell_buffer_pos \in 0..LINE
           /\ shell_buffer_pos \in Nat
<1>1. TheLine = Line
    BY DEF TheLine
<1>2. Line = LineOf(shell_buffer, shell_buffer_pos)
    BY DEF Line, LineOf
<1>3. shell_buffer \in Buffers /\ shell_buffer_pos \in 0..LINE /\ shell_buffer_pos \in Nat
    BY PromptLength DEF Stored, Buffers
<1>4. Len(Line) = shell_buffer_pos
    BY LineIs
<1> QED
    BY <1>1, <1>2, <1>3, <1>4 DEF Room

LEMMA EmptiedLine ==
    ASSUME shell_buffer_pos' = 0
    PROVE  TheLine' = <<>>
<1>1. 1..shell_buffer_pos' = {}
    BY SMT
<1>2. Line' = [i \in {} |-> shell_buffer'[i - 1]]
    BY <1>1 DEF Line
<1>3. Line' = <<>>
    BY <1>2
<1> QED
    BY <1>3 DEF TheLine

LEMMA BackspaceErases ==
    ASSUME Stored, HandleBackspace
    PROVE  /\ Stored'
           /\ \/ LineUntouched
              \/ /\ TheLine # <<>> /\ TheLine' = Front(TheLine)
                 /\ ran' = ran /\ current_core' = current_core
<1>1. /\ pc = "poll" /\ UNCHANGED <<shell_buffer, current_core, pc, ran>>
      /\ IF shell_buffer_pos > 0 THEN shell_buffer_pos' = shell_buffer_pos - 1
         ELSE shell_buffer_pos' = shell_buffer_pos
    BY DEF HandleBackspace, Take
<1>2. /\ TheLine = LineOf(shell_buffer, shell_buffer_pos)
      /\ shell_buffer \in Buffers /\ shell_buffer_pos \in 0..LINE /\ shell_buffer_pos \in Nat
    BY <1>1, PolledLine
<1>3. CASE ~(shell_buffer_pos > 0)
    <2>1. UNCHANGED <<bufferVars, current_core, pc, ran>>
        BY <1>1, <1>3 DEF bufferVars
    <2> QED
        BY <2>1, UntouchedLine
<1>4. CASE shell_buffer_pos > 0
    <2>1. PICK n : n = shell_buffer_pos - 1
        OBVIOUS
    <2>2. n \in 0..LINE /\ shell_buffer_pos' = n
        BY <1>1, <1>2, <1>4, <2>1, PromptLength
    <2>3. Stored'
        <3>1. ASSUME NEW i \in 0..(n - 1) PROVE shell_buffer[i] # 0
            <4>1. i \in 0..(shell_buffer_pos - 1)
                BY <1>2, <2>1, PromptLength
            <4> QED
                BY <1>1, <4>1 DEF Stored
        <3> QED
            BY <1>1, <2>2, <3>1 DEF Stored
    <2>4. TheLine' = LineOf(shell_buffer, n)
        BY <1>1, <2>2 DEF TheLine, Line, LineOf
    <2>5. TheLine # <<>> /\ LineOf(shell_buffer, n) = Front(TheLine)
        BY <1>2, <1>4, <2>1, LineShrinks
    <2> QED
        BY <1>1, <2>3, <2>4, <2>5
<1> QED
    BY <1>3, <1>4

LEMMA HelpClears ==
    ASSUME Stored, HandleHelp
    PROVE  Stored' /\ TheLine' = <<>> /\ ran' = ran /\ current_core' = current_core
<1>1. /\ shell_buffer' = Pushed(HELP) /\ shell_buffer_pos' = 0
      /\ UNCHANGED <<current_core, pc, ran>>
    BY DEF HandleHelp
<1>2. PICK c : c = HELP
    OBVIOUS
<1>3. c \in Nat
    BY <1>2 DEF HELP
<1>4. Pushed(c) \in [0..(LINE - 1) -> Nat]
    BY <1>3, PushedStored
<1>5. 0 \in 0..LINE /\ 0..(0 - 1) = {}
    BY PromptLength
<1>6. Stored'
    BY <1>1, <1>2, <1>4, <1>5 DEF Stored
<1> QED
    BY <1>1, <1>6, EmptiedLine

LEMMA WaitEndClears ==
    ASSUME Stored, WaitEnd
    PROVE  Stored' /\ LineUntouched
<1>1. /\ pc = "wait" /\ shell_buffer_pos' = 0
      /\ UNCHANGED <<shell_buffer, current_core, ran>>
    BY DEF WaitEnd
<1>2. 0 \in 0..LINE /\ 0..(0 - 1) = {}
    BY PromptLength
<1>3. Stored'
    BY <1>1, <1>2 DEF Stored
<1>4. TheLine = <<>> /\ TheLine' = <<>>
    BY <1>1, EmptiedLine DEF TheLine
<1> QED
    BY <1>1, <1>3, <1>4 DEF LineUntouched

(* A key that is stored, or after which kprintf does not return. *)
LEMMA CharTyped ==
    ASSUME Stored, HandleChar
    PROVE  /\ Stored'
           /\ ran' = ran /\ current_core' = current_core
           /\ \/ TheLine' = <<>>
              \/ \E c \in Key \ {HTAB, BACKSPACE, NEWLINE, HELP} :
                    TheLine' = IF Len(TheLine) < LINE THEN Append(TheLine, c) ELSE TheLine
<1>1. PICK c \in Key \ {HTAB, BACKSPACE, NEWLINE, HELP} :
          /\ pc = "poll" /\ shell_buffer' = Pushed(c)
          /\ shell_buffer_pos' = IF Room THEN shell_buffer_pos + 1 ELSE shell_buffer_pos
          /\ pc' = pc \/ pc' = "hang"
          /\ UNCHANGED <<current_core, ran>>
    BY Zenon DEF HandleChar, Take
<1>2. /\ TheLine = LineOf(shell_buffer, shell_buffer_pos)
      /\ Len(TheLine) = shell_buffer_pos /\ (Room <=> Len(TheLine) < LINE)
      /\ shell_buffer \in Buffers /\ shell_buffer_pos \in 0..LINE /\ shell_buffer_pos \in Nat
    BY <1>1, PolledLine
<1>3. c \in Nat /\ c # 0
    BY EchoAssumption, WordsAssumption
<1>4. /\ Pushed(c) \in Buffers
      /\ Room => Pushed(c)[shell_buffer_pos] = c
      /\ \A i \in 0..(shell_buffer_pos - 1) : Pushed(c)[i] = shell_buffer[i]
    BY <1>3, PushedStored DEF Buffers
<1>5. shell_buffer_pos' \in 0..LINE
    BY <1>1, <1>2, PromptLength DEF Room
<1>6. ASSUME NEW i \in 0..(shell_buffer_pos' - 1) PROVE Pushed(c)[i] # 0
    <2>1. CASE i \in 0..(shell_buffer_pos - 1)
        BY <1>1, <1>4, <2>1 DEF Stored
    <2>2. CASE i \notin 0..(shell_buffer_pos - 1)
        <3>1. Room /\ i = shell_buffer_pos
            BY <1>1, <1>2, <2>2, PromptLength
        <3> QED
            BY <1>3, <1>4, <3>1
    <2> QED
        BY <2>1, <2>2
<1>7. Stored'
    BY <1>1, <1>4, <1>5, <1>6 DEF Stored, Buffers
<1>8. CASE pc' = "hang"
    BY <1>1, <1>7, <1>8 DEF TheLine
<1>9. CASE pc' = pc
    <2>1. TheLine' = LineOf(Pushed(c), shell_buffer_pos')
        BY <1>1, <1>9 DEF TheLine, Line, LineOf
    <2>2. CASE Room
        <3>1. LineOf(Pushed(c), shell_buffer_pos + 1)
                = Append(LineOf(shell_buffer, shell_buffer_pos), Pushed(c)[shell_buffer_pos])
            BY <1>2, <1>4, <2>2, LineGrows DEF Room
        <3>2. TheLine' = Append(TheLine, c)
            BY <1>1, <1>2, <1>4, <2>1, <2>2, <3>1
        <3> QED
            BY <1>1, <1>2, <1>7, <2>2, <3>2
    <2>3. CASE ~Room
        <3>1. ASSUME NEW i \in 1..shell_buffer_pos PROVE Pushed(c)[i - 1] = shell_buffer[i - 1]
            <4>1. i - 1 \in 0..(shell_buffer_pos - 1)
                BY <1>2
            <4> QED
                BY <1>4, <4>1
        <3>2. LineOf(Pushed(c), shell_buffer_pos) = LineOf(shell_buffer, shell_buffer_pos)
            BY <3>1 DEF LineOf
        <3>3. TheLine' = TheLine
            BY <1>1, <1>2, <2>1, <2>3, <3>2
        <3> QED
            BY <1>1, <1>2, <1>7, <2>3, <3>3
    <2> QED
        BY <2>2, <2>3
<1> QED
    BY <1>1, <1>8, <1>9

(* The abstract actions, in the words used here. *)
LEMMA AbstractRun ==
    /\ CL!Chosen = ChosenBy(TheLine)
    /\ CL!Crowded <=> 1 + Cardinality(Separators(TheLine)) > ARGS
    /\ CL!Vague <=> TheLine \in {<<>>, Use}
<1>1. CL!Chosen = ChosenBy(TheLine)
    BY DEF CL!Chosen, ChosenBy, Call, TheLine, CL!IsPrefix, IsPrefix, SPACE
<1>2. CL!Crowded <=> 1 + Cardinality(Separators(TheLine)) > ARGS
    <2>1. ASSUME NEW S PROVE CL!Cardinality(S) = Cardinality(S)
        BY DEF CL!Cardinality, Cardinality
    <2> QED
        BY <2>1 DEF CL!Crowded, Separators, TheLine
<1>3. CL!Vague <=> TheLine \in {<<>>, Use}
    BY DEF CL!Vague, TheLine
<1> QED
    BY <1>1, <1>2, <1>3

LEMMA NewlineRefines ==
    ASSUME Stored, HandleNewline
    PROVE  Stored' /\ (CL!Run \/ CL!RunFull)
<1>1. /\ pc = "poll" /\ TheLine' = <<>> /\ Stored'
      /\ Room => ran' = Append(ran, Line) /\ MayChoose(Line, current_core, current_core')
      /\ ~Room => /\ \E string \in Seq(Nat) :
                         ran' = Append(ran, string) /\ IsPrefix(Line, string)
                  /\ current_core' \in Core \cup {current_core}
    BY NewlineRuns
<1>2. TheLine = Line
    BY <1>1 DEF TheLine
<1>3. Len(TheLine) = shell_buffer_pos /\ (Room <=> Len(TheLine) < LINE)
      /\ shell_buffer_pos \in 0..LINE /\ LINE \in Nat
    BY <1>1, PolledLine, PromptLength
<1>4. CASE Room
    <2>1. Len(TheLine) < LINE /\ TheLine' = <<>> /\ ran' = Append(ran, TheLine)
        BY <1>1, <1>2, <1>3, <1>4
    <2>2. MayChoose(TheLine, current_core, current_core')
        BY <1>1, <1>2, <1>4
    <2>3. current_core' \in IF CL!Crowded THEN {current_core}
                            ELSE IF CL!Chosen # {} THEN CL!Chosen
                            ELSE IF CL!Vague THEN Core \cup {current_core} ELSE {current_core}
        BY <2>2, AbstractRun, Zenon DEF MayChoose
    <2>4. CL!Run
        BY <2>1, <2>3 DEF CL!Run, TheLine
    <2> QED
        BY <1>1, <2>4
<1>5. CASE ~Room
    <2>1. Len(TheLine) = LINE
        BY <1>3, <1>5
    <2>2. PICK string \in Seq(Nat) : ran' = Append(ran, string) /\ IsPrefix(TheLine, string)
        BY <1>1, <1>2, <1>5
    <2>3. ran \in Seq(Seq(Nat))
        BY DEF Stored
    <2>4. /\ Len(ran') = Len(ran) + 1 /\ ran'[Len(ran')] = string
          /\ SubSeq(ran', 1, Len(ran') - 1) = ran
        <3>1. /\ ran' \in Seq(Seq(Nat)) /\ Len(ran') = Len(ran) + 1
              /\ ran'[Len(ran) + 1] = string
            BY <2>2, <2>3, AppendProperties
        <3>2. SubSeq(ran', 1, Len(ran)) = ran
            BY <2>2, <2>3
        <3> QED
            BY <2>3, <3>1, <3>2
    <2>5. CL!RunFull
        <3>1. CL!Front(ran') = ran /\ CL!Last(ran') = string
            BY <2>4 DEF CL!Front, CL!Last
        <3>2. CL!IsPrefix(TheLine, CL!Last(ran'))
            BY <2>2, <3>1 DEF CL!IsPrefix, IsPrefix
        <3> QED
            BY <1>1, <1>5, <2>1, <2>4, <3>1, <3>2 DEF CL!RunFull, TheLine
    <2> QED
        BY <1>1, <2>5
<1> QED
    BY <1>4, <1>5

LEMMA LineStep == Stored /\ [Next]_vars => Stored' /\ [CL!CLNext]_(CL!lineVars)
<1> SUFFICES ASSUME Stored, [Next]_vars PROVE Stored' /\ [CL!CLNext]_(CL!lineVars)
    OBVIOUS
<1>1. LineUntouched => UNCHANGED CL!lineVars
    BY DEF LineUntouched, TheLine, CL!lineVars
<1>2. TheLine' = <<>> /\ ran' = ran /\ current_core' = current_core => CL!Clear
    BY DEF CL!Clear, TheLine
<1>3. CASE HandleTab
    <2>1. UNCHANGED <<bufferVars, current_core, pc, ran>>
        BY <1>3 DEF HandleTab
    <2> QED
        BY <1>1, <2>1, UntouchedLine
<1>4. CASE HandleBackspace
    <2>1. CASE LineUntouched
        BY <1>1, <1>4, <2>1, BackspaceErases
    <2>2. CASE /\ TheLine # <<>> /\ TheLine' = Front(TheLine)
               /\ ran' = ran /\ current_core' = current_core
        <3>1. CL!Erase
            BY <2>2 DEF CL!Erase, TheLine, CL!Front, Front
        <3> QED
            BY <1>4, <3>1, BackspaceErases DEF CL!CLNext
    <2> QED
        BY <1>4, <2>1, <2>2, BackspaceErases
<1>5. CASE HandleNewline
    BY <1>5, NewlineRefines DEF CL!CLNext
<1>6. CASE HandleHelp
    BY <1>2, <1>6, HelpClears DEF CL!CLNext
<1>7. CASE HandleChar
    <2>1. Stored' /\ ran' = ran /\ current_core' = current_core
        BY <1>7, CharTyped
    <2>2. CASE TheLine' = <<>>
        BY <1>2, <2>1, <2>2 DEF CL!CLNext
    <2>3. CASE TheLine' # <<>>
        <3>1. PICK c \in Key \ {HTAB, BACKSPACE, NEWLINE, HELP} :
                  TheLine' = IF Len(TheLine) < LINE THEN Append(TheLine, c) ELSE TheLine
            BY <1>7, <2>3, CharTyped
        <3>2. CL!Type(c)
            BY <2>1, <3>1 DEF CL!Type, TheLine
        <3> QED
            BY <2>1, <3>1, <3>2 DEF CL!CLNext
    <2> QED
        BY <2>2, <2>3
<1>8. CASE WaitEnd
    BY <1>1, <1>8, WaitEndClears
<1>9. CASE Tick \/ Press \/ UNCHANGED vars
    <2>1. UNCHANGED <<bufferVars, current_core, pc, ran>>
        BY <1>9 DEF Tick, Press, vars
    <2> QED
        BY <1>1, <2>1, UntouchedLine
<1> QED
    BY <1>3, <1>4, <1>5, <1>6, <1>7, <1>8, <1>9 DEF Next, Poll

LEMMA LineAtStart == Init => Stored /\ CL!CLInit
<1> SUFFICES ASSUME Init PROVE Stored /\ CL!CLInit
    OBVIOUS
<1>1. /\ shell_buffer = [i \in 0..(LINE - 1) |-> 0] /\ shell_buffer_pos = 0
      /\ ran = <<>> /\ current_core = <<>> /\ pc = "poll" /\ LINE \in Nat
    BY PromptLength DEF Init
<1>2. shell_buffer \in [0..(LINE - 1) -> Nat] /\ 0 \in 0..LINE /\ 0..(0 - 1) = {}
    BY <1>1
<1>3. Stored
    BY <1>1, <1>2 DEF Stored
<1>4. Line = <<>>
    <2>1. Line \in Seq(Nat) /\ Len(Line) = 0
        BY <1>1, <1>3, LineIs
    <2> QED
        BY <2>1
<1> QED
    BY <1>1, <1>3, <1>4 DEF CL!CLInit

(* The buffer and the parser are a line edited at its end that runs as it was typed: *)
(* for every sequence of keys, size of the buffer and number of words, the line that *)
(* shell_parse gets is the one typed, and the core it leaves is the one the line     *)
(* names (ImplementsCommandLine).                                                    *)
THEOREM RunsAsTyped == Spec => ImplementsCommandLine
<1>1. Init => Stored /\ CL!CLInit
    BY LineAtStart
<1>2. Stored /\ [Next]_vars => Stored' /\ [CL!CLNext]_(CL!lineVars)
    BY LineStep
<1> QED
    BY <1>1, <1>2, PTL DEF Spec, ImplementsCommandLine, CL!CLSpec
=============================================================================
