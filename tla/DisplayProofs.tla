---------------------------- MODULE DisplayProofs ----------------------------
(* Theorems about Display, for any size of screen, any text printed, any log, *)
(* wherever it falls: where the cursor and the stores are, and that the       *)
(* screen shows the end of the page.                                          *)
EXTENDS Display, TLAPS, WellFoundedInduction

(***************************************************************************)
(* putch, uninterrupted: wherever the cursor is found, past the edge or     *)
(* below the last row too, it is on the screen after one character.  Of a   *)
(* screen only the cursor matters here.                                     *)
(***************************************************************************)
Shape(s) == s \in [cell : {s.cell}, x : {s.x}, y : {s.y}]

Legal(s) == Shape(s) /\ s.x \in Nat /\ s.y \in 0..HEIGHT

Good(s) == Shape(s) /\ OnScreen(s)

LEMMA MovedInX ==
    ASSUME NEW s, Shape(s), NEW v
    PROVE  LET t == [s EXCEPT !.x = v] IN Shape(t) /\ t.x = v /\ t.y = s.y
BY DEF Shape

LEMMA MovedInY ==
    ASSUME NEW s, Shape(s), NEW v
    PROVE  LET t == [s EXCEPT !.y = v] IN Shape(t) /\ t.x = s.x /\ t.y = v
BY DEF Shape

LEMMA StoredOnly ==
    ASSUME NEW s, Shape(s), NEW v
    PROVE  LET t == [s EXCEPT !.cell = v] IN Shape(t) /\ t.x = s.x /\ t.y = s.y
BY DEF Shape

LEMMA MovedToNextLine ==
    ASSUME NEW s, Shape(s)
    PROVE  LET t == [s EXCEPT !.x = 0, !.y = @ + 1] IN Shape(t) /\ t.x = 0 /\ t.y = s.y + 1
BY DEF Shape

LEMMA AdvancedBy1 ==
    ASSUME NEW s, Shape(s), NEW char
    PROVE  LET t == Drawn(s, char) IN Shape(t) /\ t.x = s.x + 1 /\ t.y = s.y
BY DEF Shape, Drawn

LEMMA GoodIsLegal == ASSUME NEW s, Good(s) PROVE Legal(s)
BY ScreenAssumption DEF Good, Legal, OnScreen

LEMMA SettledIsGood ==
    ASSUME NEW s, Shape(s), s.x \in Nat, s.y \in 0..(HEIGHT + 1), s.x >= WIDTH => s.y <= HEIGHT
    PROVE  Good(Settled(s))
<1> DEFINE t == IF LineFull(s) THEN [s EXCEPT !.x = 0, !.y = @ + 1] ELSE s
<1>1. Shape(t) /\ t.x \in 0..(WIDTH - 1) /\ t.y \in Nat
    <2>1. CASE LineFull(s)
        <3> DEFINE u == [s EXCEPT !.x = 0, !.y = @ + 1]
        <3>1. Shape(u) /\ u.x = 0 /\ u.y = s.y + 1
            BY MovedToNextLine
        <3>2. t = u
            BY <2>1
        <3> HIDE DEF t, u
        <3> QED
            BY <3>1, <3>2, ScreenAssumption
    <2>2. CASE ~LineFull(s)
        <3>1. t = s
            BY <2>2
        <3> HIDE DEF t
        <3> QED
            BY <2>2, <3>1, ScreenAssumption DEF LineFull
    <2> QED
        BY <2>1, <2>2
<1> HIDE DEF t
<1>2. CASE PageFull(t)
    BY <1>1, <1>2, ScreenAssumption DEF t, Settled, scroll, Good, Shape, OnScreen
<1>3. CASE ~PageFull(t)
    BY <1>1, <1>3, ScreenAssumption DEF t, Settled, scroll, PageFull, Good, OnScreen
<1> QED
    BY <1>2, <1>3

LEMMA TabStopAhead ==
    ASSUME NEW x \in Nat
    PROVE  NextTabStop(x) \in Nat
<1>1. x \div TAB \in Nat
    BY ScreenAssumption
<1> QED
    BY <1>1, ScreenAssumption DEF NextTabStop

LEMMA PutchReturns ==
    ASSUME NEW s, Legal(s), NEW char \in Nat \ {BACKSPACE}
    PROVE  Good(putch(s, char))
<1> USE ScreenAssumption DEF Legal
<1>1. CASE char = HTAB
    <2> DEFINE t == [s EXCEPT !.x = NextTabStop(@)]
    <2>1. Shape(t) /\ t.x = NextTabStop(s.x) /\ t.y = s.y
        BY MovedInX
    <2>2. Placed(s, char) = t
        <3>1. char # BACKSPACE /\ char # RETURN /\ char # NEWLINE /\ ~(char >= BLANK)
            BY <1>1 DEF BACKSPACE, HTAB, RETURN, NEWLINE, BLANK
        <3> QED
            BY <1>1, <3>1, Zenon DEF Placed
    <2> HIDE DEF t
    <2> QED
        BY <2>1, <2>2, TabStopAhead, SettledIsGood DEF putch
<1>2. CASE char = RETURN
    <2> DEFINE t == [s EXCEPT !.x = 0]
    <2>1. Shape(t) /\ t.x = 0 /\ t.y = s.y
        BY MovedInX
    <2>2. Placed(s, char) = t
        <3>1. char # BACKSPACE /\ char # HTAB /\ char # NEWLINE /\ ~(char >= BLANK)
            BY <1>2 DEF BACKSPACE, HTAB, RETURN, NEWLINE, BLANK
        <3> QED
            BY <1>2, <3>1, Zenon DEF Placed
    <2> HIDE DEF t
    <2> QED
        BY <2>1, <2>2, SettledIsGood DEF putch
<1>3. CASE char = NEWLINE
    <2> DEFINE t == [s EXCEPT !.x = 0, !.y = @ + 1]
    <2>1. Shape(t) /\ t.x = 0 /\ t.y = s.y + 1
        BY MovedToNextLine
    <2>2. Placed(s, char) = t
        <3>1. char # BACKSPACE /\ char # HTAB /\ char # RETURN /\ ~(char >= BLANK)
            BY <1>3 DEF BACKSPACE, HTAB, RETURN, NEWLINE, BLANK
        <3> QED
            BY <1>3, <3>1, Zenon DEF Placed
    <2> HIDE DEF t
    <2> QED
        BY <2>1, <2>2, SettledIsGood DEF putch
<1>4. CASE char >= BLANK
    <2>1. Shape(Drawn(s, char)) /\ Drawn(s, char).x \in Nat /\ Drawn(s, char).y \in 0..HEIGHT
        BY AdvancedBy1
    <2>2. Good(Settled(Drawn(s, char)))
        BY <2>1, SettledIsGood
    <2> QED
        BY <1>4, <2>2 DEF putch, Placed, BLANK, NEWLINE, RETURN, HTAB, BACKSPACE
<1>5. CASE char \notin {HTAB, RETURN, NEWLINE} /\ ~(char >= BLANK)
    <2>1. Good(Settled(s))
        BY SettledIsGood
    <2> QED
        BY <1>5, <2>1 DEF putch, Placed, BACKSPACE
<1> QED
    BY <1>1, <1>2, <1>3, <1>4, <1>5

(***************************************************************************)
(* The invariant, as long as the log has not come in a backspace: where the *)
(* cursor is at each place of putch (Plain), and how far it has been moved  *)
(* at each stage of a backspace, which nothing has interrupted              *)
(* (Backspacing).                                                           *)
(***************************************************************************)
Moving == {"test", "drawy", "drawx", "draw", "xload", "xstore"}
Turning == {"wrap", "home", "yload", "ystore"}
Scrolling == {"full", "temp", "copy", "last"}
Showing == {"movey", "movex", "select high", "high", "select low", "low"}
Places == {"rest", "loop", "read", "write"} \cup Moving \cup Turning \cup Scrolling \cup Showing

Texts ==
    /\ Shape(scr)
    /\ pending \in Seq(Nat \ {BACKSPACE})
    /\ ch \in Nat
    /\ pc \in Places
    /\ erasing \in {"no", "first", "blank", "second"}

Plain ==
    erasing = "no" =>
        /\ pc \notin Scrolling \cup {"wrap", "home"} => OnScreen(scr)
        /\ pc = "wrap" /\ ch = NEWLINE => scr.x \in 0..(WIDTH - 1) /\ scr.y \in 0..HEIGHT
        /\ pc = "wrap" /\ ch # NEWLINE => scr.x \in Nat /\ scr.y \in 0..(HEIGHT - 1)
        /\ pc = "home" => scr.x \in Nat /\ scr.y \in 0..(HEIGHT - 1)
        /\ pc \in Scrolling => scr.x \in 0..(WIDTH - 1) /\ scr.y \in 0..HEIGHT
        /\ pc \in {"drawy", "drawx", "draw", "xload"} => ch \notin {BACKSPACE, NEWLINE}
        /\ pc = "test" => ch = BACKSPACE
        /\ pc = "xstore" => reg \in Nat /\ ch # NEWLINE
        /\ pc = "ystore" => reg \in 1..HEIGHT

Backspacing ==
    erasing # "no" =>
        /\ pending = <<>> /\ ch = BACKSPACE /\ scr.y \in 0..(HEIGHT - 1)
        /\ erasing \in {"first", "second"} =>
              /\ pc \in {"xload", "xstore"}
              /\ scr.x \in 1..(WIDTH - 1)
              /\ pc = "xstore" => reg \in 0..(WIDTH - 2)
        /\ erasing = "blank" =>
              /\ pc \in {"drawy", "drawx", "draw", "xload", "xstore", "wrap", "full"} \cup Showing
              /\ pc \in Moving => scr.x \in 0..(WIDTH - 2)
              /\ pc = "xstore" => reg \in 1..(WIDTH - 1)
              /\ pc \notin Moving => scr.x \in 1..(WIDTH - 1)

CursorInv == Texts /\ Plain /\ Backspacing

IInv == hit # "erasing" => CursorInv

LEMMA InitPlaced == Init => IInv
<1> SUFFICES ASSUME Init PROVE IInv
    OBVIOUS
<1>1. Good(cls)
    BY ScreenAssumption DEF cls, Good, Shape, OnScreen
<1>2. pending \in Seq(Nat \ {BACKSPACE})
    BY TextAssumption DEF Init
<1> QED
    BY <1>1, <1>2 DEF Init, Good, IInv, CursorInv, Texts, Plain, Backspacing, Places, Scrolling, BLANK

(* The log, wherever it falls: it leaves the cursor on the screen. *)
LEMMA PrintPendingKeeps == CursorInv /\ PrintPending => CursorInv'
<1> SUFFICES ASSUME CursorInv, PrintPending PROVE CursorInv'
    OBVIOUS
<1>1. Texts /\ Plain /\ Backspacing /\ erasing = "no" /\ pending # <<>>
    BY DEF CursorInv, PrintPending, Backspacing
<1>2. Legal(scr)
    <2>1. CASE pc \notin Scrolling \cup {"wrap", "home"}
        BY <1>1, <2>1, GoodIsLegal DEF Texts, Plain, Good
    <2>2. CASE pc \in Scrolling
        BY <1>1, <2>2, ScreenAssumption DEF Texts, Plain, Legal
    <2>3. CASE pc \in {"wrap", "home"}
        <3>1. scr.x \in Nat /\ scr.y \in 0..HEIGHT
            BY <1>1, <2>3, ScreenAssumption DEF Plain
        <3> QED
            BY <1>1, <3>1 DEF Texts, Legal
    <2> QED
        BY <2>1, <2>2, <2>3
<1>3. Head(pending) \in Nat \ {BACKSPACE} /\ Tail(pending) \in Seq(Nat \ {BACKSPACE})
    BY <1>1 DEF Texts
<1>4. Good(scr')
    BY <1>2, <1>3, PutchReturns DEF PrintPending
<1>5. UNCHANGED <<pc, ch, reg, erasing>> /\ pending' = Tail(pending)
    BY DEF PrintPending
<1>6. Texts'
    BY <1>1, <1>3, <1>4, <1>5 DEF Texts, Good
<1>7. Plain'
    BY <1>1, <1>4, <1>5, ScreenAssumption DEF Plain, Good, OnScreen
<1> QED
    BY <1>1, <1>5, <1>6, <1>7 DEF CursorInv, Backspacing

(* The stages of putch.  Where nothing has been printed meanwhile the cursor is where *)
(* the last step left it; where the log has, it is on the screen.                     *)
LEMMA CallKeeps == CursorInv /\ Call => CursorInv'
<1> SUFFICES ASSUME CursorInv, Call PROVE CursorInv'
    OBVIOUS
<1>1. /\ pc = "rest" /\ UNCHANGED <<scr, pending, reg, erasing>>
      /\ Texts /\ Plain /\ Backspacing
    BY DEF Call, Interruptible, CursorInv
<1>2. erasing = "no" /\ OnScreen(scr)
    BY <1>1 DEF Texts, Plain, Backspacing, Scrolling, Showing
<1>3. PICK char \in Chars :
          /\ ch' = char
          /\ pc' = CASE char = BACKSPACE           -> "test"
                     [] char = HTAB                -> "xload"
                     [] char \in {RETURN, NEWLINE} -> "home"
                     [] char >= BLANK              -> "drawy"
                     [] OTHER                      -> "wrap"
    BY DEF Call
<1>4. char \in Nat
    BY TextAssumption
<1>5. /\ pc' \in {"test", "xload", "home", "drawy", "wrap"}
      /\ pc' \in {"xload", "drawy"} => char \notin {BACKSPACE, NEWLINE}
      /\ pc' = "wrap" => char # NEWLINE
      /\ pc' = "test" => char = BACKSPACE
    BY <1>3, <1>4 DEF BACKSPACE, HTAB, RETURN, NEWLINE, BLANK
<1>6. Texts'
    BY <1>1, <1>3, <1>4, <1>5 DEF Texts, Places, Moving, Turning
<1>7. Plain'
    BY <1>1, <1>2, <1>3, <1>5, ScreenAssumption DEF Plain, OnScreen, Scrolling
<1> QED
    BY <1>1, <1>2, <1>6, <1>7 DEF CursorInv, Backspacing

LEMMA TestKeeps == CursorInv /\ Test => CursorInv'
<1> SUFFICES ASSUME CursorInv, Test PROVE CursorInv'
    OBVIOUS
<1>1. /\ pc = "test" /\ pending = <<>> /\ UNCHANGED <<scr, pending, reg, ch>>
      /\ Texts /\ Plain /\ Backspacing
    BY DEF Test, Do, Interruptible, CursorInv
<1>2. erasing = "no" /\ OnScreen(scr) /\ ch = BACKSPACE
    BY <1>1 DEF Texts, Plain, Backspacing, Scrolling, Showing
<1>3. CASE scr.x # 0
    <2>1. pc' = "xload" /\ erasing' = "first"
        BY <1>3 DEF Test, Do
    <2> QED
        BY <1>1, <1>2, <1>3, <2>1, ScreenAssumption
           DEF CursorInv, Texts, Plain, Backspacing, Places, Moving, OnScreen
<1>4. CASE scr.x = 0
    <2>1. pc' = "wrap" /\ erasing' = "no"
        BY <1>4 DEF Test, Do
    <2> QED
        BY <1>1, <1>2, <2>1, ScreenAssumption
           DEF CursorInv, Texts, Plain, Backspacing, Places, Turning, Scrolling, OnScreen,
               BACKSPACE, NEWLINE
<1> QED
    BY <1>3, <1>4

LEMMA DrawKeeps == CursorInv /\ Draw => CursorInv'
<1> SUFFICES ASSUME CursorInv, Draw PROVE CursorInv'
    OBVIOUS
<1>1. /\ \/ pc = "drawy" /\ pc' = "drawx"
         \/ pc = "drawx" /\ pc' = "draw"
         \/ pc = "draw" /\ pc' = "xload"
      /\ UNCHANGED <<pending, ch, erasing>>
      /\ Texts /\ Plain /\ Backspacing
    BY DEF Draw, Do, Quiet, Interruptible, CursorInv
<1>2. Shape(scr') /\ scr'.x = scr.x /\ scr'.y = scr.y
    <2> DEFINE v == Store(scr.cell, reg, c)
    <2>1. scr' = scr \/ scr' = [scr EXCEPT !.cell = v]
        BY Zenon DEF Draw, Do
    <2> HIDE DEF v
    <2>2. CASE scr' = scr
        BY <1>1, <2>2 DEF Texts
    <2>3. CASE scr' = [scr EXCEPT !.cell = v]
        BY <1>1, <2>3, StoredOnly DEF Texts
    <2> QED
        BY <2>1, <2>2, <2>3
<1>3. Texts'
    BY <1>1, <1>2 DEF Texts, Places, Moving
<1>4. Plain'
    BY <1>1, <1>2 DEF Plain, Scrolling, OnScreen
<1>5. Backspacing'
    BY <1>1, <1>2 DEF Backspacing, Moving, Showing
<1> QED
    BY <1>3, <1>4, <1>5 DEF CursorInv

LEMMA ChangeXKeeps == CursorInv /\ ChangeX => CursorInv'
<1> SUFFICES ASSUME CursorInv, ChangeX PROVE CursorInv'
    OBVIOUS
<1>1. UNCHANGED <<pending, ch>> /\ Texts /\ Plain /\ Backspacing
    BY DEF ChangeX, Do, Interruptible, CursorInv
<1>2. CASE pc = "xload"
    <2>1. /\ pc' = "xstore" /\ UNCHANGED <<scr, erasing>>
          /\ reg' = CASE c = BACKSPACE -> scr.x - 1
                      [] c = HTAB      -> NextTabStop(scr.x)
                      [] OTHER         -> scr.x + 1
        BY <1>2 DEF ChangeX, Do, Quiet
    <2>2. CASE erasing = "no"
        <3>1. scr.x \in Nat /\ OnScreen(scr) /\ c # BACKSPACE
            BY <1>1, <1>2, <2>2, ScreenAssumption DEF Plain, Scrolling, OnScreen, c
        <3>2. reg' = NextTabStop(scr.x) \/ reg' = scr.x + 1
            BY <2>1, <3>1, Zenon
        <3>3. reg' \in Nat
            BY <3>1, <3>2, TabStopAhead
        <3> QED
            BY <1>1, <1>2, <2>1, <2>2, <3>1, <3>3
               DEF CursorInv, Texts, Plain, Backspacing, Places, Moving, Scrolling
    <2>3. CASE erasing = "blank"
        <3>1. reg' = scr.x + 1
            BY <2>1, <2>3 DEF c, BLANK, BACKSPACE, HTAB
        <3>2. scr.x \in 0..(WIDTH - 2) /\ WIDTH \in Nat
            <4>1. pc \in Moving /\ erasing # "no"
                BY <1>2, <2>3 DEF Moving
            <4> QED
                BY <1>1, <2>3, <4>1, ScreenAssumption DEF Backspacing
        <3>3. reg' \in 1..(WIDTH - 1)
            BY <3>1, <3>2
        <3>4. Backspacing'
            BY <1>1, <1>2, <2>1, <2>3, <3>2, <3>3 DEF Backspacing, Moving
        <3>5. Texts' /\ Plain'
            BY <1>1, <1>2, <2>1, <2>3 DEF Texts, Plain, Places, Moving
        <3> QED
            BY <3>4, <3>5 DEF CursorInv
    <2>4. CASE erasing \in {"first", "second"}
        <3>1. c = BACKSPACE /\ c # HTAB
            BY <1>1, <2>4 DEF c, Backspacing, BACKSPACE, HTAB
        <3>2. reg' = scr.x - 1
            BY <2>1, <3>1, Zenon
        <3> QED
            BY <1>1, <1>2, <2>1, <2>4, <3>2, ScreenAssumption
               DEF CursorInv, Texts, Plain, Backspacing, Places, Moving
    <2> QED
        BY <1>1, <2>2, <2>3, <2>4 DEF Texts
<1>3. CASE pc = "xstore"
    <2>1. /\ pc' = IF erasing = "first" THEN "drawy" ELSE "wrap"
          /\ erasing' = CASE erasing = "first"  -> "blank"
                          [] erasing = "second" -> "no"
                          [] OTHER              -> erasing
          /\ scr' = [scr EXCEPT !.x = reg]
        BY <1>3 DEF ChangeX, Do
    <2>2. Shape(scr') /\ scr'.x = reg /\ scr'.y = scr.y
        BY <1>1, <2>1, MovedInX DEF Texts
    <2>3. CASE erasing = "no"
        <3>1. pc' = "wrap" /\ erasing' = "no"
            BY <2>1, <2>3
        <3>2. Texts'
            BY <1>1, <2>2, <3>1 DEF Texts, Places, Turning
        <3>3. Plain'
            BY <1>1, <1>3, <2>2, <2>3, <3>1, ScreenAssumption DEF Plain, Scrolling, OnScreen
        <3> QED
            BY <3>1, <3>2, <3>3 DEF CursorInv, Backspacing
    <2>4. CASE erasing = "first"
        <3>1. pc' = "drawy" /\ erasing' = "blank"
            BY <2>1, <2>4
        <3>2. Backspacing'
            BY <1>1, <1>3, <2>2, <2>4, <3>1 DEF Backspacing, Moving
        <3>3. Texts'
            BY <1>1, <2>2, <3>1 DEF Texts, Places, Moving
        <3>4. Plain'
            BY <3>1 DEF Plain
        <3> QED
            BY <3>2, <3>3, <3>4 DEF CursorInv
    <2>5. CASE erasing = "blank"
        <3>1. pc' = "wrap" /\ erasing' = "blank"
            BY <2>1, <2>5
        <3> QED
            BY <1>1, <1>3, <2>2, <2>5, <3>1
               DEF CursorInv, Texts, Plain, Backspacing, Places, Moving, Turning
    <2>6. CASE erasing = "second"
        <3>1. pc' = "wrap" /\ erasing' = "no"
            BY <2>1, <2>6
        <3> QED
            BY <1>1, <1>3, <2>2, <2>6, <3>1, ScreenAssumption
               DEF CursorInv, Texts, Plain, Backspacing, Places, Turning, BACKSPACE, NEWLINE
    <2> QED
        BY <1>1, <2>3, <2>4, <2>5, <2>6 DEF Texts
<1> QED
    BY <1>2, <1>3 DEF ChangeX, Do

LEMMA NextLineKeeps == CursorInv /\ NextLine => CursorInv'
<1> SUFFICES ASSUME CursorInv, NextLine PROVE CursorInv'
    OBVIOUS
<1>1. UNCHANGED <<pending, ch, erasing>> /\ Texts /\ Plain /\ Backspacing
    BY DEF NextLine, Do, Quiet, Interruptible, CursorInv
<1>2. CASE pc = "wrap"
    <2>1. scr' = scr /\ pc' = IF LineFull(scr) THEN "home" ELSE "full"
        BY <1>2 DEF NextLine, Do
    <2>2. CASE erasing = "no"
        BY <1>1, <1>2, <2>1, <2>2, ScreenAssumption
           DEF CursorInv, Texts, Plain, Backspacing, LineFull, Places, Turning, Scrolling
    <2>3. CASE erasing # "no"
        <3>1. erasing = "blank" /\ scr.x \in 1..(WIDTH - 1) /\ pc' = "full"
            BY <1>1, <1>2, <2>1, <2>3, ScreenAssumption DEF Texts, Backspacing, LineFull, Moving
        <3> QED
            BY <1>1, <2>1, <2>3, <3>1
               DEF CursorInv, Texts, Plain, Backspacing, Places, Moving, Scrolling
    <2> QED
        BY <2>2, <2>3
<1>3. CASE pc # "wrap"
    <2>1. pc \in {"home", "yload", "ystore"} /\ erasing = "no"
        BY <1>1, <1>3 DEF NextLine, Do, Texts, Backspacing, Showing
    <2>2. CASE pc = "home"
        <3>1. Shape(scr') /\ scr'.x = 0 /\ scr'.y = scr.y
            <4>1. scr' = [scr EXCEPT !.x = 0]
                BY <2>2 DEF NextLine, Do
            <4> QED
                BY <1>1, <4>1, MovedInX DEF Texts
        <3>2. pc' = IF c = RETURN THEN "wrap" ELSE "yload"
            BY <2>2 DEF NextLine, Do
        <3> QED
            BY <1>1, <2>1, <2>2, <3>1, <3>2, ScreenAssumption
               DEF CursorInv, Texts, Plain, Backspacing, Places, Turning, Scrolling, OnScreen,
                   c, RETURN, NEWLINE
    <2>3. CASE pc = "yload"
        <3>1. scr' = scr /\ pc' = "ystore" /\ reg' = scr.y + 1
            BY <2>3 DEF NextLine, Do
        <3> QED
            BY <1>1, <2>1, <2>3, <3>1, ScreenAssumption
               DEF CursorInv, Texts, Plain, Backspacing, Places, Turning, Scrolling, OnScreen
    <2>4. CASE pc = "ystore"
        <3>1. Shape(scr') /\ scr'.x = scr.x /\ scr'.y = reg
            <4>1. scr' = [scr EXCEPT !.y = reg]
                BY <2>4 DEF NextLine, Do
            <4> QED
                BY <1>1, <4>1, MovedInY DEF Texts
        <3>2. pc' = IF c = NEWLINE THEN "wrap" ELSE "full"
            BY <2>4 DEF NextLine, Do
        <3> QED
            BY <1>1, <2>1, <2>4, <3>1, <3>2, ScreenAssumption
               DEF CursorInv, Texts, Plain, Backspacing, Places, Turning, Scrolling, OnScreen, c
    <2> QED
        BY <2>1, <2>2, <2>3, <2>4
<1> QED
    BY <1>2, <1>3

LEMMA ScrollKeeps == CursorInv /\ Scroll => CursorInv'
<1> SUFFICES ASSUME CursorInv, Scroll PROVE CursorInv'
    OBVIOUS
<1>1. UNCHANGED <<pending, ch, erasing>> /\ Texts /\ Plain /\ Backspacing
    BY DEF Scroll, Do, Quiet, Interruptible, CursorInv
<1>2. CASE pc = "full"
    <2>1. scr' = scr /\ pc' = IF PageFull(scr) THEN "temp" ELSE "movey"
        BY <1>2 DEF Scroll, Do
    <2>2. CASE erasing = "no"
        BY <1>1, <1>2, <2>1, <2>2, ScreenAssumption
           DEF CursorInv, Texts, Plain, Backspacing, PageFull, Places, Scrolling, Showing, OnScreen
    <2>3. CASE erasing # "no"
        <3>1. erasing = "blank" /\ pc' = "movey"
            BY <1>1, <1>2, <2>1, <2>3, ScreenAssumption DEF Texts, Backspacing, PageFull
        <3> QED
            BY <1>1, <1>2, <2>1, <2>3, <3>1
               DEF CursorInv, Texts, Plain, Backspacing, Places, Moving, Showing
    <2> QED
        BY <2>2, <2>3
<1>3. CASE pc # "full"
    <2>1. pc \in {"temp", "copy", "last"} /\ erasing = "no"
        BY <1>1, <1>3 DEF Scroll, Do, Texts, Backspacing, Showing
    <2>2. CASE pc \in {"temp", "copy"}
        <3>1. Shape(scr') /\ scr'.x = scr.x /\ scr'.y = scr.y
            <4> DEFINE v == ScrolledBy(scr.cell, reg)
            <4>1. scr' = scr \/ scr' = [scr EXCEPT !.cell = v]
                BY <2>2, Zenon DEF Scroll, Do
            <4> HIDE DEF v
            <4>2. CASE scr' = scr
                BY <1>1, <4>2 DEF Texts
            <4>3. CASE scr' = [scr EXCEPT !.cell = v]
                BY <1>1, <4>3, StoredOnly DEF Texts
            <4> QED
                BY <4>1, <4>2, <4>3
        <3>2. pc' \in {"copy", "last"}
            BY <2>2 DEF Scroll, Do
        <3> QED
            BY <1>1, <2>1, <2>2, <3>1, <3>2
               DEF CursorInv, Texts, Plain, Backspacing, Places, Scrolling
    <2>3. CASE pc = "last"
        <3>1. Shape(scr') /\ scr'.x = scr.x /\ scr'.y = HEIGHT - 1
            <4>1. scr' = [scr EXCEPT !.y = HEIGHT - 1]
                BY <2>3 DEF Scroll, Do
            <4> QED
                BY <1>1, <4>1, MovedInY DEF Texts
        <3>2. pc' = "movey"
            BY <2>3 DEF Scroll, Do
        <3> QED
            BY <1>1, <2>1, <2>3, <3>1, <3>2, ScreenAssumption
               DEF CursorInv, Texts, Plain, Backspacing, Places, Scrolling, Showing, OnScreen
    <2> QED
        BY <2>1, <2>2, <2>3
<1> QED
    BY <1>2, <1>3

(* move_csr, the ports and the terminal leave the cursor alone. *)
LEMMA ShowingKeeps ==
    ASSUME CursorInv, UNCHANGED <<pending, ch, erasing>>, UNCHANGED <<scr.x, scr.y>>, Shape(scr'),
           pc \notin {"xload"} \cup Moving \cup Turning \cup Scrolling,
           pc' \in {"rest", "loop", "read", "write"} \cup Showing,
           pc \in Showing => pc' \in Showing \/ erasing = "no"
    PROVE  CursorInv'
<1>1. Texts /\ Plain /\ Backspacing
    BY DEF CursorInv
<1>2. Texts'
    BY <1>1 DEF Texts, Places
<1>3. Plain'
    BY <1>1 DEF Plain, Moving, Turning, Scrolling, Showing, OnScreen
<1>4. Backspacing'
    BY <1>1 DEF Texts, Backspacing, Moving, Turning, Scrolling, Showing
<1> QED
    BY <1>2, <1>3, <1>4 DEF CursorInv

LEMMA MoveCsrKeeps == CursorInv /\ MoveCsr => CursorInv'
<1> SUFFICES ASSUME CursorInv, MoveCsr PROVE CursorInv'
    OBVIOUS
<1>1. /\ \/ pc = "movey" /\ pc' = "movex"
         \/ pc = "movex" /\ pc' = "select high"
      /\ UNCHANGED <<scr, pending, ch, erasing>>
    BY DEF MoveCsr, Do, Quiet, Interruptible
<1>2. /\ pc \notin {"xload"} \cup Moving \cup Turning \cup Scrolling
      /\ pc' \in Showing
    BY <1>1 DEF Moving, Turning, Scrolling, Showing
<1>3. Shape(scr')
    BY <1>1 DEF CursorInv, Texts
<1> QED
    BY <1>1, <1>2, <1>3, ShowingKeeps

LEMMA PortWritesKeep == CursorInv /\ PortWrites => CursorInv'
<1> SUFFICES ASSUME CursorInv, PortWrites PROVE CursorInv'
    OBVIOUS
<1>1. UNCHANGED <<scr, pending, ch>> /\ Texts /\ Plain /\ Backspacing
    BY DEF PortWrites, OutPort, Interruptible, CursorInv
<1>2. CASE pc # "low"
    <2>1. /\ pc \in {"select high", "high", "select low"} /\ pc' \in {"high", "select low", "low"}
          /\ UNCHANGED erasing
        BY <1>2 DEF PortWrites, OutPort
    <2>2. /\ pc \notin {"xload"} \cup Moving \cup Turning \cup Scrolling
          /\ pc' \in Showing
        BY <2>1 DEF Moving, Turning, Scrolling, Showing
    <2> QED
        BY <1>1, <2>1, <2>2, ShowingKeeps DEF Texts
<1>3. CASE pc = "low"
    <2>1. /\ pc' = IF erasing = "blank" THEN "xload" ELSE "rest"
          /\ erasing' = IF erasing = "blank" THEN "second" ELSE "no"
        BY <1>3 DEF PortWrites, OutPort
    <2>2. CASE erasing = "blank"
        <3>1. Backspacing'
            BY <1>1, <1>3, <2>1, <2>2 DEF Backspacing, Moving
        <3> QED
            BY <1>1, <2>1, <2>2, <3>1 DEF CursorInv, Texts, Plain, Places, Moving
    <2>3. CASE erasing # "blank"
        <3>1. erasing = "no" /\ OnScreen(scr)
            BY <1>1, <1>3, <2>3 DEF Texts, Plain, Backspacing, Scrolling
        <3> QED
            BY <1>1, <2>1, <2>3, <3>1
               DEF CursorInv, Texts, Plain, Backspacing, Places, Scrolling, OnScreen
    <2> QED
        BY <2>2, <2>3
<1> QED
    BY <1>2, <1>3

LEMMA TerminalKeeps == CursorInv /\ (tty_putc \/ tty_scroll \/ tty_cursor) => CursorInv'
<1> SUFFICES ASSUME CursorInv, tty_putc \/ tty_scroll \/ tty_cursor PROVE CursorInv'
    OBVIOUS
<1>1. /\ pc \in {"rest", "loop", "read", "write"}
      /\ pc' \in {"rest", "loop", "read", "write"} \cup Showing
      /\ UNCHANGED <<pending, ch, erasing>>
    BY DEF tty_putc, tty_scroll, tty_cursor, Interruptible, Showing
<1>2. Shape(scr') /\ UNCHANGED <<scr.x, scr.y>>
    <2>1. PICK v : scr' = scr \/ scr' = [scr EXCEPT !.cell = v]
        <3>1. CASE tty_putc
            BY <3>1, Zenon DEF tty_putc
        <3>2. CASE tty_scroll
            BY <3>2, Zenon DEF tty_scroll
        <3>3. CASE tty_cursor
            BY <3>3 DEF tty_cursor
        <3> QED
            BY <3>1, <3>2, <3>3
    <2>2. CASE scr' = scr
        BY <2>2 DEF CursorInv, Texts
    <2>3. CASE scr' = [scr EXCEPT !.cell = v]
        BY <2>3, StoredOnly DEF CursorInv, Texts
    <2> QED
        BY <2>1, <2>2, <2>3
<1>3. /\ pc \notin {"xload"} \cup Moving \cup Turning \cup Scrolling
      /\ pc \notin Showing
    BY <1>1 DEF Moving, Turning, Scrolling, Showing
<1> QED
    BY <1>1, <1>2, <1>3, ShowingKeeps

(* The timer interrupt: in a backspace it is counted as such; elsewhere the log begins. *)
LEMMA TickKeeps == IInv /\ Tick => IInv'
<1> SUFFICES ASSUME IInv, Tick, hit' # "erasing" PROVE CursorInv'
    BY DEF IInv
<1>1. /\ CursorInv /\ Texts /\ Plain /\ Backspacing
      /\ pending' = Log /\ UNCHANGED <<scr, pc, ch, reg, erasing>>
    BY DEF Tick, IInv, CursorInv
<1>2. erasing = "no"
    <2>1. SUFFICES ASSUME erasing # "no" PROVE FALSE
        OBVIOUS
    <2>2. pc \notin {"rest", "test"}
        BY <1>1, <2>1 DEF Texts, Backspacing, Showing
    <2>3. ~(pc = "rest" \/ Untouched \/ Done)
        BY <2>1, <2>2 DEF Untouched, Done
    <2> QED
        BY <2>1, <2>3 DEF Tick
<1>3. Texts'
    BY <1>1, TextAssumption DEF Texts
<1> QED
    BY <1>1, <1>2, <1>3 DEF CursorInv, Plain, Backspacing, OnScreen

LEMMA StepKeeps == IInv /\ [Next]_vars => IInv'
<1> SUFFICES ASSUME IInv, [Next]_vars PROVE IInv'
    OBVIOUS
<1>1. CASE Tick
    BY <1>1, TickKeeps
<1>2. CASE UNCHANGED vars
    <2>1. UNCHANGED <<scr, pending, pc, ch, reg, erasing, hit>>
        BY <1>2 DEF vars, history
    <2> QED
        BY <2>1 DEF IInv, CursorInv, Texts, Plain, Backspacing, Shape, OnScreen
<1>3. CASE PrintPending \/ Call \/ PutchStep \/ PortWrites \/ tty_putc \/ tty_scroll \/ tty_cursor
    <2>1. hit' = hit
        BY <1>3 DEF PrintPending, Call, PutchStep, Test, Draw, ChangeX, NextLine, Scroll, MoveCsr,
                    Do, PortWrites, OutPort, tty_putc, tty_scroll, tty_cursor, history
    <2>2. CursorInv => CursorInv'
        BY <1>3, PrintPendingKeeps, CallKeeps, TestKeeps, DrawKeeps, ChangeXKeeps, NextLineKeeps,
           ScrollKeeps, MoveCsrKeeps, PortWritesKeep, TerminalKeeps DEF PutchStep
    <2> QED
        BY <2>1, <2>2 DEF IInv
<1> QED
    BY <1>1, <1>2, <1>3 DEF Next

(* putch (debug.c:62-104): for any screen, any text and any log, wherever the log    *)
(* falls but in a backspace, the cursor is on the screen between two characters.     *)
THEOREM CursorStaysOnScreen == Spec => []CursorOnScreen
<1>1. IInv => CursorOnScreen
    BY DEF IInv, CursorInv, Texts, Plain, Backspacing, CursorOnScreen, AtRest, Scrolling, Showing
<1>2. Spec => []IInv
    BY InitPlaced, StepKeeps, PTL DEF Spec
<1> QED
    BY <1>1, <1>2, PTL

(***************************************************************************)
(* The stores.  While the log has neither found the cursor off the screen   *)
(* nor come in a backspace, it begins and ends with the cursor on the       *)
(* screen, so that what putch has read and not yet used is still good for   *)
(* a store (StoreInv).  The terminal's offset is in the text whenever       *)
(* tty_putc runs, until a backspace finds it at zero (TermInv).             *)
(***************************************************************************)
Harmless == hit \notin {"off", "erasing"}

StoreInv ==
    Harmless =>
        /\ pending # <<>> => OnScreen(scr)
        /\ pc = "drawx" => \E y \in 0..(HEIGHT - 1) : reg = y * WIDTH
        /\ pc = "draw" => reg \in Text
        /\ pc = "temp" => scr.y >= HEIGHT
        /\ pc = "copy" => reg # 0
        /\ printer = "kernel" => ~stray

TermPlaces == {"rest", "loop", "read", "write", "select high", "high", "select low", "low"}

TermInv ==
    printer # "kernel" =>
        /\ hit \in {"none", "between", "inside"}
        /\ erasing = "no"
        /\ pc \in TermPlaces
        /\ ~above => /\ ~stray
                     /\ cursorOffset \in Nat
                     /\ pc \notin {"read", "write"} => cursorOffset < SIZE
                     /\ pc \in {"read", "write"} => cursorOffset \in SIZE..(SIZE + WIDTH - 1)

StoresInv == IInv /\ StoreInv /\ TermInv

\* A cell under a cursor on the screen is one of the text.
LEMMA CellIsText ==
    ASSUME NEW x \in 0..(WIDTH - 1), NEW y \in 0..(HEIGHT - 1)
    PROVE  y * WIDTH + x \in Text
<1>1. y * WIDTH \in Nat /\ (HEIGHT - 1 - y) * WIDTH \in Nat
    BY ScreenAssumption
<1>2. (HEIGHT - 1 - y) * WIDTH = WIDTH * HEIGHT - WIDTH - y * WIDTH
    BY ScreenAssumption
<1>3. WIDTH * HEIGHT \in Nat
    BY ScreenAssumption
<1> QED
    BY <1>1, <1>2, <1>3, ScreenAssumption DEF Text

LEMMA CursorIsText == ASSUME NEW s, OnScreen(s) PROVE Position(s) \in Text
BY CellIsText DEF OnScreen, Position

\* A screen has at least one row.
LEMMA SizeIs == SIZE \in Nat /\ WIDTH <= SIZE /\ WIDTH \in Nat \ {0}
<1>1. (HEIGHT - 1) * WIDTH \in Nat /\ SIZE = (HEIGHT - 1) * WIDTH + WIDTH
    BY ScreenAssumption DEF SIZE
<1> QED
    BY <1>1, ScreenAssumption

\* A tab moves by at most a tab's width, and no tab is wider than the screen.
LEMMA TabStopNear ==
    ASSUME NEW x \in Nat
    PROVE  NextTabStop(x) \in Nat /\ NextTabStop(x) <= x + WIDTH
<1>1. TAB <= WIDTH
    <2>1. SUFFICES ASSUME TAB > WIDTH PROVE FALSE
        BY ScreenAssumption
    <2>2. WIDTH % TAB = WIDTH
        BY <2>1, ScreenAssumption
    <2> QED
        BY <2>2, ScreenAssumption
<1>2. (x \div TAB) * TAB <= x /\ (x \div TAB) \in Nat
    BY ScreenAssumption
<1>3. (x \div TAB + 1) * TAB = (x \div TAB) * TAB + TAB
    BY <1>2, ScreenAssumption
<1> QED
    BY <1>1, <1>2, <1>3, TabStopAhead, ScreenAssumption DEF NextTabStop

\* A 16-bit offset is not above the number it was made from.
LEMMA WrappedBelow ==
    ASSUME NEW v \in Nat
    PROVE  v % SHORT \in Nat /\ v % SHORT <= v
BY ShortAssumption

LEMMA InitStores == Init => StoresInv
<1> SUFFICES ASSUME Init PROVE StoresInv
    OBVIOUS
<1>1. OnScreen(scr)
    BY ScreenAssumption DEF Init, cls, OnScreen
<1>2. StoreInv
    BY <1>1 DEF Init, StoreInv
<1>3. TermInv
    BY SizeIs DEF Init, TermInv, TermPlaces
<1> QED
    BY <1>2, <1>3, InitPlaced DEF StoresInv

\* The log stores where the cursor is, and leaves it on the screen.
LEMMA PendingStores == StoresInv /\ PrintPending => StoreInv' /\ TermInv'
<1> SUFFICES ASSUME StoresInv, PrintPending PROVE StoreInv' /\ TermInv'
    OBVIOUS
<1>1. UNCHANGED <<printer, termVars, pc, ch, reg, erasing, above, hit>>
    BY DEF PrintPending
<1>2. CASE ~Harmless
    BY <1>1, <1>2 DEF StoresInv, StoreInv, TermInv, Harmless
<1>3. CASE Harmless
    <2>1. OnScreen(scr) /\ pending # <<>> /\ pc # "temp"
        <3>1. OnScreen(scr) /\ pending # <<>>
            BY <1>3 DEF PrintPending, StoresInv, StoreInv
        <3>2. pc = "temp" => scr.y >= HEIGHT
            BY <1>3 DEF StoresInv, StoreInv
        <3> QED
            BY <3>1, <3>2, ScreenAssumption DEF OnScreen
    <2>2. ~stray => ~stray'
        <3>1. Position(scr) \in Text
            BY <2>1, CursorIsText
        <3>2. stray' = (stray \/ (Head(pending) >= BLANK /\ Position(scr) \notin Text))
            BY DEF PrintPending
        <3> QED
            BY <3>1, <3>2, Zenon
    <2>3. OnScreen(scr')
        <3>1. Texts /\ Head(pending) \in Nat \ {BACKSPACE}
            BY <1>3, <2>1 DEF StoresInv, IInv, Harmless, CursorInv, Texts
        <3>2. Legal(scr)
            BY <2>1, <3>1, GoodIsLegal DEF Texts, Good
        <3> QED
            BY <3>1, <3>2, PutchReturns DEF PrintPending, Good
    <2>4. StoreInv'
        BY <1>1, <2>1, <2>2, <2>3 DEF StoresInv, StoreInv, Harmless
    <2>5. TermInv'
        BY <1>1, <2>2 DEF StoresInv, TermInv, termVars
    <2> QED
        BY <2>4, <2>5
<1> QED
    BY <1>2, <1>3

\* putch: the register it stores through was made from a cursor on the screen.
LEMMA PutchStores == StoresInv /\ (Call \/ PutchStep \/ PortWrites) => StoreInv' /\ TermInv'
<1> SUFFICES ASSUME StoresInv, Call \/ PutchStep \/ PortWrites
             PROVE  StoreInv' /\ TermInv'
    OBVIOUS
<1>0. /\ pending = <<>> /\ UNCHANGED <<printer, pending, termVars, above, hit>>
    BY DEF Call, PutchStep, PortWrites, Test, Draw, ChangeX, NextLine, Scroll, MoveCsr, Do,
           OutPort, Interruptible, history
<1>1. TermInv'
    <2>1. SUFFICES ASSUME printer # "kernel" PROVE TermInv'
        BY <1>0 DEF TermInv
    <2>2. pc \in TermPlaces /\ erasing = "no"
        BY <2>1 DEF StoresInv, TermInv
    <2>3. PortWrites
        BY <2>1, <2>2 DEF Call, PutchStep, Test, Draw, ChangeX, NextLine, Scroll, MoveCsr, Do,
              TermPlaces
    <2>4. /\ UNCHANGED stray
          /\ pc' \in TermPlaces \ {"read", "write"} /\ pc \notin {"read", "write"} /\ erasing' = "no"
        BY <2>2, <2>3 DEF PortWrites, OutPort, TermPlaces, history
    <2> QED
        BY <1>0, <2>1, <2>4 DEF StoresInv, TermInv, termVars
<1>2. StoreInv'
    <2>1. SUFFICES ASSUME Harmless PROVE StoreInv'
        BY <1>0 DEF StoreInv, Harmless
    <2>2. /\ Texts /\ Plain /\ Backspacing
          /\ printer = "kernel" => ~stray
          /\ pc = "temp" => scr.y >= HEIGHT
          /\ pc = "copy" => reg # 0
          /\ pc = "draw" => reg \in Text
          /\ pc = "drawx" => \E y \in 0..(HEIGHT - 1) : reg = y * WIDTH
        BY <2>1 DEF StoresInv, StoreInv, IInv, CursorInv, Harmless
    <2>3. CASE Draw
        <3>1. scr.x \in 0..(WIDTH - 1) /\ scr.y \in 0..(HEIGHT - 1)
            <4>1. pc \in {"drawy", "drawx", "draw"}
                BY <2>3 DEF Draw, Do
            <4>2. CASE erasing = "no"
                BY <2>2, <4>1, <4>2 DEF Plain, Scrolling, OnScreen
            <4>3. CASE erasing # "no"
                <5>1. erasing = "blank" /\ scr.x \in 0..(WIDTH - 2) /\ scr.y \in 0..(HEIGHT - 1)
                    BY <2>2, <4>1, <4>3 DEF Texts, Backspacing, Moving
                <5> QED
                    BY <5>1, ScreenAssumption
            <4> QED
                BY <4>2, <4>3
        <3>2. CASE pc = "drawy"
            <4>1. pc' = "drawx" /\ reg' = scr.y * WIDTH /\ stray' = stray
                BY <2>3, <3>2 DEF Draw, Do, Quiet
            <4> QED
                BY <1>0, <2>2, <3>1, <4>1 DEF StoreInv
        <3>3. CASE pc = "drawx"
            <4>1. pc' = "draw" /\ reg' = reg + scr.x /\ stray' = stray
                BY <2>3, <3>3 DEF Draw, Do, Quiet
            <4>2. PICK y \in 0..(HEIGHT - 1) : reg = y * WIDTH
                BY <2>2, <3>3
            <4>3. reg' \in Text
                BY <3>1, <4>1, <4>2, CellIsText
            <4> QED
                BY <1>0, <2>2, <4>1, <4>3 DEF StoreInv
        <3>4. CASE pc = "draw"
            <4>1. pc' = "xload" /\ stray' = (stray \/ reg \notin Text)
                BY <2>3, <3>4, Zenon DEF Draw, Do
            <4>2. ~stray => ~stray'
                BY <2>2, <3>4, <4>1, Zenon
            <4> QED
                BY <1>0, <2>2, <4>1, <4>2 DEF StoreInv
        <3> QED
            BY <2>3, <3>2, <3>3, <3>4 DEF Draw, Do
    <2>4. CASE Scroll
        <3>1. CASE pc = "full"
            <4>1. /\ pc' = IF PageFull(scr) THEN "temp" ELSE "movey"
                  /\ scr' = scr /\ stray' = stray
                BY <2>4, <3>1 DEF Scroll, Do, Quiet
            <4> QED
                BY <1>0, <2>2, <4>1 DEF StoreInv, PageFull
        <3>2. CASE pc = "temp"
            <4>1. pc' = "copy" /\ reg' = scr.y - HEIGHT + 1 /\ stray' = stray
                BY <2>4, <3>2 DEF Scroll, Do, Quiet
            <4>2. scr.y \in 0..HEIGHT /\ scr.y >= HEIGHT
                BY <2>2, <3>2, ScreenAssumption DEF Plain, Backspacing, Texts, Scrolling, Showing
            <4>3. reg' # 0
                BY <4>1, <4>2, ScreenAssumption
            <4> QED
                BY <1>0, <2>2, <4>1, <4>3 DEF StoreInv
        <3>3. CASE pc = "copy"
            <4>1. pc' = "last" /\ stray' = (stray \/ reg = 0)
                BY <2>4, <3>3, Zenon DEF Scroll, Do
            <4>2. ~stray => ~stray'
                BY <2>2, <3>3, <4>1, Zenon
            <4> QED
                BY <1>0, <2>2, <4>1, <4>2 DEF StoreInv
        <3>4. CASE pc = "last"
            <4>1. pc' = "movey" /\ stray' = stray
                BY <2>4, <3>4 DEF Scroll, Do, Quiet
            <4> QED
                BY <1>0, <2>2, <4>1 DEF StoreInv
        <3> QED
            BY <2>4, <3>1, <3>2, <3>3, <3>4 DEF Scroll, Do
    <2>5. CASE Call \/ Test \/ ChangeX \/ NextLine \/ MoveCsr \/ PortWrites
        <3>1. stray' = stray /\ pc' \notin {"drawx", "draw", "temp", "copy"}
            <4>1. CASE Call
                BY <4>1 DEF Call
            <4>2. CASE Test \/ ChangeX \/ NextLine \/ MoveCsr
                BY <4>2 DEF Test, ChangeX, NextLine, MoveCsr, Do, Quiet
            <4>3. CASE PortWrites
                BY <4>3 DEF PortWrites, OutPort, history
            <4> QED
                BY <2>5, <4>1, <4>2, <4>3
        <3> QED
            BY <1>0, <2>2, <3>1 DEF StoreInv
    <2> QED
        BY <2>3, <2>4, <2>5 DEF PutchStep
<1> QED
    BY <1>1, <1>2

\* Where tty_putc leaves an offset in the text: no further than a row behind it.
LEMMA OffsetNear ==
    ASSUME NEW offset \in 0..(SIZE - 1), NEW char \in Nat, ~(char = BACKSPACE /\ offset = 0)
    PROVE  OffsetAfter(offset, char) \in 0..(SIZE + WIDTH - 1)
<1> DEFINE v == CASE char = BACKSPACE -> offset - 1
                  [] char = HTAB      -> NextTabStop(offset)
                  [] char = RETURN    -> offset - (offset % WIDTH)
                  [] char = NEWLINE   -> offset + WIDTH - (offset % WIDTH)
                  [] char >= BLANK    -> offset + 1
                  [] OTHER            -> offset
<1>1. /\ offset \in Nat /\ offset % WIDTH \in 0..(WIDTH - 1) /\ offset % WIDTH <= offset
      /\ NextTabStop(offset) \in Nat /\ NextTabStop(offset) <= offset + WIDTH
      /\ SIZE \in Nat /\ WIDTH \in Nat \ {0} /\ offset < SIZE
    BY SizeIs, TabStopNear
<1>2. v \in {offset - 1, NextTabStop(offset), offset - (offset % WIDTH),
             offset + WIDTH - (offset % WIDTH), offset + 1, offset}
    BY Zenon
<1>3. v \in Nat /\ v <= SIZE + WIDTH - 1
    <2>1. CASE char = BACKSPACE
        <3>1. v = offset - 1
            <4>1. char # HTAB /\ char # RETURN /\ char # NEWLINE /\ ~(char >= BLANK)
                BY <2>1 DEF BACKSPACE, HTAB, RETURN, NEWLINE, BLANK
            <4> QED
                BY <2>1, <4>1, Zenon
        <3> HIDE DEF v
        <3> QED
            BY <1>1, <2>1, <3>1
    <2>2. CASE char # BACKSPACE
        <3>1. v \in {NextTabStop(offset), offset - (offset % WIDTH),
                     offset + WIDTH - (offset % WIDTH), offset + 1, offset}
            BY <2>2, Zenon
        <3> HIDE DEF v
        <3> QED
            BY <1>1, <3>1
    <2> QED
        BY <2>1, <2>2
<1>4. OffsetAfter(offset, char) = v % SHORT
    BY Zenon DEF OffsetAfter
<1> HIDE DEF v
<1> QED
    BY <1>1, <1>3, <1>4, WrappedBelow

\* The terminal: its offset is in the text again when it has scrolled.
LEMMA TerminalStores == StoresInv /\ (tty_putc \/ tty_scroll \/ tty_cursor) => StoreInv' /\ TermInv'
<1> SUFFICES ASSUME StoresInv, tty_putc \/ tty_scroll \/ tty_cursor PROVE StoreInv' /\ TermInv'
    OBVIOUS
<1>0. /\ pending = <<>> /\ UNCHANGED <<printer, pending, hit, erasing>>
      /\ pc' \in {"read", "write", "loop", "select high"}
      /\ printer = "kernel" => stray' = stray
    BY DEF tty_putc, tty_scroll, tty_cursor, Interruptible, history
<1>1. StoreInv'
    BY <1>0 DEF StoresInv, StoreInv, Harmless
<1>2. TermInv'
    <2>1. SUFFICES ASSUME printer # "kernel", ~above' PROVE TermInv'
        BY <1>0 DEF StoresInv, TermInv, TermPlaces
    <2>2. ~above
        BY <2>1 DEF tty_putc, tty_scroll, tty_cursor, history
    <2>3. /\ hit' \in {"none", "between", "inside"} /\ erasing' = "no" /\ pc' \in TermPlaces
          /\ ~stray /\ cursorOffset \in Nat
          /\ pc \notin {"read", "write"} => cursorOffset < SIZE
          /\ pc \in {"read", "write"} => cursorOffset \in SIZE..(SIZE + WIDTH - 1)
        BY <1>0, <2>1, <2>2 DEF StoresInv, TermInv, TermPlaces
    <2>4. CASE tty_putc
        <3>1. PICK char \in Chars :
                /\ \E text : stray' = (stray \/ (text # <<>> /\ cursorOffset > SIZE))
                /\ above' = (above \/ (char = BACKSPACE /\ cursorOffset = 0))
                /\ cursorOffset' = OffsetAfter(cursorOffset, char)
                /\ pc' = IF cursorOffset' >= SIZE THEN "read" ELSE "loop"
            BY <2>4, Zenon DEF tty_putc
        <3>2. cursorOffset \in 0..(SIZE - 1) /\ char \in Nat
            BY <2>3, <2>4, SizeIs, TextAssumption DEF tty_putc
        <3>3. ~stray'
            <4>1. ~(cursorOffset > SIZE)
                BY <3>2, SizeIs
            <4> QED
                BY <2>3, <3>1, <4>1, Zenon
        <3>4. cursorOffset' \in 0..(SIZE + WIDTH - 1)
            BY <2>1, <3>1, <3>2, OffsetNear
        <3>5. /\ pc' \notin {"read", "write"} => cursorOffset' < SIZE
              /\ pc' \in {"read", "write"} => cursorOffset' \in SIZE..(SIZE + WIDTH - 1)
            BY <3>1, <3>4, SizeIs
        <3> QED
            BY <2>3, <3>3, <3>4, <3>5 DEF TermInv
    <2>5. CASE tty_scroll
        <3>1. stray' = stray
            BY <2>5 DEF tty_scroll, history
        <3>2. CASE pc = "read"
            <4>1. pc' = "write" /\ cursorOffset' = cursorOffset
                BY <2>5, <3>2 DEF tty_scroll
            <4> QED
                BY <2>3, <3>1, <3>2, <4>1 DEF TermInv
        <3>3. CASE pc # "read"
            <4>1. pc = "write" /\ pc' = "loop" /\ cursorOffset' = (cursorOffset - WIDTH) % SHORT
                BY <2>5, <3>3 DEF tty_scroll
            <4>2. cursorOffset - WIDTH \in Nat /\ cursorOffset - WIDTH < SIZE
                BY <2>3, <4>1, SizeIs
            <4>3. cursorOffset' \in Nat /\ cursorOffset' < SIZE
                <5>1. cursorOffset' \in Nat /\ cursorOffset' <= cursorOffset - WIDTH
                    BY <4>1, <4>2, WrappedBelow
                <5> QED
                    BY <4>2, <5>1, SizeIs
            <4> QED
                BY <2>3, <3>1, <4>1, <4>3 DEF TermInv
        <3> QED
            BY <3>2, <3>3
    <2>6. CASE tty_cursor
        <3>1. /\ pc = "loop" /\ pc' = "select high"
              /\ stray' = stray /\ cursorOffset' = cursorOffset
            BY <2>6 DEF tty_cursor, history, termVars
        <3> QED
            BY <2>3, <3>1 DEF TermInv
    <2> QED
        BY <2>4, <2>5, <2>6
<1> QED
    BY <1>1, <1>2

\* The timer: unless the cursor is off the screen or a backspace is under way,
\* what the log finds is on the screen.
LEMMA TickStores == StoresInv /\ Tick => StoreInv' /\ TermInv'
<1> SUFFICES ASSUME StoresInv, Tick PROVE StoreInv' /\ TermInv'
    OBVIOUS
<1>1. /\ hit = "none" /\ UNCHANGED <<printer, scr, termVars, pc, reg, erasing, stray, above>>
      /\ hit' = IF pc = "rest" \/ Untouched \/ Done THEN "between"
                ELSE IF erasing # "no" THEN "erasing"
                ELSE IF ~OnScreen(scr) THEN "off" ELSE "inside"
    BY DEF Tick
<1>2. Texts /\ Plain /\ Backspacing /\ Harmless
    BY <1>1 DEF StoresInv, IInv, CursorInv, Harmless
<1>3. hit' \notin {"off", "erasing"} => OnScreen(scr)
    <2>1. CASE pc \in {"rest", "test"}
        BY <1>2, <2>1 DEF Plain, Backspacing, Texts, Scrolling, Showing
    <2>2. CASE pc \notin {"rest", "test"}
        BY <1>1, <2>2 DEF Untouched, Done
    <2> QED
        BY <2>1, <2>2
<1>4. StoreInv'
    BY <1>1, <1>2, <1>3 DEF StoresInv, StoreInv, Harmless, OnScreen
<1>5. TermInv'
    <2>1. SUFFICES ASSUME printer # "kernel" PROVE TermInv'
        BY <1>1 DEF TermInv
    <2>2. pc \in TermPlaces /\ erasing = "no"
        BY <2>1 DEF StoresInv, TermInv
    <2>3. OnScreen(scr)
        BY <1>2, <2>2 DEF Plain, TermPlaces, Scrolling
    <2>4. hit' \in {"between", "inside"}
        BY <1>1, <2>2, <2>3
    <2> QED
        BY <1>1, <2>1, <2>4 DEF StoresInv, TermInv, termVars
<1> QED
    BY <1>4, <1>5

LEMMA StoresStep == StoresInv /\ [Next]_vars => StoresInv'
<1> SUFFICES ASSUME StoresInv, [Next]_vars PROVE StoreInv' /\ TermInv'
    BY StepKeeps DEF StoresInv
<1>1. CASE UNCHANGED vars
    BY <1>1 DEF vars, history, termVars, StoresInv, StoreInv, TermInv, Harmless, OnScreen
<1> QED
    BY <1>1, PendingStores, PutchStores, TerminalStores, TickStores DEF Next

(* putch (debug.c:62-104) and tty_putc (tty.c:29-57): for any screen, any text and *)
(* any log nothing is stored outside the text but where the property says.         *)
THEOREM StoresStayInText == Spec => []StoresOnScreen
<1>1. Init => StoresInv
    BY InitStores
<1>2. StoresInv => StoresOnScreen
    BY DEF StoresInv, StoreInv, TermInv, Harmless, StoresOnScreen
<1>3. Spec => []StoresInv
    BY <1>1, StoresStep, PTL DEF Spec
<1> QED
    BY <1>2, <1>3, PTL

(***************************************************************************)
(* putch, uninterrupted, and kprintf.  A screen of this kind is one that    *)
(* printing leaves.                                                         *)
(***************************************************************************)
Screens == [cell : [Memory -> Nat], x : 0..(WIDTH - 1), y : 0..(HEIGHT - 1)]

(* Before the line is wrapped and the page scrolled. *)
Placings == [cell : [Memory -> Nat], x : Nat, y : 0..HEIGHT]

LEMMA Sizes ==
    /\ WIDTH \in Nat \ {0} /\ HEIGHT \in Nat \ {0}
    /\ Memory \subseteq Nat
    /\ Screens \subseteq Placings
<1>1. WIDTH \in Nat \ {0} /\ HEIGHT \in Nat \ {0}
    BY ScreenAssumption
<1>2. WIDTH * (HEIGHT + 1) \in Nat
    BY <1>1
<1> QED
    BY <1>1, <1>2 DEF Memory, Screens, Placings

(* What is needed of the parts of a screen. *)
LEMMA PlacingIs ==
    ASSUME NEW cell \in [Memory -> Nat], NEW x \in Nat, NEW y \in 0..HEIGHT
    PROVE  LET s == [cell |-> cell, x |-> x, y |-> y]
           IN  s \in Placings /\ (x < WIDTH /\ y < HEIGHT => s \in Screens)
BY Sizes DEF Placings, Screens

(* A screen is its three parts, also when some have changed. *)
LEMMA OfParts ==
    ASSUME NEW a, NEW b, NEW d, NEW t \in [cell : {a}, x : {b}, y : {d}]
    PROVE  t = [cell |-> a, x |-> b, y |-> d]
OBVIOUS

LEMMA ChangedParts ==
    ASSUME NEW s \in Placings, NEW u, NEW v
    PROVE  /\ [s EXCEPT !.x = u, !.y = v] = [cell |-> s.cell, x |-> u, y |-> v]
           /\ [s EXCEPT !.cell = u, !.x = v] = [cell |-> u, x |-> v, y |-> s.y]
           /\ [s EXCEPT !.x = u] = [cell |-> s.cell, x |-> u, y |-> s.y]
           /\ s = [cell |-> s.cell, x |-> s.x, y |-> s.y]
           /\ s.cell \in [Memory -> Nat] /\ s.x \in Nat /\ s.y \in 0..HEIGHT
<1> DEFINE C == [Memory -> Nat]
<1>1. s \in [cell : C, x : Nat, y : 0..HEIGHT]
    BY DEF Placings
<1> HIDE DEF C
<1>2. /\ s \in [cell : {s.cell}, x : {s.x}, y : {s.y}]
      /\ s.cell \in C /\ s.x \in Nat /\ s.y \in 0..HEIGHT
    BY <1>1
<1>3. [s EXCEPT !.x = u, !.y = v] \in [cell : {s.cell}, x : {u}, y : {v}]
    BY <1>1
<1>4. [s EXCEPT !.cell = u, !.x = v] \in [cell : {u}, x : {v}, y : {s.y}]
    BY <1>1
<1>5. [s EXCEPT !.x = u] \in [cell : {s.cell}, x : {u}, y : {s.y}]
    BY <1>1
<1>6. s = [cell |-> s.cell, x |-> s.x, y |-> s.y]
    BY <1>2, OfParts
<1>7. [s EXCEPT !.x = u, !.y = v] = [cell |-> s.cell, x |-> u, y |-> v]
    BY <1>3, OfParts
<1>8. [s EXCEPT !.cell = u, !.x = v] = [cell |-> u, x |-> v, y |-> s.y]
    BY <1>4, OfParts
<1>9. [s EXCEPT !.x = u] = [cell |-> s.cell, x |-> u, y |-> s.y]
    BY <1>5, OfParts
<1> QED
    BY <1>2, <1>6, <1>7, <1>8, <1>9 DEF C

(* A store writes one cell, or none. *)
LEMMA StoreTyped ==
    ASSUME NEW cell \in [Memory -> Nat], NEW i, NEW char \in Nat
    PROVE  Store(cell, i, char) \in [Memory -> Nat]
BY DEF Store

(* One row scrolled is in the memory. *)
LEMMA ScrolledTyped ==
    ASSUME NEW cell \in [Memory -> Nat]
    PROVE  ScrolledBy(cell, 1) \in [Memory -> Nat]
<1>1. /\ WIDTH \in Nat \ {0} /\ HEIGHT \in Nat \ {0}
      /\ (HEIGHT - 1) * WIDTH \in Nat
      /\ (HEIGHT - 1) * WIDTH + 2 * WIDTH = WIDTH * (HEIGHT + 1)
    BY Sizes
<1>2. ASSUME NEW i \in Memory, i < (HEIGHT - 1) * WIDTH
      PROVE  i + 1 * WIDTH \in Memory
    BY <1>1, <1>2 DEF Memory
<1> QED
    BY <1>2 DEF ScrolledBy, BLANK

(* A cursor behind its row or below the page comes back into it. *)
LEMMA SettledIs ==
    ASSUME NEW s \in Placings, s.x >= WIDTH => s.y < HEIGHT
    PROVE  /\ Settled(s) \in Screens
           /\ s \in Screens => Settled(s) = s
           /\ s.x = 0 => Settled(s).x = 0
<1> DEFINE t == IF LineFull(s) THEN [s EXCEPT !.x = 0, !.y = @ + 1] ELSE s
<1>0. WIDTH \in Nat \ {0} /\ HEIGHT \in Nat \ {0}
    BY Sizes
<1>1. /\ t \in Placings /\ t.x < WIDTH
      /\ s \in Screens => t = s
      /\ s.x = 0 => t.x = 0
    <2>1. CASE LineFull(s)
        <3>1. s.y + 1 \in 0..HEIGHT /\ s.x >= WIDTH
            BY <1>0, <2>1 DEF LineFull, Placings
        <3>2. t = [s EXCEPT !.x = 0, !.y = s.y + 1]
            BY <2>1
        <3>3. t = [cell |-> s.cell, x |-> 0, y |-> s.y + 1]
            BY <3>2, ChangedParts
        <3>4. s.cell \in [Memory -> Nat]
            BY ChangedParts
        <3>5. t \in Placings
            BY <3>1, <3>3, <3>4, PlacingIs
        <3>6. t.x = 0
            BY <3>3
        <3>7. s \notin Screens
            BY <1>0, <3>1 DEF Screens
        <3> QED
            BY <1>0, <3>5, <3>6, <3>7
    <2>2. CASE ~LineFull(s)
        <3>1. t = s
            BY <2>2
        <3> HIDE DEF t
        <3> QED
            BY <1>0, <2>2, <3>1 DEF LineFull, Placings
    <2> QED
        BY <2>1, <2>2
<1>2. Settled(s) = scroll(t)
    BY Zenon DEF Settled
<1> HIDE DEF t
<1>3. CASE PageFull(t)
    <2>1. t.y = HEIGHT /\ t.y - HEIGHT + 1 = 1
        BY <1>0, <1>1, <1>3 DEF PageFull, Placings
    <2>2. scroll(t) = [cell |-> ScrolledBy(t.cell, 1), x |-> t.x, y |-> HEIGHT - 1]
        BY <1>3, <2>1, Zenon DEF scroll
    <2>3. ScrolledBy(t.cell, 1) \in [Memory -> Nat]
        BY <1>1, ScrolledTyped DEF Placings
    <2>4. t.x \in 0..(WIDTH - 1) /\ HEIGHT - 1 \in 0..(HEIGHT - 1)
        BY <1>0, <1>1 DEF Placings
    <2>5. t \notin Screens
        BY <1>0, <2>1 DEF Screens
    <2>6. scroll(t) \in Screens /\ scroll(t).x = t.x
        BY <2>2, <2>3, <2>4 DEF Screens
    <2> QED
        BY <1>1, <1>2, <2>5, <2>6
<1>4. CASE ~PageFull(t)
    <2>1. scroll(t) = t
        BY <1>4, Zenon DEF scroll
    <2>2. t \in Screens
        BY <1>0, <1>1, <1>4 DEF PageFull, Placings, Screens
    <2> QED
        BY <1>1, <1>2, <2>1, <2>2
<1> QED
    BY <1>3, <1>4

LEMMA DrawnIs ==
    ASSUME NEW s \in Screens, NEW char \in Nat
    PROVE  /\ Drawn(s, char) \in Placings
           /\ Drawn(s, char).x = s.x + 1 /\ Drawn(s, char).y = s.y
           /\ Drawn(s, char).cell = Store(s.cell, s.y * WIDTH + s.x, char)
<1> DEFINE v == Store(s.cell, s.y * WIDTH + s.x, char)
<1>1. v \in [Memory -> Nat]
    BY StoreTyped DEF Screens
<1>2. Drawn(s, char) = [s EXCEPT !.cell = v, !.x = @ + 1]
    BY DEF Drawn
<1> HIDE DEF v
<1>3. Drawn(s, char) \in Placings /\ Drawn(s, char).x = s.x + 1 /\ Drawn(s, char).y = s.y
      /\ Drawn(s, char).cell = v
    <2>1. s \in Placings /\ s.x + 1 \in Nat
        BY Sizes DEF Screens
    <2>2. Drawn(s, char) = [s EXCEPT !.cell = v, !.x = s.x + 1]
        BY <1>2
    <2>3. Drawn(s, char) = [cell |-> v, x |-> s.x + 1, y |-> s.y]
        BY <2>1, <2>2, ChangedParts
    <2>4. s.y \in 0..HEIGHT
        BY <2>1, ChangedParts
    <2> QED
        BY <1>1, <2>1, <2>3, <2>4, PlacingIs
<1> QED
    BY <1>3 DEF v

(***************************************************************************)
(* Induction and folds.                                                     *)
(***************************************************************************)
(* A set of naturals has a least element. *)
LEMMA LeastOf ==
    ASSUME NEW S, S \subseteq Nat, S # {}
    PROVE  \E e \in S : \A x \in S : e <= x
<1>1. PICK e \in S : \A x \in S : ~(<<x, e>> \in OpToRel(<, Nat))
    BY NatLessThanWellFounded, WFMin
<1>2. \A x \in S : ~(x < e)
    BY <1>1, Zenon DEF OpToRel
<1> QED
    BY <1>2

(* Induction up to n, with the set of those for which it holds. *)
LEMMA UpTo ==
    ASSUME NEW n \in Nat, NEW P, 0 \in P, \A i \in 1..n : i - 1 \in P => i \in P
    PROVE  \A i \in 0..n : i \in P
<1> DEFINE Bad == {i \in 0..n : i \notin P}
<1>1. ASSUME Bad # {} PROVE FALSE
    <2>1. Bad \subseteq Nat
        OBVIOUS
    <2>2. PICK b \in Bad : \A x \in Bad : b <= x
        BY <1>1, <2>1, LeastOf
    <2>3. b \in 1..n /\ b - 1 \in 0..n /\ ~(b <= b - 1)
        BY <2>2
    <2>4. b - 1 \in P
        BY <2>2, <2>3
    <2> QED
        BY <2>2, <2>3, <2>4
<1> QED
    BY <1>1

(* The element that a fold takes first. *)
LEMMA MaxIs ==
    ASSUME NEW n \in Nat, NEW u, u \subseteq 1..n, u # {}
    PROVE  Max(u) \in u /\ (n \in u => Max(u) = n)
<1> DEFINE Below == {k \in 0..n : n - k \in u}
<1>1. Below \subseteq Nat /\ Below # {}
    <2>1. PICK x \in u : TRUE
        OBVIOUS
    <2>2. n - x \in 0..n /\ n - (n - x) = x
        BY <2>1
    <2>3. n - x \in Below
        BY <2>1, <2>2
    <2>4. Below \subseteq Nat
        OBVIOUS
    <2> HIDE DEF Below
    <2> QED
        BY <2>3, <2>4
<1>2. PICK b \in Below : \A k \in Below : b <= k
    BY <1>1, LeastOf
<1>3. ASSUME NEW x \in u PROVE n - b >= x
    <2>1. x \in 1..n /\ n - x \in 0..n /\ n - (n - x) = x
        OBVIOUS
    <2>2. n - x \in Below
        BY <2>1
    <2> QED
        BY <1>2, <2>1, <2>2
<1>4. \E e \in u : \A x \in u : e >= x
    BY <1>2, <1>3
<1> DEFINE m == Max(u)
<1>5. m \in u /\ \A x \in u : m >= x
    BY <1>4 DEF Max
<1> HIDE DEF m
<1>6. m \in u /\ (n \in u => m = n)
    BY <1>5
<1> QED
    BY <1>6 DEF m

(* The function that a fold recurses with, for a step that keeps to V. *)
Folded(h, V, base, n, step) ==
    /\ h \in [SUBSET (1..n) -> V]
    /\ \A u \in SUBSET (1..n) :
          h[u] = IF u = {} THEN base ELSE step[Max(u)][h[u \ {Max(u)}]]

LEMMA FoldExists ==
    ASSUME NEW V, NEW base \in V, NEW n \in Nat, NEW step \in [1..n -> [V -> V]]
    PROVE  \E h : Folded(h, V, base, n, step)
<1> DEFINE P == {m \in 0..n : \E h : Folded(h, V, base, m, step)}
<1>1. 0 \in P
    <2> DEFINE h == [u \in SUBSET (1..0) |-> base]
    <2>1. Folded(h, V, base, 0, step)
        BY DEF Folded
    <2> HIDE DEF h
    <2>2. 0 \in 0..n
        OBVIOUS
    <2> QED
        BY <2>1, <2>2
<1>2. ASSUME NEW m \in 1..n, m - 1 \in P PROVE m \in P
    <2>1. PICK h : Folded(h, V, base, m - 1, step)
        BY <1>2
    <2> DEFINE g == [u \in SUBSET (1..m) |-> IF m \in u THEN step[m][h[u \ {m}]] ELSE h[u]]
    <2>2. /\ h \in [SUBSET (1..(m - 1)) -> V]
          /\ \A u \in SUBSET (1..(m - 1)) :
                h[u] = IF u = {} THEN base ELSE step[Max(u)][h[u \ {Max(u)}]]
        BY <2>1 DEF Folded
    <2>3. m \in Nat /\ step[m] \in [V -> V]
        OBVIOUS
    <2>4. ASSUME NEW u \in SUBSET (1..m)
          PROVE  /\ g[u] \in V
                 /\ g[u] = IF u = {} THEN base ELSE step[Max(u)][g[u \ {Max(u)}]]
        <3>1. CASE m \in u
            <4>1. Max(u) = m /\ u # {}
                BY <2>3, <3>1, MaxIs
            <4>2. u \ {m} \in SUBSET (1..(m - 1)) /\ u \ {m} \in SUBSET (1..m) /\ m \notin u \ {m}
                OBVIOUS
            <4>3. g[u \ {m}] = h[u \ {m}] /\ h[u \ {m}] \in V
                BY <2>2, <4>2
            <4>4. g[u] = step[m][h[u \ {m}]]
                BY <3>1
            <4>5. g[u] \in V
                BY <2>3, <4>3, <4>4
            <4> HIDE DEF g
            <4> QED
                BY <4>1, <4>3, <4>4, <4>5
        <3>2. CASE m \notin u
            <4>1. u \in SUBSET (1..(m - 1))
                BY <3>2
            <4>2. g[u] = h[u] /\ h[u] \in V
                BY <2>2, <3>2, <4>1
            <4>3. u # {} => g[u \ {Max(u)}] = h[u \ {Max(u)}]
                <5>1. u \ {Max(u)} \in SUBSET (1..m) /\ m \notin u \ {Max(u)}
                    BY <3>2
                <5> QED
                    BY <5>1
            <4> HIDE DEF g
            <4> QED
                BY <2>2, <4>1, <4>2, <4>3
        <3> QED
            BY <3>1, <3>2
    <2>5. Folded(g, V, base, m, step)
        <3>1. g \in [SUBSET (1..m) -> V]
            BY <2>4
        <3> HIDE DEF g
        <3> QED
            BY <2>4, <3>1 DEF Folded
    <2> HIDE DEF g
    <2>6. m \in 0..n
        OBVIOUS
    <2> QED
        BY <2>5, <2>6
<1>3. n \in P
    <2> HIDE DEF P
    <2>1. n \in 0..n
        OBVIOUS
    <2> QED
        BY <1>1, <1>2, <2>1, UpTo
<1> QED
    BY <1>3

(* A fold's states, from the function that it recurses with. *)
FoldRun(g, V, base, n, step) ==
    /\ g \in [0..n -> V] /\ g[0] = base
    /\ \A i \in 1..n : g[i] = step[i][g[i - 1]]

FoldsWhileIn(iter, V, base, n, step) ==
    /\ iter[{}] = base
    /\ \A u \in SUBSET (1..n) : u # {} /\ iter[u \ {Max(u)}] \in V =>
          iter[u] = step[Max(u)][iter[u \ {Max(u)}]]

LEMMA FoldRuns ==
    ASSUME NEW V, NEW n \in Nat, NEW base \in V, NEW step \in [1..n -> [V -> V]], NEW iter,
           FoldsWhileIn(iter, V, base, n, step)
    PROVE  \E g : FoldRun(g, V, base, n, step) /\ g[n] = iter[1..n]
<1>0. /\ iter[{}] = base
      /\ \A u \in SUBSET (1..n) : u # {} /\ iter[u \ {Max(u)}] \in V =>
            iter[u] = step[Max(u)][iter[u \ {Max(u)}]]
    BY DEF FoldsWhileIn
<1> DEFINE g == [i \in 0..n |-> iter[1..i]]
<1>1. g[0] = base
    <2>1. 1..0 = {} /\ 0 \in 0..n
        OBVIOUS
    <2> QED
        BY <1>0, <2>1
<1>2. ASSUME NEW i \in 1..n, g[i - 1] \in V
      PROVE  g[i] = step[i][g[i - 1]] /\ g[i] \in V
    <2> HIDE DEF g
    <2>0. i \in Nat /\ i >= 1 /\ i <= n /\ n \in Nat
        OBVIOUS
    <2>1. /\ i \in Nat /\ 1..i \in SUBSET (1..n) /\ i \in 1..i /\ 1..i # {}
          /\ i \in 0..n /\ i - 1 \in 0..n
        <3>1. \A j \in 1..i : j \in 1..n
            BY <2>0
        <3>2. i \in 1..i /\ i \in 0..n /\ i - 1 \in 0..n
            BY <2>0
        <3> QED
            BY <2>0, <3>1, <3>2
    <2>2. Max(1..i) = i
        BY <2>1, MaxIs
    <2>3. (1..i) \ {i} = 1..(i - 1)
        BY <2>1
    <2>4. g[i] = iter[1..i] /\ g[i - 1] = iter[1..(i - 1)]
        BY <2>1 DEF g
    <2>5. iter[1..i] = step[i][iter[1..(i - 1)]]
        BY <1>0, <1>2, <2>1, <2>2, <2>3, <2>4
    <2>6. step[i] \in [V -> V]
        OBVIOUS
    <2> QED
        BY <1>2, <2>4, <2>5, <2>6
<1>3. g \in [0..n -> V]
    <2> DEFINE P == {i \in 0..n : g[i] \in V}
    <2>1. 0 \in P
        BY <1>1
    <2>2. ASSUME NEW i \in 1..n, i - 1 \in P PROVE i \in P
        <3>1. i - 1 \in 0..n /\ i \in 0..n
            OBVIOUS
        <3>2. g[i - 1] \in V
            BY <2>2
        <3>3. g[i] \in V
            BY <1>2, <3>2
        <3> QED
            BY <3>1, <3>3
    <2>3. \A i \in 0..n : i \in P
        <3> HIDE DEF P
        <3> QED
            BY <2>1, <2>2, UpTo
    <2> QED
        BY <2>3
<1>4. n \in 0..n
    OBVIOUS
<1>5. g[n] = iter[1..n]
    BY <1>4
<1> HIDE DEF g
<1>6. ASSUME NEW i \in 1..n PROVE g[i] = step[i][g[i - 1]]
    <2>1. i - 1 \in 0..n
        OBVIOUS
    <2> QED
        BY <1>2, <1>3, <2>1
<1> QED
    BY <1>1, <1>3, <1>5, <1>6 DEF FoldRun

(* The part of a division that the cursor needs: rows and columns, and tab stops. *)
LEMMA DivIs ==
    ASSUME NEW q \in Int, NEW b \in Nat \ {0}, NEW r \in 0..(b - 1)
    PROVE  (q * b + r) \div b = q /\ (q * b + r) % b = r
OBVIOUS

LEMMA Divides ==
    ASSUME NEW a \in Int, NEW b \in Nat \ {0}
    PROVE  a \div b \in Int /\ a % b \in 0..(b - 1) /\ a % b = a - (a \div b) * b
<1>1. a \div b \in Int
    OBVIOUS
<1>2. a % b \in 0..(b - 1)
    OBVIOUS
<1>3. a % b = a - (a \div b) * b
    OBVIOUS
<1> QED
    BY <1>1, <1>2, <1>3

LEMMA TabStopIs ==
    ASSUME NEW x \in 0..(WIDTH - 1)
    PROVE  /\ NextTabStop(x) \in Nat /\ NextTabStop(x) <= WIDTH
           /\ NextTabStop(x) = x + TAB - (x % TAB)
<1>1. /\ WIDTH \in Nat \ {0} /\ TAB \in Nat \ {0} /\ x \in Int /\ x < WIDTH
      /\ WIDTH \in Int
    BY ScreenAssumption
<1>2. PICK q : q = x \div TAB
    OBVIOUS
<1>3. PICK k : k = WIDTH \div TAB
    OBVIOUS
<1>4. q \in Int /\ x % TAB \in 0..(TAB - 1) /\ x % TAB = x - q * TAB
    BY <1>1, <1>2, Divides
<1>5. k \in Int /\ 0 = WIDTH - k * TAB
    BY <1>1, <1>3, Divides, ScreenAssumption
<1>6. NextTabStop(x) = (q + 1) * TAB
    BY <1>2 DEF NextTabStop
<1>7. (q + 1) * TAB = q * TAB + TAB
    BY <1>1, <1>4
<1>8. q * TAB \in Int /\ k * TAB \in Int /\ q * TAB < k * TAB
    BY <1>1, <1>4, <1>5
<1>9. q < k
    BY <1>1, <1>4, <1>5, <1>8
<1>10. (q + 1) * TAB <= k * TAB
    BY <1>1, <1>4, <1>5, <1>9
<1>11. NextTabStop(x) \in Nat
    BY <1>1, TabStopAhead
<1> QED
    BY <1>1, <1>4, <1>5, <1>6, <1>7, <1>8, <1>10, <1>11

(* The cell x of the cursor's row is blanked, and the cursor is on it. *)
Wiped(s, x) == [cell |-> Store(s.cell, s.y * WIDTH + x, BLANK), x |-> x, y |-> s.y]

LEMMA ErasedIs ==
    ASSUME NEW s \in Screens, s.x # 0
    PROVE  Erased(s) = Wiped(s, s.x - 1) /\ Wiped(s, s.x - 1) \in Screens
<1> DEFINE back == [s EXCEPT !.x = @ - 1]
           drawn == Drawn(back, BLANK)
           blanked == Settled(drawn)
           end == [blanked EXCEPT !.x = @ - 1]
<1>1. back \in Screens /\ back.x = s.x - 1 /\ back.y = s.y /\ back.cell = s.cell
    BY Sizes DEF Screens
<1>2. /\ drawn \in Placings /\ drawn.x = s.x /\ drawn.y = s.y
      /\ drawn.cell = Store(s.cell, s.y * WIDTH + (s.x - 1), BLANK)
    <2> HIDE DEF back
    <2>1. /\ drawn \in Placings /\ drawn.x = back.x + 1 /\ drawn.y = back.y
          /\ drawn.cell = Store(back.cell, back.y * WIDTH + back.x, BLANK)
        BY <1>1, DrawnIs DEF BLANK
    <2>2. back.x + 1 = s.x
        BY <1>1 DEF Screens
    <2> QED
        BY <1>1, <2>1, <2>2
<1>3. drawn \in Screens /\ blanked = drawn
    <2> HIDE DEF drawn
    <2>1. drawn \in Screens
        BY <1>2 DEF Screens, Placings
    <2>2. drawn.x >= WIDTH => drawn.y < HEIGHT
        BY <2>1, Sizes DEF Screens
    <2> QED
        BY <1>2, <2>1, <2>2, SettledIs
<1>4. end = [cell |-> drawn.cell, x |-> s.x - 1, y |-> s.y]
    <2> HIDE DEF drawn
    <2>1. end = [drawn EXCEPT !.x = s.x - 1]
        BY <1>2, <1>3
    <2> HIDE DEF end
    <2> QED
        BY <1>2, <2>1, ChangedParts
<1>5. Erased(s) = end
    BY DEF Erased
<1>6. s.x - 1 \in 0..(WIDTH - 1) /\ s.y \in 0..(HEIGHT - 1) /\ drawn.cell \in [Memory -> Nat]
    <2> HIDE DEF drawn
    <2> QED
        BY <1>3, Sizes DEF Screens
<1> HIDE DEF end, drawn
<1>7. end = Wiped(s, s.x - 1)
    BY <1>2, <1>4 DEF Wiped
<1>8. end \in Screens
    BY <1>4, <1>6 DEF Screens
<1> QED
    BY <1>5, <1>7, <1>8

(* What putch does before it settles the cursor, by the kind of the character. *)
LEMMA PlacedIs ==
    ASSUME NEW s \in Screens, NEW char \in Nat
    PROVE  /\ char = HTAB => Placed(s, char) = [cell |-> s.cell, x |-> NextTabStop(s.x), y |-> s.y]
           /\ char = RETURN => Placed(s, char) = [cell |-> s.cell, x |-> 0, y |-> s.y]
           /\ char = NEWLINE => Placed(s, char) = [cell |-> s.cell, x |-> 0, y |-> s.y + 1]
           /\ char >= BLANK => Placed(s, char) = Drawn(s, char)
           /\ char = BACKSPACE /\ s.x # 0 => Placed(s, char) = Wiped(s, s.x - 1)
           /\ char = BACKSPACE /\ s.x = 0 => Placed(s, char) = s
           /\ char \notin {BACKSPACE, HTAB, RETURN, NEWLINE} /\ ~(char >= BLANK) => Placed(s, char) = s
<1>0. s \in Placings
    BY Sizes
<1>1. CASE char = HTAB
    <2>1. /\ char # BACKSPACE /\ char # RETURN /\ char # NEWLINE /\ ~(char >= BLANK)
        BY <1>1 DEF BACKSPACE, HTAB, RETURN, NEWLINE, BLANK
    <2>2. Placed(s, char) = [s EXCEPT !.x = NextTabStop(@)]
        BY <1>1, <2>1, Zenon DEF Placed
    <2>3. PICK v : v = NextTabStop(s.x)
        OBVIOUS
    <2>4. Placed(s, char) = [s EXCEPT !.x = v]
        BY <2>2, <2>3
    <2> QED
        BY <1>0, <1>1, <2>1, <2>3, <2>4, ChangedParts
<1>2. CASE char = RETURN
    <2>1. /\ char # BACKSPACE /\ char # HTAB /\ char # NEWLINE /\ ~(char >= BLANK)
        BY <1>2 DEF BACKSPACE, HTAB, RETURN, NEWLINE, BLANK
    <2>2. Placed(s, char) = [s EXCEPT !.x = 0]
        BY <1>2, <2>1, Zenon DEF Placed
    <2> QED
        BY <1>0, <1>2, <2>1, <2>2, ChangedParts
<1>3. CASE char = NEWLINE
    <2>1. /\ char # BACKSPACE /\ char # HTAB /\ char # RETURN /\ ~(char >= BLANK)
        BY <1>3 DEF BACKSPACE, HTAB, RETURN, NEWLINE, BLANK
    <2>2. Placed(s, char) = [s EXCEPT !.x = 0, !.y = @ + 1]
        BY <1>3, <2>1, Zenon DEF Placed
    <2>3. PICK v : v = s.y + 1
        OBVIOUS
    <2>4. Placed(s, char) = [s EXCEPT !.x = 0, !.y = v]
        BY <2>2, <2>3
    <2> QED
        BY <1>0, <1>3, <2>1, <2>3, <2>4, ChangedParts
<1>4. CASE char >= BLANK
    <2>1. /\ char # BACKSPACE /\ char # HTAB /\ char # RETURN /\ char # NEWLINE
        BY <1>4 DEF BACKSPACE, HTAB, RETURN, NEWLINE, BLANK
    <2>2. Placed(s, char) = Drawn(s, char)
        BY <1>4, <2>1, Zenon DEF Placed
    <2> QED
        BY <1>4, <2>1, <2>2
<1>5. CASE char = BACKSPACE
    <2>1. /\ char # HTAB /\ char # RETURN /\ char # NEWLINE /\ ~(char >= BLANK)
        BY <1>5 DEF BACKSPACE, HTAB, RETURN, NEWLINE, BLANK
    <2>2. Placed(s, char) = IF s.x # 0 THEN Erased(s) ELSE s
        BY <1>5, <2>1, Zenon DEF Placed
    <2> QED
        BY <1>5, <2>1, <2>2, ErasedIs
<1>6. CASE char \notin {BACKSPACE, HTAB, RETURN, NEWLINE} /\ ~(char >= BLANK)
    <2>1. /\ char # BACKSPACE /\ char # HTAB /\ char # RETURN /\ char # NEWLINE
        BY <1>6
    <2>2. Placed(s, char) = s
        BY <1>6, <2>1, Zenon DEF Placed
    <2> QED
        BY <1>6, <2>2
<1> QED
    BY <1>1, <1>2, <1>3, <1>4, <1>5, <1>6

LEMMA PlacedTyped ==
    ASSUME NEW s \in Screens, NEW char \in Nat
    PROVE  /\ Placed(s, char) \in Placings /\ Placed(s, char).x <= WIDTH
           /\ Placed(s, char).x >= WIDTH => Placed(s, char).y < HEIGHT
<1>0. /\ s.cell \in [Memory -> Nat] /\ s.x \in 0..(WIDTH - 1) /\ s.y \in 0..(HEIGHT - 1)
      /\ s.y \in 0..HEIGHT /\ s.y + 1 \in 0..HEIGHT /\ s.x \in Nat
      /\ WIDTH \in Nat \ {0} /\ HEIGHT \in Nat \ {0} /\ s \in Placings
    BY Sizes DEF Screens
<1>1. CASE char = HTAB
    <2>1. PICK v : v = NextTabStop(s.x)
        OBVIOUS
    <2>2. v \in Nat /\ v <= WIDTH
        BY <1>0, <2>1, TabStopIs
    <2>3. Placed(s, char) = [cell |-> s.cell, x |-> v, y |-> s.y]
        BY <1>1, <2>1, PlacedIs
    <2>4. [cell |-> s.cell, x |-> v, y |-> s.y] \in Placings
        BY <1>0, <2>2, PlacingIs
    <2> QED
        BY <1>0, <2>2, <2>3, <2>4
<1>2. CASE char = RETURN
    <2>3. Placed(s, char) = [cell |-> s.cell, x |-> 0, y |-> s.y]
        BY <1>2, PlacedIs
    <2>4. [cell |-> s.cell, x |-> 0, y |-> s.y] \in Placings
        BY <1>0, PlacingIs
    <2> QED
        BY <1>0, <2>3, <2>4
<1>3. CASE char = NEWLINE
    <2>3. Placed(s, char) = [cell |-> s.cell, x |-> 0, y |-> s.y + 1]
        BY <1>3, PlacedIs
    <2>4. [cell |-> s.cell, x |-> 0, y |-> s.y + 1] \in Placings
        BY <1>0, PlacingIs
    <2> QED
        BY <1>0, <2>3, <2>4
<1>4. CASE char >= BLANK
    <2>1. Placed(s, char) = Drawn(s, char)
        BY <1>4, PlacedIs
    <2>2. /\ Drawn(s, char) \in Placings /\ Drawn(s, char).x = s.x + 1 /\ Drawn(s, char).y = s.y
        BY DrawnIs
    <2> QED
        BY <1>0, <2>1, <2>2
<1>5. CASE char \in {BACKSPACE} \/ (char \notin {BACKSPACE, HTAB, RETURN, NEWLINE} /\ ~(char >= BLANK))
    <2>1. Placed(s, char) = s \/ (s.x # 0 /\ Placed(s, char) = Wiped(s, s.x - 1))
        BY <1>5, PlacedIs
    <2>2. Placed(s, char) \in Screens
        BY <2>1, ErasedIs
    <2> QED
        BY <1>0, <2>2, Sizes DEF Screens
<1> QED
    BY <1>1, <1>2, <1>3, <1>4, <1>5

(* Any character leaves such a screen. *)
LEMMA PutchTyped ==
    ASSUME NEW s \in Screens, NEW char \in Nat
    PROVE  putch(s, char) \in Screens
<1>1. PICK t : t = Placed(s, char)
    OBVIOUS
<1>2. t \in Placings /\ (t.x >= WIDTH => t.y < HEIGHT)
    BY <1>1, PlacedTyped
<1>3. Settled(t) \in Screens
    BY <1>2, SettledIs
<1> QED
    BY <1>1, <1>3 DEF putch

(* Two runs that start alike, and go on alike, are alike. *)
GoAlike(g, h, n) ==
    /\ g[0] = h[0]
    /\ \A i \in 1..n : g[i - 1] = h[i - 1] => g[i] = h[i]

LEMMA RunsAgree ==
    ASSUME NEW n \in Nat, NEW g, NEW h, GoAlike(g, h, n)
    PROVE  \A i \in 0..n : g[i] = h[i]
<1> DEFINE P == {i \in 0..n : g[i] = h[i]}
<1>1. 0 \in P
    BY DEF GoAlike
<1>2. ASSUME NEW i \in 1..n, i - 1 \in P PROVE i \in P
    BY <1>2 DEF GoAlike
<1>3. \A i \in 0..n : i \in P
    <2> HIDE DEF P
    <2> QED
        BY <1>1, <1>2, UpTo
<1> QED
    BY <1>3

(* The screens of a text as it is printed, a character at a time. *)
Prints(g, s, string) ==
    /\ g[0] = s
    /\ \A i \in 1..Len(string) : g[i] = putch(g[i - 1], string[i])

LEMMA KprintfRuns ==
    ASSUME NEW s \in Screens, NEW string \in Seq(Nat)
    PROVE  \E g : /\ Prints(g, s, string) /\ g \in [0..Len(string) -> Screens]
                 /\ kprintf(s, string) = g[Len(string)]
<1> DEFINE n == Len(string)
           V == Screens
           Unfolded(h) == [u \in SUBSET (DOMAIN string) |->
                           IF u = {} THEN s
                           ELSE putch(h[u \ {Max(u)}], string[Max(u)])]
           iter == CHOOSE h : h = Unfolded(h)
           step == [i \in 1..n |-> [v \in V |-> putch(v, string[i])]]
<1>1. n \in Nat /\ DOMAIN string = 1..n /\ \A i \in 1..n : string[i] \in Nat
    OBVIOUS
<1>2. kprintf(s, string) = iter[DOMAIN string]
    BY Zenon DEF kprintf, FoldLeft, MapThenFoldSet
<1> HIDE DEF n
<1>3. step \in [1..n -> [V -> V]]
    <2>1. \A i \in 1..n : [v \in V |-> putch(v, string[i])] \in [V -> V]
        BY <1>1, PutchTyped
    <2> QED
        BY <2>1
<1>4. \A i \in 1..n, v \in V : step[i][v] = putch(v, string[i])
    OBVIOUS
<1> HIDE DEF step, V
<1>5. s \in V
    BY DEF V
<1>6. PICK h : Folded(h, V, s, n, step)
    BY <1>1, <1>3, <1>5, FoldExists
<1>7. h = Unfolded(h)
    <2>1. /\ h \in [SUBSET (1..n) -> V]
          /\ \A u \in SUBSET (1..n) : h[u] = IF u = {} THEN s ELSE step[Max(u)][h[u \ {Max(u)}]]
        BY <1>6 DEF Folded
    <2>2. ASSUME NEW u \in SUBSET (1..n)
          PROVE  (IF u = {} THEN s
                  ELSE putch(h[u \ {Max(u)}], string[Max(u)])) = h[u]
        <3>1. CASE u = {}
            BY <2>1, <3>1
        <3>2. CASE u # {}
            <4>1. Max(u) \in 1..n
                BY <1>1, <3>2, MaxIs
            <4>2. h[u \ {Max(u)}] \in V
                BY <2>1
            <4> QED
                BY <1>4, <2>1, <3>2, <4>1, <4>2
        <3> QED
            BY <3>1, <3>2
    <2>3. h = [u \in SUBSET (1..n) |-> h[u]]
        BY <2>1
    <2>4. Unfolded(h) = [u \in SUBSET (1..n) |-> h[u]]
        BY <1>1, <2>2
    <2> QED
        BY <2>3, <2>4
<1>8. iter = Unfolded(iter)
    <2> HIDE DEF Unfolded
    <2> QED
        BY <1>7
<1>9. \A u \in SUBSET (1..n) :
          iter[u] = IF u = {} THEN s
                    ELSE putch(iter[u \ {Max(u)}], string[Max(u)])
    <2> HIDE DEF iter
    <2> QED
        BY <1>1, <1>8
<1> HIDE DEF iter
<1>10. FoldsWhileIn(iter, V, s, n, step)
    <2>1. iter[{}] = s
        BY <1>9
    <2>2. ASSUME NEW u \in SUBSET (1..n), u # {}, iter[u \ {Max(u)}] \in V
          PROVE  iter[u] = step[Max(u)][iter[u \ {Max(u)}]]
        <3>1. PICK w : w = iter[u \ {Max(u)}]
            OBVIOUS
        <3>2. Max(u) \in 1..n
            BY <1>1, <2>2, MaxIs
        <3>3. iter[u] = putch(w, string[Max(u)])
            BY <1>9, <2>2, <3>1
        <3>4. step[Max(u)][w] = putch(w, string[Max(u)])
            BY <1>4, <2>2, <3>1, <3>2
        <3> QED
            BY <3>1, <3>3, <3>4
    <2> QED
        BY <2>1, <2>2 DEF FoldsWhileIn
<1>11. PICK g : FoldRun(g, V, s, n, step) /\ g[n] = iter[1..n]
    BY <1>1, <1>3, <1>5, <1>10, FoldRuns
<1>12. /\ g \in [0..n -> V] /\ g[0] = s
       /\ \A i \in 1..n : g[i] = step[i][g[i - 1]]
    BY <1>11 DEF FoldRun
<1>13. ASSUME NEW i \in 1..n PROVE g[i] = putch(g[i - 1], string[i])
    <2>1. i - 1 \in 0..n
        BY <1>1
    <2>2. g[i - 1] \in V
        BY <1>12, <2>1
    <2> QED
        BY <1>4, <1>12, <2>2
<1>14. kprintf(s, string) = g[n]
    BY <1>1, <1>2, <1>11
<1> QED
    BY <1>12, <1>13, <1>14 DEF Prints, n, V

LEMMA KprintfBy ==
    ASSUME NEW s \in Screens, NEW string \in Seq(Nat), NEW g, Prints(g, s, string)
    PROVE  /\ kprintf(s, string) = g[Len(string)]
           /\ \A i \in 0..Len(string) : g[i] \in Screens
<1>1. PICK h : /\ Prints(h, s, string) /\ h \in [0..Len(string) -> Screens]
               /\ kprintf(s, string) = h[Len(string)]
    BY KprintfRuns
<1>2. PICK n : n = Len(string) /\ n \in Nat
    OBVIOUS
<1>3. \A i \in 1..n : g[i - 1] = h[i - 1] => g[i] = h[i]
    BY <1>1, <1>2 DEF Prints
<1>4. g[0] = h[0]
    BY <1>1 DEF Prints
<1>5. \A i \in 0..n : g[i] = h[i]
    <2>1. GoAlike(g, h, n)
        BY <1>3, <1>4 DEF GoAlike
    <2> QED
        BY <1>2, <2>1, RunsAgree
<1>6. n \in 0..n
    BY <1>2
<1> QED
    BY <1>1, <1>2, <1>5, <1>6

LEMMA KprintfNone == ASSUME NEW s PROVE kprintf(s, <<>>) = s
<1> DEFINE string == <<>>
           Unfolded(h) == [u \in SUBSET (DOMAIN string) |->
                           IF u = {} THEN s ELSE putch(h[u \ {Max(u)}], string[Max(u)])]
           iter == CHOOSE h : h = Unfolded(h)
<1>1. kprintf(s, string) = iter[DOMAIN string]
    BY Zenon DEF kprintf, FoldLeft, MapThenFoldSet
<1>2. DOMAIN string = {} /\ SUBSET (DOMAIN string) = {{}}
    OBVIOUS
<1>3. PICK h : h = [u \in SUBSET (DOMAIN string) |-> s]
    OBVIOUS
<1>4. h = Unfolded(h)
    BY <1>2, <1>3
<1>5. iter = Unfolded(iter)
    <2> HIDE DEF Unfolded
    <2> QED
        BY <1>4
<1> HIDE DEF iter
<1>6. iter[{}] = s
    BY <1>2, <1>5
<1> QED
    BY <1>1, <1>2, <1>6

(***************************************************************************)
(* The page.                                                                *)
(***************************************************************************)
Pages(size) == [cell : [0..(size - 1) -> Nat], at : Int, top : Int]

LEMMA TypedTyped ==
    ASSUME NEW who, NEW size \in Nat, NEW page \in Pages(size), NEW char \in Nat
    PROVE  Typed(who, page, char) \in Pages(size)
<1> DEFINE at == page.at
           back == who = "program" \/ at % WIDTH # 0
           to == CASE char = BACKSPACE -> IF back THEN at - 1 ELSE at
                   [] char = HTAB      -> at + TAB - (at % TAB)
                   [] char = RETURN    -> at - (at % WIDTH)
                   [] char = NEWLINE   -> at + WIDTH - (at % WIDTH)
                   [] char >= BLANK    -> at + 1
                   [] OTHER            -> at
           row == to \div WIDTH - HEIGHT + 1
           cell == [i \in DOMAIN page.cell |->
                       IF char >= BLANK /\ i = at THEN char
                       ELSE IF char = BACKSPACE /\ who = "kernel" /\ back /\ i = to
                       THEN BLANK ELSE page.cell[i]]
           top == IF row > page.top THEN row ELSE page.top
<1>1. /\ page.cell \in [0..(size - 1) -> Nat] /\ at \in Int /\ page.top \in Int
    BY DEF Pages
<1> HIDE DEF at
<1>2. at % WIDTH \in Int /\ at % TAB \in Int /\ TAB \in Int /\ WIDTH \in Int /\ HEIGHT \in Int
    <2>1. WIDTH \in Nat \ {0} /\ TAB \in Nat \ {0} /\ HEIGHT \in Int
        BY ScreenAssumption
    <2>2. at % WIDTH \in 0..(WIDTH - 1) /\ at % TAB \in 0..(TAB - 1)
        BY <1>1, <2>1, Divides
    <2> QED
        BY <2>1, <2>2
<1>3. to \in {at - 1, at, at + TAB - (at % TAB), at - (at % WIDTH),
              at + WIDTH - (at % WIDTH), at + 1}
    BY Zenon
<1>4. Typed(who, page, char) = [cell |-> cell, at |-> to, top |-> top]
    BY Zenon DEF Typed, at
<1> HIDE DEF to
<1>5. to \in Int
    BY <1>2, <1>3, <1>1
<1>6. row \in Int
    BY <1>2, <1>5, Divides, ScreenAssumption
<1>7. cell \in [0..(size - 1) -> Nat]
    BY <1>1 DEF BLANK
<1>8. top \in Int
    BY <1>1, <1>6
<1> HIDE DEF cell, top
<1> QED
    BY <1>4, <1>5, <1>7, <1>8 DEF Pages

(* The pages of a text as it is printed. *)
Types(g, who, page, text) ==
    /\ g[0] = page
    /\ \A i \in 1..Len(text) : g[i] = Typed(who, g[i - 1], text[i])

LEMMA PageRuns ==
    ASSUME NEW who, NEW size \in Nat, NEW page \in Pages(size), NEW text \in Seq(Nat)
    PROVE  \E g : /\ Types(g, who, page, text) /\ g \in [0..Len(text) -> Pages(size)]
                 /\ PrintedOn(who, page, text) = g[Len(text)]
<1> DEFINE n == Len(text)
           V == Pages(size)
           Unfolded(h) == [u \in SUBSET (DOMAIN text) |->
                           IF u = {} THEN page
                           ELSE Typed(who, h[u \ {Max(u)}], text[Max(u)])]
           iter == CHOOSE h : h = Unfolded(h)
           step == [i \in 1..n |-> [v \in V |-> Typed(who, v, text[i])]]
<1>1. n \in Nat /\ DOMAIN text = 1..n /\ \A i \in 1..n : text[i] \in Nat
    OBVIOUS
<1>2. PrintedOn(who, page, text) = iter[DOMAIN text]
    BY Zenon DEF PrintedOn, FoldLeft, MapThenFoldSet
<1> HIDE DEF n
<1>3. step \in [1..n -> [V -> V]]
    <2>1. \A i \in 1..n : [v \in V |-> Typed(who, v, text[i])] \in [V -> V]
        BY <1>1, TypedTyped
    <2> QED
        BY <2>1
<1>4. \A i \in 1..n, v \in V : step[i][v] = Typed(who, v, text[i])
    OBVIOUS
<1> HIDE DEF step, V
<1>5. page \in V
    BY DEF V
<1>6. PICK h : Folded(h, V, page, n, step)
    BY <1>1, <1>3, <1>5, FoldExists
<1>7. h = Unfolded(h)
    <2>1. /\ h \in [SUBSET (1..n) -> V]
          /\ \A u \in SUBSET (1..n) : h[u] = IF u = {} THEN page ELSE step[Max(u)][h[u \ {Max(u)}]]
        BY <1>6 DEF Folded
    <2>2. ASSUME NEW u \in SUBSET (1..n)
          PROVE  (IF u = {} THEN page
                  ELSE Typed(who, h[u \ {Max(u)}], text[Max(u)])) = h[u]
        <3>1. CASE u = {}
            BY <2>1, <3>1
        <3>2. CASE u # {}
            <4>1. Max(u) \in 1..n
                BY <1>1, <3>2, MaxIs
            <4>2. h[u \ {Max(u)}] \in V
                BY <2>1
            <4> QED
                BY <1>4, <2>1, <3>2, <4>1, <4>2
        <3> QED
            BY <3>1, <3>2
    <2>3. h = [u \in SUBSET (1..n) |-> h[u]]
        BY <2>1
    <2>4. Unfolded(h) = [u \in SUBSET (1..n) |-> h[u]]
        BY <1>1, <2>2
    <2> QED
        BY <2>3, <2>4
<1>8. iter = Unfolded(iter)
    <2> HIDE DEF Unfolded
    <2> QED
        BY <1>7
<1>9. \A u \in SUBSET (1..n) :
          iter[u] = IF u = {} THEN page
                    ELSE Typed(who, iter[u \ {Max(u)}], text[Max(u)])
    <2> HIDE DEF iter
    <2> QED
        BY <1>1, <1>8
<1> HIDE DEF iter
<1>10. FoldsWhileIn(iter, V, page, n, step)
    <2>1. iter[{}] = page
        BY <1>9
    <2>2. ASSUME NEW u \in SUBSET (1..n), u # {}, iter[u \ {Max(u)}] \in V
          PROVE  iter[u] = step[Max(u)][iter[u \ {Max(u)}]]
        <3>1. PICK w : w = iter[u \ {Max(u)}]
            OBVIOUS
        <3>2. Max(u) \in 1..n
            BY <1>1, <2>2, MaxIs
        <3>3. iter[u] = Typed(who, w, text[Max(u)])
            BY <1>9, <2>2, <3>1
        <3>4. step[Max(u)][w] = Typed(who, w, text[Max(u)])
            BY <1>4, <2>2, <3>1, <3>2
        <3> QED
            BY <3>1, <3>3, <3>4
    <2> QED
        BY <2>1, <2>2 DEF FoldsWhileIn
<1>11. PICK g : FoldRun(g, V, page, n, step) /\ g[n] = iter[1..n]
    BY <1>1, <1>3, <1>5, <1>10, FoldRuns
<1>12. /\ g \in [0..n -> V] /\ g[0] = page
       /\ \A i \in 1..n : g[i] = step[i][g[i - 1]]
    BY <1>11 DEF FoldRun
<1>13. ASSUME NEW i \in 1..n PROVE g[i] = Typed(who, g[i - 1], text[i])
    <2>1. i - 1 \in 0..n
        BY <1>1
    <2>2. g[i - 1] \in V
        BY <1>12, <2>1
    <2> QED
        BY <1>4, <1>12, <2>2
<1>14. PrintedOn(who, page, text) = g[n]
    BY <1>1, <1>2, <1>11
<1> QED
    BY <1>12, <1>13, <1>14 DEF Types, n, V

LEMMA PageBy ==
    ASSUME NEW who, NEW size \in Nat, NEW page \in Pages(size), NEW text \in Seq(Nat), NEW g, Types(g, who, page, text)
    PROVE  /\ PrintedOn(who, page, text) = g[Len(text)]
           /\ \A i \in 0..Len(text) : g[i] \in Pages(size)
<1>1. PICK h : /\ Types(h, who, page, text) /\ h \in [0..Len(text) -> Pages(size)]
               /\ PrintedOn(who, page, text) = h[Len(text)]
    BY PageRuns
<1>2. PICK n : n = Len(text) /\ n \in Nat
    OBVIOUS
<1>3. \A i \in 1..n : g[i - 1] = h[i - 1] => g[i] = h[i]
    BY <1>1, <1>2 DEF Types
<1>4. g[0] = h[0]
    BY <1>1 DEF Types
<1>5. \A i \in 0..n : g[i] = h[i]
    <2>1. GoAlike(g, h, n)
        BY <1>3, <1>4 DEF GoAlike
    <2> QED
        BY <1>2, <2>1, RunsAgree
<1>6. n \in 0..n
    BY <1>2
<1> QED
    BY <1>1, <1>2, <1>5, <1>6

LEMMA KprintfTyped ==
    ASSUME NEW s \in Screens, NEW string \in Seq(Nat)
    PROVE  kprintf(s, string) \in Screens
<1>1. PICK g : /\ g \in [0..Len(string) -> Screens] /\ kprintf(s, string) = g[Len(string)]
    BY KprintfRuns
<1>2. Len(string) \in 0..Len(string)
    OBVIOUS
<1> QED
    BY <1>1, <1>2

(* A character more, and a text more. *)
LEMMA KprintfAppends ==
    ASSUME NEW s \in Screens, NEW string \in Seq(Nat), NEW char \in Nat
    PROVE  kprintf(s, Append(string, char)) = putch(kprintf(s, string), char)
<1>1. PICK both : both = Append(string, char)
    OBVIOUS
<1>2. PICK n : n = Len(string)
    OBVIOUS
<1>3. /\ both \in Seq(Nat) /\ n \in Nat /\ Len(both) = n + 1 /\ both[n + 1] = char
      /\ \A i \in 1..n : both[i] = string[i]
    BY <1>1, <1>2
<1>4. PICK g : Prints(g, s, both) /\ kprintf(s, both) = g[Len(both)]
    BY <1>3, KprintfRuns
<1>5. /\ g[0] = s /\ \A i \in 1..(n + 1) : g[i] = putch(g[i - 1], both[i])
    BY <1>3, <1>4 DEF Prints
<1>6. \A i \in 1..n : g[i] = putch(g[i - 1], string[i])
    BY <1>3, <1>5
<1>7. Prints(g, s, string)
    BY <1>2, <1>5, <1>6 DEF Prints
<1>8. kprintf(s, string) = g[n]
    BY <1>2, <1>7, KprintfBy
<1>9. g[n + 1] = putch(g[n], char)
    <2>1. n + 1 \in 1..(n + 1) /\ n + 1 - 1 = n
        BY <1>3
    <2> QED
        BY <1>3, <1>5, <2>1
<1> QED
    BY <1>1, <1>3, <1>4, <1>8, <1>9

LEMMA KprintfJoins ==
    ASSUME NEW s \in Screens, NEW a \in Seq(Nat), NEW b \in Seq(Nat)
    PROVE  kprintf(s, a \o b) = kprintf(kprintf(s, a), b)
<1>1. PICK both : both = a \o b
    OBVIOUS
<1>2. PICK m : m = Len(a)
    OBVIOUS
<1>3. PICK n : n = Len(b)
    OBVIOUS
<1>4. /\ both \in Seq(Nat) /\ m \in Nat /\ n \in Nat /\ Len(both) = m + n
      /\ \A i \in 1..m : both[i] = a[i]
      /\ \A i \in 1..n : both[m + i] = b[i]
    BY <1>1, <1>2, <1>3
<1>5. PICK g : Prints(g, s, both) /\ kprintf(s, both) = g[Len(both)]
    BY <1>4, KprintfRuns
<1>6. /\ g[0] = s /\ \A i \in 1..(m + n) : g[i] = putch(g[i - 1], both[i])
    BY <1>4, <1>5 DEF Prints
<1>7. \A i \in 1..m : g[i] = putch(g[i - 1], a[i])
    <2>1. \A i \in 1..m : i \in 1..(m + n)
        BY <1>4
    <2> QED
        BY <1>4, <1>6, <2>1
<1>8. Prints(g, s, a)
    BY <1>2, <1>6, <1>7 DEF Prints
<1>9. kprintf(s, a) = g[m] /\ g[m] \in Screens
    <2>1. m \in 0..m
        BY <1>4
    <2> QED
        BY <1>2, <1>8, <2>1, KprintfBy
<1> DEFINE h == [i \in 0..n |-> g[m + i]]
<1>10. h[0] = g[m] /\ h[n] = g[m + n]
    <2>1. 0 \in 0..n /\ n \in 0..n /\ m + 0 = m
        BY <1>4
    <2> QED
        BY <2>1
<1>11. ASSUME NEW i \in 1..n PROVE h[i] = putch(h[i - 1], b[i])
    <2>0. PICK j : j = m + i
        OBVIOUS
    <2>1. /\ i \in 0..n /\ i - 1 \in 0..n /\ j \in 1..(m + n) /\ m + (i - 1) = j - 1
        BY <1>4, <2>0
    <2>2. g[j] = putch(g[j - 1], both[j]) /\ both[j] = b[i]
        BY <1>4, <1>6, <2>0, <2>1
    <2>3. h[i] = g[j] /\ h[i - 1] = g[j - 1]
        BY <2>0, <2>1
    <2> HIDE DEF h
    <2> QED
        BY <2>2, <2>3
<1> HIDE DEF h
<1>12. Prints(h, g[m], b)
    BY <1>3, <1>10, <1>11 DEF Prints
<1>13. kprintf(g[m], b) = h[n]
    BY <1>3, <1>9, <1>12, KprintfBy
<1> QED
    BY <1>1, <1>4, <1>5, <1>9, <1>10, <1>13

(* What is left of a text when its first character has been printed. *)
LEMMA KprintfGoesOn ==
    ASSUME NEW s \in Screens, NEW string \in Seq(Nat), string # <<>>
    PROVE  kprintf(s, string) = kprintf(putch(s, Head(string)), Tail(string))
<1>1. PICK char : char = Head(string)
    OBVIOUS
<1>2. PICK rest : rest = Tail(string)
    OBVIOUS
<1>3. char \in Nat /\ rest \in Seq(Nat) /\ string = <<char>> \o rest
    BY <1>1, <1>2
<1>4. <<char>> = Append(<<>>, char) /\ <<>> \in Seq(Nat) /\ <<char>> \in Seq(Nat)
    BY <1>3
<1>5. kprintf(s, <<char>>) = putch(s, char)
    <2>1. kprintf(s, Append(<<>>, char)) = putch(kprintf(s, <<>>), char)
        BY <1>3, <1>4, KprintfAppends
    <2> QED
        BY <1>4, <2>1, KprintfNone
<1>6. PICK one : one = <<char>>
    OBVIOUS
<1>7. one \in Seq(Nat)
    BY <1>4, <1>6
<1>8. kprintf(s, one \o rest) = kprintf(kprintf(s, one), rest)
    BY <1>3, <1>7, KprintfJoins
<1>9. string = one \o rest /\ kprintf(s, one) = putch(s, char)
    BY <1>3, <1>5, <1>6
<1> QED
    BY <1>1, <1>2, <1>8, <1>9, Zenon

LEMMA PageAppends ==
    ASSUME NEW who, NEW size \in Nat, NEW page \in Pages(size), NEW text \in Seq(Nat), NEW char \in Nat
    PROVE  /\ PrintedOn(who, page, Append(text, char)) = Typed(who, PrintedOn(who, page, text), char)
           /\ PrintedOn(who, page, text) \in Pages(size)
<1>1. PICK both : both = Append(text, char)
    OBVIOUS
<1>2. PICK n : n = Len(text)
    OBVIOUS
<1>3. /\ both \in Seq(Nat) /\ n \in Nat /\ Len(both) = n + 1 /\ both[n + 1] = char
      /\ \A i \in 1..n : both[i] = text[i]
    BY <1>1, <1>2
<1>4. PICK g : /\ Types(g, who, page, both) /\ g \in [0..Len(both) -> Pages(size)]
               /\ PrintedOn(who, page, both) = g[Len(both)]
    BY <1>3, PageRuns
<1>5. /\ g[0] = page /\ \A i \in 1..(n + 1) : g[i] = Typed(who, g[i - 1], both[i])
    BY <1>3, <1>4 DEF Types
<1>6. \A i \in 1..n : g[i] = Typed(who, g[i - 1], text[i])
    BY <1>3, <1>5
<1>7. Types(g, who, page, text)
    BY <1>2, <1>5, <1>6 DEF Types
<1>8. PrintedOn(who, page, text) = g[n] /\ g[n] \in Pages(size)
    <2>1. n \in 0..n
        BY <1>3
    <2> QED
        BY <1>2, <1>7, <2>1, PageBy
<1>9. g[n + 1] = Typed(who, g[n], char)
    <2>1. n + 1 \in 1..(n + 1) /\ n + 1 - 1 = n
        BY <1>3
    <2> QED
        BY <1>3, <1>5, <2>1
<1> QED
    BY <1>1, <1>3, <1>4, <1>8, <1>9

LEMMA PageNone == ASSUME NEW who, NEW size \in Nat, NEW page \in Pages(size)
                  PROVE  PrintedOn(who, page, <<>>) = page
<1>1. <<>> \in Seq(Nat) /\ Len(<<>>) = 0
    OBVIOUS
<1>2. PICK g : Types(g, who, page, <<>>) /\ PrintedOn(who, page, <<>>) = g[Len(<<>>)]
    BY <1>1, PageRuns
<1> QED
    BY <1>1, <1>2 DEF Types

(***************************************************************************)
(* What a screen shows of a page, when `top' is its first row and the place *)
(* of its cursor is `at'.  What is below the screen on the page is blank.   *)
(***************************************************************************)
Lies(s, cell, size, top, at) ==
    /\ top \in Nat /\ at = (top + s.y) * WIDTH + s.x
    /\ \A i \in Text : s.cell[i] = cell[top * WIDTH + i]
    /\ \A i \in 0..(size - 1) : i >= (top + HEIGHT) * WIDTH => cell[i] = BLANK

TopOf(top, at) == IF at \div WIDTH - HEIGHT + 1 > top THEN at \div WIDTH - HEIGHT + 1 ELSE top

(* The text is what the first rows of the memory hold. *)
LEMMA TextIs ==
    /\ WIDTH \in Nat \ {0} /\ HEIGHT \in Nat \ {0}
    /\ WIDTH * HEIGHT \in Nat /\ Text \subseteq Nat /\ Text \subseteq Memory
    /\ (HEIGHT - 1) * WIDTH + WIDTH = WIDTH * HEIGHT /\ (HEIGHT - 1) * WIDTH \in Nat
<1>1. WIDTH \in Nat \ {0} /\ HEIGHT \in Nat \ {0}
    BY ScreenAssumption
<1>2. WIDTH * HEIGHT \in Nat /\ WIDTH * (HEIGHT + 1) = WIDTH * HEIGHT + WIDTH
    BY <1>1
<1>3. (HEIGHT - 1) * WIDTH + WIDTH = WIDTH * HEIGHT /\ (HEIGHT - 1) * WIDTH \in Nat
    BY <1>1
<1> QED
    BY <1>1, <1>2, <1>3 DEF Text, Memory

(* Rows of the page. *)
LEMMA RowsIs ==
    ASSUME NEW t \in Nat
    PROVE  /\ t * WIDTH \in Nat /\ (t + 1) * WIDTH = t * WIDTH + WIDTH
           /\ (t + HEIGHT) * WIDTH = t * WIDTH + WIDTH * HEIGHT
           /\ (t + 1 + HEIGHT) * WIDTH = t * WIDTH + WIDTH * HEIGHT + WIDTH
BY TextIs

LEMMA SettledLies ==
    ASSUME NEW s \in Placings, s.x <= WIDTH, s.x >= WIDTH => s.y < HEIGHT,
           NEW cell, NEW size \in Nat, NEW top, NEW at, Lies(s, cell, size, top, at),
           (top + 1 + HEIGHT) * WIDTH <= size
    PROVE  /\ Lies(Settled(s), cell, size, TopOf(top, at), at)
           /\ TopOf(top, at) \in {top, top + 1}
<1>0. /\ WIDTH \in Nat \ {0} /\ HEIGHT \in Nat \ {0} /\ top \in Nat
      /\ s.cell \in [Memory -> Nat] /\ s.x \in Nat /\ s.y \in 0..HEIGHT
      /\ at = (top + s.y) * WIDTH + s.x
      /\ \A i \in Text : s.cell[i] = cell[top * WIDTH + i]
      /\ \A i \in 0..(size - 1) : i >= (top + HEIGHT) * WIDTH => cell[i] = BLANK
    BY Sizes, ChangedParts DEF Lies
<1> DEFINE u == IF LineFull(s) THEN [s EXCEPT !.x = 0, !.y = @ + 1] ELSE s
<1>1. /\ u.cell = s.cell /\ u.x \in 0..(WIDTH - 1) /\ u.y \in 0..HEIGHT
      /\ at = (top + u.y) * WIDTH + u.x
    <2>1. CASE LineFull(s)
        <3>1. s.x = WIDTH /\ s.y < HEIGHT
            BY <1>0, <2>1 DEF LineFull
        <3>2. PICK v : v = s.y + 1
            OBVIOUS
        <3>3. u = [s EXCEPT !.x = 0, !.y = v]
            BY <2>1, <3>2
        <3>4. u = [cell |-> s.cell, x |-> 0, y |-> v]
            BY <3>3, ChangedParts
        <3>5. PICK z : z = s.y
            OBVIOUS
        <3>6. (top + v) * WIDTH = (top + z) * WIDTH + WIDTH
            BY <1>0, <3>2, <3>5
        <3>7. (top + z) * WIDTH \in Nat
            BY <1>0, <3>5
        <3> HIDE DEF u
        <3> QED
            BY <1>0, <3>1, <3>2, <3>4, <3>5, <3>6, <3>7
    <2>2. CASE ~LineFull(s)
        <3>1. u = s
            BY <2>2
        <3> HIDE DEF u
        <3> QED
            BY <1>0, <2>2, <3>1 DEF LineFull
    <2> QED
        BY <2>1, <2>2
<1>2. Settled(s) = scroll(u)
    BY Zenon DEF Settled
<1> HIDE DEF u
<1>3. at \div WIDTH = top + u.y
    <2>1. PICK q : q = top + u.y
        OBVIOUS
    <2>2. q \in Int /\ at = q * WIDTH + u.x
        BY <1>0, <1>1, <2>1
    <2>3. (q * WIDTH + u.x) \div WIDTH = q
        BY <1>0, <1>1, <2>2, DivIs
    <2> QED
        BY <2>1, <2>2, <2>3
<1>4. CASE PageFull(u)
    <2>1. u.y = HEIGHT /\ u.y - HEIGHT + 1 = 1
        BY <1>0, <1>1, <1>4 DEF PageFull
    <2>2. scroll(u) = [cell |-> ScrolledBy(s.cell, 1), x |-> u.x, y |-> HEIGHT - 1]
        BY <1>1, <1>4, <2>1, Zenon DEF scroll
    <2>3. TopOf(top, at) = top + 1
        BY <1>0, <1>3, <2>1 DEF TopOf
    <2>4. at = (top + 1 + (HEIGHT - 1)) * WIDTH + u.x
        <3>1. top + 1 + (HEIGHT - 1) = top + u.y
            BY <1>0, <2>1
        <3> QED
            BY <1>1, <3>1
    <2>5. ASSUME NEW i \in Text PROVE ScrolledBy(s.cell, 1)[i] = cell[(top + 1) * WIDTH + i]
        <3>1. /\ i \in Nat /\ i < WIDTH * HEIGHT /\ i \in Memory
              /\ WIDTH * HEIGHT \in Nat /\ (HEIGHT - 1) * WIDTH + WIDTH = WIDTH * HEIGHT
              /\ (HEIGHT - 1) * WIDTH \in Nat
            BY TextIs DEF Text
        <3>2. /\ top * WIDTH \in Nat /\ (top + 1) * WIDTH = top * WIDTH + WIDTH
              /\ (top + HEIGHT) * WIDTH = top * WIDTH + WIDTH * HEIGHT
              /\ (top + 1 + HEIGHT) * WIDTH = top * WIDTH + WIDTH * HEIGHT + WIDTH
            BY <1>0, RowsIs
        <3>3. CASE i < (HEIGHT - 1) * WIDTH
            <4>1. ScrolledBy(s.cell, 1)[i] = s.cell[i + WIDTH]
                BY <1>0, <3>1, <3>3 DEF ScrolledBy
            <4>2. i + WIDTH \in Text
                BY <1>0, <3>1, <3>3 DEF Text
            <4>3. s.cell[i + WIDTH] = cell[top * WIDTH + (i + WIDTH)]
                BY <1>0, <4>2
            <4>4. top * WIDTH + (i + WIDTH) = (top + 1) * WIDTH + i
                BY <1>0, <3>1, <3>2
            <4> QED
                BY <4>1, <4>3, <4>4
        <3>4. CASE ~(i < (HEIGHT - 1) * WIDTH)
            <4>1. i < (HEIGHT - 1) * WIDTH + WIDTH
                BY <3>1
            <4>2. ScrolledBy(s.cell, 1)[i] = BLANK
                BY <1>0, <3>1, <3>4, <4>1 DEF ScrolledBy
            <4>3. /\ (top + 1) * WIDTH + i \in 0..(size - 1)
                  /\ (top + 1) * WIDTH + i >= (top + HEIGHT) * WIDTH
                BY <1>0, <3>1, <3>2, <3>4
            <4> QED
                BY <1>0, <4>2, <4>3
        <3> QED
            BY <3>3, <3>4
    <2>6. ASSUME NEW i \in 0..(size - 1), i >= (top + 1 + HEIGHT) * WIDTH PROVE cell[i] = BLANK
        <3>1. i >= (top + HEIGHT) * WIDTH
            <4>1. /\ (top + HEIGHT) * WIDTH = top * WIDTH + WIDTH * HEIGHT
                  /\ (top + 1 + HEIGHT) * WIDTH = top * WIDTH + WIDTH * HEIGHT + WIDTH
                  /\ top * WIDTH \in Nat /\ WIDTH * HEIGHT \in Nat
                BY <1>0, RowsIs, TextIs
            <4> QED
                BY <1>0, <2>6, <4>1
        <3> QED
            BY <1>0, <3>1
    <2>7. PICK w : w = scroll(u)
        OBVIOUS
    <2>8. w.cell = ScrolledBy(s.cell, 1) /\ w.x = u.x /\ w.y = HEIGHT - 1
        BY <2>2, <2>7
    <2>9. Lies(w, cell, size, top + 1, at)
        BY <1>0, <2>4, <2>5, <2>6, <2>8 DEF Lies
    <2> QED
        BY <1>2, <2>3, <2>7, <2>9
<1>5. CASE ~PageFull(u)
    <2>1. scroll(u) = u
        BY <1>5, Zenon DEF scroll
    <2>2. TopOf(top, at) = top
        BY <1>0, <1>1, <1>3, <1>5 DEF TopOf, PageFull
    <2>3. Lies(u, cell, size, top, at)
        BY <1>0, <1>1 DEF Lies
    <2> QED
        BY <1>2, <2>1, <2>2, <2>3
<1> QED
    BY <1>4, <1>5

(***************************************************************************)
(* A character on the page.                                                 *)
(***************************************************************************)
Back(who, at) == who = "program" \/ at % WIDTH # 0

To(who, at, char) ==
    CASE char = BACKSPACE -> IF Back(who, at) THEN at - 1 ELSE at
      [] char = HTAB      -> at + TAB - (at % TAB)
      [] char = RETURN    -> at - (at % WIDTH)
      [] char = NEWLINE   -> at + WIDTH - (at % WIDTH)
      [] char >= BLANK    -> at + 1
      [] OTHER            -> at

LEMMA ToIs ==
    ASSUME NEW who, NEW at, NEW char \in Nat
    PROVE  /\ char = BACKSPACE => To(who, at, char) = IF Back(who, at) THEN at - 1 ELSE at
           /\ char = HTAB => To(who, at, char) = at + TAB - (at % TAB)
           /\ char = RETURN => To(who, at, char) = at - (at % WIDTH)
           /\ char = NEWLINE => To(who, at, char) = at + WIDTH - (at % WIDTH)
           /\ char >= BLANK => To(who, at, char) = at + 1
           /\ char \notin {BACKSPACE, HTAB, RETURN, NEWLINE} /\ ~(char >= BLANK) =>
                To(who, at, char) = at
<1>1. CASE char = BACKSPACE
    <2>1. char # HTAB /\ char # RETURN /\ char # NEWLINE /\ ~(char >= BLANK)
        BY <1>1 DEF BACKSPACE, HTAB, RETURN, NEWLINE, BLANK
    <2>2. To(who, at, char) = IF Back(who, at) THEN at - 1 ELSE at
        BY <1>1, <2>1, Zenon DEF To
    <2> QED
        BY <1>1, <2>1, <2>2
<1>2. CASE char = HTAB
    <2>1. char # BACKSPACE /\ char # RETURN /\ char # NEWLINE /\ ~(char >= BLANK)
        BY <1>2 DEF BACKSPACE, HTAB, RETURN, NEWLINE, BLANK
    <2>2. To(who, at, char) = at + TAB - (at % TAB)
        BY <1>2, <2>1, Zenon DEF To
    <2> QED
        BY <1>2, <2>1, <2>2
<1>3. CASE char = RETURN
    <2>1. char # BACKSPACE /\ char # HTAB /\ char # NEWLINE /\ ~(char >= BLANK)
        BY <1>3 DEF BACKSPACE, HTAB, RETURN, NEWLINE, BLANK
    <2>2. To(who, at, char) = at - (at % WIDTH)
        BY <1>3, <2>1, Zenon DEF To
    <2> QED
        BY <1>3, <2>1, <2>2
<1>4. CASE char = NEWLINE
    <2>1. char # BACKSPACE /\ char # HTAB /\ char # RETURN /\ ~(char >= BLANK)
        BY <1>4 DEF BACKSPACE, HTAB, RETURN, NEWLINE, BLANK
    <2>2. To(who, at, char) = at + WIDTH - (at % WIDTH)
        BY <1>4, <2>1, Zenon DEF To
    <2> QED
        BY <1>4, <2>1, <2>2
<1>5. CASE char >= BLANK
    <2>1. char # BACKSPACE /\ char # HTAB /\ char # RETURN /\ char # NEWLINE
        BY <1>5 DEF BACKSPACE, HTAB, RETURN, NEWLINE, BLANK
    <2>2. To(who, at, char) = at + 1
        BY <1>5, <2>1, Zenon DEF To
    <2> QED
        BY <1>5, <2>1, <2>2
<1>6. CASE char \notin {BACKSPACE, HTAB, RETURN, NEWLINE} /\ ~(char >= BLANK)
    <2>1. char # BACKSPACE /\ char # HTAB /\ char # RETURN /\ char # NEWLINE
        BY <1>6
    <2>2. To(who, at, char) = at
        BY <1>6, <2>1, Zenon DEF To
    <2> QED
        BY <1>6, <2>2
<1> QED
    BY <1>1, <1>2, <1>3, <1>4, <1>5, <1>6

(* The cell that is written of a page, if one is, and what is written. *)
Over(cell, size, p, char) == [i \in 0..(size - 1) |-> IF i = p THEN char ELSE cell[i]]

LEMMA TypedIs ==
    ASSUME NEW who, NEW size \in Nat, NEW page \in Pages(size), NEW char \in Nat
    PROVE  LET after == Typed(who, page, char)
               to == To(who, page.at, char)
           IN  /\ after.at = to /\ after.top = TopOf(page.top, to)
               /\ char >= BLANK => after.cell = Over(page.cell, size, page.at, char)
               /\ char = BACKSPACE /\ who = "kernel" /\ Back(who, page.at) =>
                    after.cell = Over(page.cell, size, to, BLANK)
               /\ ~(char >= BLANK) /\ ~(char = BACKSPACE /\ who = "kernel" /\ Back(who, page.at)) =>
                    after.cell = page.cell
<1> DEFINE to == To(who, page.at, char)
           cell == [i \in DOMAIN page.cell |->
                       IF char >= BLANK /\ i = page.at THEN char
                       ELSE IF char = BACKSPACE /\ who = "kernel" /\ Back(who, page.at) /\ i = to
                       THEN BLANK ELSE page.cell[i]]
<1>1. Typed(who, page, char) = [cell |-> cell, at |-> to, top |-> TopOf(page.top, to)]
    BY Zenon DEF Typed, To, TopOf, Back
<1>2. page.cell \in [0..(size - 1) -> Nat]
    BY DEF Pages
<1> HIDE DEF to
<1>3. CASE char >= BLANK
    <2>1. char # BACKSPACE
        BY <1>3 DEF BACKSPACE, BLANK
    <2>2. cell = Over(page.cell, size, page.at, char)
        BY <1>2, <1>3, <2>1 DEF Over
    <2> HIDE DEF cell
    <2> QED
        BY <1>1, <1>3, <2>1, <2>2 DEF to
<1>4. CASE char = BACKSPACE /\ who = "kernel" /\ Back(who, page.at)
    <2>1. ~(char >= BLANK)
        BY <1>4 DEF BACKSPACE, BLANK
    <2>2. cell = Over(page.cell, size, to, BLANK)
        BY <1>2, <1>4, <2>1 DEF Over
    <2> HIDE DEF cell
    <2> QED
        BY <1>1, <1>4, <2>1, <2>2 DEF to
<1>5. CASE ~(char >= BLANK) /\ ~(char = BACKSPACE /\ who = "kernel" /\ Back(who, page.at))
    <2>1. cell = [i \in DOMAIN page.cell |-> page.cell[i]]
        BY <1>5
    <2>2. cell = page.cell
        BY <1>2, <2>1
    <2> HIDE DEF cell
    <2> QED
        BY <1>1, <1>5, <2>2 DEF to
<1> QED
    BY <1>3, <1>4, <1>5

(* Columns and tab stops are the same on the page as on the screen. *)
LEMMA ColumnIs ==
    ASSUME NEW t \in Nat, NEW x \in Nat
    PROVE  (t * WIDTH + x) % TAB = x % TAB /\ (x < WIDTH => (t * WIDTH + x) % WIDTH = x)
<1>1. WIDTH \in Nat \ {0} /\ TAB \in Nat \ {0}
    BY ScreenAssumption
<1>2. PICK k : k = WIDTH \div TAB
    OBVIOUS
<1>3. k \in Int /\ 0 = WIDTH - k * TAB
    BY <1>1, <1>2, Divides, ScreenAssumption
<1>4. PICK q : q = x \div TAB
    OBVIOUS
<1>5. PICK r : r = x % TAB
    OBVIOUS
<1>6. q \in Int /\ r \in 0..(TAB - 1) /\ r = x - q * TAB
    <2>1. x \in Int
        OBVIOUS
    <2>2. x \div TAB \in Int /\ x % TAB \in 0..(TAB - 1) /\ x % TAB = x - (x \div TAB) * TAB
        BY <1>1, <2>1, Divides
    <2> QED
        BY <1>4, <1>5, <2>2
<1>7. PICK u : u = t * k + q
    OBVIOUS
<1>8. u \in Int /\ u * TAB + r = t * WIDTH + x
    <2>1. u \in Int /\ t * k \in Int
        BY <1>3, <1>6, <1>7
    <2>2. u * TAB = (t * k) * TAB + q * TAB
        BY <1>1, <1>6, <1>7, <2>1
    <2>3. (t * k) * TAB = t * (k * TAB)
        BY <1>1, <1>3
    <2>4. k * TAB = WIDTH
        BY <1>1, <1>3
    <2>5. (t * k) * TAB = t * WIDTH
        BY <2>3, <2>4
    <2>6. q * TAB \in Int /\ t * WIDTH \in Int /\ q * TAB + r = x
        BY <1>1, <1>6
    <2> QED
        BY <1>6, <2>1, <2>2, <2>5, <2>6
<1>9. (u * TAB + r) % TAB = r
    BY <1>1, <1>6, <1>8, DivIs
<1>10. ASSUME x < WIDTH PROVE (t * WIDTH + x) % WIDTH = x
    <2>1. x \in 0..(WIDTH - 1) /\ t \in Int
        BY <1>1, <1>10
    <2> QED
        BY <1>1, <2>1, DivIs
<1> QED
    BY <1>5, <1>8, <1>9, <1>10

(* A store on the screen and on the page. *)
Agrees(screen, cell, size, top) ==
    /\ \A i \in Text : screen[i] = cell[top * WIDTH + i]
    /\ \A i \in 0..(size - 1) : i >= (top + HEIGHT) * WIDTH => cell[i] = BLANK

LEMMA StoredShows ==
    ASSUME NEW screen, NEW cell, NEW size \in Nat, NEW top \in Nat, NEW p \in Text, NEW char,
           Agrees(screen, cell, size, top), (top + HEIGHT) * WIDTH <= size
    PROVE  Agrees(Store(screen, p, char), Over(cell, size, top * WIDTH + p, char), size, top)
<1> DEFINE after == Over(cell, size, top * WIDTH + p, char)
<1>1. /\ top * WIDTH \in Nat /\ (top + HEIGHT) * WIDTH = top * WIDTH + WIDTH * HEIGHT
      /\ WIDTH * HEIGHT \in Nat
    BY RowsIs, TextIs
<1>2. \A i \in Text : i \in Nat /\ i < WIDTH * HEIGHT /\ i \in Memory
    BY TextIs DEF Text
<1>3. ASSUME NEW i \in Text PROVE Store(screen, p, char)[i] = after[top * WIDTH + i]
    <2>1. top * WIDTH + i \in 0..(size - 1) /\ (top * WIDTH + i = top * WIDTH + p <=> i = p)
        BY <1>1, <1>2
    <2>2. after[top * WIDTH + i] = IF i = p THEN char ELSE cell[top * WIDTH + i]
        BY <2>1 DEF Over
    <2>3. Store(screen, p, char)[i] = IF i = p THEN char ELSE screen[i]
        BY <1>2 DEF Store
    <2> QED
        BY <2>2, <2>3 DEF Agrees
<1>4. ASSUME NEW i \in 0..(size - 1), i >= (top + HEIGHT) * WIDTH PROVE after[i] = BLANK
    <2>1. i # top * WIDTH + p
        BY <1>1, <1>2, <1>4
    <2> QED
        BY <1>4, <2>1 DEF Over, Agrees
<1> HIDE DEF after
<1> QED
    BY <1>3, <1>4 DEF after, Agrees

(***************************************************************************)
(* The kernel's screen shows its page.                                      *)
(***************************************************************************)
LEMMA PlacedLies ==
    ASSUME NEW s \in Screens, NEW size \in Nat, NEW page \in Pages(size), NEW char \in Nat,
           Lies(s, page.cell, size, page.top, page.at), (page.top + HEIGHT) * WIDTH <= size
    PROVE  LET after == Typed("kernel", page, char)
           IN  Lies(Placed(s, char), after.cell, size, page.top, after.at)
<1> DEFINE after == Typed("kernel", page, char)
<1>1. PICK at : at = page.at
    OBVIOUS
<1>2. PICK top : top = page.top
    OBVIOUS
<1>3. PICK to : to = To("kernel", at, char)
    OBVIOUS
<1>4. PICK q : q = (top + s.y) * WIDTH
    OBVIOUS
<1>0. /\ WIDTH \in Nat \ {0} /\ HEIGHT \in Nat \ {0} /\ TAB \in Nat \ {0} /\ top \in Nat
      /\ s.cell \in [Memory -> Nat] /\ s.x \in 0..(WIDTH - 1) /\ s.y \in 0..(HEIGHT - 1)
      /\ at = q + s.x /\ top + s.y \in Nat
      /\ \A i \in Text : s.cell[i] = page.cell[top * WIDTH + i]
      /\ \A i \in 0..(size - 1) : i >= (top + HEIGHT) * WIDTH => page.cell[i] = BLANK
    BY <1>1, <1>2, <1>4, ScreenAssumption DEF Lies, Screens
<1>5. q \in Nat /\ q = top * WIDTH + s.y * WIDTH /\ top * WIDTH \in Nat /\ s.y * WIDTH \in Nat
    BY <1>0, <1>4
<1>6. at % WIDTH = s.x /\ at % TAB = s.x % TAB /\ s.x % TAB \in 0..(TAB - 1)
    <2>1. PICK t : t = top + s.y
        OBVIOUS
    <2>2. t \in Nat /\ s.x \in Nat /\ s.x < WIDTH /\ at = t * WIDTH + s.x
        BY <1>0, <1>4, <2>1
    <2>3. s.x % TAB \in 0..(TAB - 1)
        <3>1. PICK x : x = s.x
            OBVIOUS
        <3>2. x \in Int
            BY <1>0, <3>1
        <3> QED
            BY <1>0, <3>1, <3>2, Divides
    <2> QED
        BY <2>2, <2>3, ColumnIs
<1>7. Back("kernel", at) <=> s.x # 0
    BY <1>6 DEF Back
<1>8. /\ after.at = to
      /\ char >= BLANK => after.cell = Over(page.cell, size, at, char)
      /\ char = BACKSPACE /\ s.x # 0 => after.cell = Over(page.cell, size, to, BLANK)
      /\ ~(char >= BLANK) /\ ~(char = BACKSPACE /\ s.x # 0) => after.cell = page.cell
    BY <1>1, <1>3, <1>7, TypedIs
<1> HIDE DEF after
<1>9. SUFFICES Lies(Placed(s, char), after.cell, size, top, to)
    BY <1>2, <1>8 DEF after
<1>10. CASE char = HTAB
    <2>1. ~(char >= BLANK) /\ char # BACKSPACE
        BY <1>10 DEF HTAB, BACKSPACE, BLANK
    <2>2. PICK v : v = NextTabStop(s.x)
        OBVIOUS
    <2>3. v = s.x + TAB - (s.x % TAB)
        BY <1>0, <2>2, TabStopIs
    <2>4. to = at + TAB - (at % TAB)
        BY <1>3, <1>10, ToIs
    <2>5. to = q + v
        BY <1>0, <1>5, <1>6, <2>3, <2>4
    <2>6. Placed(s, char) = [cell |-> s.cell, x |-> v, y |-> s.y]
        BY <1>10, <2>2, PlacedIs
    <2> QED
        BY <1>0, <1>4, <1>8, <2>1, <2>5, <2>6 DEF Lies
<1>11. CASE char = RETURN
    <2>1. ~(char >= BLANK) /\ char # BACKSPACE
        BY <1>11 DEF RETURN, BACKSPACE, BLANK
    <2>2. to = at - (at % WIDTH)
        BY <1>3, <1>11, ToIs
    <2>3. to = q + 0
        BY <1>0, <1>5, <1>6, <2>2
    <2>4. Placed(s, char) = [cell |-> s.cell, x |-> 0, y |-> s.y]
        BY <1>11, PlacedIs
    <2> QED
        BY <1>0, <1>4, <1>8, <2>1, <2>3, <2>4 DEF Lies
<1>12. CASE char = NEWLINE
    <2>1. ~(char >= BLANK) /\ char # BACKSPACE
        BY <1>12 DEF NEWLINE, BACKSPACE, BLANK
    <2>2. to = at + WIDTH - (at % WIDTH)
        BY <1>3, <1>12, ToIs
    <2>3. to = q + WIDTH
        BY <1>0, <1>5, <1>6, <2>2
    <2>4. PICK v : v = s.y + 1
        OBVIOUS
    <2>5. (top + v) * WIDTH = q + WIDTH
        <3>1. PICK t : t = top + s.y
            OBVIOUS
        <3>2. top + v = t + 1 /\ t \in Nat /\ q = t * WIDTH
            BY <1>0, <1>4, <2>4, <3>1
        <3>3. (t + 1) * WIDTH = t * WIDTH + WIDTH
            BY <1>0, <3>2
        <3> QED
            BY <3>2, <3>3
    <2>6. to = (top + v) * WIDTH + 0
        BY <1>0, <1>5, <2>3, <2>5
    <2>7. Placed(s, char) = [cell |-> s.cell, x |-> 0, y |-> v]
        BY <1>12, <2>4, PlacedIs
    <2> QED
        BY <1>0, <1>8, <2>1, <2>6, <2>7 DEF Lies
<1>13. CASE char >= BLANK
    <2>1. PICK p : p = s.y * WIDTH + s.x
        OBVIOUS
    <2>2. p \in Text /\ at = top * WIDTH + p
        <3>1. p \in Text
            BY <1>0, <2>1, CellIsText
        <3>2. PICK z : z = s.y * WIDTH
            OBVIOUS
        <3> QED
            BY <1>0, <1>5, <2>1, <3>1, <3>2
    <2>3. PICK t : t = Drawn(s, char)
        OBVIOUS
    <2>4. t.cell = Store(s.cell, p, char) /\ t.x = s.x + 1 /\ t.y = s.y
        BY <2>1, <2>3, DrawnIs
    <2>5. Placed(s, char) = t
        BY <1>13, <2>3, PlacedIs
    <2>6. to = at + 1
        BY <1>3, <1>13, ToIs
    <2>7. to = q + t.x
        BY <1>0, <1>5, <2>4, <2>6
    <2>8. /\ \A i \in Text : Store(s.cell, p, char)[i] = Over(page.cell, size, top * WIDTH + p, char)[top * WIDTH + i]
          /\ \A i \in 0..(size - 1) : i >= (top + HEIGHT) * WIDTH =>
                Over(page.cell, size, top * WIDTH + p, char)[i] = BLANK
        <3>1. PICK cell : cell = page.cell
            OBVIOUS
        <3>2. PICK screen : screen = s.cell
            OBVIOUS
        <3>3. Agrees(screen, cell, size, top) /\ (top + HEIGHT) * WIDTH <= size
            BY <1>0, <1>2, <3>1, <3>2 DEF Agrees
        <3>4. Agrees(Store(screen, p, char), Over(cell, size, top * WIDTH + p, char), size, top)
            BY <1>0, <2>2, <3>3, StoredShows
        <3> QED
            BY <3>1, <3>2, <3>4 DEF Agrees
    <2>9. after.cell = Over(page.cell, size, top * WIDTH + p, char)
        BY <1>8, <1>13, <2>2
    <2> QED
        BY <1>0, <1>4, <2>4, <2>5, <2>7, <2>8, <2>9 DEF Lies
<1>14. CASE char = BACKSPACE /\ s.x # 0
    <2>1. PICK x : x = s.x - 1
        OBVIOUS
    <2>2. PICK p : p = s.y * WIDTH + x
        OBVIOUS
    <2>3. x \in 0..(WIDTH - 1)
        BY <1>0, <1>14, <2>1
    <2>4. p \in Text /\ at - 1 = top * WIDTH + p
        <3>1. p \in Text
            BY <1>0, <2>2, <2>3, CellIsText
        <3>2. PICK z : z = s.y * WIDTH
            OBVIOUS
        <3> QED
            BY <1>0, <1>5, <2>1, <2>2, <3>1, <3>2
    <2>5. Placed(s, char) = Wiped(s, x)
        BY <1>14, <2>1, PlacedIs
    <2>6. Placed(s, char) = [cell |-> Store(s.cell, p, BLANK), x |-> x, y |-> s.y]
        BY <2>2, <2>5 DEF Wiped
    <2>7. to = at - 1
        BY <1>3, <1>7, <1>14, ToIs
    <2>8. to = q + x
        BY <1>0, <1>5, <2>1, <2>7
    <2>9. /\ \A i \in Text : Store(s.cell, p, BLANK)[i] = Over(page.cell, size, top * WIDTH + p, BLANK)[top * WIDTH + i]
          /\ \A i \in 0..(size - 1) : i >= (top + HEIGHT) * WIDTH =>
                Over(page.cell, size, top * WIDTH + p, BLANK)[i] = BLANK
        <3>1. PICK cell : cell = page.cell
            OBVIOUS
        <3>2. PICK screen : screen = s.cell
            OBVIOUS
        <3>3. Agrees(screen, cell, size, top) /\ (top + HEIGHT) * WIDTH <= size
            BY <1>0, <1>2, <3>1, <3>2 DEF Agrees
        <3>4. Agrees(Store(screen, p, BLANK), Over(cell, size, top * WIDTH + p, BLANK), size, top)
            BY <1>0, <2>4, <3>3, StoredShows
        <3> QED
            BY <3>1, <3>2, <3>4 DEF Agrees
    <2>10. after.cell = Over(page.cell, size, top * WIDTH + p, BLANK)
        BY <1>8, <1>14, <2>4, <2>7
    <2>11. PICK t : t = Placed(s, char)
        OBVIOUS
    <2>12. t.cell = Store(s.cell, p, BLANK) /\ t.x = x /\ t.y = s.y
        BY <2>6, <2>11
    <2> QED
        BY <1>0, <1>4, <2>8, <2>9, <2>10, <2>11, <2>12 DEF Lies
<1>15. CASE (char = BACKSPACE /\ s.x = 0)
            \/ (char \notin {BACKSPACE, HTAB, RETURN, NEWLINE} /\ ~(char >= BLANK))
    <2>1. ~(char >= BLANK) /\ ~(char = BACKSPACE /\ s.x # 0)
        BY <1>15 DEF BACKSPACE, BLANK
    <2>2. to = at
        BY <1>3, <1>7, <1>15, ToIs
    <2>3. Placed(s, char) = s
        BY <1>15, PlacedIs
    <2> QED
        BY <1>0, <1>4, <1>8, <2>1, <2>2, <2>3 DEF Lies
<1> QED
    BY <1>10, <1>11, <1>12, <1>13, <1>14, <1>15

Shows(s, page, size, n) ==
    /\ s \in Screens /\ page \in Pages(size)
    /\ Lies(s, page.cell, size, page.top, page.at)
    /\ page.top <= n

LEMMA PutchShows ==
    ASSUME NEW s, NEW page, NEW size \in Nat, NEW n \in Nat, NEW char \in Nat,
           Shows(s, page, size, n), (n + 1 + HEIGHT) * WIDTH <= size
    PROVE  Shows(putch(s, char), Typed("kernel", page, char), size, n + 1)
<1>1. PICK after : after = Typed("kernel", page, char)
    OBVIOUS
<1>2. PICK t : t = Placed(s, char)
    OBVIOUS
<1>3. PICK top : top = page.top
    OBVIOUS
<1>4. /\ s \in Screens /\ page \in Pages(size) /\ Lies(s, page.cell, size, page.top, page.at)
      /\ top \in Nat /\ top <= n
    BY <1>3 DEF Shows, Lies
<1>5. (top + 1 + HEIGHT) * WIDTH <= size /\ (top + HEIGHT) * WIDTH <= size
    <2>1. /\ (top + HEIGHT) * WIDTH = top * WIDTH + WIDTH * HEIGHT
          /\ (top + 1 + HEIGHT) * WIDTH = top * WIDTH + WIDTH * HEIGHT + WIDTH
          /\ (n + 1 + HEIGHT) * WIDTH = n * WIDTH + WIDTH * HEIGHT + WIDTH
          /\ top * WIDTH \in Nat /\ n * WIDTH \in Nat /\ WIDTH * HEIGHT \in Nat /\ WIDTH \in Nat
        BY <1>4, RowsIs, TextIs
    <2>2. top * WIDTH <= n * WIDTH
        BY <1>4, TextIs
    <2> QED
        BY <2>1, <2>2
<1>6. Lies(t, after.cell, size, top, after.at)
    BY <1>1, <1>2, <1>3, <1>4, <1>5, PlacedLies
<1>7. t \in Placings /\ t.x <= WIDTH /\ (t.x >= WIDTH => t.y < HEIGHT)
    BY <1>2, <1>4, PlacedTyped
<1>8. PICK cell : cell = after.cell
    OBVIOUS
<1>9. PICK at : at = after.at
    OBVIOUS
<1>10. /\ Lies(Settled(t), cell, size, TopOf(top, at), at)
       /\ TopOf(top, at) \in {top, top + 1}
    BY <1>5, <1>6, <1>7, <1>8, <1>9, SettledLies
<1>11. after.top = TopOf(top, at) /\ after \in Pages(size)
    BY <1>1, <1>3, <1>4, <1>9, TypedIs, TypedTyped
<1>12. putch(s, char) = Settled(t) /\ putch(s, char) \in Screens
    BY <1>2, <1>4, PutchTyped DEF putch
<1> QED
    BY <1>1, <1>4, <1>8, <1>9, <1>10, <1>11, <1>12 DEF Shows

(* The page before anything is printed on it. *)
LEMMA BlankIs ==
    ASSUME NEW who, NEW booted \in Screens, NEW size \in Nat
    PROVE  /\ Blank(who, booted, size) \in Pages(size)
           /\ Blank(who, booted, size).at = 0 /\ Blank(who, booted, size).top = 0
           /\ \A i \in 0..(size - 1) : Blank(who, booted, size).cell[i] =
                  IF i \in Text /\ who = "program" THEN booted.cell[i] ELSE BLANK
<1>1. \A i \in 0..(size - 1) : (IF i \in Text /\ who = "program" THEN booted.cell[i] ELSE BLANK) \in Nat
    BY TextIs DEF Screens, BLANK
<1> QED
    BY <1>1 DEF Blank, Pages

LEMMA ClsShows ==
    ASSUME NEW size \in Nat, WIDTH * HEIGHT <= size, NEW booted \in Screens
    PROVE  Shows(cls, Blank("kernel", booted, size), size, 0)
<1>1. PICK page : page = Blank("kernel", booted, size)
    OBVIOUS
<1>2. /\ page \in Pages(size) /\ page.at = 0 /\ page.top = 0
      /\ \A i \in 0..(size - 1) : page.cell[i] = BLANK
    BY <1>1, BlankIs
<1>3. cls \in Screens
    <2>1. cls.cell \in [Memory -> Nat]
        BY DEF cls, BLANK, UNTOUCHED
    <2> QED
        BY <2>1, TextIs DEF cls, Screens
<1>4. cls.x = 0 /\ cls.y = 0 /\ \A i \in Text : cls.cell[i] = BLANK
    BY TextIs DEF cls
<1>5. Lies(cls, page.cell, size, 0, 0)
    <2>1. \A i \in Text : i \in 0..(size - 1) /\ 0 * WIDTH + i = i
        BY TextIs DEF Text
    <2>2. \A i \in Text : page.cell[0 * WIDTH + i] = BLANK
        BY <1>2, <2>1
    <2> QED
        BY <1>2, <1>4, <2>2, TextIs DEF Lies
<1> QED
    BY <1>1, <1>2, <1>3, <1>5 DEF Shows

(* What the kernel prints, from the first character of the boot on. *)
LEMMA KernelPage ==
    ASSUME NEW text \in Seq(Nat), NEW booted \in Screens, NEW size, size = WIDTH * (HEIGHT + Len(text))
    PROVE  /\ size \in Nat
           /\ Shows(kprintf(cls, text), PrintedOn("kernel", Blank("kernel", booted, size), text),
                    size, Len(text))
<1>1. PICK n : n = Len(text)
    OBVIOUS
<1>2. /\ n \in Nat /\ WIDTH \in Nat \ {0} /\ HEIGHT \in Nat \ {0} /\ WIDTH * HEIGHT \in Nat
      /\ n * WIDTH \in Nat /\ size = n * WIDTH + WIDTH * HEIGHT /\ size \in Nat
      /\ WIDTH * HEIGHT <= size
    <2>1. n \in Nat /\ WIDTH \in Nat \ {0} /\ HEIGHT \in Nat \ {0}
        BY <1>1, TextIs
    <2>2. WIDTH * (HEIGHT + n) = WIDTH * HEIGHT + n * WIDTH /\ n * WIDTH \in Nat /\ WIDTH * HEIGHT \in Nat
        BY <2>1
    <2> QED
        BY <1>1, <2>1, <2>2
<1>3. PICK page : page = Blank("kernel", booted, size)
    OBVIOUS
<1>4. Shows(cls, page, size, 0)
    BY <1>2, <1>3, ClsShows
<1>5. cls \in Screens /\ page \in Pages(size)
    BY <1>4 DEF Shows
<1>6. PICK g : Prints(g, cls, text) /\ kprintf(cls, text) = g[Len(text)]
    BY <1>5, KprintfRuns
<1>7. PICK f : /\ Types(f, "kernel", page, text) /\ f \in [0..Len(text) -> Pages(size)]
               /\ PrintedOn("kernel", page, text) = f[Len(text)]
    <2>1. size \in Nat
        BY <1>2
    <2> QED
        BY <1>5, <2>1, PageRuns
<1>8. /\ g[0] = cls /\ \A i \in 1..n : g[i] = putch(g[i - 1], text[i])
      /\ f[0] = page /\ \A i \in 1..n : f[i] = Typed("kernel", f[i - 1], text[i])
    BY <1>1, <1>6, <1>7 DEF Prints, Types
<1> DEFINE P == {i \in 0..n : Shows(g[i], f[i], size, i)}
<1>9. 0 \in P
    BY <1>2, <1>4, <1>8
<1>10. ASSUME NEW i \in 1..n, i - 1 \in P PROVE i \in P
    <2>1. PICK j : j = i - 1
        OBVIOUS
    <2>2. j \in Nat /\ i = j + 1 /\ i \in 0..n /\ j <= n - 1 /\ text[i] \in Nat
        BY <1>1, <1>2, <2>1
    <2>3. PICK s : s = g[j]
        OBVIOUS
    <2>4. PICK q : q = f[j]
        OBVIOUS
    <2>5. Shows(s, q, size, j)
        BY <1>10, <2>1, <2>3, <2>4
    <2>6. (j + 1 + HEIGHT) * WIDTH <= size
        <3>1. (j + 1 + HEIGHT) * WIDTH = i * WIDTH + WIDTH * HEIGHT
            BY <1>2, <2>2
        <3>2. i * WIDTH <= n * WIDTH /\ i * WIDTH \in Nat
            BY <1>2, <2>2
        <3> QED
            BY <1>2, <3>1, <3>2
    <2>7. PICK char : char = text[i]
        OBVIOUS
    <2>8. Shows(putch(s, char), Typed("kernel", q, char), size, j + 1)
        BY <1>2, <2>2, <2>5, <2>6, <2>7, PutchShows
    <2>9. g[i] = putch(s, char) /\ f[i] = Typed("kernel", q, char)
        BY <1>8, <2>1, <2>3, <2>4, <2>7
    <2> QED
        BY <2>2, <2>8, <2>9
<1>11. \A i \in 0..n : i \in P
    <2> HIDE DEF P
    <2> QED
        BY <1>2, <1>9, <1>10, UpTo
<1>12. n \in P
    BY <1>2, <1>11
<1> QED
    BY <1>1, <1>2, <1>3, <1>6, <1>7, <1>12

(***************************************************************************)
(* The terminal's.  Between tty_putc and the end of tty_scroll it shows the *)
(* page from a row before the first that is to be shown.                    *)
(***************************************************************************)
Views(screen, offset, page, size, t, n) ==
    /\ page \in Pages(size) /\ t \in Nat
    /\ page.at = t * WIDTH + offset
    /\ page.top = IF offset >= SIZE THEN t + 1 ELSE t
    /\ page.top <= n
    /\ Agrees(screen, page.cell, size, t)

LEMMA SizesOf ==
    /\ SIZE = WIDTH * HEIGHT /\ SIZE \in Nat /\ WIDTH \in Nat \ {0} /\ HEIGHT \in Nat \ {0}
    /\ SIZE + WIDTH <= SHORT /\ SHORT \in Nat \ {0} /\ WIDTH <= SIZE /\ SIZE = HEIGHT * WIDTH
    /\ TAB \in Nat \ {0}
<1>1. WIDTH * (HEIGHT + 1) = WIDTH * HEIGHT + WIDTH
    BY TextIs
<1> QED
    BY <1>1, TextIs, SizeIs, OffsetAssumption, ShortAssumption, ScreenAssumption DEF SIZE

(* The offset, in the text, goes as far as the place on the page. *)
LEMMA OffsetGoes ==
    ASSUME NEW t \in Nat, NEW offset \in 0..(SIZE - 1), NEW char \in Nat,
           ~(char = BACKSPACE /\ offset = 0)
    PROVE  /\ OffsetAfter(offset, char) \in 0..(SIZE + WIDTH - 1)
           /\ To("program", t * WIDTH + offset, char) = t * WIDTH + OffsetAfter(offset, char)
<1>1. PICK v : v = CASE char = BACKSPACE -> offset - 1
                  [] char = HTAB      -> NextTabStop(offset)
                  [] char = RETURN    -> offset - (offset % WIDTH)
                  [] char = NEWLINE   -> offset + WIDTH - (offset % WIDTH)
                  [] char >= BLANK    -> offset + 1
                  [] OTHER            -> offset
    OBVIOUS
<1>2. OffsetAfter(offset, char) = v % SHORT
    BY <1>1, Zenon DEF OffsetAfter
<1>3. PICK at : at = t * WIDTH + offset
    OBVIOUS
<1>4. PICK base : base = t * WIDTH
    OBVIOUS
<1>5. PICK row : row = offset \div WIDTH
    OBVIOUS
<1>6. PICK column : column = offset % WIDTH
    OBVIOUS
<1>7. /\ offset \in Nat /\ offset < SIZE /\ base \in Nat /\ at = base + offset
      /\ row \in Int /\ column \in 0..(WIDTH - 1) /\ column = offset - row * WIDTH
      /\ offset % TAB \in 0..(TAB - 1)
    <2>1. offset \in Int /\ WIDTH \in Nat \ {0} /\ TAB \in Nat \ {0}
        BY SizesOf
    <2>2. row \in Int /\ column \in 0..(WIDTH - 1) /\ column = offset - row * WIDTH
        BY <1>5, <1>6, <2>1, Divides
    <2>3. offset % TAB \in 0..(TAB - 1)
        BY <2>1, Divides
    <2> QED
        BY <1>3, <1>4, <2>1, <2>2, <2>3, SizesOf
<1>8. at % WIDTH = column /\ at % TAB = offset % TAB
    <2>1. PICK u : u = t + row
        OBVIOUS
    <2>2. u \in Int /\ at = u * WIDTH + column
        <3>1. (t + row) * WIDTH = t * WIDTH + row * WIDTH /\ row * WIDTH \in Int
            BY <1>7, SizesOf
        <3> QED
            BY <1>4, <1>7, <2>1, <3>1, SizesOf
    <2>3. (u * WIDTH + column) % WIDTH = column
        <3>1. u \in Int /\ column \in 0..(WIDTH - 1) /\ WIDTH \in Nat \ {0}
            BY <1>7, <2>2, SizesOf
        <3> QED
            BY <3>1, DivIs
    <2>4. at % TAB = offset % TAB
        BY <1>3, <1>7, ColumnIs
    <2> QED
        BY <2>2, <2>3, <2>4
<1>9. PICK stop : stop = NextTabStop(offset)
    OBVIOUS
<1>10. /\ stop \in Nat /\ stop <= offset + WIDTH
       /\ stop = offset + TAB - (offset % TAB)
    <2>1. stop \in Nat /\ stop <= offset + WIDTH
        BY <1>7, <1>9, TabStopNear
    <2>2. PICK q : q = offset \div TAB
        OBVIOUS
    <2>3. q \in Int /\ offset % TAB = offset - q * TAB
        BY <1>7, <2>2, Divides, SizesOf
    <2>4. stop = (q + 1) * TAB /\ (q + 1) * TAB = q * TAB + TAB /\ q * TAB \in Int
        BY <1>9, <2>2, <2>3, SizesOf DEF NextTabStop
    <2> QED
        BY <1>7, <2>1, <2>3, <2>4, SizesOf
<1>11. Back("program", at)
    BY DEF Back
<1>12. /\ v \in 0..(SIZE + WIDTH - 1) /\ To("program", at, char) = base + v
    <2>1. CASE char = BACKSPACE
        <3>1. char # HTAB /\ char # RETURN /\ char # NEWLINE /\ ~(char >= BLANK)
            BY <2>1 DEF BACKSPACE, HTAB, RETURN, NEWLINE, BLANK
        <3>2. v = offset - 1
            BY <1>1, <2>1, <3>1, Zenon
        <3>3. To("program", at, char) = at - 1
            BY <1>11, <2>1, ToIs
        <3> QED
            BY <1>7, <2>1, <3>2, <3>3, SizesOf
    <2>2. CASE char = HTAB
        <3>1. char # BACKSPACE /\ char # RETURN /\ char # NEWLINE /\ ~(char >= BLANK)
            BY <2>2 DEF BACKSPACE, HTAB, RETURN, NEWLINE, BLANK
        <3>2. v = stop
            BY <1>1, <1>9, <2>2, <3>1, Zenon
        <3>3. To("program", at, char) = at + TAB - (at % TAB)
            BY <2>2, ToIs
        <3> QED
            BY <1>7, <1>8, <1>10, <3>2, <3>3, SizesOf
    <2>3. CASE char = RETURN
        <3>1. char # BACKSPACE /\ char # HTAB /\ char # NEWLINE /\ ~(char >= BLANK)
            BY <2>3 DEF BACKSPACE, HTAB, RETURN, NEWLINE, BLANK
        <3>2. v = offset - column
            BY <1>1, <1>6, <2>3, <3>1, Zenon
        <3>3. To("program", at, char) = at - (at % WIDTH)
            BY <2>3, ToIs
        <3>4. row * WIDTH \in Int /\ row * WIDTH >= 0
            <4>1. offset % WIDTH <= offset
                BY <1>7, SizesOf
            <4> QED
                BY <1>6, <1>7, <4>1, SizesOf
        <3> QED
            BY <1>7, <1>8, <3>2, <3>3, <3>4, SizesOf
    <2>4. CASE char = NEWLINE
        <3>1. char # BACKSPACE /\ char # HTAB /\ char # RETURN /\ ~(char >= BLANK)
            BY <2>4 DEF BACKSPACE, HTAB, RETURN, NEWLINE, BLANK
        <3>2. v = offset + WIDTH - column
            BY <1>1, <1>6, <2>4, <3>1, Zenon
        <3>3. To("program", at, char) = at + WIDTH - (at % WIDTH)
            BY <2>4, ToIs
        <3> QED
            BY <1>7, <1>8, <3>2, <3>3, SizesOf
    <2>5. CASE char >= BLANK
        <3>1. char # BACKSPACE /\ char # HTAB /\ char # RETURN /\ char # NEWLINE
            BY <2>5 DEF BACKSPACE, HTAB, RETURN, NEWLINE, BLANK
        <3>2. v = offset + 1
            BY <1>1, <2>5, <3>1, Zenon
        <3>3. To("program", at, char) = at + 1
            BY <2>5, ToIs
        <3> QED
            BY <1>7, <3>2, <3>3, SizesOf
    <2>6. CASE char \notin {BACKSPACE, HTAB, RETURN, NEWLINE} /\ ~(char >= BLANK)
        <3>1. char # BACKSPACE /\ char # HTAB /\ char # RETURN /\ char # NEWLINE
            BY <2>6
        <3>2. v = offset
            BY <1>1, <2>6, <3>1, Zenon
        <3>3. To("program", at, char) = at
            BY <2>6, ToIs
        <3> QED
            BY <1>7, <3>2, <3>3, SizesOf
    <2> QED
        BY <2>1, <2>2, <2>3, <2>4, <2>5, <2>6
<1>13. v % SHORT = v
    BY <1>12, SizesOf
<1> QED
    BY <1>2, <1>3, <1>4, <1>12, <1>13

(* tty_putc, on the screen and on the page. *)
LEMMA PutcViews ==
    ASSUME NEW size \in Nat, NEW page, NEW screen, NEW offset \in 0..(SIZE - 1), NEW t, NEW n \in Nat,
           Views(screen, offset, page, size, t, n), (n + 1 + HEIGHT) * WIDTH <= size,
           NEW char \in Nat, ~(char = BACKSPACE /\ offset = 0),
           NEW text, text = IF char >= BLANK THEN <<char>> ELSE <<>>
    PROVE  Views(vga_write_framebuffer(screen, offset, text), OffsetAfter(offset, char),
                 Typed("program", page, char), size, t, n + 1)
<1>1. PICK after : after = Typed("program", page, char)
    OBVIOUS
<1>2. PICK next : next = OffsetAfter(offset, char)
    OBVIOUS
<1>3. PICK at : at = page.at
    OBVIOUS
<1>0. /\ page \in Pages(size) /\ t \in Nat /\ at = t * WIDTH + offset /\ page.top = t /\ t <= n
      /\ Agrees(screen, page.cell, size, t) /\ offset \in Nat /\ offset < SIZE
      /\ WIDTH \in Nat \ {0} /\ HEIGHT \in Nat \ {0} /\ SIZE \in Nat
    BY <1>3, SizesOf DEF Views
<1>4. next \in 0..(SIZE + WIDTH - 1) /\ To("program", at, char) = t * WIDTH + next
    <2>1. /\ OffsetAfter(offset, char) \in 0..(SIZE + WIDTH - 1)
          /\ To("program", t * WIDTH + offset, char) = t * WIDTH + OffsetAfter(offset, char)
        <3>1. t \in Nat
            BY <1>0
        <3> QED
            BY <3>1, OffsetGoes
    <2>2. at = t * WIDTH + offset
        BY <1>0
    <2> QED
        BY <1>2, <2>1, <2>2
<1>5. /\ after.at = t * WIDTH + next /\ after.top = TopOf(t, t * WIDTH + next)
      /\ char >= BLANK => after.cell = Over(page.cell, size, t * WIDTH + offset, char)
      /\ ~(char >= BLANK) => after.cell = page.cell
    BY <1>0, <1>1, <1>3, <1>4, TypedIs
<1>6. TopOf(t, t * WIDTH + next) = IF next >= SIZE THEN t + 1 ELSE t
    <2>1. PICK row : row = next \div WIDTH
        OBVIOUS
    <2>2. PICK column : column = next % WIDTH
        OBVIOUS
    <2>3. /\ next \in Int /\ row \in Int /\ column \in 0..(WIDTH - 1) /\ column = next - row * WIDTH
          /\ row * WIDTH \in Int
        <3>1. next \in Int
            BY <1>0, <1>4
        <3>2. row \in Int /\ column \in 0..(WIDTH - 1) /\ column = next - row * WIDTH
            BY <1>0, <2>1, <2>2, <3>1, Divides
        <3> QED
            BY <1>0, <3>1, <3>2
    <2>4. (t * WIDTH + next) \div WIDTH = t + row
        <3>1. PICK u : u = t + row
            OBVIOUS
        <3>2. (t + row) * WIDTH = t * WIDTH + row * WIDTH /\ t * WIDTH \in Int
            BY <1>0, <2>3
        <3>3. u \in Int /\ u * WIDTH + column = t * WIDTH + next
            BY <1>0, <2>3, <3>1, <3>2
        <3>4. (u * WIDTH + column) \div WIDTH = u
            BY <1>0, <2>3, <3>3, DivIs
        <3> QED
            BY <3>1, <3>3, <3>4
    <2>5. CASE next >= SIZE
        <3>1. row * WIDTH > (HEIGHT - 1) * WIDTH /\ row * WIDTH < (HEIGHT + 1) * WIDTH
            <4>1. /\ (HEIGHT - 1) * WIDTH = SIZE - WIDTH
                  /\ (HEIGHT + 1) * WIDTH = SIZE + WIDTH
                BY SizesOf
            <4> QED
                BY <1>0, <1>4, <2>3, <2>5, <4>1
        <3>2. row > HEIGHT - 1 /\ row < HEIGHT + 1
            <4>1. ~(row <= HEIGHT - 1)
                <5>1. row <= HEIGHT - 1 => row * WIDTH <= (HEIGHT - 1) * WIDTH
                    BY <1>0, <2>3
                <5> QED
                    BY <1>0, <2>3, <3>1, <5>1
            <4>2. ~(row >= HEIGHT + 1)
                <5>1. row >= HEIGHT + 1 => row * WIDTH >= (HEIGHT + 1) * WIDTH
                    BY <1>0, <2>3
                <5> QED
                    BY <1>0, <2>3, <3>1, <5>1
            <4> QED
                BY <1>0, <2>3, <4>1, <4>2
        <3>3. row = HEIGHT
            BY <1>0, <2>3, <3>2
        <3> QED
            BY <1>0, <2>4, <2>5, <3>3 DEF TopOf
    <2>6. CASE ~(next >= SIZE)
        <3>1. row * WIDTH < HEIGHT * WIDTH
            BY <1>0, <1>4, <2>3, <2>6, SizesOf
        <3>2. ~(row >= HEIGHT)
            <4>1. row >= HEIGHT => row * WIDTH >= HEIGHT * WIDTH
                BY <1>0, <2>3
            <4> QED
                BY <1>0, <2>3, <3>1, <4>1
        <3> QED
            BY <1>0, <2>3, <2>4, <2>6, <3>2 DEF TopOf
    <2> QED
        BY <2>5, <2>6
<1>7. after \in Pages(size)
    BY <1>0, <1>1, TypedTyped
<1>8. PICK written : written = vga_write_framebuffer(screen, offset, text)
    OBVIOUS
<1>9. Agrees(written, after.cell, size, t)
    <2>1. CASE char >= BLANK
        <3>1. text = <<char>> /\ Len(text) = 1 /\ text[1] = char
            BY <2>1
        <3>2. Within(offset, 1) = 1
            BY <1>0 DEF Within
        <3>3. \A i \in Memory : written[i] = IF i = offset THEN char ELSE screen[i]
            <4>1. \A i \in Memory : i \in Nat /\ (i - offset \in 0..(1 - 1) <=> i = offset)
                BY <1>0, Sizes
            <4>2. \A i \in Memory : written[i] = IF i - offset \in 0..(1 - 1)
                                                 THEN text[i - offset + 1] ELSE screen[i]
                BY <1>8, <3>1, <3>2 DEF vga_write_framebuffer
            <4>3. \A i \in Memory : i = offset => i - offset + 1 = 1
                BY <1>0
            <4> QED
                BY <3>1, <4>1, <4>2, <4>3
        <3>4. \A i \in Text : written[i] = Store(screen, offset, char)[i]
            BY <3>3, TextIs DEF Store
        <3>5. PICK cell : cell = page.cell
            OBVIOUS
        <3>6. (t + HEIGHT) * WIDTH <= size
            <4>1. /\ (t + HEIGHT) * WIDTH = t * WIDTH + WIDTH * HEIGHT
                  /\ (n + 1 + HEIGHT) * WIDTH = n * WIDTH + WIDTH * HEIGHT + WIDTH
                  /\ t * WIDTH \in Nat /\ n * WIDTH \in Nat /\ WIDTH * HEIGHT \in Nat /\ WIDTH \in Nat
                BY <1>0, RowsIs, TextIs
            <4>2. t * WIDTH <= n * WIDTH
                BY <1>0
            <4> QED
                BY <4>1, <4>2
        <3>7. offset \in Text
            BY <1>0 DEF Text, SIZE
        <3>8. Agrees(Store(screen, offset, char), Over(cell, size, t * WIDTH + offset, char), size, t)
            BY <1>0, <3>5, <3>6, <3>7, StoredShows
        <3>9. after.cell = Over(cell, size, t * WIDTH + offset, char)
            BY <1>5, <2>1, <3>5
        <3> QED
            BY <3>4, <3>8, <3>9 DEF Agrees
    <2>2. CASE ~(char >= BLANK)
        <3>1. text = <<>> /\ Len(text) = 0
            BY <2>2
        <3>2. Within(offset, 0) = 0
            BY <1>0 DEF Within
        <3>3. \A i \in Memory : written[i] = screen[i]
            <4>1. \A i \in Memory : i - offset \notin 0..(0 - 1)
                BY <1>0, Sizes
            <4> QED
                BY <1>8, <3>1, <3>2, <4>1 DEF vga_write_framebuffer
        <3>4. after.cell = page.cell
            BY <1>5, <2>2
        <3> QED
            BY <1>0, <3>3, <3>4, TextIs DEF Agrees
    <2> QED
        BY <2>1, <2>2
<1>10. (IF next >= SIZE THEN t + 1 ELSE t) <= n + 1
    BY <1>0
<1> QED
    BY <1>0, <1>1, <1>2, <1>5, <1>6, <1>7, <1>8, <1>9, <1>10 DEF Views

(* What tty_scroll reads of the screen, with the row that it clears. *)
Risen(screen) == vga_read_framebuffer(screen, WIDTH, SIZE - WIDTH) \o [j \in 1..WIDTH |-> BLANK]

LEMMA RisenIs ==
    ASSUME NEW screen, NEW i \in Text
    PROVE  vga_write_framebuffer(screen, 0, Risen(screen))[i] =
               IF i + WIDTH \in Text THEN screen[i + WIDTH] ELSE BLANK
<1> DEFINE S == {screen[k] : k \in Memory} \cup {BLANK}
           a == vga_read_framebuffer(screen, WIDTH, SIZE - WIDTH)
           b == [j \in 1..WIDTH |-> BLANK]
<1>0. /\ i \in Nat /\ i < SIZE /\ i \in Memory /\ SIZE \in Nat /\ WIDTH \in Nat \ {0} /\ WIDTH <= SIZE
    BY TextIs, SizesOf DEF Text
<1>1. Within(WIDTH, SIZE - WIDTH) = SIZE - WIDTH /\ Within(0, SIZE) = SIZE
    BY <1>0 DEF Within
<1>2. a = [j \in 1..(SIZE - WIDTH) |-> screen[WIDTH + j - 1]]
    BY <1>1 DEF vga_read_framebuffer
<1>3. PICK m : m = SIZE - WIDTH
    OBVIOUS
<1>4. PICK p : p = a
    OBVIOUS
<1>5. PICK q : q = b
    OBVIOUS
<1>6. m \in Nat /\ p \in Seq(S) /\ Len(p) = m /\ \A j \in 1..m : p[j] = screen[WIDTH + j - 1]
    <2>1. m \in Nat
        BY <1>0, <1>3
    <2>2. p = [j \in 1..m |-> screen[WIDTH + j - 1]]
        BY <1>2, <1>3, <1>4
    <2>3. \A j \in 1..m : screen[WIDTH + j - 1] \in S
        <3>1. \A j \in 1..m : WIDTH + j - 1 \in Memory
            BY <1>0, <1>3, TextIs DEF Memory, SIZE
        <3> QED
            BY <3>1
    <2> HIDE DEF S, a, b
    <2> QED
        BY <2>1, <2>2, <2>3
<1>7. q \in Seq(S) /\ Len(q) = WIDTH /\ \A j \in 1..WIDTH : q[j] = BLANK
    <2>1. BLANK \in S
        OBVIOUS
    <2>2. q = [j \in 1..WIDTH |-> BLANK]
        BY <1>5
    <2> HIDE DEF S, a, b
    <2> QED
        BY <1>0, <2>1, <2>2
<1> HIDE DEF a, b, S
<1>8. PICK r : r = p \o q
    OBVIOUS
<1>9. PICK k : k = i + 1
    OBVIOUS
<1>10. /\ Len(r) = SIZE /\ k \in 1..(m + WIDTH) /\ r[k] = IF k <= m THEN p[k] ELSE q[k - m]
    <2>1. Len(r) = SIZE
        <3>1. p \in Seq(S) /\ q \in Seq(S)
            BY <1>6, <1>7
        <3>2. Len(r) = Len(p) + Len(q)
            BY <1>8, <3>1
        <3>3. Len(p) = m /\ Len(q) = WIDTH
            BY <1>6, <1>7
        <3> QED
            BY <1>0, <1>3, <3>2, <3>3
    <2>2. k \in 1..(m + WIDTH)
        BY <1>0, <1>3, <1>9
    <2> QED
        <3>1. p \in Seq(S) /\ q \in Seq(S) /\ k \in 1..(Len(p) + Len(q))
            BY <1>6, <1>7, <2>2
        <3>2. r[k] = IF k <= Len(p) THEN p[k] ELSE q[k - Len(p)]
            BY <1>8, <3>1
        <3> QED
            BY <1>6, <2>1, <2>2, <3>2
<1>11. Risen(screen) = r
    BY <1>4, <1>5, <1>8 DEF Risen, a, b
<1>12. vga_write_framebuffer(screen, 0, r)[i] = r[k]
    <2>1. i - 0 \in 0..(SIZE - 1) /\ i - 0 + 1 = k
        BY <1>0, <1>9
    <2> QED
        BY <1>0, <1>1, <1>10, <2>1 DEF vga_write_framebuffer
<1>13. CASE k <= m
    <2>1. i + WIDTH \in Text /\ k \in 1..m /\ WIDTH + k - 1 = i + WIDTH
        BY <1>0, <1>3, <1>9, <1>10, <1>13 DEF Text, SIZE
    <2> QED
        BY <1>6, <1>10, <1>11, <1>12, <1>13, <2>1
<1>14. CASE ~(k <= m)
    <2>1. i + WIDTH \notin Text /\ k - m \in 1..WIDTH
        BY <1>0, <1>3, <1>6, <1>9, <1>10, <1>14 DEF Text, SIZE
    <2> QED
        BY <1>7, <1>10, <1>11, <1>12, <1>14, <2>1
<1> QED
    BY <1>13, <1>14

LEMMA ScrollViews ==
    ASSUME NEW size \in Nat, NEW page, NEW screen, NEW offset \in SIZE..(SIZE + WIDTH - 1), NEW t,
           NEW n \in Nat, Views(screen, offset, page, size, t, n), (n + HEIGHT) * WIDTH <= size
    PROVE  /\ Views(vga_write_framebuffer(screen, 0, Risen(screen)), (offset - WIDTH) % SHORT, page,
                    size, t + 1, n)
           /\ (offset - WIDTH) % SHORT = offset - WIDTH
<1>1. PICK cell : cell = page.cell
    OBVIOUS
<1>2. PICK written : written = vga_write_framebuffer(screen, 0, Risen(screen))
    OBVIOUS
<1>0. /\ page \in Pages(size) /\ t \in Nat /\ page.at = t * WIDTH + offset /\ page.top = t + 1
      /\ t + 1 <= n /\ offset \in Nat /\ offset >= SIZE /\ offset < SIZE + WIDTH
      /\ WIDTH \in Nat \ {0} /\ HEIGHT \in Nat \ {0} /\ SIZE \in Nat /\ SIZE = WIDTH * HEIGHT
      /\ WIDTH <= SIZE /\ SHORT \in Nat \ {0} /\ SIZE + WIDTH <= SHORT
      /\ \A i \in Text : screen[i] = cell[t * WIDTH + i]
      /\ \A i \in 0..(size - 1) : i >= (t + HEIGHT) * WIDTH => cell[i] = BLANK
    BY <1>1, SizesOf DEF Views, Agrees
<1>3. /\ t * WIDTH \in Nat /\ (t + 1) * WIDTH = t * WIDTH + WIDTH
      /\ (t + HEIGHT) * WIDTH = t * WIDTH + SIZE
      /\ (t + 1 + HEIGHT) * WIDTH = t * WIDTH + SIZE + WIDTH
    BY <1>0, RowsIs
<1>4. (t + 1 + HEIGHT) * WIDTH <= size
    <2>1. t + 1 + HEIGHT <= n + HEIGHT
        BY <1>0
    <2>2. (t + 1 + HEIGHT) * WIDTH <= (n + HEIGHT) * WIDTH
        BY <1>0, <2>1
    <2>3. (n + HEIGHT) * WIDTH \in Nat
        BY <1>0
    <2> QED
        BY <1>0, <1>3, <2>2, <2>3
<1>5. (offset - WIDTH) % SHORT = offset - WIDTH
    BY <1>0
<1>6. ASSUME NEW i \in Text PROVE written[i] = cell[(t + 1) * WIDTH + i]
    <2>0. i \in Nat /\ i < SIZE
        BY TextIs DEF Text, SIZE
    <2>1. written[i] = IF i + WIDTH \in Text THEN screen[i + WIDTH] ELSE BLANK
        BY <1>2, RisenIs
    <2>2. CASE i + WIDTH \in Text
        <3>1. screen[i + WIDTH] = cell[t * WIDTH + (i + WIDTH)]
            BY <1>0, <2>2
        <3>2. t * WIDTH + (i + WIDTH) = (t + 1) * WIDTH + i
            BY <1>0, <1>3, <2>0
        <3> QED
            BY <2>1, <2>2, <3>1, <3>2
    <2>3. CASE i + WIDTH \notin Text
        <3>1. i + WIDTH >= SIZE
            BY <1>0, <2>0, <2>3 DEF Text
        <3>2. /\ (t + 1) * WIDTH + i \in 0..(size - 1)
              /\ (t + 1) * WIDTH + i >= (t + HEIGHT) * WIDTH
            BY <1>0, <1>3, <1>4, <2>0, <3>1
        <3> QED
            BY <1>0, <2>1, <2>3, <3>2
    <2> QED
        BY <2>2, <2>3
<1>7. ASSUME NEW i \in 0..(size - 1), i >= (t + 1 + HEIGHT) * WIDTH PROVE cell[i] = BLANK
    <2>1. i >= (t + HEIGHT) * WIDTH
        BY <1>0, <1>3, <1>7
    <2> QED
        BY <1>0, <2>1
<1>8. Agrees(written, cell, size, t + 1)
    BY <1>6, <1>7 DEF Agrees
<1>9. page.at = (t + 1) * WIDTH + (offset - WIDTH) /\ ~(offset - WIDTH >= SIZE)
    BY <1>0, <1>3
<1> QED
    BY <1>0, <1>1, <1>2, <1>5, <1>8, <1>9 DEF Views

(***************************************************************************)
(* The invariant.  While nothing has come between the halves of anything,   *)
(* the screen and the rest of what is printed (Now), and then the rest of   *)
(* the putch that is under way, make what printing everything in turn makes *)
(* (Goal): Whole says what the rest of putch does from each of its places,  *)
(* Wiping from the places within a backspace.                               *)
(***************************************************************************)
InTurn == printer = "kernel" /\ hit \in {"none", "between"}

Goal == kprintf(cls, start \o printed)
Now == kprintf(scr, pending)

At(s, x, y) == [cell |-> s.cell, x |-> x, y |-> y]
Drew(s, char) == [cell |-> Store(s.cell, s.y * WIDTH + s.x, char), x |-> s.x + 1, y |-> s.y]

Drawing == {"drawy", "drawx", "draw"}
Outs == {"select high", "high", "select low", "low"}

Whole ==
    erasing = "no" =>
        /\ pc \in {"rest"} \cup Showing => Goal = Now
        /\ pc = "test" => Goal = putch(Now, BACKSPACE)
        /\ pc \in Drawing => ch >= BLANK /\ Goal = Settled(Drew(Now, ch))
        /\ pc = "xload" => /\ ch # RETURN
                           /\ Goal = Settled(At(Now, IF ch = HTAB THEN NextTabStop(Now.x)
                                                     ELSE Now.x + 1, Now.y))
        /\ pc = "xstore" => ch # RETURN /\ Goal = Settled(At(Now, reg, Now.y))
        /\ pc = "wrap" => (ch = RETURN => ~LineFull(scr)) /\ Goal = Settled(Now)
        /\ pc = "home" => Goal = IF ch = RETURN THEN Settled(At(Now, 0, Now.y))
                                 ELSE scroll(At(Now, 0, Now.y + 1))
        /\ pc = "yload" => Goal = scroll(At(Now, Now.x, Now.y + 1))
        /\ pc = "ystore" => Goal = scroll(At(Now, Now.x, reg))
        /\ pc \in {"full", "temp", "copy"} => Goal = scroll(Now)
        /\ pc = "last" => Goal = At(Now, Now.x, HEIGHT - 1)

Wiping ==
    erasing # "no" =>
        /\ erasing = "first" /\ pc = "xload" => Goal = Wiped(scr, scr.x - 1)
        /\ erasing = "first" /\ pc = "xstore" => Goal = Wiped(scr, reg)
        /\ erasing = "blank" /\ pc \in Drawing => Goal = Wiped(scr, scr.x)
        /\ erasing = "blank" /\ pc \in {"xload", "xstore"} => Goal = scr
        /\ erasing = "blank" /\ pc = "xstore" => reg = scr.x + 1
        /\ erasing = "blank" /\ pc \in {"wrap", "full"} \cup Showing => Goal = At(scr, scr.x - 1, scr.y)
        /\ erasing = "second" /\ pc = "xload" => Goal = At(scr, scr.x - 1, scr.y)
        /\ erasing = "second" /\ pc = "xstore" => Goal = At(scr, reg, scr.y)

Reads ==
    /\ pc \in {"drawx", "movex"} => reg = scr.y * WIDTH
    /\ pc \in {"draw"} \cup Outs => reg = Position(scr)
    /\ pc \in {"temp", "copy"} => PageFull(scr)
    /\ pc = "copy" => reg = scr.y - HEIGHT + 1

\* Where the log can be pending, and what of the text is on the screen before the
\* character of this putch is.
Turns ==
    /\ pending # <<>> => pc \in {"rest", "test", "xload", "home", "drawy", "wrap", "full", "movey"}
    /\ pending # <<>> /\ hit = "none" => pc = "rest"
    /\ hit = "none" /\ Untouched =>
          \E before \in Seq(Nat) : printed = Append(before, ch) /\ scr = kprintf(cls, start \o before)

KernelInv ==
    InTurn => /\ start \in Seq(Nat) /\ printed \in Seq(Nat) /\ scr.cell \in [Memory -> Nat]
              /\ Whole /\ Wiping /\ Reads /\ Turns

(* A screen and its changes, by their parts. *)
LEMMA PartsOf ==
    ASSUME NEW s, Shape(s), NEW v
    PROVE  /\ s = At(s, s.x, s.y)
           /\ [s EXCEPT !.x = v] = At(s, v, s.y)
           /\ [s EXCEPT !.y = v] = At(s, s.x, v)
           /\ [s EXCEPT !.cell = v] = [cell |-> v, x |-> s.x, y |-> s.y]
<1>1. PICK a : a = s.cell
    OBVIOUS
<1>2. PICK b : b = s.x
    OBVIOUS
<1>3. PICK d : d = s.y
    OBVIOUS
<1>4. s \in [cell : {a}, x : {b}, y : {d}]
    BY <1>1, <1>2, <1>3 DEF Shape
<1>5. s = [cell |-> a, x |-> b, y |-> d]
    BY <1>4, OfParts
<1>6. [s EXCEPT !.x = v] = [cell |-> a, x |-> v, y |-> d]
    <2>1. [s EXCEPT !.x = v] \in [cell : {a}, x : {v}, y : {d}]
        BY <1>4
    <2> QED
        BY <2>1, OfParts
<1>7. [s EXCEPT !.y = v] = [cell |-> a, x |-> b, y |-> v]
    <2>1. [s EXCEPT !.y = v] \in [cell : {a}, x : {b}, y : {v}]
        BY <1>4
    <2> QED
        BY <2>1, OfParts
<1>8. [s EXCEPT !.cell = v] = [cell |-> v, x |-> b, y |-> d]
    <2>1. [s EXCEPT !.cell = v] \in [cell : {v}, x : {b}, y : {d}]
        BY <1>4
    <2> QED
        BY <2>1, OfParts
<1> QED
    BY <1>1, <1>2, <1>3, <1>5, <1>6, <1>7, <1>8, Zenon DEF At

LEMMA ScreenFrom ==
    ASSUME NEW s, Shape(s), s.cell \in [Memory -> Nat]
    PROVE  /\ OnScreen(s) => s \in Screens
           /\ s.x \in Nat /\ s.y \in 0..HEIGHT => s \in Placings
<1>1. s \in [cell : {s.cell}, x : {s.x}, y : {s.y}]
    BY DEF Shape
<1> QED
    BY <1>1 DEF Screens, Placings, OnScreen

(* What is left to do once putch has placed its character. *)
LEMMA SettlesBy ==
    ASSUME NEW s, Shape(s)
    PROVE  /\ LineFull(s) => Settled(s) = scroll(At(s, 0, s.y + 1))
           /\ ~LineFull(s) => Settled(s) = scroll(s)
           /\ PageFull(s) => scroll(s) = [cell |-> ScrolledBy(s.cell, s.y - HEIGHT + 1), x |-> s.x,
                                          y |-> HEIGHT - 1]
           /\ ~PageFull(s) => scroll(s) = s
           /\ OnScreen(s) => Settled(s) = s /\ scroll(s) = s
<1>1. ASSUME LineFull(s) PROVE Settled(s) = scroll(At(s, 0, s.y + 1))
    <2>1. PICK v : v = s.y + 1
        OBVIOUS
    <2>2. [s EXCEPT !.x = 0, !.y = v] = At(s, 0, v)
        <3>1. PICK a : a = s.cell
            OBVIOUS
        <3>2. [s EXCEPT !.x = 0, !.y = v] \in [cell : {a}, x : {0}, y : {v}]
            BY <3>1 DEF Shape
        <3>3. [s EXCEPT !.x = 0, !.y = v] = [cell |-> a, x |-> 0, y |-> v]
            BY <3>2, OfParts
        <3> QED
            BY <3>1, <3>3 DEF At
    <2>3. Settled(s) = scroll([s EXCEPT !.x = 0, !.y = @ + 1])
        BY <1>1, Zenon DEF Settled
    <2>4. [s EXCEPT !.x = 0, !.y = @ + 1] = [s EXCEPT !.x = 0, !.y = v]
        BY <2>1
    <2> QED
        BY <2>1, <2>2, <2>3, <2>4, Zenon
<1>2. ~LineFull(s) => Settled(s) = scroll(s)
    BY Zenon DEF Settled
<1>3. PageFull(s) => scroll(s) = [cell |-> ScrolledBy(s.cell, s.y - HEIGHT + 1), x |-> s.x,
                                  y |-> HEIGHT - 1]
    BY Zenon DEF scroll
<1>4. ~PageFull(s) => scroll(s) = s
    BY Zenon DEF scroll
<1>5. OnScreen(s) => ~LineFull(s) /\ ~PageFull(s)
    BY TextIs DEF OnScreen, LineFull, PageFull
<1> QED
    BY <1>1, <1>2, <1>3, <1>4, <1>5, Zenon

(* putch of each kind of character, from a screen at rest. *)
LEMMA PutchIs ==
    ASSUME NEW s \in Screens, NEW char \in Nat
    PROVE  /\ char = HTAB => putch(s, char) = Settled(At(s, NextTabStop(s.x), s.y))
           /\ char = RETURN => putch(s, char) = Settled(At(s, 0, s.y))
           /\ char = NEWLINE => putch(s, char) = scroll(At(s, 0, s.y + 1))
           /\ char >= BLANK => putch(s, char) = Settled(Drew(s, char))
           /\ char = BACKSPACE /\ s.x # 0 => putch(s, char) = Wiped(s, s.x - 1)
           /\ char = BACKSPACE /\ s.x = 0 => putch(s, char) = Settled(s)
           /\ char \notin {BACKSPACE, HTAB, RETURN, NEWLINE} /\ ~(char >= BLANK) =>
                putch(s, char) = Settled(s)
<1>1. putch(s, char) = Settled(Placed(s, char))
    BY DEF putch
<1>2. char = HTAB => putch(s, char) = Settled(At(s, NextTabStop(s.x), s.y))
    BY <1>1, PlacedIs DEF At
<1>3. char = RETURN => putch(s, char) = Settled(At(s, 0, s.y))
    BY <1>1, PlacedIs DEF At
<1>4. ASSUME char = NEWLINE PROVE putch(s, char) = scroll(At(s, 0, s.y + 1))
    <2>1. PICK t : t = At(s, 0, s.y + 1)
        OBVIOUS
    <2>2. putch(s, char) = Settled(t)
        BY <1>1, <1>4, <2>1, PlacedIs DEF At
    <2>3. Shape(t) /\ ~LineFull(t)
        BY <2>1, TextIs DEF At, Shape, LineFull
    <2> QED
        BY <2>1, <2>2, <2>3, SettlesBy
<1>5. ASSUME char >= BLANK PROVE putch(s, char) = Settled(Drew(s, char))
    <2>1. PICK t : t = Drawn(s, char)
        OBVIOUS
    <2>2. putch(s, char) = Settled(t)
        BY <1>1, <1>5, <2>1, PlacedIs
    <2>3. /\ t \in Placings /\ t.x = s.x + 1 /\ t.y = s.y
          /\ t.cell = Store(s.cell, s.y * WIDTH + s.x, char)
        BY <2>1, DrawnIs
    <2>4. t = [cell |-> t.cell, x |-> t.x, y |-> t.y]
        BY <2>3, ChangedParts
    <2>5. t = Drew(s, char)
        BY <2>3, <2>4 DEF Drew
    <2> QED
        BY <2>2, <2>5
<1>6. ASSUME char = BACKSPACE, s.x # 0 PROVE putch(s, char) = Wiped(s, s.x - 1)
    <2>1. PICK t : t = Wiped(s, s.x - 1)
        OBVIOUS
    <2>2. t \in Screens
        BY <1>6, <2>1, ErasedIs
    <2>3. t \in Placings /\ (t.x >= WIDTH => t.y < HEIGHT)
        BY <2>2, Sizes DEF Screens
    <2>4. Settled(t) = t
        BY <2>2, <2>3, SettledIs
    <2>5. Placed(s, char) = t
        BY <1>6, <2>1, PlacedIs
    <2> QED
        BY <1>1, <2>1, <2>4, <2>5
<1>7. char = BACKSPACE /\ s.x = 0 => putch(s, char) = Settled(s)
    BY <1>1, PlacedIs
<1>8. char \notin {BACKSPACE, HTAB, RETURN, NEWLINE} /\ ~(char >= BLANK) => putch(s, char) = Settled(s)
    BY <1>1, PlacedIs
<1> QED
    BY <1>2, <1>3, <1>4, <1>5, <1>6, <1>7, <1>8

UntouchedRule ==
    (Untouched <=> \/ pc = "test"
                   \/ /\ erasing = "no" /\ OnScreen(scr)
                      /\ \/ ch = HTAB /\ pc = "xload"
                         \/ ch \in {RETURN, NEWLINE} /\ pc = "home"
                         \/ ch \notin {HTAB, RETURN, NEWLINE} /\ pc = "drawy")

LEMMA UntouchedIs == UntouchedRule
<1>1. erasing = "no" => c = ch
    BY DEF c, BLANK
<1>2. HTAB \notin {RETURN, NEWLINE}
    BY DEF HTAB, RETURN, NEWLINE
<1> QED
    BY <1>1, <1>2 DEF UntouchedRule, Untouched

LEMMA UntouchedNext == UntouchedRule'
BY UntouchedIs, PTL

LEMMA ClsTyped == cls \in Screens
<1>1. cls.cell \in [Memory -> Nat]
    BY DEF cls, BLANK, UNTOUCHED
<1> QED
    BY <1>1, TextIs DEF cls, Screens

(* What the kernel's steps know before them. *)
LEMMA TurnIs ==
    ASSUME StoresInv, KernelInv, InTurn
    PROVE  /\ start \in Seq(Nat) /\ printed \in Seq(Nat) /\ start \o printed \in Seq(Nat)
           /\ scr.cell \in [Memory -> Nat] /\ Shape(scr) /\ pending \in Seq(Nat)
           /\ Texts /\ Plain /\ Backspacing /\ Whole /\ Wiping /\ Reads /\ Turns
           /\ pending # <<>> => scr \in Screens /\ erasing = "no"
           /\ pending = <<>> => Now = scr
<1>1. Texts /\ Plain /\ Backspacing /\ Harmless
    BY DEF InTurn, StoresInv, IInv, CursorInv, Harmless
<1>2. /\ start \in Seq(Nat) /\ printed \in Seq(Nat) /\ scr.cell \in [Memory -> Nat]
      /\ Whole /\ Wiping /\ Reads /\ Turns
    BY DEF KernelInv
<1>3. Shape(scr) /\ pending \in Seq(Nat)
    <2>1. pending \in Seq(Nat \ {BACKSPACE})
        BY <1>1 DEF Texts
    <2>2. Seq(Nat \ {BACKSPACE}) \subseteq Seq(Nat)
        OBVIOUS
    <2> QED
        BY <1>1, <2>1, <2>2 DEF Texts
<1>4. start \o printed \in Seq(Nat)
    BY <1>2
<1>5. pending # <<>> => scr \in Screens /\ erasing = "no"
    BY <1>1, <1>2, <1>3, ScreenFrom DEF StoresInv, StoreInv, Backspacing
<1>6. pending = <<>> => Now = scr
    BY KprintfNone DEF Now
<1> QED
    BY <1>1, <1>2, <1>3, <1>4, <1>5, <1>6

(* A step of putch or of move_csr starts and ends with nothing pending, and is about *)
(* the same text.                                                                     *)
LEMMA StepIs ==
    ASSUME StoresInv, KernelInv, InTurn', PutchStep \/ PortWrites
    PROVE  /\ InTurn /\ UNCHANGED <<start, printed, ch, hit>> /\ pending' = <<>>
           /\ Now = scr /\ Now' = scr' /\ Goal' = Goal
<1>1. UNCHANGED <<printer, start, printed, ch, hit>> /\ pending = <<>> /\ pending' = <<>>
    BY DEF PutchStep, Test, Draw, ChangeX, NextLine, Scroll, MoveCsr, Do, PortWrites, OutPort,
           Interruptible, history
<1>2. InTurn
    BY <1>1 DEF InTurn
<1>3. Now = scr
    BY <1>1, KprintfNone DEF Now
<1>4. Now' = scr'
    BY <1>1, KprintfNone DEF Now
<1>5. Goal' = Goal
    BY <1>1 DEF Goal
<1> QED
    BY <1>1, <1>2, <1>3, <1>4, <1>5

LEMMA PlaceKeeps ==
    ASSUME StoresInv, KernelInv, InTurn', PutchStep \/ PortWrites,
           scr'.cell \in [Memory -> Nat], Whole', Wiping', Reads', ~Untouched'
    PROVE  KernelInv'
<1>1. UNCHANGED <<start, printed>> /\ pending' = <<>> /\ InTurn
    BY StepIs
<1>2. start \in Seq(Nat) /\ printed \in Seq(Nat)
    BY <1>1 DEF KernelInv
<1>3. Turns'
    BY <1>1, Zenon DEF Turns
<1> QED
    BY <1>1, <1>2, <1>3 DEF KernelInv

LEMMA TestGoesOn == StoresInv /\ KernelInv /\ InTurn' /\ Test => KernelInv'
<1> SUFFICES ASSUME StoresInv, KernelInv, InTurn', Test PROVE KernelInv'
    OBVIOUS
<1>1. PutchStep
    BY DEF PutchStep
<1>2. InTurn /\ UNCHANGED <<ch>> /\ Now = scr /\ Now' = scr' /\ Goal' = Goal
    BY <1>1, StepIs
<1>3. Texts /\ Plain /\ Backspacing /\ Whole /\ Wiping /\ Reads /\ scr.cell \in [Memory -> Nat]
    BY <1>2, TurnIs
<1>4. pc = "test" /\ scr' = scr /\ UNCHANGED reg
      /\ pc' = (IF scr.x # 0 THEN "xload" ELSE "wrap")
      /\ erasing' = (IF scr.x # 0 THEN "first" ELSE "no")
    BY DEF Test, Do
<1>5. erasing = "no" /\ ch = BACKSPACE
    BY <1>3, <1>4 DEF Texts, Plain, Backspacing, Showing
<1>6. scr \in Screens
    BY <1>3, <1>4, <1>5, ScreenFrom DEF Texts, Plain, Scrolling
<1>7. Goal = putch(scr, BACKSPACE)
    BY <1>2, <1>3, <1>4, <1>5 DEF Whole
<1>8. BACKSPACE \in Nat /\ BACKSPACE # RETURN
    BY DEF BACKSPACE, RETURN
<1>9. CASE scr.x # 0
    <2>1. Goal = Wiped(scr, scr.x - 1)
        BY <1>6, <1>7, <1>8, <1>9, PutchIs
    <2>2. pc' = "xload" /\ erasing' = "first"
        BY <1>4, <1>9
    <2>3. Wiping' /\ Whole' /\ Reads'
        BY <1>2, <1>4, <2>1, <2>2 DEF Wiping, Whole, Reads, Outs, Drawing, Showing
    <2>4. ~Untouched'
        BY <2>2, UntouchedNext DEF UntouchedRule
    <2> QED
        BY <1>1, <1>3, <1>4, <2>3, <2>4, PlaceKeeps
<1>10. CASE scr.x = 0
    <2>1. Goal = Settled(scr)
        BY <1>6, <1>7, <1>8, <1>10, PutchIs
    <2>2. pc' = "wrap" /\ erasing' = "no"
        BY <1>4, <1>10
    <2>3. Wiping' /\ Whole' /\ Reads'
        BY <1>2, <1>4, <1>5, <1>8, <2>1, <2>2 DEF Wiping, Whole, Reads, Outs, Drawing, Showing
    <2>4. ~Untouched'
        BY <2>2, UntouchedNext DEF UntouchedRule
    <2> QED
        BY <1>1, <1>3, <1>4, <2>3, <2>4, PlaceKeeps
<1> QED
    BY <1>9, <1>10

LEMMA DrawGoesOn == StoresInv /\ KernelInv /\ InTurn' /\ Draw => KernelInv'
<1> SUFFICES ASSUME StoresInv, KernelInv, InTurn', Draw PROVE KernelInv'
    OBVIOUS
<1>1. PutchStep
    BY DEF PutchStep
<1>2. InTurn /\ UNCHANGED <<ch>> /\ Now = scr /\ Now' = scr' /\ Goal' = Goal
    BY <1>1, StepIs
<1>3. Texts /\ Plain /\ Backspacing /\ Whole /\ Wiping /\ Reads /\ scr.cell \in [Memory -> Nat]
    BY <1>2, TurnIs
<1>4. pc \in Drawing /\ UNCHANGED erasing
    BY DEF Draw, Do, Quiet, Drawing
<1>5. erasing \in {"no", "blank"}
    BY <1>3, <1>4 DEF Texts, Backspacing, Drawing
<1>6. erasing = "no" => ch >= BLANK /\ Goal = Settled(Drew(scr, ch))
    BY <1>2, <1>3, <1>4 DEF Whole
<1>7. erasing = "blank" => Goal = Wiped(scr, scr.x)
    BY <1>3, <1>4 DEF Wiping
<1>8. ASSUME NEW at \in {"drawx", "draw"}, pc' = at, scr' = scr,
             at = "drawx" => reg' = scr.y * WIDTH,
             at = "draw" => reg' = Position(scr)
      PROVE  KernelInv'
    <2>1. Whole' /\ Wiping'
        BY <1>2, <1>4, <1>5, <1>6, <1>7, <1>8 DEF Wiping, Whole, Drawing, Showing
    <2>2. Reads'
        BY <1>8 DEF Reads, Outs
    <2>3. ~Untouched'
        BY <1>8, UntouchedNext DEF UntouchedRule
    <2> QED
        BY <1>1, <1>3, <1>8, <2>1, <2>2, <2>3, PlaceKeeps
<1>9. CASE Do("drawy", "drawx", scr.y * WIDTH, scr)
    BY <1>8, <1>9 DEF Do
<1>10. CASE Do("drawx", "draw", reg + scr.x, scr)
    <2>1. reg = scr.y * WIDTH
        BY <1>3, <1>10 DEF Do, Reads
    <2> QED
        BY <1>8, <1>10, <2>1 DEF Do, Position
<1>11. CASE Do("draw", "xload", reg, [scr EXCEPT !.cell = Store(@, reg, c)])
    <2>1. pc = "draw" /\ pc' = "xload" /\ UNCHANGED reg /\ reg = Position(scr)
          /\ scr' = [scr EXCEPT !.cell = Store(scr.cell, reg, c)]
        BY <1>3, <1>11 DEF Do, Reads
    <2>2. c = (IF erasing = "blank" THEN BLANK ELSE ch) /\ c \in Nat
        BY <1>3 DEF c, Texts, BLANK
    <2>3. PICK s : s = Store(scr.cell, scr.y * WIDTH + scr.x, c)
        OBVIOUS
    <2>4. s \in [Memory -> Nat]
        BY <1>3, <2>2, <2>3, StoreTyped
    <2>5. scr' = [cell |-> s, x |-> scr.x, y |-> scr.y]
        BY <1>3, <2>1, <2>3, PartsOf DEF Position, Texts
    <2>6. scr'.cell = s /\ scr'.x = scr.x /\ scr'.y = scr.y
        BY <2>5
    <2>7. HTAB # ch \/ erasing = "blank"
        BY <1>5, <1>6 DEF BLANK, HTAB
    <2>8. CASE erasing = "no"
        <3>1. Drew(scr, ch) = [cell |-> s, x |-> scr.x + 1, y |-> scr.y]
            BY <2>2, <2>3, <2>8 DEF Drew
        <3>2. At(scr', scr'.x + 1, scr'.y) = Drew(scr, ch)
            BY <2>6, <3>1 DEF At
        <3>3. ch # RETURN /\ ch # HTAB
            BY <1>3, <1>6, <2>8 DEF Texts, BLANK, RETURN, HTAB
        <3>4. Goal' = Settled(At(Now', IF ch = HTAB THEN NextTabStop(Now'.x) ELSE Now'.x + 1, Now'.y))
            BY <1>2, <1>6, <2>8, <3>2, <3>3
        <3>5. Whole' /\ Wiping'
            BY <1>2, <1>4, <2>1, <2>8, <3>3, <3>4 DEF Wiping, Whole, Drawing, Showing
        <3>6. Reads'
            BY <2>1 DEF Reads, Outs
        <3>7. ~Untouched'
            BY <1>2, <2>1, <3>3, UntouchedNext DEF UntouchedRule
        <3> QED
            BY <1>1, <2>4, <2>6, <3>5, <3>6, <3>7, PlaceKeeps
    <2>9. CASE erasing = "blank"
        <3>1. Goal = scr'
            BY <1>7, <2>2, <2>3, <2>5, <2>9 DEF Wiped
        <3>2. Whole' /\ Wiping'
            BY <1>2, <1>4, <2>1, <2>9, <3>1 DEF Wiping, Whole, Drawing, Showing
        <3>3. Reads'
            BY <2>1 DEF Reads, Outs
        <3>4. ~Untouched'
            BY <1>4, <2>1, <2>9, UntouchedNext DEF UntouchedRule
        <3> QED
            BY <1>1, <2>4, <2>6, <3>2, <3>3, <3>4, PlaceKeeps
    <2> QED
        BY <1>5, <2>8, <2>9
<1> QED
    BY <1>9, <1>10, <1>11 DEF Draw

LEMMA ChangeXGoesOn == StoresInv /\ KernelInv /\ InTurn' /\ ChangeX => KernelInv'
<1> SUFFICES ASSUME StoresInv, KernelInv, InTurn', ChangeX PROVE KernelInv'
    OBVIOUS
<1>1. PutchStep
    BY DEF PutchStep
<1>2. InTurn /\ UNCHANGED <<ch>> /\ Now = scr /\ Now' = scr' /\ Goal' = Goal
    BY <1>1, StepIs
<1>3. Texts /\ Plain /\ Backspacing /\ Whole /\ Wiping /\ Reads /\ scr.cell \in [Memory -> Nat]
    BY <1>2, TurnIs
<1>4. Shape(scr) /\ ch \in Nat /\ erasing \in {"no", "first", "blank", "second"}
    BY <1>3 DEF Texts
<1>5. WIDTH \in Nat \ {0} /\ HEIGHT \in Nat \ {0}
    BY ScreenAssumption
<1>6. BACKSPACE # RETURN /\ BACKSPACE # HTAB /\ BACKSPACE # NEWLINE /\ NEWLINE # RETURN
    BY DEF BACKSPACE, RETURN, HTAB, NEWLINE
<1>7. CASE /\ Do("xload", "xstore",
                     CASE c = BACKSPACE -> scr.x - 1
                       [] c = HTAB      -> NextTabStop(scr.x)
                       [] OTHER         -> scr.x + 1,
                     scr)
           /\ Quiet
    <2>1. pc = "xload" /\ pc' = "xstore" /\ scr' = scr /\ UNCHANGED erasing
        BY <1>7 DEF Do, Quiet
    <2>2. reg' = IF c = BACKSPACE THEN scr.x - 1
                 ELSE IF c = HTAB THEN NextTabStop(scr.x) ELSE scr.x + 1
        BY <1>6, <1>7 DEF Do
    <2>3. Reads' /\ ~Untouched'
        BY <2>1, UntouchedNext DEF UntouchedRule, Reads, Outs
    <2>4. CASE erasing = "no"
        <3>1. ch # BACKSPACE /\ c = ch
            BY <1>3, <2>1, <2>4 DEF Plain, c
        <3>2. reg' = IF ch = HTAB THEN NextTabStop(scr.x) ELSE scr.x + 1
            BY <2>2, <3>1
        <3>3. ch # RETURN /\ Goal = Settled(At(scr, IF ch = HTAB THEN NextTabStop(scr.x) ELSE scr.x + 1, scr.y))
            BY <1>2, <1>3, <2>1, <2>4 DEF Whole
        <3>4. Goal' = Settled(At(Now', reg', Now'.y))
            BY <1>2, <2>1, <3>2, <3>3
        <3>5. Whole' /\ Wiping'
            BY <1>2, <2>1, <2>4, <3>3, <3>4 DEF Wiping, Whole, Drawing, Showing
        <3> QED
            BY <1>1, <1>3, <2>1, <2>3, <3>5, PlaceKeeps
    <2>5. CASE erasing \in {"first", "second"}
        <3>1. c = BACKSPACE
            BY <1>3, <2>5 DEF Backspacing, c
        <3>2. reg' = scr.x - 1
            BY <2>2, <3>1
        <3>3. Goal = IF erasing = "first" THEN Wiped(scr, scr.x - 1) ELSE At(scr, scr.x - 1, scr.y)
            BY <1>3, <2>1, <2>5 DEF Wiping
        <3>4. Whole' /\ Wiping'
            BY <1>2, <2>1, <2>5, <3>2, <3>3 DEF Wiping, Whole, Drawing, Showing
        <3> QED
            BY <1>1, <1>3, <2>1, <2>3, <3>4, PlaceKeeps
    <2>6. CASE erasing = "blank"
        <3>1. c # BACKSPACE /\ c # HTAB
            BY <2>6 DEF c, BLANK, BACKSPACE, HTAB
        <3>2. reg' = scr.x + 1
            BY <2>2, <3>1
        <3>3. Goal = scr
            BY <1>3, <2>1, <2>6 DEF Wiping
        <3>4. Whole' /\ Wiping'
            BY <1>2, <2>1, <2>6, <3>2, <3>3 DEF Wiping, Whole, Drawing, Showing
        <3> QED
            BY <1>1, <1>3, <2>1, <2>3, <3>4, PlaceKeeps
    <2> QED
        BY <1>4, <2>4, <2>5, <2>6
<1>8. CASE /\ Do("xstore", IF erasing = "first" THEN "drawy" ELSE "wrap", reg,
                 [scr EXCEPT !.x = reg])
           /\ erasing' = CASE erasing = "first"  -> "blank"
                           [] erasing = "second" -> "no"
                           [] OTHER              -> erasing
    <2>1. pc = "xstore" /\ UNCHANGED reg /\ scr' = [scr EXCEPT !.x = reg]
          /\ pc' = IF erasing = "first" THEN "drawy" ELSE "wrap"
        BY <1>8 DEF Do
    <2>2. erasing' = IF erasing = "first" THEN "blank" ELSE IF erasing = "second" THEN "no" ELSE erasing
        BY <1>8
    <2>3. PICK r : r = reg
        OBVIOUS
    <2>4. scr' = At(scr, r, scr.y)
        BY <1>4, <2>1, <2>3, PartsOf
    <2>5. scr' = [cell |-> scr.cell, x |-> r, y |-> scr.y]
        BY <2>4 DEF At
    <2>6. scr'.cell = scr.cell /\ scr'.x = r /\ scr'.y = scr.y
        BY <2>5
    <2>7. Reads'
        BY <2>1 DEF Reads, Outs
    <2>8. ~Untouched'
        BY <1>4, <2>1, <2>2, UntouchedNext DEF UntouchedRule
    <2>9. CASE erasing = "no"
        <3>1. ch # RETURN /\ Goal = Settled(scr')
            BY <1>2, <1>3, <2>1, <2>3, <2>4, <2>9 DEF Whole
        <3>2. Whole' /\ Wiping'
            BY <1>2, <2>1, <2>2, <2>9, <3>1 DEF Wiping, Whole, Drawing, Showing
        <3> QED
            BY <1>1, <1>3, <2>6, <2>7, <2>8, <3>2, PlaceKeeps
    <2>10. CASE erasing = "first"
        <3>1. Goal = Wiped(scr, r)
            BY <1>3, <2>1, <2>3, <2>10 DEF Wiping
        <3>2. Wiped(scr, r) = Wiped(scr', scr'.x)
            BY <2>6 DEF Wiped
        <3>3. Whole' /\ Wiping'
            BY <1>2, <2>1, <2>2, <2>10, <3>1, <3>2 DEF Wiping, Whole, Drawing, Showing
        <3> QED
            BY <1>1, <1>3, <2>6, <2>7, <2>8, <3>3, PlaceKeeps
    <2>11. CASE erasing = "blank"
        <3>1. Goal = scr /\ reg = scr.x + 1
            BY <1>3, <2>1, <2>11 DEF Wiping
        <3>2. scr.x \in Int
            BY <1>3, <2>1, <2>11 DEF Backspacing, Moving
        <3>3. scr'.x - 1 = scr.x
            BY <2>3, <2>6, <3>1, <3>2
        <3>4. scr = At(scr, scr.x, scr.y)
            BY <1>4, PartsOf
        <3>5. At(scr', scr'.x - 1, scr'.y) = scr
            BY <2>6, <3>3, <3>4 DEF At
        <3>6. Whole' /\ Wiping'
            BY <1>2, <2>1, <2>2, <2>11, <3>1, <3>5 DEF Wiping, Whole, Drawing, Showing
        <3> QED
            BY <1>1, <1>3, <2>6, <2>7, <2>8, <3>6, PlaceKeeps
    <2>12. CASE erasing = "second"
        <3>1. Goal = scr'
            BY <1>3, <2>1, <2>3, <2>4, <2>12 DEF Wiping
        <3>2. reg \in 0..(WIDTH - 2) /\ scr.y \in 0..(HEIGHT - 1) /\ ch = BACKSPACE
            BY <1>3, <2>1, <2>12 DEF Backspacing
        <3>3. Shape(scr') /\ OnScreen(scr')
            BY <1>5, <2>3, <2>5, <2>6, <3>2 DEF Shape, OnScreen
        <3>4. Settled(scr') = scr'
            BY <3>3, SettlesBy
        <3>5. Whole' /\ Wiping'
            BY <1>2, <1>6, <2>1, <2>2, <2>12, <3>1, <3>2, <3>4 DEF Wiping, Whole, Drawing, Showing
        <3> QED
            BY <1>1, <1>3, <2>6, <2>7, <2>8, <3>5, PlaceKeeps
    <2> QED
        BY <1>4, <2>9, <2>10, <2>11, <2>12
<1> QED
    BY <1>7, <1>8 DEF ChangeX

LEMMA NextLineGoesOn == StoresInv /\ KernelInv /\ InTurn' /\ NextLine => KernelInv'
<1> SUFFICES ASSUME StoresInv, KernelInv, InTurn', NextLine PROVE KernelInv'
    OBVIOUS
<1>1. PutchStep
    BY DEF PutchStep
<1>2. InTurn /\ UNCHANGED <<ch>> /\ Now = scr /\ Now' = scr' /\ Goal' = Goal
    BY <1>1, StepIs
<1>3. Texts /\ Plain /\ Backspacing /\ Whole /\ Wiping /\ Reads /\ scr.cell \in [Memory -> Nat]
    BY <1>2, TurnIs
<1>4. Shape(scr) /\ ch \in Nat /\ erasing \in {"no", "first", "blank", "second"}
    BY <1>3 DEF Texts
<1>5. WIDTH \in Nat \ {0} /\ HEIGHT \in Nat \ {0}
    BY ScreenAssumption
<1>6. BACKSPACE # RETURN /\ BACKSPACE # HTAB /\ BACKSPACE # NEWLINE /\ NEWLINE # RETURN
    BY DEF BACKSPACE, RETURN, HTAB, NEWLINE
<1>7. UNCHANGED erasing
    BY DEF NextLine, Quiet
<1>8. CASE Do("wrap", IF LineFull(scr) THEN "home" ELSE "full", reg, scr)
    <2>1. pc = "wrap" /\ scr' = scr /\ UNCHANGED reg
          /\ pc' = IF LineFull(scr) THEN "home" ELSE "full"
        BY <1>8 DEF Do
    <2>2. Reads'
        BY <2>1 DEF Reads, Outs
    <2>3. ~Untouched'
        <3>1. ~(LineFull(scr) /\ OnScreen(scr))
            BY <1>5 DEF LineFull, OnScreen
        <3>2. OnScreen(scr') <=> OnScreen(scr)
            BY <2>1
        <3> QED
            BY <2>1, <3>1, <3>2, UntouchedNext DEF UntouchedRule
    <2>4. CASE erasing = "no"
        <3>1. (ch = RETURN => ~LineFull(scr)) /\ Goal = Settled(scr)
            BY <1>2, <1>3, <2>1, <2>4 DEF Whole
        <3>2. /\ LineFull(scr) => Goal = scroll(At(scr, 0, scr.y + 1)) /\ ch # RETURN
              /\ ~LineFull(scr) => Goal = scroll(scr)
            BY <1>4, <3>1, SettlesBy
        <3>3. Whole' /\ Wiping'
            BY <1>2, <1>7, <2>1, <2>4, <3>2 DEF Wiping, Whole, Drawing, Showing
        <3> QED
            BY <1>1, <1>3, <2>1, <2>2, <2>3, <3>3, PlaceKeeps
    <2>5. CASE erasing = "blank"
        <3>1. scr.x \in 1..(WIDTH - 1)
            BY <1>3, <2>1, <2>5 DEF Backspacing, Moving
        <3>2. pc' = "full"
            BY <1>5, <2>1, <3>1 DEF LineFull
        <3>3. Whole' /\ Wiping'
            BY <1>2, <1>3, <1>7, <2>1, <2>5, <3>2 DEF Wiping, Whole, Drawing, Showing
        <3> QED
            BY <1>1, <1>3, <2>1, <2>2, <2>3, <3>3, PlaceKeeps
    <2>6. erasing \notin {"first", "second"}
        BY <1>3, <2>1 DEF Backspacing
    <2> QED
        BY <1>4, <2>4, <2>5, <2>6
<1>9. ASSUME pc \in {"home", "yload", "ystore"} PROVE erasing = "no"
    BY <1>3, <1>9 DEF Texts, Backspacing, Showing
<1>10. erasing = "no" => c = ch
    BY DEF c, BLANK
<1>11. CASE Do("home", IF c = RETURN THEN "wrap" ELSE "yload", reg, [scr EXCEPT !.x = 0])
    <2>1. pc = "home" /\ UNCHANGED reg /\ erasing = "no" /\ c = ch
          /\ pc' = (IF c = RETURN THEN "wrap" ELSE "yload") /\ scr' = [scr EXCEPT !.x = 0]
        BY <1>9, <1>10, <1>11 DEF Do
    <2>2. scr' = At(scr, 0, scr.y)
        BY <1>4, <2>1, PartsOf
    <2>3. scr' = [cell |-> scr.cell, x |-> 0, y |-> scr.y]
        BY <2>2 DEF At
    <2>4. scr'.cell = scr.cell /\ scr'.x = 0 /\ scr'.y = scr.y
        BY <2>3
    <2>5. Reads' /\ ~Untouched'
        BY <2>1, UntouchedNext DEF UntouchedRule, Reads, Outs
    <2>6. Goal = IF ch = RETURN THEN Settled(scr') ELSE scroll(At(scr, 0, scr.y + 1))
        BY <1>2, <1>3, <2>1, <2>2 DEF Whole
    <2>7. At(scr', scr'.x, scr'.y + 1) = At(scr, 0, scr.y + 1)
        BY <2>4 DEF At
    <2>8. ~LineFull(scr')
        BY <1>5, <2>4 DEF LineFull
    <2>9. Whole' /\ Wiping'
        <3>1. CASE ch = RETURN
            <4>1. pc' = "wrap" /\ erasing' = "no" /\ ~LineFull(scr)' /\ Goal' = Settled(Now')
                BY <1>2, <1>7, <2>1, <2>6, <2>8, <3>1
            <4> QED
                BY <4>1 DEF Wiping, Whole, Drawing, Showing
        <3>2. CASE ch # RETURN
            <4>1. pc' = "yload" /\ erasing' = "no" /\ Goal' = scroll(At(Now', Now'.x, Now'.y + 1))
                BY <1>2, <1>7, <2>1, <2>6, <2>7, <3>2
            <4> QED
                BY <4>1 DEF Wiping, Whole, Drawing, Showing
        <3> QED
            BY <3>1, <3>2
    <2> QED
        BY <1>1, <1>3, <2>4, <2>5, <2>9, PlaceKeeps
<1>12. CASE Do("yload", "ystore", scr.y + 1, scr)
    <2>1. pc = "yload" /\ pc' = "ystore" /\ reg' = scr.y + 1 /\ scr' = scr /\ erasing = "no"
        BY <1>9, <1>12 DEF Do
    <2>2. Reads' /\ ~Untouched'
        BY <2>1, UntouchedNext DEF UntouchedRule, Reads, Outs
    <2>3. Whole' /\ Wiping'
        BY <1>2, <1>3, <1>7, <2>1 DEF Wiping, Whole, Drawing, Showing
    <2> QED
        BY <1>1, <1>3, <2>1, <2>2, <2>3, PlaceKeeps
<1>13. CASE Do("ystore", IF c = NEWLINE THEN "wrap" ELSE "full", reg, [scr EXCEPT !.y = reg])
    <2>1. pc = "ystore" /\ UNCHANGED reg /\ erasing = "no" /\ c = ch
          /\ pc' = (IF c = NEWLINE THEN "wrap" ELSE "full") /\ scr' = [scr EXCEPT !.y = reg]
        BY <1>9, <1>10, <1>13 DEF Do
    <2>2. PICK r : r = reg
        OBVIOUS
    <2>3. scr' = At(scr, scr.x, r)
        BY <1>4, <2>1, <2>2, PartsOf
    <2>4. scr' = [cell |-> scr.cell, x |-> scr.x, y |-> r]
        BY <2>3 DEF At
    <2>5. scr'.cell = scr.cell /\ scr'.x = scr.x /\ scr'.y = r
        BY <2>4
    <2>6. Reads' /\ ~Untouched'
        BY <2>1, UntouchedNext DEF UntouchedRule, Reads, Outs
    <2>7. Goal = scroll(scr')
        BY <1>2, <1>3, <2>1, <2>2, <2>3 DEF Whole
    <2>8. Shape(scr') /\ ~LineFull(scr')
        <3>1. OnScreen(scr)
            BY <1>3, <2>1 DEF Plain, Scrolling
        <3> QED
            BY <1>5, <2>4, <2>5, <3>1 DEF Shape, LineFull, OnScreen
    <2>9. Settled(scr') = scroll(scr')
        BY <2>8, SettlesBy
    <2>10. Whole' /\ Wiping'
        <3>1. CASE ch = NEWLINE
            <4>1. pc' = "wrap" /\ erasing' = "no" /\ ch' # RETURN /\ Goal' = Settled(Now')
                BY <1>2, <1>6, <1>7, <2>1, <2>7, <2>9, <3>1
            <4> QED
                BY <4>1 DEF Wiping, Whole, Drawing, Showing
        <3>2. CASE ch # NEWLINE
            <4>1. pc' = "full" /\ erasing' = "no" /\ Goal' = scroll(Now')
                BY <1>2, <1>7, <2>1, <2>7, <3>2
            <4> QED
                BY <4>1 DEF Wiping, Whole, Drawing, Showing
        <3> QED
            BY <3>1, <3>2
    <2> QED
        BY <1>1, <1>3, <2>5, <2>6, <2>10, PlaceKeeps
<1> QED
    BY <1>8, <1>11, <1>12, <1>13 DEF NextLine

LEMMA ScrollGoesOn == StoresInv /\ KernelInv /\ InTurn' /\ Scroll => KernelInv'
<1> SUFFICES ASSUME StoresInv, KernelInv, InTurn', Scroll PROVE KernelInv'
    OBVIOUS
<1>1. PutchStep
    BY DEF PutchStep
<1>2. InTurn /\ UNCHANGED <<ch>> /\ Now = scr /\ Now' = scr' /\ Goal' = Goal
    BY <1>1, StepIs
<1>3. Texts /\ Plain /\ Backspacing /\ Whole /\ Wiping /\ Reads /\ scr.cell \in [Memory -> Nat]
    BY <1>2, TurnIs
<1>4. Shape(scr) /\ ch \in Nat /\ erasing \in {"no", "first", "blank", "second"}
    BY <1>3 DEF Texts
<1>5. WIDTH \in Nat \ {0} /\ HEIGHT \in Nat \ {0}
    BY ScreenAssumption
<1>6. BACKSPACE # RETURN /\ BACKSPACE # HTAB /\ BACKSPACE # NEWLINE /\ NEWLINE # RETURN
    BY DEF BACKSPACE, RETURN, HTAB, NEWLINE
<1>7. UNCHANGED erasing /\ pc \in Scrolling
    BY DEF Scroll, Do, Quiet, Scrolling
<1>8. ASSUME pc # "full" PROVE erasing = "no"
    BY <1>3, <1>4, <1>7, <1>8 DEF Backspacing, Scrolling, Showing
<1>9. ASSUME erasing = "no" PROVE scr.y \in 0..HEIGHT /\ scr.x \in 0..(WIDTH - 1)
    BY <1>3, <1>7, <1>9 DEF Plain
<1>10. CASE Do("full", IF PageFull(scr) THEN "temp" ELSE "movey", reg, scr)
    <2>1. pc = "full" /\ UNCHANGED reg /\ scr' = scr
          /\ pc' = IF PageFull(scr) THEN "temp" ELSE "movey"
        BY <1>10 DEF Do
    <2>2. PageFull(scr)' <=> PageFull(scr)
        BY <2>1
    <2>3. Reads' /\ ~Untouched'
        BY <2>1, <2>2, UntouchedNext DEF UntouchedRule, Reads, Outs
    <2>4. CASE erasing = "no"
        <3>1. Goal = scroll(scr)
            BY <1>2, <1>3, <2>1, <2>4 DEF Whole
        <3>2. ~PageFull(scr) => Goal = scr
            BY <1>4, <3>1, SettlesBy
        <3>3. Whole' /\ Wiping'
            BY <1>2, <1>7, <2>1, <2>4, <3>1, <3>2 DEF Wiping, Whole, Drawing, Showing
        <3> QED
            BY <1>1, <1>3, <2>1, <2>3, <3>3, PlaceKeeps
    <2>5. CASE erasing = "blank"
        <3>1. ~PageFull(scr)
            BY <1>3, <1>5, <2>5 DEF Backspacing, PageFull
        <3>2. Whole' /\ Wiping'
            BY <1>2, <1>3, <1>7, <2>1, <2>5, <3>1 DEF Wiping, Whole, Drawing, Showing
        <3> QED
            BY <1>1, <1>3, <2>1, <2>3, <3>2, PlaceKeeps
    <2>6. erasing \notin {"first", "second"}
        BY <1>3, <2>1 DEF Backspacing
    <2> QED
        BY <1>4, <2>4, <2>5, <2>6
<1>11. CASE Do("temp", "copy", scr.y - HEIGHT + 1, scr)
    <2>1. pc = "temp" /\ pc' = "copy" /\ reg' = scr.y - HEIGHT + 1 /\ scr' = scr /\ erasing = "no"
        BY <1>8, <1>11 DEF Do
    <2>2. PageFull(scr)' /\ reg' = scr'.y - HEIGHT + 1
        BY <1>3, <2>1 DEF Reads
    <2>3. Reads' /\ ~Untouched'
        BY <2>1, <2>2, UntouchedNext DEF UntouchedRule, Reads, Outs
    <2>4. Whole' /\ Wiping'
        BY <1>2, <1>3, <1>7, <2>1 DEF Wiping, Whole, Drawing, Showing
    <2> QED
        BY <1>1, <1>3, <2>1, <2>3, <2>4, PlaceKeeps
<1>12. CASE Do("copy", "last", reg, [scr EXCEPT !.cell = ScrolledBy(@, reg)])
    <2>1. pc = "copy" /\ pc' = "last" /\ UNCHANGED reg /\ erasing = "no"
          /\ scr' = [scr EXCEPT !.cell = ScrolledBy(scr.cell, reg)]
        BY <1>8, <1>12 DEF Do
    <2>2. reg = 1 /\ PageFull(scr) /\ reg = scr.y - HEIGHT + 1
        BY <1>3, <1>5, <1>9, <2>1 DEF Reads, PageFull
    <2>3. PICK d : d = ScrolledBy(scr.cell, 1)
        OBVIOUS
    <2>4. d \in [Memory -> Nat]
        BY <1>3, <2>3, ScrolledTyped
    <2>5. scr' = [cell |-> d, x |-> scr.x, y |-> scr.y]
        <3>1. scr' = [scr EXCEPT !.cell = d]
            BY <2>1, <2>2, <2>3
        <3>2. [scr EXCEPT !.cell = d] = [cell |-> d, x |-> scr.x, y |-> scr.y]
            BY <1>4, PartsOf
        <3> QED
            BY <3>1, <3>2
    <2>6. scr'.cell = d /\ scr'.x = scr.x /\ scr'.y = scr.y
        BY <2>5
    <2>7. Goal = [cell |-> d, x |-> scr.x, y |-> HEIGHT - 1]
        <3>1. Goal = scroll(scr)
            BY <1>2, <1>3, <2>1 DEF Whole
        <3>2. scroll(scr) = [cell |-> ScrolledBy(scr.cell, scr.y - HEIGHT + 1), x |-> scr.x,
                             y |-> HEIGHT - 1]
            BY <1>4, <2>2, SettlesBy
        <3>3. scr.y - HEIGHT + 1 = 1
            BY <2>2
        <3> QED
            BY <2>3, <3>1, <3>2, <3>3
    <2>8. Goal = At(scr', scr'.x, HEIGHT - 1)
        BY <2>6, <2>7 DEF At
    <2>9. Reads' /\ ~Untouched'
        BY <2>1, UntouchedNext DEF UntouchedRule, Reads, Outs
    <2>10. Whole' /\ Wiping'
        BY <1>2, <1>7, <2>1, <2>8 DEF Wiping, Whole, Drawing, Showing
    <2> QED
        BY <1>1, <2>4, <2>6, <2>9, <2>10, PlaceKeeps
<1>13. CASE Do("last", "movey", reg, [scr EXCEPT !.y = HEIGHT - 1])
    <2>1. pc = "last" /\ pc' = "movey" /\ UNCHANGED reg /\ erasing = "no"
          /\ scr' = [scr EXCEPT !.y = HEIGHT - 1]
        BY <1>8, <1>13 DEF Do
    <2>2. PICK v : v = HEIGHT - 1
        OBVIOUS
    <2>3. scr' = At(scr, scr.x, v)
        BY <1>4, <2>1, <2>2, PartsOf
    <2>4. scr'.cell = scr.cell
        BY <2>3 DEF At
    <2>5. Goal = scr'
        BY <1>2, <1>3, <2>1, <2>2, <2>3 DEF Whole
    <2>6. Reads' /\ ~Untouched'
        BY <2>1, UntouchedNext DEF UntouchedRule, Reads, Outs
    <2>7. Whole' /\ Wiping'
        BY <1>2, <1>7, <2>1, <2>5 DEF Wiping, Whole, Drawing, Showing
    <2> QED
        BY <1>1, <1>3, <2>4, <2>6, <2>7, PlaceKeeps
<1> QED
    BY <1>10, <1>11, <1>12, <1>13 DEF Scroll

LEMMA MoveCsrGoesOn == StoresInv /\ KernelInv /\ InTurn' /\ MoveCsr => KernelInv'
<1> SUFFICES ASSUME StoresInv, KernelInv, InTurn', MoveCsr PROVE KernelInv'
    OBVIOUS
<1>1. PutchStep
    BY DEF PutchStep
<1>2. InTurn /\ UNCHANGED <<ch>> /\ Now = scr /\ Now' = scr' /\ Goal' = Goal
    BY <1>1, StepIs
<1>3. Texts /\ Plain /\ Backspacing /\ Whole /\ Wiping /\ Reads /\ scr.cell \in [Memory -> Nat]
    BY <1>2, TurnIs
<1>4. Shape(scr) /\ ch \in Nat /\ erasing \in {"no", "first", "blank", "second"}
    BY <1>3 DEF Texts
<1>5. WIDTH \in Nat \ {0} /\ HEIGHT \in Nat \ {0}
    BY ScreenAssumption
<1>6. BACKSPACE # RETURN /\ BACKSPACE # HTAB /\ BACKSPACE # NEWLINE /\ NEWLINE # RETURN
    BY DEF BACKSPACE, RETURN, HTAB, NEWLINE
<1>7. scr' = scr /\ UNCHANGED erasing /\ pc \in Showing /\ pc' \in Showing \ {"movey"}
    BY DEF MoveCsr, Do, Quiet, Showing
<1>8. erasing \notin {"first", "second"}
    BY <1>3, <1>7 DEF Backspacing, Showing
<1>9. Whole' /\ Wiping'
    <2>1. erasing = "no" => Goal = scr
        BY <1>2, <1>3, <1>7 DEF Whole
    <2>2. erasing = "blank" => Goal = At(scr, scr.x - 1, scr.y)
        BY <1>3, <1>7 DEF Wiping
    <2>3. pc' \notin {"rest", "test", "xload", "xstore", "wrap", "home", "yload", "ystore",
                      "full", "temp", "copy", "last"} \cup Drawing
        BY <1>7 DEF Showing, Drawing
    <2> QED
        BY <1>2, <1>4, <1>7, <1>8, <2>1, <2>2, <2>3 DEF Wiping, Whole
<1>10. ~Untouched'
    BY <1>7, UntouchedNext DEF UntouchedRule, Showing
<1>11. Reads'
    <2>1. CASE Do("movey", "movex", scr.y * WIDTH, scr)
        BY <2>1 DEF Do, Reads, Outs
    <2>2. CASE Do("movex", "select high", reg + scr.x, scr)
        <3>1. reg = scr.y * WIDTH
            BY <1>3, <2>2 DEF Do, Reads
        <3>2. reg' = Position(scr) /\ pc' = "select high" /\ Position(scr)' = Position(scr)
            BY <1>7, <2>2, <3>1 DEF Do, Position
        <3> QED
            BY <3>2 DEF Reads, Outs
    <2> QED
        BY <2>1, <2>2 DEF MoveCsr
<1> QED
    BY <1>1, <1>3, <1>7, <1>9, <1>10, <1>11, PlaceKeeps

LEMMA PortWritesGoOn == StoresInv /\ KernelInv /\ InTurn' /\ PortWrites => KernelInv'
<1> SUFFICES ASSUME StoresInv, KernelInv, InTurn', PortWrites PROVE KernelInv'
    OBVIOUS
<1>1. PortWrites
    OBVIOUS
<1>2. InTurn /\ UNCHANGED <<ch>> /\ Now = scr /\ Now' = scr' /\ Goal' = Goal
    BY <1>1, StepIs
<1>3. Texts /\ Plain /\ Backspacing /\ Whole /\ Wiping /\ Reads /\ scr.cell \in [Memory -> Nat]
    BY <1>2, TurnIs
<1>4. Shape(scr) /\ ch \in Nat /\ erasing \in {"no", "first", "blank", "second"}
    BY <1>3 DEF Texts
<1>5. WIDTH \in Nat \ {0} /\ HEIGHT \in Nat \ {0}
    BY ScreenAssumption
<1>6. BACKSPACE # RETURN /\ BACKSPACE # HTAB /\ BACKSPACE # NEWLINE /\ NEWLINE # RETURN
    BY DEF BACKSPACE, RETURN, HTAB, NEWLINE
<1>7. UNCHANGED <<scr, reg>> /\ pc \in Outs
    BY DEF PortWrites, OutPort, Outs
<1>8. erasing \in {"no", "blank"}
    BY <1>3, <1>4, <1>7 DEF Backspacing, Outs
<1>9. reg = Position(scr) /\ Position(scr)' = Position(scr)
    BY <1>3, <1>7 DEF Reads
<1>10. erasing = "no" => Goal = scr
    BY <1>2, <1>3, <1>7 DEF Whole, Outs, Showing
<1>11. erasing = "blank" => Goal = At(scr, scr.x - 1, scr.y)
    BY <1>3, <1>7 DEF Wiping, Outs, Showing
<1>12. \/ pc' \in {"high", "select low", "low"} /\ UNCHANGED erasing
       \/ pc' = "xload" /\ erasing = "blank" /\ erasing' = "second"
       \/ pc' = "rest" /\ erasing = "no" /\ erasing' = "no"
    BY <1>8 DEF PortWrites, OutPort
<1>13. ~Untouched' /\ Reads'
    BY <1>7, <1>9, <1>12, UntouchedNext DEF UntouchedRule, Reads, Outs
<1>14. Whole' /\ Wiping'
    <2>1. CASE pc' \in {"high", "select low", "low"} /\ UNCHANGED erasing
        BY <1>2, <1>7, <1>8, <1>10, <1>11, <2>1 DEF Wiping, Whole, Drawing, Showing
    <2>2. CASE pc' = "xload" /\ erasing = "blank" /\ erasing' = "second"
        BY <1>2, <1>7, <1>11, <2>2 DEF Wiping, Whole, Drawing, Showing
    <2>3. CASE pc' = "rest" /\ erasing = "no" /\ erasing' = "no"
        BY <1>2, <1>7, <1>10, <2>3 DEF Wiping, Whole, Drawing, Showing
    <2> QED
        BY <1>12, <2>1, <2>2, <2>3
<1> QED
    BY <1>1, <1>3, <1>7, <1>13, <1>14, PlaceKeeps

LEMMA TextsTyped ==
    /\ Starts \cup {Log} \subseteq Seq(Nat)
    /\ Chars \subseteq Nat
<1>1. Seq(Nat \ {BACKSPACE}) \subseteq Seq(Nat)
    OBVIOUS
<1> QED
    BY <1>1, TextAssumption

LEMMA InitInTurn == Init => KernelInv
<1> SUFFICES ASSUME Init PROVE KernelInv
    OBVIOUS
<1>1. /\ start \in Seq(Nat) /\ scr = cls /\ pending = start /\ pc = "rest" /\ erasing = "no"
      /\ printed = <<>>
    BY TextsTyped DEF Init
<1>2. start \o printed = start
    BY <1>1
<1>3. Goal = Now
    BY <1>1, <1>2 DEF Goal, Now
<1>4. scr.cell \in [Memory -> Nat]
    BY <1>1, ClsTyped DEF Screens
<1>5. ~Untouched
    BY <1>1, UntouchedIs DEF UntouchedRule
<1>6. Whole /\ Wiping /\ Reads /\ Turns
    BY <1>1, <1>3, <1>5 DEF Whole, Wiping, Reads, Turns, Drawing, Outs, Showing
<1> QED
    BY <1>1, <1>4, <1>6 DEF KernelInv

LEMMA PendingGoesOn == StoresInv /\ KernelInv /\ InTurn' /\ PrintPending => KernelInv'
<1> SUFFICES ASSUME StoresInv, KernelInv, InTurn', PrintPending PROVE KernelInv'
    OBVIOUS
<1>1. /\ UNCHANGED <<printer, pc, ch, reg, erasing, start, printed, hit>>
      /\ pending # <<>> /\ pending' = Tail(pending) /\ scr' = putch(scr, Head(pending))
    BY DEF PrintPending
<1>2. InTurn
    BY <1>1 DEF InTurn
<1>3. /\ Whole /\ Turns /\ pending \in Seq(Nat) /\ scr \in Screens /\ erasing = "no"
      /\ start \in Seq(Nat) /\ printed \in Seq(Nat)
    BY <1>1, <1>2, TurnIs
<1>4. Goal' = Goal /\ Now' = Now
    <2>1. Goal' = Goal
        BY <1>1 DEF Goal
    <2>2. kprintf(scr, pending) = kprintf(putch(scr, Head(pending)), Tail(pending))
        BY <1>1, <1>3, KprintfGoesOn
    <2> QED
        BY <1>1, <2>1, <2>2 DEF Now
<1>5. Head(pending) \in Nat
    BY <1>1, <1>3
<1>6. scr' \in Screens
    BY <1>1, <1>3, <1>5, PutchTyped
<1>7. scr'.cell \in [Memory -> Nat] /\ ~LineFull(scr')
    BY <1>6, TextIs DEF Screens, LineFull
<1>8. pc \in {"rest", "test", "xload", "home", "drawy", "wrap", "full", "movey"}
    BY <1>1, <1>3 DEF Turns
<1>9. Whole'
    <2>1. LineFull(scr)' <=> LineFull(scr')
        OBVIOUS
    <2> QED
        BY <1>1, <1>3, <1>4, <1>7, <1>8, <2>1 DEF Whole, Drawing, Showing
<1>10. Wiping' /\ Reads'
    BY <1>1, <1>3, <1>8 DEF Wiping, Reads, Outs
<1>11. Turns'
    <2>1. hit = "none" => pc = "rest"
        BY <1>1, <1>3 DEF Turns
    <2>2. hit = "none" => ~Untouched'
        BY <1>1, <2>1, UntouchedNext DEF UntouchedRule
    <2>3. hit' = hit /\ pc' = pc
        BY <1>1
    <2> QED
        BY <1>8, <2>1, <2>2, <2>3 DEF Turns
<1> QED
    BY <1>1, <1>3, <1>7, <1>9, <1>10, <1>11 DEF KernelInv

(* putch with nothing done yet. *)
LEMMA StartsWhole ==
    ASSUME erasing' = "no", ch' \in Nat, Now' \in Screens, Goal' = putch(Now', ch'),
           \/ pc' = "test" /\ ch' = BACKSPACE
           \/ pc' = "xload" /\ ch' = HTAB
           \/ pc' = "home" /\ ch' \in {RETURN, NEWLINE}
           \/ pc' = "drawy" /\ ch' >= BLANK
           \/ pc' = "wrap" /\ ch' \notin {BACKSPACE, HTAB, RETURN, NEWLINE} /\ ~(ch' >= BLANK)
    PROVE  Whole' /\ Wiping' /\ Reads'
<1>1. Wiping' /\ Reads'
    BY DEF Wiping, Reads, Outs
<1>2. PICK s : s = Now'
    OBVIOUS
<1>3. PICK char : char = ch'
    OBVIOUS
<1>4. s \in Screens /\ char \in Nat /\ Goal' = putch(s, char)
    BY <1>2, <1>3
<1>5. BACKSPACE # RETURN /\ HTAB # RETURN /\ NEWLINE # RETURN
    BY DEF BACKSPACE, RETURN, HTAB, NEWLINE
<1>6. CASE pc' = "test" /\ ch' = BACKSPACE
    BY <1>1, <1>6 DEF Whole, Drawing, Showing
<1>7. CASE pc' = "xload" /\ ch' = HTAB
    <2>1. Goal' = Settled(At(s, NextTabStop(s.x), s.y))
        BY <1>3, <1>4, <1>7, PutchIs
    <2>2. Goal' = Settled(At(Now', IF ch' = HTAB THEN NextTabStop(Now'.x) ELSE Now'.x + 1, Now'.y))
        BY <1>2, <1>7, <2>1
    <2> QED
        BY <1>1, <1>5, <1>7, <2>2 DEF Whole, Drawing, Showing
<1>8. CASE pc' = "home" /\ ch' \in {RETURN, NEWLINE}
    <2>1. char = RETURN => Goal' = Settled(At(s, 0, s.y))
        BY <1>4, PutchIs
    <2>2. char = NEWLINE => Goal' = scroll(At(s, 0, s.y + 1))
        BY <1>4, PutchIs
    <2>3. Goal' = IF ch' = RETURN THEN Settled(At(Now', 0, Now'.y))
                  ELSE scroll(At(Now', 0, Now'.y + 1))
        BY <1>2, <1>3, <1>8, <2>1, <2>2
    <2> QED
        BY <1>1, <1>8, <2>3 DEF Whole, Drawing, Showing
<1>9. CASE pc' = "drawy" /\ ch' >= BLANK
    <2>1. Goal' = Settled(Drew(s, char))
        BY <1>3, <1>4, <1>9, PutchIs
    <2>2. Goal' = Settled(Drew(Now', ch'))
        BY <1>2, <1>3, <2>1
    <2> QED
        BY <1>1, <1>9, <2>2 DEF Whole, Drawing, Showing
<1>10. CASE pc' = "wrap" /\ ch' \notin {BACKSPACE, HTAB, RETURN, NEWLINE} /\ ~(ch' >= BLANK)
    <2>1. Goal' = Settled(s)
        BY <1>3, <1>4, <1>10, PutchIs
    <2>2. Goal' = Settled(Now')
        BY <1>2, <2>1
    <2> QED
        BY <1>1, <1>10, <2>2 DEF Whole, Drawing, Showing
<1> QED
    BY <1>1, <1>6, <1>7, <1>8, <1>9, <1>10

LEMMA CallGoesOn == StoresInv /\ KernelInv /\ InTurn' /\ Call => KernelInv'
<1> SUFFICES ASSUME StoresInv, KernelInv, InTurn', Call PROVE KernelInv'
    OBVIOUS
<1>1. PICK char \in Chars :
          /\ ch' = char
          /\ printed' = Append(printed, char)
          /\ pc' = CASE char = BACKSPACE           -> "test"
                     [] char = HTAB                -> "xload"
                     [] char \in {RETURN, NEWLINE} -> "home"
                     [] char >= BLANK              -> "drawy"
                     [] OTHER                      -> "wrap"
    BY DEF Call
<1>2. /\ UNCHANGED <<printer, scr, erasing, start, hit>> /\ pending = <<>> /\ pending' = <<>>
      /\ pc = "rest"
    BY DEF Call, Interruptible
<1>3. char \in Nat
    BY TextsTyped
<1>4. InTurn
    BY <1>2 DEF InTurn
<1>5. /\ Texts /\ Plain /\ Backspacing /\ Whole /\ start \in Seq(Nat) /\ printed \in Seq(Nat)
      /\ start \o printed \in Seq(Nat) /\ scr.cell \in [Memory -> Nat] /\ Shape(scr) /\ Now = scr
    BY <1>2, <1>4, TurnIs
<1>6. erasing = "no"
    BY <1>2, <1>5 DEF Backspacing, Texts, Showing
<1>7. scr \in Screens
    BY <1>2, <1>5, <1>6, ScreenFrom DEF Plain, Scrolling
<1>8. Goal = scr
    BY <1>2, <1>5, <1>6 DEF Whole
<1>9. Goal' = putch(scr, char)
    <2>1. start \o Append(printed, char) = Append(start \o printed, char)
        BY <1>3, <1>5
    <2>2. kprintf(cls, Append(start \o printed, char)) = putch(kprintf(cls, start \o printed), char)
        BY <1>3, <1>5, ClsTyped, KprintfAppends
    <2>3. Goal' = kprintf(cls, start \o Append(printed, char))
        BY <1>1, <1>2 DEF Goal
    <2>4. kprintf(cls, start \o printed) = scr
        BY <1>8 DEF Goal
    <2> QED
        BY <2>1, <2>2, <2>3, <2>4
<1>10. Now' = scr'
    BY <1>2, KprintfNone DEF Now
<1>11. Whole' /\ Wiping' /\ Reads'
    <2>1. \/ pc' = "test" /\ ch' = BACKSPACE
          \/ pc' = "xload" /\ ch' = HTAB
          \/ pc' = "home" /\ ch' \in {RETURN, NEWLINE}
          \/ pc' = "drawy" /\ ch' >= BLANK
          \/ pc' = "wrap" /\ ch' \notin {BACKSPACE, HTAB, RETURN, NEWLINE} /\ ~(ch' >= BLANK)
        BY <1>1, <1>3 DEF BACKSPACE, HTAB, RETURN, NEWLINE, BLANK
    <2>2. erasing' = "no" /\ ch' \in Nat /\ Now' \in Screens /\ Goal' = putch(Now', ch')
        BY <1>1, <1>2, <1>3, <1>6, <1>7, <1>9, <1>10
    <2> QED
        BY <2>1, <2>2, StartsWhole
<1>12. Turns'
    <2>1. scr' = kprintf(cls, start' \o printed)
        BY <1>2, <1>8 DEF Goal
    <2>2. printed' = Append(printed, ch')
        BY <1>1
    <2> QED
        BY <1>2, <1>5, <2>1, <2>2 DEF Turns
<1>13. printed' \in Seq(Nat)
    BY <1>1, <1>3, <1>5
<1> QED
    BY <1>2, <1>5, <1>11, <1>12, <1>13 DEF KernelInv

LEMMA JoinedEnd ==
    ASSUME NEW a \in Seq(Nat), NEW b \in Seq(Nat), NEW l \in Seq(Nat), NEW e \in Nat
    PROVE  a \o (b \o l \o <<e>>) = Append((a \o b) \o l, e)
<1>1. PICK m : m = b \o l
    OBVIOUS
<1>2. m \in Seq(Nat) /\ (a \o b) \o l = a \o m
    BY <1>1
<1>3. a \o (m \o <<e>>) = Append(a \o m, e)
    <2>1. m \o <<e>> = Append(m, e) /\ m \in Seq(Nat)
        BY <1>2
    <2>2. a \o Append(m, e) = Append(a \o m, e)
        BY <2>1
    <2> QED
        BY <2>1, <2>2
<1> QED
    BY <1>1, <1>2, <1>3

LEMMA TickGoesOn == StoresInv /\ KernelInv /\ InTurn' /\ Tick => KernelInv'
<1> SUFFICES ASSUME StoresInv, KernelInv, InTurn', Tick PROVE KernelInv'
    OBVIOUS
<1>1. /\ hit = "none" /\ pending = <<>> /\ pending' = Log
      /\ UNCHANGED <<printer, scr, pc, ch, erasing, start>>
    BY DEF Tick
<1>2. InTurn
    BY <1>1 DEF InTurn
<1>3. hit' = "between" /\ (pc = "rest" \/ Untouched \/ Done)
    BY DEF Tick, InTurn
<1>4. printed' = IF Untouched THEN Front(printed) \o Log \o <<ch>> ELSE printed \o Log
    BY <1>2 DEF Tick, InTurn
<1>5. /\ Texts /\ Plain /\ Backspacing /\ Whole /\ Turns /\ start \in Seq(Nat)
      /\ printed \in Seq(Nat) /\ ch \in Nat
      /\ start \o printed \in Seq(Nat) /\ scr.cell \in [Memory -> Nat] /\ Shape(scr) /\ Now = scr
    BY <1>1, <1>2, TurnIs DEF Texts
<1>6. Log \in Seq(Nat)
    BY TextsTyped
<1>7. Now' = kprintf(scr, Log)
    BY <1>1 DEF Now
<1>8. SUFFICES /\ Whole' /\ Wiping' /\ Reads' /\ printed' \in Seq(Nat)
               /\ pc \in {"rest", "test", "xload", "home", "drawy", "wrap", "full", "movey"}
    <2>1. Turns'
        BY <1>1, <1>3, <1>8 DEF Turns
    <2> QED
        BY <1>1, <1>5, <1>8, <2>1 DEF KernelInv
<1>9. CASE Untouched
    <2>1. PICK before \in Seq(Nat) :
              printed = Append(before, ch) /\ scr = kprintf(cls, start \o before)
        BY <1>1, <1>5, <1>9 DEF Turns
    <2>2. printed' = before \o Log \o <<ch>>
        <3>1. Front(printed) = before
            BY <1>5, <2>1 DEF Front
        <3> QED
            BY <1>4, <1>9, <3>1
    <2>3. start \o printed' = Append((start \o before) \o Log, ch) /\ printed' \in Seq(Nat)
        <3>1. printed' \in Seq(Nat)
            BY <1>5, <1>6, <2>1, <2>2
        <3>2. start \o (before \o Log \o <<ch>>) = Append((start \o before) \o Log, ch)
            <4>1. start \in Seq(Nat) /\ before \in Seq(Nat) /\ Log \in Seq(Nat) /\ ch \in Nat
                BY <1>5, <1>6
            <4> QED
                BY <4>1, JoinedEnd, Zenon
        <3> QED
            BY <2>2, <3>1, <3>2
    <2>4. PICK old : old = start \o before
        OBVIOUS
    <2>5. old \in Seq(Nat) /\ old \o Log \in Seq(Nat) /\ scr = kprintf(cls, old)
        BY <1>5, <1>6, <2>1, <2>4
    <2>6. scr \in Screens
        BY <2>5, ClsTyped, KprintfTyped
    <2>7. kprintf(cls, Append(old \o Log, ch)) = putch(kprintf(cls, old \o Log), ch)
        BY <1>5, <2>5, ClsTyped, KprintfAppends
    <2>8. kprintf(cls, old \o Log) = kprintf(scr, Log)
        BY <1>6, <2>5, ClsTyped, KprintfJoins
    <2>9. Goal' = putch(Now', ch')
        BY <1>1, <1>7, <2>3, <2>4, <2>7, <2>8 DEF Goal
    <2>10. Now' \in Screens
        BY <1>6, <1>7, <2>6, KprintfTyped
    <2>11. erasing = "no"
        <3>1. pc = "test" => erasing = "no"
            BY <1>5 DEF Backspacing, Texts, Showing
        <3> QED
            BY <1>9, <3>1, UntouchedIs DEF UntouchedRule
    <2>12. \/ pc = "test" /\ ch = BACKSPACE
           \/ pc = "xload" /\ ch = HTAB
           \/ pc = "home" /\ ch \in {RETURN, NEWLINE}
           \/ pc = "drawy" /\ ch >= BLANK
        <3>1. pc = "test" => ch = BACKSPACE
            BY <1>5, <2>11 DEF Plain
        <3>2. pc = "drawy" => ch >= BLANK
            BY <1>5, <2>11 DEF Whole, Drawing
        <3> QED
            BY <1>9, <3>1, <3>2, UntouchedIs DEF UntouchedRule
    <2>13. \/ pc' = "test" /\ ch' = BACKSPACE
           \/ pc' = "xload" /\ ch' = HTAB
           \/ pc' = "home" /\ ch' \in {RETURN, NEWLINE}
           \/ pc' = "drawy" /\ ch' >= BLANK
        BY <1>1, <2>12
    <2>14. Whole' /\ Wiping' /\ Reads'
        BY <1>1, <1>5, <2>9, <2>10, <2>11, <2>13, StartsWhole
    <2> QED
        BY <2>3, <2>12, <2>14
<1>10. CASE ~Untouched
    <2>1. pc \in {"rest", "wrap", "full", "movey"}
        BY <1>3, <1>10 DEF Done
    <2>2. erasing = "no"
        <3>1. pc = "rest" => erasing = "no"
            BY <1>5 DEF Backspacing, Texts, Showing
        <3> QED
            BY <1>3, <1>10, <3>1 DEF Done
    <2>3. OnScreen(scr)
        <3>1. pc = "rest" => OnScreen(scr)
            BY <1>5, <2>2 DEF Plain, Scrolling
        <3> QED
            BY <1>3, <1>10, <3>1 DEF Done
    <2>4. scr \in Screens
        BY <1>5, <2>3, ScreenFrom
    <2>5. Settled(scr) = scr /\ scroll(scr) = scr
        BY <1>5, <2>3, SettlesBy
    <2>6. Goal = scr
        BY <1>5, <2>1, <2>2, <2>5 DEF Whole, Showing
    <2>7. printed' = printed \o Log /\ printed' \in Seq(Nat)
        BY <1>4, <1>5, <1>6, <1>10
    <2>8. Goal' = Now'
        <3>1. start \o printed' = (start \o printed) \o Log
            <4>1. start \in Seq(Nat) /\ printed \in Seq(Nat) /\ Log \in Seq(Nat)
                BY <1>5, <1>6
            <4>2. start \o (printed \o Log) = (start \o printed) \o Log
                BY <4>1
            <4> QED
                BY <2>7, <4>2
        <3>2. kprintf(cls, (start \o printed) \o Log) = kprintf(kprintf(cls, start \o printed), Log)
            BY <1>5, <1>6, ClsTyped, KprintfJoins
        <3>3. kprintf(cls, start \o printed) = scr
            BY <2>6 DEF Goal
        <3> QED
            BY <1>1, <1>7, <3>1, <3>2, <3>3 DEF Goal
    <2>9. PICK s : s = Now'
        OBVIOUS
    <2>10. s \in Screens
        BY <1>6, <1>7, <2>4, <2>9, KprintfTyped
    <2>11. Settled(s) = s /\ scroll(s) = s
        <3>1. Shape(s) /\ OnScreen(s)
            BY <2>10 DEF Screens, Shape, OnScreen
        <3> QED
            BY <3>1, SettlesBy
    <2>12. ~LineFull(scr')
        BY <1>1, <2>4, TextIs DEF LineFull, Screens
    <2>13. Goal' = Now' /\ Goal' = Settled(Now') /\ Goal' = scroll(Now') /\ ~LineFull(scr)'
        BY <2>8, <2>9, <2>11, <2>12
    <2>14. Whole' /\ Wiping' /\ Reads'
        BY <1>1, <2>1, <2>2, <2>13 DEF Whole, Wiping, Reads, Drawing, Showing, Outs
    <2> QED
        BY <2>1, <2>7, <2>14
<1> QED
    BY <1>9, <1>10

(* Who prints, and that the places of the terminal are not the kernel's. *)
KernelAt ==
    /\ printer \in {"kernel", "program"}
    /\ printer = "kernel" => pc \notin {"loop", "read", "write"}

LEMMA KernelAtHolds == /\ Init => KernelAt
                       /\ KernelAt /\ [Next]_vars => KernelAt'
<1>1. Init => KernelAt
    BY DEF Init, KernelAt
<1>2. ASSUME KernelAt, UNCHANGED vars PROVE KernelAt'
    BY <1>2 DEF KernelAt, vars
<1>3. ASSUME KernelAt, PrintPending \/ Tick PROVE KernelAt'
    BY <1>3 DEF KernelAt, PrintPending, Tick
<1>4. ASSUME KernelAt, Call PROVE KernelAt'
    BY <1>4 DEF KernelAt, Call
<1>5. ASSUME KernelAt, PutchStep PROVE KernelAt'
    BY <1>5 DEF KernelAt, PutchStep, Test, Draw, ChangeX, NextLine, Scroll, MoveCsr, Do
<1>6. ASSUME KernelAt, PortWrites PROVE KernelAt'
    BY <1>6 DEF KernelAt, PortWrites, OutPort
<1>7. ASSUME KernelAt, tty_putc \/ tty_scroll \/ tty_cursor PROVE KernelAt'
    BY <1>7 DEF KernelAt, tty_putc, tty_scroll, tty_cursor
<1> QED
    BY <1>1, <1>2, <1>3, <1>4, <1>5, <1>6, <1>7 DEF Next

LEMMA KernelStep == StoresInv /\ KernelAt /\ KernelInv /\ [Next]_vars => KernelInv'
<1> SUFFICES ASSUME StoresInv, KernelAt, KernelInv, [Next]_vars, InTurn' PROVE KernelInv'
    BY DEF KernelInv
<1>1. CASE UNCHANGED vars
    <2>1. UNCHANGED <<printer, scr, pending, pc, ch, reg, erasing, start, printed, hit>>
        BY <1>1 DEF vars, history
    <2>2. InTurn
        BY <2>1 DEF InTurn
    <2>3. /\ start \in Seq(Nat) /\ printed \in Seq(Nat) /\ scr.cell \in [Memory -> Nat]
          /\ Whole /\ Wiping /\ Reads /\ Turns
        BY <2>2 DEF KernelInv
    <2>4. Goal' = Goal /\ Now' = Now
        BY <2>1 DEF Goal, Now
    <2>5. Whole' /\ Wiping'
        BY <2>1, <2>3, <2>4 DEF Whole, Wiping
    <2>6. Reads'
        BY <2>1, <2>3 DEF Reads, Position, PageFull
    <2>7. Untouched' <=> Untouched
        BY <2>1, UntouchedIs, UntouchedNext DEF UntouchedRule, OnScreen
    <2>8. Turns'
        BY <2>1, <2>3, <2>7 DEF Turns
    <2> QED
        BY <2>1, <2>3, <2>5, <2>6, <2>8 DEF KernelInv
<1>2. ~(tty_putc \/ tty_scroll \/ tty_cursor)
    <2>1. printer' = "kernel"
        BY DEF InTurn
    <2>2. ASSUME tty_putc \/ tty_scroll \/ tty_cursor PROVE FALSE
        <3>1. UNCHANGED <<printer, hit>> /\ pending = <<>> /\ pc \in {"rest", "loop", "read", "write"}
              /\ (pc = "rest" => printer = "program")
            BY <2>2 DEF tty_putc, tty_scroll, tty_cursor, Interruptible, history
        <3>2. InTurn
            BY <3>1 DEF InTurn
        <3> QED
            BY <2>1, <3>1, <3>2 DEF KernelAt, InTurn
    <2> QED
        BY <2>2
<1> QED
    BY <1>1, <1>2, PendingGoesOn, CallGoesOn, TestGoesOn, DrawGoesOn, ChangeXGoesOn,
       NextLineGoesOn, ScrollGoesOn, MoveCsrGoesOn, PortWritesGoOn, TickGoesOn DEF Next, PutchStep

(***************************************************************************)
(* The terminal, when no timer interrupt has come and its cursor has not    *)
(* gone above the screen (Alone): first the boot prints, and then what is   *)
(* shown is the terminal's page, from some row t of it on, however large    *)
(* the page is taken.  Ports says, of both printers, what the controller's  *)
(* registers hold at each place of the four writes.                         *)
(***************************************************************************)
Alone == printer = "program" /\ hit = "none" /\ ~above

TtyPage(size) == PrintedOn("program", Blank("program", kprintf(cls, start), size), printed)

TtyInv ==
    Alone =>
        /\ start \in Seq(Nat) /\ printed \in Seq(Nat)
        /\ pending # <<>> => printed = <<>>
        /\ printed = <<>> => /\ cursorOffset = 0 /\ pc = "rest" /\ scr \in Screens
                             /\ kprintf(scr, pending) = kprintf(cls, start)
        /\ printed # <<>> =>
              \A size \in Nat : size >= (Len(printed) + HEIGHT) * WIDTH =>
                  \E t : Views(scr.cell, cursorOffset, TtyPage(size), size, t, Len(printed))
        /\ pc = "write" => buffer = Risen(scr.cell)

Target == IF printer = "kernel" THEN Position(scr) ELSE cursorOffset

Ports ==
    InTurn \/ Alone =>
        /\ crt \in [index : {crt.index}, high : {crt.high}, low : {crt.low}]
        /\ pc \in {"high", "select low"} => crt.index = 14
        /\ pc = "low" => crt.index = 15
        /\ pc \in {"select low", "low"} => crt.high = (reg \div BYTE) % BYTE
        /\ pc \in Outs => reg = Target
        /\ pc = "rest" /\ (printer = "kernel" \/ printed # <<>>) => crt = Shown(Target)

LEMMA BootViews ==
    ASSUME NEW booted \in Screens, NEW size \in Nat, size >= (0 + HEIGHT) * WIDTH
    PROVE  Views(booted.cell, 0, PrintedOn("program", Blank("program", booted, size), <<>>), size, 0, 0)
<1>1. PICK page : page = Blank("program", booted, size)
    OBVIOUS
<1>2. /\ page \in Pages(size) /\ page.at = 0 /\ page.top = 0
      /\ \A i \in 0..(size - 1) : page.cell[i] = IF i \in Text THEN booted.cell[i] ELSE BLANK
    BY <1>1, BlankIs
<1>3. PrintedOn("program", page, <<>>) = page
    BY <1>2, PageNone
<1>4. SIZE = WIDTH * HEIGHT /\ SIZE \in Nat /\ WIDTH \in Nat \ {0} /\ SIZE = HEIGHT * WIDTH /\ WIDTH <= SIZE
    BY SizesOf
<1>5. 0 * WIDTH = 0 /\ 0 + HEIGHT = HEIGHT
    BY TextIs
<1>6. Text = 0..(SIZE - 1)
    BY <1>4 DEF Text
<1>7. size >= SIZE
    BY <1>4, <1>5
<1>8. Agrees(booted.cell, page.cell, size, 0)
    <2>1. ASSUME NEW i \in Text PROVE booted.cell[i] = page.cell[0 * WIDTH + i]
        <3>1. i \in 0..(size - 1) /\ 0 * WIDTH + i = i
            BY <1>4, <1>5, <1>6, <1>7
        <3> QED
            BY <1>2, <3>1
    <2>2. ASSUME NEW i \in 0..(size - 1), i >= (0 + HEIGHT) * WIDTH PROVE page.cell[i] = BLANK
        <3>1. i \notin Text
            BY <1>4, <1>5, <1>6, <2>2
        <3> QED
            BY <1>2, <3>1
    <2> QED
        BY <2>1, <2>2 DEF Agrees
<1>9. ~(0 >= SIZE)
    BY <1>4
<1>10. Views(booted.cell, 0, page, size, 0, 0)
    BY <1>2, <1>5, <1>8, <1>9 DEF Views
<1> QED
    BY <1>1, <1>3, <1>10

(* The page the terminal shows, before its first character too. *)
LEMMA TtyViews ==
    ASSUME TtyInv, Alone, pending = <<>>, NEW size \in Nat, size >= (Len(printed) + HEIGHT) * WIDTH
    PROVE  \E t : Views(scr.cell, cursorOffset, TtyPage(size), size, t, Len(printed))
<1>1. CASE printed # <<>>
    BY <1>1 DEF TtyInv
<1>2. CASE printed = <<>>
    <2>1. cursorOffset = 0 /\ scr \in Screens /\ kprintf(scr, <<>>) = kprintf(cls, start)
        BY <1>2 DEF TtyInv
    <2>2. scr = kprintf(cls, start)
        BY <2>1, KprintfNone
    <2>3. PICK booted : booted = scr
        OBVIOUS
    <2>4. Len(printed) = 0
        BY <1>2
    <2>5. booted \in Screens /\ size >= (0 + HEIGHT) * WIDTH
        BY <2>1, <2>3, <2>4
    <2>6. Views(booted.cell, 0, PrintedOn("program", Blank("program", booted, size), <<>>), size, 0, 0)
        BY <2>5, BootViews
    <2>7. TtyPage(size) = PrintedOn("program", Blank("program", booted, size), <<>>)
        BY <1>2, <2>2, <2>3 DEF TtyPage
    <2> QED
        BY <2>1, <2>3, <2>4, <2>6, <2>7
<1> QED
    BY <1>1, <1>2

LEMMA AloneIs ==
    ASSUME StoresInv, TtyInv, Alone
    PROVE  /\ pc \in TermPlaces /\ erasing = "no" /\ cursorOffset \in Nat
           /\ pc \notin {"read", "write"} => cursorOffset < SIZE
           /\ pc \in {"read", "write"} => cursorOffset \in SIZE..(SIZE + WIDTH - 1)
           /\ pending \in Seq(Nat)
<1>1. printer # "kernel"
    BY DEF Alone
<1>2. pending \in Seq(Nat \ {BACKSPACE})
    BY DEF Alone, StoresInv, IInv, CursorInv, Texts
<1>3. pending \in Seq(Nat)
    BY <1>2
<1> QED
    BY <1>1, <1>3 DEF Alone, StoresInv, TermInv

LEMMA InitAlone == Init => TtyInv /\ Ports
<1> SUFFICES ASSUME Init PROVE TtyInv /\ Ports
    OBVIOUS
<1>1. /\ start \in Seq(Nat) /\ printed = <<>> /\ pending = start /\ scr = cls /\ cursorOffset = 0
      /\ pc = "rest" /\ crt = Shown(Position(scr))
    BY TextsTyped DEF Init
<1>2. TtyInv
    BY <1>1, ClsTyped DEF TtyInv
<1>3. Ports
    BY <1>1 DEF Ports, Shown, Target, Outs
<1> QED
    BY <1>2, <1>3

LEMMA PutcGoesOn ==
    ASSUME StoresInv, TtyInv, Alone', tty_putc PROVE TtyInv'
<1>1. PICK char \in Chars :
          LET text == IF char >= BLANK THEN <<char>> ELSE <<>>
          IN  /\ printed' = Append(printed, char)
              /\ scr' = [scr EXCEPT !.cell = vga_write_framebuffer(@, cursorOffset, text)]
              /\ above' = (above \/ (char = BACKSPACE /\ cursorOffset = 0))
              /\ cursorOffset' = OffsetAfter(cursorOffset, char)
              /\ pc' = IF cursorOffset' >= SIZE THEN "read" ELSE "loop"
    BY DEF tty_putc
<1>2. /\ UNCHANGED <<printer, start, hit>> /\ pending = <<>> /\ pending' = <<>>
      /\ pc \in {"rest", "loop"}
    BY DEF tty_putc, Interruptible
<1>3. Alone /\ ~(char = BACKSPACE /\ cursorOffset = 0)
    BY <1>1, <1>2 DEF Alone
<1>4. char \in Nat
    BY TextsTyped
<1>5. cursorOffset \in Nat /\ cursorOffset < SIZE /\ SIZE \in Nat
    BY <1>2, <1>3, AloneIs, SizesOf
<1>6. start \in Seq(Nat) /\ printed \in Seq(Nat)
    BY <1>3 DEF TtyInv
<1>7. Shape(scr)
    BY <1>3 DEF Alone, StoresInv, IInv, CursorInv, Texts
<1>8. PICK text : text = IF char >= BLANK THEN <<char>> ELSE <<>>
    OBVIOUS
<1>9. scr'.cell = vga_write_framebuffer(scr.cell, cursorOffset, text)
    <2>1. PICK v : v = vga_write_framebuffer(scr.cell, cursorOffset, text)
        OBVIOUS
    <2>2. scr' = [scr EXCEPT !.cell = v]
        BY <1>1, <1>8, <2>1
    <2>3. [scr EXCEPT !.cell = v] = [cell |-> v, x |-> scr.x, y |-> scr.y]
        BY <1>7, PartsOf
    <2> QED
        BY <2>1, <2>2, <2>3
<1>10. Len(printed) \in Nat /\ printed' \in Seq(Nat) /\ Len(printed') = Len(printed) + 1
       /\ printed' # <<>>
    BY <1>1, <1>4, <1>6
<1>11. ASSUME NEW size \in Nat, size >= (Len(printed') + HEIGHT) * WIDTH
       PROVE  \E t : Views(scr'.cell, cursorOffset', TtyPage(size)', size, t, Len(printed'))
    <2>1. PICK n : n = Len(printed)
        OBVIOUS
    <2>2. n \in Nat /\ (n + 1 + HEIGHT) * WIDTH <= size
        BY <1>10, <1>11, <2>1
    <2>3. (n + 1 + HEIGHT) * WIDTH = (n + HEIGHT) * WIDTH + WIDTH /\ (n + HEIGHT) * WIDTH \in Int
          /\ WIDTH \in Nat
        BY <2>2, TextIs, RowsIs
    <2>4. size >= (Len(printed) + HEIGHT) * WIDTH
        BY <2>1, <2>2, <2>3
    <2>5. PICK t : Views(scr.cell, cursorOffset, TtyPage(size), size, t, Len(printed))
        BY <1>2, <1>3, <2>4, TtyViews
    <2>6. PICK page : page = TtyPage(size)
        OBVIOUS
    <2>7. PICK offset : offset = cursorOffset
        OBVIOUS
    <2>8. PICK screen : screen = scr.cell
        OBVIOUS
    <2>9. Views(screen, offset, page, size, t, n)
        BY <2>1, <2>5, <2>6, <2>7, <2>8
    <2>10. offset \in 0..(SIZE - 1) /\ ~(char = BACKSPACE /\ offset = 0)
        BY <1>3, <1>5, <2>7
    <2>11. Views(vga_write_framebuffer(screen, offset, text), OffsetAfter(offset, char),
                 Typed("program", page, char), size, t, n + 1)
        BY <1>4, <1>8, <2>2, <2>9, <2>10, PutcViews
    <2>12. TtyPage(size)' = Typed("program", page, char)
        <3>1. PICK blank : blank = Blank("program", kprintf(cls, start), size)
            OBVIOUS
        <3>2. blank \in Pages(size)
            <4>1. kprintf(cls, start) \in Screens
                BY <1>6, ClsTyped, KprintfTyped
            <4> QED
                BY <3>1, <4>1, BlankIs
        <3>3. PrintedOn("program", blank, Append(printed, char))
                = Typed("program", PrintedOn("program", blank, printed), char)
            BY <1>4, <1>6, <3>2, PageAppends
        <3>4. TtyPage(size)' = PrintedOn("program", blank, Append(printed, char))
            BY <1>1, <1>2, <3>1 DEF TtyPage
        <3>5. page = PrintedOn("program", blank, printed)
            BY <2>6, <3>1 DEF TtyPage
        <3> QED
            BY <3>3, <3>4, <3>5
    <2> QED
        BY <1>1, <1>9, <1>10, <2>1, <2>7, <2>8, <2>11, <2>12
<1>12. pc' # "write"
    BY <1>1
<1> QED
    BY <1>2, <1>6, <1>10, <1>11, <1>12 DEF TtyInv

LEMMA ScrollGoesUp ==
    ASSUME StoresInv, TtyInv, Alone', tty_scroll PROVE TtyInv'
<1>1. UNCHANGED <<printer, start, printed, above, hit>> /\ pending = <<>> /\ pending' = <<>>
      /\ pc \in {"read", "write"}
    BY DEF tty_scroll, Interruptible, history
<1>2. Alone
    BY <1>1 DEF Alone
<1>3. start \in Seq(Nat) /\ printed \in Seq(Nat) /\ printed # <<>>
    BY <1>1, <1>2 DEF TtyInv
<1>4. CASE /\ pc = "read" /\ pc' = "write"
           /\ buffer' = vga_read_framebuffer(scr.cell, WIDTH, SIZE - WIDTH)
                          \o [j \in 1..WIDTH |-> BLANK]
           /\ UNCHANGED <<scr, cursorOffset>>
    <2>1. buffer' = Risen(scr'.cell)
        BY <1>4 DEF Risen
    <2>2. ASSUME NEW size \in Nat PROVE TtyPage(size)' = TtyPage(size)
        BY <1>1 DEF TtyPage
    <2>3. \A size \in Nat : size >= (Len(printed') + HEIGHT) * WIDTH =>
              \E t : Views(scr'.cell, cursorOffset', TtyPage(size)', size, t, Len(printed'))
        BY <1>1, <1>2, <1>3, <1>4, <2>2 DEF TtyInv
    <2> QED
        BY <1>1, <1>3, <1>4, <2>1, <2>3 DEF TtyInv
<1>5. CASE /\ pc = "write" /\ pc' = "loop"
           /\ scr' = [scr EXCEPT !.cell = vga_write_framebuffer(@, 0, buffer)]
           /\ cursorOffset' = (cursorOffset - WIDTH) % SHORT
    <2>1. buffer = Risen(scr.cell)
        BY <1>2, <1>5 DEF TtyInv
    <2>2. Shape(scr)
        BY <1>2 DEF Alone, StoresInv, IInv, CursorInv, Texts
    <2>3. PICK v : v = vga_write_framebuffer(scr.cell, 0, Risen(scr.cell))
        OBVIOUS
    <2>4. scr'.cell = v
        <3>1. scr' = [scr EXCEPT !.cell = v]
            BY <1>5, <2>1, <2>3
        <3>2. [scr EXCEPT !.cell = v] = [cell |-> v, x |-> scr.x, y |-> scr.y]
            BY <2>2, PartsOf
        <3> QED
            BY <3>1, <3>2
    <2>5. ASSUME NEW size \in Nat, size >= (Len(printed') + HEIGHT) * WIDTH
          PROVE  \E t : Views(scr'.cell, cursorOffset', TtyPage(size)', size, t, Len(printed'))
        <3>1. size >= (Len(printed) + HEIGHT) * WIDTH
            BY <1>1, <2>5
        <3>2. PICK t : Views(scr.cell, cursorOffset, TtyPage(size), size, t, Len(printed))
            BY <1>1, <1>2, <3>1, TtyViews
        <3>3. PICK page : page = TtyPage(size)
            OBVIOUS
        <3>4. PICK offset : offset = cursorOffset
            OBVIOUS
        <3>5. PICK screen : screen = scr.cell
            OBVIOUS
        <3>6. PICK n : n = Len(printed)
            OBVIOUS
        <3>7. Views(screen, offset, page, size, t, n)
            BY <3>2, <3>3, <3>4, <3>5, <3>6
        <3>8. offset \in SIZE..(SIZE + WIDTH - 1)
            BY <1>2, <1>5, <3>4, AloneIs
        <3>9. n \in Nat /\ (n + HEIGHT) * WIDTH <= size
            <4>1. n \in Nat /\ size >= (n + HEIGHT) * WIDTH
                BY <1>3, <3>1, <3>6
            <4>2. (n + HEIGHT) * WIDTH \in Int
                BY <4>1, TextIs, RowsIs
            <4> QED
                BY <4>1, <4>2
        <3>10. /\ Views(vga_write_framebuffer(screen, 0, Risen(screen)), (offset - WIDTH) % SHORT, page,
                        size, t + 1, n)
               /\ (offset - WIDTH) % SHORT = offset - WIDTH
            BY <3>7, <3>8, <3>9, ScrollViews
        <3>11. TtyPage(size)' = page
            BY <1>1, <3>3 DEF TtyPage
        <3> QED
            BY <1>1, <1>5, <2>3, <2>4, <3>4, <3>5, <3>6, <3>10, <3>11
    <2> QED
        BY <1>1, <1>3, <1>5, <2>5 DEF TtyInv
<1> QED
    BY <1>4, <1>5 DEF tty_scroll

LEMMA TtyStep == StoresInv /\ TtyInv /\ [Next]_vars => TtyInv'
<1> SUFFICES ASSUME StoresInv, TtyInv, [Next]_vars, Alone' PROVE TtyInv'
    BY DEF TtyInv
<1>1. ASSUME UNCHANGED <<start, printed, pending, scr, cursorOffset, printer, hit, above>>,
             pc' # pc => printed # <<>>, pc' = "write" => pc = "write" /\ UNCHANGED buffer
      PROVE  TtyInv'
    <2>1. Alone
        BY <1>1 DEF Alone
    <2>2. ASSUME NEW size \in Nat PROVE TtyPage(size)' = TtyPage(size)
        BY <1>1 DEF TtyPage
    <2> QED
        BY <1>1, <2>1, <2>2 DEF TtyInv
<1>2. CASE UNCHANGED vars
    BY <1>1, <1>2 DEF vars, termVars, history
<1>3. CASE PrintPending
    <2>1. /\ UNCHANGED <<printer, start, printed, hit, above, cursorOffset, pc>>
          /\ pending # <<>> /\ pending' = Tail(pending) /\ scr' = putch(scr, Head(pending))
        BY <1>3 DEF PrintPending, termVars
    <2>2. Alone
        BY <2>1 DEF Alone
    <2>3. /\ start \in Seq(Nat) /\ printed = <<>> /\ cursorOffset = 0 /\ pc = "rest" /\ scr \in Screens
          /\ kprintf(scr, pending) = kprintf(cls, start)
        BY <2>1, <2>2 DEF TtyInv
    <2>4. pending \in Seq(Nat)
        BY <2>2, AloneIs
    <2>5. kprintf(scr, pending) = kprintf(putch(scr, Head(pending)), Tail(pending))
        BY <2>1, <2>3, <2>4, KprintfGoesOn
    <2>6. Head(pending) \in Nat
        BY <2>1, <2>4
    <2>7. scr' \in Screens
        BY <2>1, <2>3, <2>6, PutchTyped
    <2>8. kprintf(scr', pending') = kprintf(cls, start')
        BY <2>1, <2>3, <2>5
    <2> QED
        BY <2>1, <2>3, <2>7, <2>8 DEF TtyInv
<1>4. CASE Call \/ Tick
    BY <1>4 DEF Call, Tick, Alone
<1>5. CASE PutchStep
    <2>1. UNCHANGED <<printer, hit, above>> /\ pc \in Moving \cup Turning \cup Scrolling \cup {"movey", "movex"}
        BY <1>5 DEF PutchStep, Test, Draw, ChangeX, NextLine, Scroll, MoveCsr, Do, Moving, Turning, Scrolling
    <2>2. Alone
        BY <2>1 DEF Alone
    <2>3. pc \in TermPlaces
        BY <2>2, AloneIs
    <2> QED
        BY <2>1, <2>3 DEF TermPlaces, Moving, Turning, Scrolling
<1>6. CASE PortWrites
    <2>1. UNCHANGED <<start, printed, pending, scr, cursorOffset, printer, hit, above>>
          /\ pc \in Outs /\ pc' # "write"
        BY <1>6 DEF PortWrites, OutPort, Interruptible, termVars, history, Outs
    <2>2. Alone
        BY <2>1 DEF Alone
    <2>3. printed # <<>>
        BY <2>1, <2>2 DEF TtyInv, Outs
    <2> QED
        BY <1>1, <2>1, <2>3
<1>7. CASE tty_cursor
    <2>1. UNCHANGED <<start, printed, pending, scr, cursorOffset, printer, hit, above>>
          /\ pc = "loop" /\ pc' = "select high"
        BY <1>7 DEF tty_cursor, Interruptible, termVars, history
    <2>2. Alone
        BY <2>1 DEF Alone
    <2>3. printed # <<>>
        BY <2>1, <2>2 DEF TtyInv
    <2> QED
        BY <1>1, <2>1, <2>3
<1> QED
    BY <1>2, <1>3, <1>4, <1>5, <1>6, <1>7, PutcGoesOn, ScrollGoesUp DEF Next

LEMMA CrtParts ==
    ASSUME NEW r, r \in [index : {r.index}, high : {r.high}, low : {r.low}], NEW v
    PROVE  /\ LET t == [r EXCEPT !.index = v]
              IN  /\ t \in [index : {t.index}, high : {t.high}, low : {t.low}]
                  /\ t.index = v /\ t.high = r.high /\ t.low = r.low
           /\ LET t == [r EXCEPT !.high = v]
              IN  /\ t \in [index : {t.index}, high : {t.high}, low : {t.low}]
                  /\ t.index = r.index /\ t.high = v /\ t.low = r.low
           /\ LET t == [r EXCEPT !.low = v]
              IN  /\ t \in [index : {t.index}, high : {t.high}, low : {t.low}]
                  /\ t.index = r.index /\ t.high = r.high /\ t.low = v
OBVIOUS

LEMMA CrtIs ==
    ASSUME NEW a, NEW b, NEW d, NEW r, r \in [index : {a}, high : {b}, low : {d}]
    PROVE  r = [index |-> a, high |-> b, low |-> d]
OBVIOUS

\* The four writes, from a cursor that stays where it is.
LEMMA PortsGoOn ==
    ASSUME Ports, InTurn \/ Alone, PortWrites
    PROVE  Ports'
<1>1. UNCHANGED <<scr, reg, printed, printer, cursorOffset>> /\ pc \in Outs
    BY DEF PortWrites, OutPort, termVars, history, Outs
<1>2. Target' = Target
    BY <1>1 DEF Target, Position
<1>3. /\ crt \in [index : {crt.index}, high : {crt.high}, low : {crt.low}] /\ reg = Target
      /\ pc \in {"high", "select low"} => crt.index = 14
      /\ pc = "low" => crt.index = 15
      /\ pc \in {"select low", "low"} => crt.high = (reg \div BYTE) % BYTE
    BY <1>1 DEF Ports
<1>4. CASE OutPort("select high", "high", [crt EXCEPT !.index = 14])
    <2>1. crt' = [crt EXCEPT !.index = 14] /\ pc' = "high"
        BY <1>4 DEF OutPort
    <2>2. crt' \in [index : {crt'.index}, high : {crt'.high}, low : {crt'.low}] /\ crt'.index = 14
        BY <1>3, <2>1, CrtParts
    <2> QED
        BY <1>1, <1>2, <1>3, <2>1, <2>2 DEF Ports
<1>5. CASE OutPort("high", "select low", Selected((reg \div BYTE) % BYTE))
    <2>1. PICK v : v = (reg \div BYTE) % BYTE
        OBVIOUS
    <2>2. crt' = [crt EXCEPT !.high = v] /\ pc' = "select low"
        BY <1>3, <1>5, <2>1 DEF OutPort, Selected
    <2>3. crt' \in [index : {crt'.index}, high : {crt'.high}, low : {crt'.low}] /\ crt'.index = 14
          /\ crt'.high = v
        BY <1>3, <1>5, <2>2, CrtParts DEF OutPort
    <2>4. v = (reg' \div BYTE) % BYTE
        BY <1>1, <2>1
    <2> QED
        BY <1>1, <1>2, <1>3, <2>2, <2>3, <2>4 DEF Ports
<1>6. CASE OutPort("select low", "low", [crt EXCEPT !.index = 15])
    <2>1. crt' = [crt EXCEPT !.index = 15] /\ pc' = "low" /\ pc = "select low"
        BY <1>6 DEF OutPort
    <2>2. crt' \in [index : {crt'.index}, high : {crt'.high}, low : {crt'.low}] /\ crt'.index = 15
          /\ crt'.high = crt.high
        BY <1>3, <2>1, CrtParts
    <2>3. crt'.high = (reg' \div BYTE) % BYTE
        BY <1>1, <1>3, <2>1, <2>2
    <2> QED
        BY <1>1, <1>2, <1>3, <2>1, <2>2, <2>3 DEF Ports
<1>7. CASE OutPort("low", IF erasing = "blank" THEN "xload" ELSE "rest", Selected(reg % BYTE))
    <2>1. PICK v : v = reg % BYTE
        OBVIOUS
    <2>2. crt' = [crt EXCEPT !.low = v] /\ pc' \in {"xload", "rest"} /\ pc = "low"
        BY <1>3, <1>7, <2>1 DEF OutPort, Selected
    <2>3. crt' \in [index : {crt'.index}, high : {crt'.high}, low : {crt'.low}] /\ crt'.index = 15
          /\ crt'.high = crt.high /\ crt'.low = v
        BY <1>3, <2>2, CrtParts
    <2>4. PICK h : h = (reg \div BYTE) % BYTE
        OBVIOUS
    <2>5. crt' = [index |-> 15, high |-> h, low |-> v]
        <3>1. crt' \in [index : {15}, high : {h}, low : {v}]
            BY <1>3, <2>2, <2>3, <2>4
        <3> QED
            BY <3>1, CrtIs
    <2>6. crt' = Shown(Target')
        BY <1>2, <1>3, <2>1, <2>4, <2>5 DEF Shown
    <2> QED
        BY <2>2, <2>3, <2>6 DEF Ports, Outs
<1> QED
    BY <1>4, <1>5, <1>6, <1>7 DEF PortWrites

LEMMA ShownIs == ASSUME NEW p
                 PROVE  Shown(p) \in [index : {Shown(p).index}, high : {Shown(p).high}, low : {Shown(p).low}]
BY DEF Shown

LEMMA PortsStep ==
    StoresInv /\ KernelAt /\ KernelInv /\ KernelInv' /\ TtyInv /\ Ports /\ [Next]_vars => Ports'
<1> SUFFICES ASSUME StoresInv, KernelAt, KernelInv, KernelInv', TtyInv, Ports, [Next]_vars,
                    InTurn' \/ Alone'
             PROVE  Ports'
    BY DEF Ports
<1>1. InTurn \/ Alone
    BY DEF Next, PrintPending, Call, PutchStep, Test, Draw, ChangeX, NextLine, Scroll, MoveCsr, Do,
           PortWrites, OutPort, tty_putc, tty_scroll, tty_cursor, Tick, vars, history, InTurn, Alone,
           KernelAt
<1>2. crt \in [index : {crt.index}, high : {crt.high}, low : {crt.low}]
    BY <1>1 DEF Ports
<1>3. CASE UNCHANGED vars
    <2>1. UNCHANGED <<printer, scr, crt, cursorOffset, pc, reg, printed>>
        BY <1>3 DEF vars, termVars, history
    <2>2. Target' = Target
        BY <2>1 DEF Target, Position
    <2> QED
        BY <1>1, <2>1, <2>2 DEF Ports
<1>4. CASE PrintPending
    <2>1. UNCHANGED <<printer, pc, printed, hit, above>> /\ crt' = Shown(Position(scr')) /\ pending # <<>>
        BY <1>4 DEF PrintPending
    <2>2. crt' \in [index : {crt'.index}, high : {crt'.high}, low : {crt'.low}]
        BY <2>1, ShownIs
    <2>3. pc \notin Outs
        <3>1. CASE InTurn
            BY <2>1, <3>1 DEF KernelInv, Turns, Outs
        <3>2. CASE Alone
            BY <2>1, <3>2 DEF TtyInv, Outs
        <3> QED
            BY <1>1, <3>1, <3>2
    <2>4. printer = "kernel" => crt' = Shown(Target')
        BY <2>1 DEF Target
    <2>5. printer # "kernel" => printed = <<>>
        BY <1>1, <2>1 DEF TtyInv, InTurn
    <2> QED
        BY <2>1, <2>2, <2>3, <2>4, <2>5 DEF Ports, Outs
<1>5. CASE Call \/ PutchStep
    <2>1. UNCHANGED <<printer, crt>> /\ pc' # "rest" /\ pc' \notin {"high", "select low", "low"}
        BY <1>5 DEF Call, PutchStep, Test, Draw, ChangeX, NextLine, Scroll, MoveCsr, Do
    <2>2. pc' \in Outs => reg' = Target'
        <3>1. CASE InTurn'
            <4>1. pc' \in Outs => reg' = Position(scr')
                BY <3>1 DEF KernelInv, Reads
            <4>2. printer' = "kernel"
                BY <3>1 DEF InTurn
            <4> QED
                BY <4>1, <4>2 DEF Target
        <3>2. CASE Alone'
            <4>1. PutchStep
                BY <1>5, <3>2 DEF Call, Alone
            <4>2. /\ UNCHANGED <<printer, hit, above>>
                  /\ pc \in Moving \cup Turning \cup Scrolling \cup {"movey", "movex"}
                BY <4>1 DEF PutchStep, Test, Draw, ChangeX, NextLine, Scroll, MoveCsr, Do,
                            Moving, Turning, Scrolling
            <4>3. Alone /\ pc \notin TermPlaces
                BY <3>2, <4>2 DEF Alone, TermPlaces, Moving, Turning, Scrolling
            <4> QED
                BY <4>3, AloneIs
        <3> QED
            BY <3>1, <3>2
    <2> QED
        BY <1>2, <2>1, <2>2 DEF Ports
<1>6. CASE tty_putc \/ tty_scroll
    <2>1. UNCHANGED crt /\ pc' \in {"read", "write", "loop"}
        BY <1>6 DEF tty_putc, tty_scroll
    <2> QED
        BY <1>2, <2>1 DEF Ports, Outs
<1>7. CASE tty_cursor
    <2>1. UNCHANGED <<crt, printer, cursorOffset>> /\ pc = "loop" /\ pc' = "select high" /\ reg' = cursorOffset
        BY <1>7 DEF tty_cursor, termVars
    <2>2. Target' = reg'
        BY <2>1 DEF Target, KernelAt
    <2> QED
        BY <1>2, <2>1, <2>2 DEF Ports, Outs
<1>8. CASE Tick
    <2>1. UNCHANGED <<printer, scr, crt, cursorOffset, pc, reg>> /\ hit' # "none"
        BY <1>8 DEF Tick, termVars
    <2>2. printer = "kernel"
        BY <2>1 DEF InTurn, Alone
    <2>3. Target' = Target
        BY <2>1 DEF Target, Position
    <2> QED
        BY <1>1, <2>1, <2>2, <2>3 DEF Ports
<1>9. CASE PortWrites
    BY <1>1, <1>9, PortsGoOn
<1> QED
    BY <1>3, <1>4, <1>5, <1>6, <1>7, <1>8, <1>9 DEF Next

(***************************************************************************)
(* What the invariant says at rest.                                         *)
(***************************************************************************)
LEMMA KernelShows ==
    ASSUME StoresInv, KernelInv, Ports, InTurn, AtRest
    PROVE  ShowsPaper
<1>1. /\ Whole /\ Backspacing /\ Texts /\ start \in Seq(Nat) /\ printed \in Seq(Nat)
      /\ start \o printed \in Seq(Nat) /\ Now = scr
    BY TurnIs DEF AtRest
<1>2. erasing = "no"
    BY <1>1 DEF Backspacing, Texts, AtRest, Showing
<1>3. scr = kprintf(cls, start \o printed)
    BY <1>1, <1>2 DEF Whole, Goal, AtRest
<1>4. printer = "kernel"
    BY DEF InTurn
<1>5. crt = Shown(Position(scr))
    BY <1>4 DEF Ports, AtRest, Target
<1>6. PICK text : text = start \o printed
    OBVIOUS
<1>7. PICK booted : booted = kprintf(cls, start)
    OBVIOUS
<1>8. PICK size : size = WIDTH * (HEIGHT + Len(start) + Len(printed))
    OBVIOUS
<1>9. text \in Seq(Nat) /\ booted \in Screens /\ size = WIDTH * (HEIGHT + Len(text))
    <2>1. booted \in Screens
        BY <1>1, <1>7, ClsTyped, KprintfTyped
    <2>2. HEIGHT + Len(text) = HEIGHT + Len(start) + Len(printed)
        BY <1>1, <1>6, TextIs
    <2> QED
        BY <1>1, <1>6, <1>8, <2>1, <2>2
<1>10. PICK page : page = PrintedOn("kernel", Blank("kernel", booted, size), text)
    OBVIOUS
<1>11. Shows(kprintf(cls, text), page, size, Len(text))
    BY <1>9, <1>10, KernelPage
<1>12. PICK s : s = kprintf(cls, text)
    OBVIOUS
<1>13. s \in Screens /\ Lies(s, page.cell, size, page.top, page.at)
    BY <1>11, <1>12 DEF Shows
<1>14. Paper = page
    BY <1>4, <1>6, <1>7, <1>8, <1>10 DEF Paper
<1>15. s = scr
    BY <1>3, <1>6, <1>12
<1>16. Position(s) = page.at - page.top * WIDTH
    <2>1. page.top \in Nat /\ page.at = (page.top + s.y) * WIDTH + s.x
        BY <1>13 DEF Lies
    <2>2. PICK t : t = page.top
        OBVIOUS
    <2>3. PICK y : y = s.y
        OBVIOUS
    <2>4. t \in Nat /\ y \in Nat /\ s.x \in Nat /\ WIDTH \in Nat
        BY <1>13, <2>1, <2>2, <2>3, TextIs DEF Screens
    <2>5. (t + y) * WIDTH = t * WIDTH + y * WIDTH /\ t * WIDTH \in Nat /\ y * WIDTH \in Nat
        BY <2>4
    <2> QED
        BY <2>1, <2>2, <2>3, <2>4, <2>5 DEF Position
<1>17. \A i \in Text : s.cell[i] = page.cell[page.top * WIDTH + i]
    BY <1>13 DEF Lies
<1> QED
    BY <1>4, <1>5, <1>14, <1>15, <1>16, <1>17 DEF ShowsPaper

LEMMA TtyShows ==
    ASSUME StoresInv, TtyInv, Ports, Alone, AtRest
    PROVE  ShowsPaper
<1>1. start \in Seq(Nat) /\ printed \in Seq(Nat) /\ printer = "program"
    BY DEF TtyInv, Alone
<1>2. PICK size : size = WIDTH * (HEIGHT + Len(start) + Len(printed))
    OBVIOUS
<1>3. size \in Nat /\ size >= (Len(printed) + HEIGHT) * WIDTH
    <2>1. PICK a : a = Len(start)
        OBVIOUS
    <2>2. PICK b : b = HEIGHT + Len(printed)
        OBVIOUS
    <2>3. a \in Nat /\ b \in Nat /\ WIDTH \in Nat
        BY <1>1, <2>1, <2>2, TextIs
    <2>4. HEIGHT + Len(start) + Len(printed) = a + b /\ Len(printed) + HEIGHT = b
        BY <1>1, <2>1, <2>2, TextIs
    <2>5. WIDTH * (a + b) = a * WIDTH + b * WIDTH /\ a * WIDTH \in Nat /\ b * WIDTH \in Nat
        BY <2>3
    <2> QED
        BY <1>2, <2>4, <2>5
<1>4. PICK t : Views(scr.cell, cursorOffset, TtyPage(size), size, t, Len(printed))
    BY <1>3, TtyViews DEF AtRest
<1>5. PICK page : page = TtyPage(size)
    OBVIOUS
<1>6. cursorOffset \in Nat /\ cursorOffset < SIZE /\ SIZE \in Nat
    BY AloneIs, SizesOf DEF AtRest
<1>7. /\ t \in Nat /\ page.at = t * WIDTH + cursorOffset /\ page.top = t
      /\ Agrees(scr.cell, page.cell, size, t)
    BY <1>4, <1>5, <1>6 DEF Views
<1>8. Paper = page
    BY <1>1, <1>2, <1>5 DEF Paper, TtyPage
<1>9. page.at - page.top * WIDTH = cursorOffset
    <2>1. t * WIDTH \in Nat
        BY <1>7, RowsIs
    <2> QED
        BY <1>6, <1>7, <2>1
<1>10. \A i \in Text : scr.cell[i] = page.cell[page.top * WIDTH + i]
    BY <1>7 DEF Agrees
<1>11. printed # <<>> => crt = Shown(cursorOffset)
    BY <1>1 DEF Ports, Target, AtRest
<1> QED
    BY <1>1, <1>8, <1>9, <1>10, <1>11 DEF ShowsPaper

\* Between two characters the screen shows the end of the page everything was printed on
\* in turn, the hardware cursor at its end.
THEOREM ScreenShowsPaper == Spec => []ShowsPaper
<1> DEFINE Inv == StoresInv /\ KernelAt /\ KernelInv /\ TtyInv /\ Ports
<1>1. Init => Inv
    BY InitStores, KernelAtHolds, InitInTurn, InitAlone
<1>2. Inv /\ [Next]_vars => Inv'
    BY StoresStep, KernelAtHolds, KernelStep, TtyStep, PortsStep
<1>3. Inv => ShowsPaper
    <2> SUFFICES ASSUME Inv, AtRest, hit = "none" \/ (hit = "between" /\ printer = "kernel"), ~above
                 PROVE  ShowsPaper
        BY DEF ShowsPaper
    <2>1. InTurn \/ Alone
        BY DEF InTurn, Alone, KernelAt
    <2> QED
        BY <2>1, KernelShows, TtyShows
<1> QED
    BY <1>1, <1>2, <1>3, PTL DEF Spec
=============================================================================
