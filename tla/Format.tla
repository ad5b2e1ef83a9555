------------------------------- MODULE Format -------------------------------
(***************************************************************************)
(* kdebug/debug.c: the text kprintf makes of a format and its arguments,    *)
(* which it gives to putch.  An argument is a number or a string; every     *)
(* conversion takes the next.  Colours are left out.                        *)
(***************************************************************************)
EXTENDS CString

PERCENT == 37
UNSIGNED == 117           \* 'u'
TEXT == 115             \* 's'
Bullets == {43, 33, 45}   \* '+', '!', '-'
Bullet == <<91, 42, 93, 32>>                      \* "[*] ", by printbullet
Null == <<0>>                                     \* the null pointer as a string
NullText == <<91, 110, 117, 108, 108, 93>>        \* "[null]"

Converted(c, arg) ==
    CASE c \in {DECIMAL, UNSIGNED, HEXADECIMAL} -> itoa(c, arg)
      [] c = TEXT                             -> IF arg = Null THEN NullText ELSE arg
      [] OTHER                                  -> <<arg>>

Formatted(format, args) ==
    LET Take(s, c) ==
            IF ~s.conversion
            THEN IF c = PERCENT THEN [s EXCEPT !.conversion = TRUE]
                 ELSE [s EXCEPT !.text = Append(@, c)]
            ELSE IF c \in Bullets
            THEN [s EXCEPT !.conversion = FALSE, !.text = @ \o Bullet]
            ELSE [conversion |-> FALSE, args |-> Tail(s.args),
                  text |-> s.text \o Converted(c, Head(s.args))]
    IN  FoldLeft(Take, [conversion |-> FALSE, args |-> args, text |-> <<>>], format).text
=============================================================================
