----------------------------- MODULE MCDisplay -----------------------------
\* A screen of three rows of four, a log of two lines, and starts that bring the cursor
\* to the top, the middle and the last cell.
EXTENDS Display

MCStarts == {<<>>, <<98, NEWLINE, 98>>, <<98, NEWLINE, 98, NEWLINE, 98, 98, 98>>}
MCChars == {97, BACKSPACE, HTAB, RETURN, NEWLINE}
MCLog == <<108, NEWLINE, 108, 108, NEWLINE>>
=============================================================================
