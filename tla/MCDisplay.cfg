CONSTANTS
    WIDTH = 4
    HEIGHT = 3
    TAB = 2
    SHORT = 64
    BYTE = 5
    Starts <- MCStarts
    Chars <- MCChars
    MaxChars = 4
    Log <- MCLog
SPECIFICATION Spec
INVARIANT CursorOnScreen
INVARIANT StoresOnScreen
INVARIANT ShowsPaper
CHECK_DEADLOCK FALSE
