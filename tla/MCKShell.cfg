CONSTANTS
    WIDTH = 6
    HEIGHT = 2
    TAB = 3
    WORD = 256
    LINE = 4
    ARGS = 2
    Command <- MCCommand
    Use <- MCUse
    Core <- MCCore
    Prompt <- MCPrompt
    Reply <- MCReply
    Behind <- MCBehind
    Garbage <- MCGarbage
    TICKS = 4
    PERIOD = 2
    QUEUE = 1
    Key <- MCKey
    MaxKeys = 5
SPECIFICATION Spec
PROPERTY ImplementsCommandLine
INVARIANT EchoShowsLine
PROPERTY LinesAnswered
PROPERTY SleepsItsTime
CHECK_DEADLOCK FALSE
