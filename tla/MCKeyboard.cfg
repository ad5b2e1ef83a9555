SPECIFICATION Spec
CONSTANTS
    KBD_BUFFER_SIZE = 3
    Scancode <- MCScancode
    kbdMapUS <- MCMap
    MaxKeys = 5
INVARIANTS
    TypeOK
    ReadNotOvertaken
PROPERTIES
    RingIsFifo
    AcceptedIsRead
CHECK_DEADLOCK FALSE
