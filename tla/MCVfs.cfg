SPECIFICATION Spec
CONSTANTS
    Client = {c1, c2}
    OPEN = 2
    BLOCK = 2
    INITRD_HEADER_SIZE = 3
    WORD = 16
    Images <- MCImages
    Path <- MCPath
    Count <- MCCount
SYMMETRY ClientSymmetry
INVARIANTS
    TypeOK
    HandlesAreKept
    FilesAreApart
    ReadsOwnFile
    
PROPERTY OpenServes
CHECK_DEADLOCK FALSE
