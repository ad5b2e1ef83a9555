CONSTANTS
    WORD = 256
    CELLS = 6
    Letters = {97, 98}
SPECIFICATION Spec
INVARIANT SplitsIntoWords
INVARIANT EqualAsStrings
INVARIANT FindsOccurrence
INVARIANT NamesLastComponent
INVARIANT NumberReadsBack
CHECK_DEADLOCK FALSE
