---------------------------- MODULE CommandLine ----------------------------
(***************************************************************************)
(* What a user of the shell sees: a line that is edited at its end, the     *)
(* lines that were run, and the core that was chosen.  A line shorter than  *)
(* the buffer is run as it was typed.                                       *)
(***************************************************************************)
EXTENDS Naturals, Sequences, SequencesExt

CONSTANTS
    LINE,            \* characters the buffer holds
    ARGS,            \* words the command can be given
    Typeable,        \* the characters that are stored
    SPACE,
    Core,            \* the cores, as words, and
    Use              \* the command that chooses one

VARIABLES line,      \* what is being typed
          ran,       \* the lines run so far
          core       \* the chosen core, <<>> at first

lineVars == <<line, ran, core>>

CLInit == line = <<>> /\ ran = <<>> /\ core = <<>>

Type(ch) ==
    /\ line' = IF Len(line) < LINE THEN Append(line, ch) ELSE line
    /\ UNCHANGED <<ran, core>>

Erase ==
    /\ line # <<>> /\ line' = Front(line)
    /\ UNCHANGED <<ran, core>>

Clear ==
    /\ line' = <<>>
    /\ UNCHANGED <<ran, core>>

Chosen ==
    {k \in Core : LET call == Use \o <<SPACE>> \o k
                  IN  line = call \/ (/\ IsPrefix(call \o <<SPACE>>, line)
                                      /\ Len(line) > Len(call) + 1)}

\* With fewer words than the command reads, anything may be taken for the missing ones.
Vague == line \in {<<>>, Use}

\* A separator at the very end belongs to the last word.
Crowded == 1 + Cardinality({i \in 1..(Len(line) - 1) : line[i] = SPACE}) > ARGS

\* With more words than there is room for, nothing is chosen any more.
Run ==
    /\ Len(line) < LINE
    /\ line' = <<>>
    /\ ran' = Append(ran, line)
    /\ core' \in IF Crowded THEN {core}
                ELSE IF Chosen # {} THEN Chosen
                ELSE IF Vague THEN Core \cup {core} ELSE {core}

\* A full line has no end: more may be run than was typed.
RunFull ==
    /\ Len(line) = LINE
    /\ line' = <<>>
    /\ Len(ran') = Len(ran) + 1 /\ Front(ran') = ran /\ IsPrefix(line, Last(ran'))
    /\ core' \in Core \cup {core}

CLNext == (\E ch \in Typeable : Type(ch)) \/ Erase \/ Clear \/ Run \/ RunFull

CLSpec == CLInit /\ [][CLNext]_lineVars
=============================================================================
