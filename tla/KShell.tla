------------------------------- MODULE KShell -------------------------------
(***************************************************************************)
(* kcore/kshell.c, the loop that the machine ends in, with the keyboard it  *)
(* polls (a FIFO, which KeyboardProofs shows of kbd.c), the screen it       *)
(* prints on, and timer_wait with the counter of pit.c.                     *)
(*                                                                          *)
(* A command that lists something prints one line here.  Keys without a     *)
(* character are left out; the loop ignores them.                           *)
(***************************************************************************)
EXTENDS Screen, CString

CONSTANTS
    LINE, ARGS,        \* 256 and 32: the sizes of shell_buffer and argv
    Command,           \* the words of shell_parse's first comparisons -> what they do
    Use,               \* the one of them that takes a core, and
    Core,              \* the words it takes
    Prompt, Reply,     \* what is printed: ">>" and some line
    Behind,            \* what may stand in memory behind shell_buffer, as words of a line
    Garbage,           \* what kprintf may print for a % at the end of its format
    TICKS, PERIOD,     \* 2^32, and 5 * PIT_FREQUENCY ticks
    QUEUE,             \* keys that can wait
    Key, MaxKeys       \* the characters typed, and a bound: how many

ASSUME TimerAssumption == TICKS \in Nat \ {0} /\ PERIOD \in 0..TICKS

\* The prompt is printable and shorter than a row; a reply ends its last line.
ASSUME EchoAssumption ==
    /\ LINE \in Nat
    /\ Key \subseteq Nat /\ Garbage \subseteq Seq(Nat)
    /\ Prompt \in Seq(Nat) /\ Len(Prompt) < WIDTH
    /\ \A i \in 1..Len(Prompt) : Prompt[i] >= BLANK
    /\ Reply \in Seq(Nat) /\ Reply # <<>> /\ Reply[Len(Reply)] = NEWLINE

SPACE == 32
PERCENT == 37
HELP == 63
Nowhere == <<-1>>      \* a word at an address that is not mapped

\* A word is not empty, and has no separator in it; the loop leaves out characters of value 0.
ASSUME WordsAssumption ==
    /\ ARGS \in Nat \ {0} /\ 0 \notin Key /\ Behind \subseteq Seq(Nat)
    /\ Core \cup {Use} \subseteq Seq(Nat \ {0, SPACE}) \ {<<>>}
    /\ Use \in DOMAIN Command
    /\ \A w \in DOMAIN Command : Command[w] = "use" <=> w = Use

VARIABLES
    queue,                               \* the keyboard's ring
    shell_buffer, shell_buffer_pos,
    current_core, kernel_shell,
    scr,                                 \* the screen
    pc,                                  \* "poll"; "wait" in timer_wait; or at an end:
                                         \* "reset", "hang" (a fault), "smashed" (argv)
    pit_counter, eticks,
    keys,                                \* keys typed so far
    ran, neat, improper, slept           \* history, see the properties

bufferVars == <<shell_buffer, shell_buffer_pos>>
waitVars == <<pit_counter, eticks, slept>>
vars == <<queue, bufferVars, current_core, kernel_shell, scr, pc, waitVars, keys, ran,
          neat, improper>>

Prompted(s) == kprintf(s, Prompt)

Init ==
    /\ queue = <<>>
    /\ shell_buffer = [i \in 0..(LINE - 1) |-> 0] /\ shell_buffer_pos = 0
    /\ current_core = <<>> /\ kernel_shell = TRUE
    /\ scr = Prompted(kprintf(cls, Reply))
    /\ pc = "poll"
    /\ pit_counter = 0 /\ eticks = 0 /\ slept = 0
    /\ keys = 0
    /\ ran = <<>> /\ neat = TRUE /\ improper = FALSE

Room == shell_buffer_pos < LINE

\* shell_stack_push, the buffer's part: a character too many is dropped.
Pushed(c) == IF Room THEN [shell_buffer EXCEPT ![shell_buffer_pos] = c] ELSE shell_buffer

(***************************************************************************)
(* shell_parse: what it may do with the memory from shell_buffer on.        *)
(***************************************************************************)
Answer(memory, arg0, arg1) ==
    LET kind == IF arg0 \in DOMAIN Command THEN Command[arg0] ELSE "none"
        core == IF kind = "use" /\ arg1 \in Core THEN arg1 ELSE current_core
        Then(place, running, text) ==
            [pc |-> place, shell |-> running, core |-> core, says |-> text, mem |-> memory]
    IN  IF arg0 = Nowhere THEN Then("hang", TRUE, <<>>)
        ELSE CASE kind = "none"   -> Then("poll", TRUE, <<>>)
               [] kind = "sleep"  -> Then("wait", TRUE, <<>>)
               [] kind = "reboot" -> Then("reset", TRUE, <<>>)
               [] kind = "exit"   -> Then("poll", FALSE, <<>>)
               [] OTHER           -> IF arg1 = Nowhere THEN Then("hang", TRUE, <<>>)
                                     ELSE Then("poll", TRUE, Reply)

\* argv is on the stack and not cleared: an entry that strsplt does not set may hold
\* any address, that of an earlier word in the buffer too.
shell_parse(memory) ==
    LET split == strsplt(memory, 0, SPACE)
        argc == Len(split.out)
        stale == {Nowhere, <<>>} \cup {StringAt(split.mem, a) : a \in 0..(LINE - 1)}
        Arg(i) == IF i < argc THEN {StringAt(split.mem, split.out[i + 1])} ELSE stale
    IN  IF argc > ARGS
        THEN {[pc |-> "smashed", shell |-> TRUE, core |-> current_core, says |-> <<>>,
               mem |-> split.mem]}
        ELSE {Answer(split.mem, arg0, arg1) : arg0 \in Arg(0), arg1 \in Arg(1)}

\* Whether the code says what a line does: a first word, a second for a command that
\* takes one, a place in argv for each, and room for the zero.
Proper(line) ==
    LET words == 1 + Cardinality({i \in 1..(Len(line) - 1) : line[i] = SPACE})
    IN  /\ line # <<>> /\ Len(line) < LINE /\ words <= ARGS
        /\ words = 1 => line \notin {w \in DOMAIN Command : Command[w] \in {"use", "list"}}

(***************************************************************************)
(* handle_char, a case an action, and the loop around it.                   *)
(***************************************************************************)
Line == [i \in 1..shell_buffer_pos |-> shell_buffer[i - 1]]

Take(c) ==
    /\ pc = "poll" /\ kernel_shell /\ queue # <<>>
    /\ c = Head(queue)
    /\ queue' = Tail(queue)
    /\ UNCHANGED keys

HandleTab ==
    /\ Take(HTAB)
    /\ scr' = putch(scr, HTAB)
    /\ neat' = FALSE
    /\ UNCHANGED <<bufferVars, current_core, kernel_shell, pc, waitVars, ran, improper>>

BackspaceAlways ==                       \* mutant: echoed on an empty line, too
    /\ Take(BACKSPACE)
    /\ shell_buffer_pos' = IF shell_buffer_pos > 0 THEN shell_buffer_pos - 1 ELSE 0
    /\ scr' = putch(scr, BACKSPACE)
    /\ UNCHANGED <<shell_buffer, current_core, kernel_shell, pc, waitVars, ran, neat,
                   improper>>

HandleBackspace ==
    /\ Take(BACKSPACE)
    /\ IF shell_buffer_pos > 0
       THEN /\ shell_buffer_pos' = shell_buffer_pos - 1
            /\ scr' = putch(scr, BACKSPACE)
       ELSE UNCHANGED <<shell_buffer_pos, scr>>
    /\ UNCHANGED <<shell_buffer, current_core, kernel_shell, pc, waitVars, ran, neat,
                   improper>>

TargetUnwrapped(now) == now + PERIOD     \* mutant: a counter without an end

Target(now) == (now + PERIOD) % TICKS

\* A newline: end the line, run it, and print the next prompt, after timer_wait if the
\* command is sleep.  The counter's value is of interest from here on.
HandleNewline ==
    /\ Take(NEWLINE)
    /\ \E behind \in Behind :
          LET ended == Pushed(0)
              memory == [i \in 0..(LINE + Len(behind)) |->
                            IF i < LINE THEN ended[i]
                            ELSE IF i < LINE + Len(behind) THEN behind[i - LINE + 1] ELSE 0]
          IN  /\ ran' = Append(ran, StringAt(memory, 0))
              /\ \E result \in shell_parse(memory) :
                    LET said == kprintf(putch(scr, NEWLINE), result.says)
                    IN  /\ shell_buffer' = [i \in 0..(LINE - 1) |-> result.mem[i]]
                        /\ current_core' = result.core
                        /\ kernel_shell' = result.shell
                        /\ pc' = result.pc
                        /\ scr' = IF result.pc = "poll" THEN Prompted(said) ELSE said
    /\ shell_buffer_pos' = IF pc' = "poll" THEN 0 ELSE shell_buffer_pos
    /\ neat' = (pc' = "poll")
    /\ improper' = (improper \/ ~Proper(Line))
    /\ IF pc' = "wait"
       THEN \E now \in 0..(TICKS - 1) :
               /\ pit_counter' = now
               /\ eticks' = Target(now)
               /\ slept' = 0
       ELSE UNCHANGED waitVars

HelpKeepsLine ==                         \* mutant: the line goes on behind the help
    /\ Take(HELP)
    /\ shell_buffer' = Pushed(HELP)
    /\ shell_buffer_pos' = IF Room THEN shell_buffer_pos + 1 ELSE shell_buffer_pos
    /\ scr' = Prompted(kprintf(putch(scr, HELP), Reply))
    /\ neat' = TRUE
    /\ UNCHANGED <<current_core, kernel_shell, pc, waitVars, ran, improper>>

HandleHelp ==
    /\ Take(HELP)
    /\ shell_buffer' = Pushed(HELP)
    /\ shell_buffer_pos' = 0
    /\ scr' = Prompted(kprintf(putch(scr, HELP), Reply))
    /\ neat' = TRUE
    /\ UNCHANGED <<current_core, kernel_shell, pc, waitVars, ran, improper>>

\* The character is kprintf's format.  A lone % makes kprintf print an argument that is
\* not there and read on behind the format.
HandleChar ==
    /\ \E c \in Key \ {HTAB, BACKSPACE, NEWLINE, HELP} :
          /\ Take(c)
          /\ shell_buffer' = Pushed(c)
          /\ shell_buffer_pos' = IF Room THEN shell_buffer_pos + 1 ELSE shell_buffer_pos
          /\ IF c = PERCENT
             THEN \/ pc' = pc /\ \E garbage \in Garbage : scr' = kprintf(scr, garbage)
                  \/ pc' = "hang" /\ scr' = scr
             ELSE pc' = pc /\ scr' = putch(scr, c)
          /\ neat' = /\ neat /\ Room /\ c >= BLANK /\ c # PERCENT
                     /\ Len(Prompt) + shell_buffer_pos + 1 < WIDTH
          /\ improper' = (improper \/ c = PERCENT)
    /\ UNCHANGED <<current_core, kernel_shell, waitVars, ran>>

(***************************************************************************)
(* timer_wait's loop, and what the interrupts do meanwhile.                 *)
(***************************************************************************)
WaitOverEarly == pit_counter + 1 >= eticks   \* mutant: a tick too early

WaitOver == pit_counter >= eticks

WaitEnd ==
    /\ pc = "wait" /\ WaitOver
    /\ pc' = "poll"
    /\ shell_buffer_pos' = 0
    /\ scr' = Prompted(scr)
    /\ neat' = TRUE
    /\ UNCHANGED <<queue, shell_buffer, current_core, kernel_shell, waitVars, keys, ran,
                   improper>>

Tick ==
    /\ pc = "wait"
    /\ pit_counter' = (pit_counter + 1) % TICKS
    /\ slept' = IF slept < PERIOD THEN slept + 1 ELSE slept
    /\ UNCHANGED <<queue, bufferVars, current_core, kernel_shell, scr, pc, eticks, keys,
                   ran, neat, improper>>

\* A key that finds the ring full is lost.
Press ==
    /\ keys < MaxKeys /\ keys' = keys + 1
    /\ \E c \in Key : queue' = IF Len(queue) < QUEUE THEN Append(queue, c) ELSE queue
    /\ UNCHANGED <<bufferVars, current_core, kernel_shell, scr, pc, waitVars, ran, neat,
                   improper>>

Poll == HandleTab \/ HandleBackspace \/ HandleNewline \/ HandleHelp \/ HandleChar

Next == Poll \/ WaitEnd \/ Tick \/ Press

\* The processor executes the loop, the timer ticks, and timer_wait looks at the counter
\* many times between two ticks.  The actions named here are those of Next, by the one
\* variable that tells them from the others.
Polls == pc = "poll" /\ kernel_shell /\ queue # <<>> /\ queue' = Tail(queue)
Ticks == pc = "wait" /\ pit_counter' = (pit_counter + 1) % TICKS
Leaves == pc = "wait" /\ WaitOver /\ pc' = "poll"

Spec == Init /\ [][Next]_vars /\ WF_queue(Polls) /\ WF_pit_counter(Ticks) /\ SF_pc(Leaves)

(***************************************************************************)
(* Properties.                                                              *)
(***************************************************************************)
AtPrompt == pc = "poll" /\ kernel_shell

CL == INSTANCE CommandLine WITH
          Typeable <- Key \ {HTAB, BACKSPACE, NEWLINE, HELP},
          line <- IF pc = "poll" THEN Line ELSE <<>>,
          core <- current_core

\* handle_char and shell_parse, with the buffer they share, are a line edited at its end
\* that runs as it was typed, unless it fills the buffer (kshell.c:31: the zero is
\* dropped): nothing of an earlier line, of what was erased or of a line given up with
\* `?' gets into it; the core is the one chosen by the last line with room in argv.
ImplementsCommandLine == CL!CLSpec

\* What stands on the row behind the prompt is the line in the buffer, and the cursor
\* is behind it; until a tab, a character without a picture, one that the full buffer
\* dropped, a % or the end of the row makes buffer and screen differ (handle_char erases
\* one cell for each character, kshell.c:225).
EchoShowsLine ==
    AtPrompt /\ neat =>
        LET shown == Prompt \o Line
        IN  /\ scr.x = Len(shown)
            /\ \A i \in 1..Len(shown) : scr.cell[scr.y * WIDTH + i - 1] = shown[i]

\* As long as every line was one the code has a meaning for, each key is handled in the
\* end and every sleep ends, or a line has left the shell; a tick counter that wraps makes no wait
\* endless.
LinesAnswered ==
    (queue # <<>> \/ pc = "wait") ~>
        \/ queue = <<>> /\ pc = "poll"
        \/ ~kernel_shell \/ pc = "reset" \/ improper

\* sleep lasts its ticks, unless the target wrapped (timer.c:13): then it may return at once.
SleepsItsTime ==
    [][pc = "wait" /\ pc' = "poll" => slept >= PERIOD \/ eticks < PERIOD]_vars
=============================================================================
