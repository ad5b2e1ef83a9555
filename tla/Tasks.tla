------------------------------- MODULE Tasks -------------------------------
(***************************************************************************)
(* ktask/task.c with the interrupt path it runs on: kbase/irq.c, irqs.s and *)
(* kmod/pit/pit.c.                                                          *)
(*                                                                          *)
(* One processor.  A timer interrupt can fall wherever interrupts are       *)
(* enabled and no timer interrupt is still being served (the PIC holds back *)
(* the next until it is acknowledged).  A task struct, its page directory   *)
(* and the kernel stack allocated with it are named by the pid of the task  *)
(* being created.  A saved eip is the function it points into.  Each page   *)
(* directory maps a stack of its own: frames holds, for each, the places    *)
(* interrupts were taken at and not yet returned to.                        *)
(*                                                                          *)
(* task_counter is left out: it only decides which log lines are printed.   *)
(***************************************************************************)
EXTENDS Integers, Sequences

CONSTANTS
    MaxTasks,     \* bound: how many tasks are ever created
    MaxNest,      \* bound: interrupts taken and not returned from, per stack
    PIT_WRAP      \* pit_counter counts modulo this (2^32 in the code)

ASSUME MaxTasksAssumption == MaxTasks \in Nat \ {0}
ASSUME MaxNestAssumption == MaxNest \in Nat
ASSUME PitWrapAssumption == PIT_WRAP \in Nat \ {0}

VARIABLES
    current_task, ready_queue, next_pid,   \* task.c
    task,                                  \* the task structs
    current_directory,                     \* paging.c
    tss_esp0,                              \* tss.c: the stack an interrupt from ring 3 uses
    pit_counter,                           \* pit.c
    pc,                                    \* where the processor is
    interrupts,                            \* the processor's interrupt flag
    inService,                             \* PIC: a timer interrupt awaits its end-of-interrupt
    frames,                                \* per stack: the places interrupted
    local                                  \* per stack: fork's local variables

schedVars == <<current_task, ready_queue, next_pid, task>>
spaceVars == <<current_directory, tss_esp0>>
irqVars == <<pit_counter, inService>>
vars == <<schedVars, spaceVars, irqVars, pc, interrupts, frames, local>>

Task == 1..MaxTasks
Null == 0
Uninit == -1                  \* whatever the memory held
TaskOrNull == Task \cup {Null}

InitTaskPc == {"init_alloc", "init_fields", "init_enable"}
ForkPc == {"fork_clone", "fork_new", "fork_walk", "fork_context", "fork_enable"}
Pc == {"boot", "run", "child", "eoi", "iret", "user", "wild"} \cup InitTaskPc \cup ForkPc

Struct == [next : TaskOrNull \cup {Uninit},
           eip : {"null", "switch_task", "fork", "uninit"},
           page_directory : Task \cup {Uninit},
           kernel_stack : Task \cup {Uninit}]

\* A block just returned by kmalloc.
Fresh == [next |-> Uninit, eip |-> "uninit",
          page_directory |-> Uninit, kernel_stack |-> Uninit]

Locals == [parent_task : TaskOrNull, new_task : TaskOrNull, tmp_task : TaskOrNull]
NoLocals == [parent_task |-> Null, new_task |-> Null, tmp_task |-> Null]

TypeOK ==
    /\ current_task \in TaskOrNull
    /\ ready_queue \in TaskOrNull
    /\ next_pid \in 1..(MaxTasks + 1)
    /\ task \in [Task -> Struct]
    /\ current_directory \in Task
    /\ tss_esp0 \in TaskOrNull \cup {Uninit}
    /\ pit_counter \in 0..(PIT_WRAP - 1)
    /\ pc \in Pc
    /\ interrupts \in BOOLEAN
    /\ inService \in BOOLEAN
    /\ frames \in [Task -> Seq(Pc)]
    /\ local \in [Task -> Locals]

\* After modules_init has set the timer going (kernel.c:98), before task_init.
Init ==
    /\ current_task = Null
    /\ ready_queue = Null
    /\ next_pid = 1
    /\ task = [t \in Task |-> Fresh]
    /\ current_directory = 1
    /\ tss_esp0 = Null
    /\ pit_counter = 0
    /\ pc = "boot"
    /\ interrupts = TRUE
    /\ inService = FALSE
    /\ frames = [t \in Task |-> <<>>]
    /\ local = [t \in Task |-> NoLocals]

(***************************************************************************)
(* task_init                                                                *)
(***************************************************************************)
InitDisableForgotten ==        \* mutant: no mach_interrupts_disable
    /\ pc = "boot"
    /\ pc' = "init_alloc"
    /\ UNCHANGED <<schedVars, spaceVars, irqVars, interrupts, frames, local>>

InitDisable ==
    /\ pc = "boot"
    /\ interrupts' = FALSE
    /\ pc' = "init_alloc"
    /\ UNCHANGED <<schedVars, spaceVars, irqVars, frames, local>>

InitAlloc ==
    /\ pc = "init_alloc"
    /\ current_task' = next_pid
    /\ pc' = "init_fields"
    /\ UNCHANGED <<ready_queue, next_pid, task, spaceVars, irqVars, interrupts, frames, local>>

InitFields ==
    /\ pc = "init_fields"
    /\ task' = [task EXCEPT ![current_task] =
                    [next |-> Null, eip |-> "null",
                     page_directory |-> current_directory, kernel_stack |-> next_pid]]
    /\ ready_queue' = current_task
    /\ next_pid' = next_pid + 1
    /\ pc' = "init_enable"
    /\ UNCHANGED <<current_task, spaceVars, irqVars, interrupts, frames, local>>

InitEnable ==
    /\ pc = "init_enable"
    /\ interrupts' = TRUE
    /\ pc' = "run"
    /\ UNCHANGED <<schedVars, spaceVars, irqVars, frames, local>>

(***************************************************************************)
(* The timer interrupt, up to the jump that ends switch_task: its gate      *)
(* turns interrupts off, so nothing falls between these statements.         *)
(***************************************************************************)
TickedWide == pit_counter + 1              \* mutant: a counter that never wraps

Ticked == (pit_counter + 1) % PIT_WRAP

SwitchSkipsOne ==                          \* mutant: steps to the next before it tests
    LET next == task[current_task].next
    IN  IF next # Null /\ task[next].next # Null THEN task[next].next ELSE ready_queue

SwitchTarget ==
    IF task[current_task].next # Null THEN task[current_task].next ELSE ready_queue

\* Where a task resumes: behind the read_eip call its saved eip was taken from.
ResumeAt(eip) ==
    CASE eip = "switch_task" -> "eoi"
      [] eip = "fork"        -> "child"
      [] OTHER               -> "wild"

switchKeepsDirectory ==                    \* mutant: current_directory not updated
    /\ task' = [task EXCEPT ![current_task].eip = "switch_task"]
    /\ current_task' = SwitchTarget
    /\ tss_esp0' = task'[current_task'].kernel_stack
    /\ interrupts' = TRUE
    /\ pc' = ResumeAt(task'[current_task'].eip)
    /\ UNCHANGED <<ready_queue, next_pid, current_directory>>

switch_task ==
    /\ task' = [task EXCEPT ![current_task].eip = "switch_task"]
    /\ current_task' = SwitchTarget
    /\ current_directory' = task'[current_task'].page_directory
    /\ tss_esp0' = task'[current_task'].kernel_stack
    /\ interrupts' = TRUE
    /\ pc' = ResumeAt(task'[current_task'].eip)
    /\ UNCHANGED <<ready_queue, next_pid>>

\* With no task yet, or into one whose struct is still unset, there is no switch.
NoSwitch ==
    /\ interrupts' = FALSE
    /\ pc' = IF current_task = Null THEN "eoi" ELSE "wild"
    /\ UNCHANGED <<schedVars, spaceVars>>

TimerInterrupt ==
    /\ interrupts
    /\ ~inService
    /\ Len(frames[current_directory]) < MaxNest
    /\ frames' = [frames EXCEPT ![current_directory] = Append(@, pc)]
    /\ inService' = TRUE
    /\ pit_counter' = Ticked
    /\ IF current_task # Null /\ SwitchTarget \in Task THEN switch_task ELSE NoSwitch
    /\ UNCHANGED local

\* irq_handler writes its end-of-interrupt only when the handler has returned.
EndOfInterrupt ==
    /\ pc = "eoi"
    /\ inService' = FALSE
    /\ pc' = "iret"
    /\ UNCHANGED <<schedVars, spaceVars, pit_counter, interrupts, frames, local>>

Front(s) == SubSeq(s, 1, Len(s) - 1)

Iret ==
    /\ pc = "iret"
    /\ frames[current_directory] # <<>>
    /\ pc' = frames[current_directory][Len(frames[current_directory])]
    /\ frames' = [frames EXCEPT ![current_directory] = Front(@)]
    /\ interrupts' = TRUE
    /\ UNCHANGED <<schedVars, spaceVars, irqVars, local>>

(***************************************************************************)
(* fork, called by the running task.                                        *)
(***************************************************************************)
ForkBeginInterruptible ==                  \* mutant: no cpu_interrupts_off
    /\ pc = "run"
    /\ next_pid \in Task
    /\ local' = [local EXCEPT ![current_directory].parent_task = current_task]
    /\ pc' = "fork_clone"
    /\ UNCHANGED <<schedVars, spaceVars, irqVars, interrupts, frames>>

ForkBegin ==
    /\ pc = "run"
    /\ next_pid \in Task
    /\ interrupts' = FALSE
    /\ local' = [local EXCEPT ![current_directory].parent_task = current_task]
    /\ pc' = "fork_clone"
    /\ UNCHANGED <<schedVars, spaceVars, irqVars, frames>>

\* clone_directory copies the stack, with fork's locals as they are now.
ForkClone ==
    /\ pc = "fork_clone"
    /\ frames' = [frames EXCEPT ![next_pid] = frames[current_directory]]
    /\ local' = [local EXCEPT ![next_pid] = local[current_directory]]
    /\ pc' = "fork_new"
    /\ UNCHANGED <<schedVars, spaceVars, irqVars, interrupts>>

\* A struct as fork fills it in, followed by nxt.
Forked(nxt) == [next |-> nxt, eip |-> "null",
                page_directory |-> next_pid, kernel_stack |-> Uninit]

ChildStructRing == Forked(ready_queue)     \* mutant: a ready list that is a ring

ChildStruct == Forked(Null)

\* The new kernel stack goes to current_task, the caller (task.c:197).
ForkNewTask ==
    /\ pc = "fork_new"
    /\ task' = [task EXCEPT ![next_pid] = ChildStruct,
                            ![current_task].kernel_stack = next_pid]
    /\ local' = [local EXCEPT ![current_directory].new_task = next_pid,
                              ![current_directory].tmp_task = ready_queue]
    /\ next_pid' = next_pid + 1
    /\ pc' = "fork_walk"
    /\ UNCHANGED <<current_task, ready_queue, spaceVars, irqVars, interrupts, frames>>

ForkWalk ==
    LET tmp == local[current_directory].tmp_task IN
    /\ pc = "fork_walk"
    /\ task[tmp].next # Null
    /\ local' = [local EXCEPT ![current_directory].tmp_task = task[tmp].next]
    /\ UNCHANGED <<schedVars, spaceVars, irqVars, pc, interrupts, frames>>

ForkLinkAtHead ==                          \* mutant: linked behind the first task
    LET tmp == local[current_directory].tmp_task IN
    /\ pc = "fork_walk"
    /\ task[tmp].next = Null
    /\ task' = [task EXCEPT ![ready_queue].next = local[current_directory].new_task]
    /\ pc' = "fork_context"
    /\ UNCHANGED <<current_task, ready_queue, next_pid, spaceVars, irqVars,
                   interrupts, frames, local>>

ForkLink ==
    LET tmp == local[current_directory].tmp_task IN
    /\ pc = "fork_walk"
    /\ task[tmp].next = Null
    /\ task' = [task EXCEPT ![tmp].next = local[current_directory].new_task]
    /\ pc' = "fork_context"
    /\ UNCHANGED <<current_task, ready_queue, next_pid, spaceVars, irqVars,
                   interrupts, frames, local>>

ForkContext ==
    /\ pc = "fork_context"
    /\ current_task = local[current_directory].parent_task
    /\ task' = [task EXCEPT ![local[current_directory].new_task].eip = "fork"]
    /\ pc' = "fork_enable"
    /\ UNCHANGED <<current_task, ready_queue, next_pid, spaceVars, irqVars,
                   interrupts, frames, local>>

ForkEnable ==
    /\ pc = "fork_enable"
    /\ interrupts' = TRUE
    /\ pc' = "run"
    /\ UNCHANGED <<schedVars, spaceVars, irqVars, frames, local>>

\* The child comes out of read_eip with its own stack's parent_task.
ForkChild ==
    /\ pc = "child"
    /\ current_task # local[current_directory].parent_task
    /\ pc' = "run"
    /\ UNCHANGED <<schedVars, spaceVars, irqVars, interrupts, frames, local>>

fork == \/ ForkBegin \/ ForkClone \/ ForkNewTask \/ ForkWalk \/ ForkLink
        \/ ForkContext \/ ForkEnable \/ ForkChild

\* Its pushf comes after its cli, so ring 3 starts with interrupts off.
switch_to_user_mode ==
    /\ pc = "run"
    /\ tss_esp0' = task[current_task].kernel_stack
    /\ interrupts' = FALSE
    /\ pc' = "user"
    /\ UNCHANGED <<schedVars, current_directory, irqVars, frames, local>>

task_init == InitDisable \/ InitAlloc \/ InitFields \/ InitEnable

Code == task_init \/ EndOfInterrupt \/ Iret \/ fork

Next == TimerInterrupt \/ Code \/ switch_to_user_mode

\* The processor executes, and the PIT keeps ticking; nobody has to fork.
Fairness ==
    /\ WF_vars(TimerInterrupt)
    /\ WF_vars(task_init \/ EndOfInterrupt \/ Iret)
    /\ WF_vars(ForkClone \/ ForkNewTask \/ ForkWalk \/ ForkLink
                 \/ ForkContext \/ ForkEnable \/ ForkChild)

Spec == Init /\ [][Next]_vars /\ Fairness

(***************************************************************************)
(* Properties.                                                              *)
(***************************************************************************)

\* Pids of the tasks on the ready list: a task fork has created but not yet
\* linked is not among them.
LastLinked ==
    CASE pc \in {"init_alloc", "init_fields"} -> 0
      [] pc = "fork_walk"                     -> next_pid - 2
      [] OTHER                                -> next_pid - 1

Linked == 1..LastLinked

\* fork's walk and link leave one chain from ready_queue that passes every
\* linked task once, in order of creation, and ends: no task is lost, none is
\* met twice, and the running task is on it.
ReadyListWhole ==
    Linked # {} =>
        /\ ready_queue = 1
        /\ current_task \in Linked
        /\ \A t \in Linked : task[t].next = IF t = LastLinked THEN Null ELSE t + 1

Parked == Linked \ {current_task}

\* Whenever a timer interrupt could come, every task the scheduler may switch
\* to has a saved context, and it fits that task's own stack: a task preempted
\* by an interrupt returns through a frame it still has, a new one starts
\* outside any interrupt.
ParkedTasksResumable ==
    interrupts =>
        \A t \in Parked :
            CASE task[t].eip = "switch_task" -> frames[task[t].page_directory] # <<>>
              [] task[t].eip = "fork"        -> frames[task[t].page_directory] = <<>>
              [] OTHER                       -> FALSE

\* The processor is never sent through an unset context, and code outside an
\* interrupt runs on a stack with every interrupt frame removed.
ReturnsAreMatched ==
    /\ pc # "wild"
    /\ pc \in {"eoi", "iret"} <=> frames[current_directory] # <<>>

\* The memory manager's directory is the running task's.
DirectoryFollowsTask ==
    Linked # {} => current_directory = task[current_task].page_directory

\* The chain from ready_queue, as a sequence: what is there before a null.
Chain ==
    LET At[i \in Task] ==
            IF i = 1 THEN ready_queue
            ELSE IF At[i - 1] \in Task THEN task[At[i - 1]].next ELSE Null
    IN  [i \in {j \in Task : At[j] \in Task} |-> At[i]]

Turn == IF Chain = <<>> THEN 0
        ELSE CHOOSE i \in DOMAIN Chain : Chain[i] = current_task

Turns == INSTANCE RoundRobin WITH order <- Chain, turn <- Turn

\* Switching is round robin: each switch goes to the next task in order of
\* creation, whatever forks come between.
SchedulesRoundRobin == Turns!RRSpec

\* A fork returns to its caller: its walk over the ready list ends.
ForkCompletes == (pc \in ForkPc) ~> (pc = "run")

\* task.c:147: after the last task the list starts again at the beginning, so
\* every task on it runs again, unless one went to ring 3 with interrupts off.
EveryTaskRunsAgain ==
    \A t \in Task :
        [](t \in Linked => <>(current_task = t \/ pc = "user"))
=============================================================================
