---------------------------- MODULE TasksProofs ----------------------------
(***************************************************************************)
(* The scheduler, for any number of tasks, any nesting of interrupts and    *)
(* any width of the tick counter.  The invariant below adds to the checked  *)
(* properties what makes them inductive: which code runs with interrupts    *)
(* off, what every saved frame returns to, and what fork has done so far.   *)
(***************************************************************************)
EXTENDS Tasks, WellFoundedInduction, SequenceTheorems, TLAPS

\* Before task_init has built the first task.
Booting == next_pid = 1

\* Interrupts are off in task_init and fork, and a frame's owner is in an interrupt.
FlagInv ==
    /\ pc \in InitTaskPc \cup ForkPc \cup {"user"} => ~interrupts
    /\ pc = "eoi" => inService
    /\ Booting /\ pc \in {"eoi", "iret"} => ~interrupts

\* Until the first task exists there is no current task and only the boot stack.
PhaseInv ==
    /\ pc \in {"boot", "init_alloc", "init_fields"} => Booting
    /\ Booting =>
         /\ pc \in {"boot", "init_alloc", "init_fields", "eoi", "iret"}
         /\ current_task = IF pc = "init_fields" THEN 1 ELSE Null
         /\ current_directory = 1
    /\ ~Booting => /\ current_task \in 1..(next_pid - 1)
                   /\ current_directory = current_task

\* An interrupt was taken from ordinary code or inside an earlier interrupt's return.
FramesInv ==
    /\ \A d \in Task : \A i \in 1..Len(frames[d]) :
           frames[d][i] \in IF i > 1 THEN {"iret"}
                            ELSE IF Booting THEN {"boot"} ELSE {"run", "child"}
    /\ \A d \in Task : d >= next_pid /\ d # current_directory => frames[d] = <<>>
    /\ Booting => \A d \in Task : Len(frames[d]) <= 1

\* The task fork is creating, once it has a struct and until its eip is set.
Unset(t) == pc \in {"fork_walk", "fork_context"} /\ t = next_pid - 1

StructsInv ==
    \A t \in 1..(next_pid - 1) :
        /\ task[t].page_directory = t
        /\ t # current_task =>
             IF Unset(t) THEN frames[t] = <<>>
             ELSE \/ task[t].eip = "switch_task" /\ frames[t] # <<>>
                  \/ task[t].eip = "fork" /\ frames[t] = <<>>

ForkInv ==
    LET me == local[current_directory] IN
    /\ pc \in ForkPc => me.parent_task = current_task
    /\ pc \in {"fork_clone", "fork_new"} => next_pid \in Task
    /\ pc \in {"fork_walk", "fork_context"} =>
         me.new_task = next_pid - 1 /\ current_task < next_pid - 1
    /\ pc = "fork_walk" => me.tmp_task \in 1..(next_pid - 2)

\* The chain of task structs; a struct fork has not linked yet ends no chain.
ChainInv ==
    ~Booting =>
        /\ ready_queue = 1
        /\ \A t \in 1..(next_pid - 1) :
             task[t].next = IF t = next_pid - 1 \/ (pc = "fork_walk" /\ t = next_pid - 2)
                            THEN Null ELSE t + 1

IInv ==
    /\ TypeOK
    /\ FlagInv
    /\ PhaseInv
    /\ ReturnsAreMatched
    /\ FramesInv
    /\ StructsInv
    /\ ForkInv
    /\ ChainInv

\* Returning from an interrupt drops one frame and leaves the others alone.
LEMMA FrontDrops ==
    ASSUME NEW S, NEW s \in Seq(S), s # <<>>
    PROVE  /\ Len(s) \in Nat \ {0}
           /\ s[Len(s)] \in S
           /\ Front(s) \in Seq(S)
           /\ Len(Front(s)) = Len(s) - 1
           /\ \A i \in 1..(Len(s) - 1) : Front(s)[i] = s[i]
           /\ Front(s) = <<>> <=> Len(s) = 1
<1>1. Len(s) \in Nat \ {0}
  BY EmptySeq
<1>2. \A i \in 1..(Len(s) - 1) : s[i] \in S
  BY <1>1, ElementOfSeq
<1>3. /\ Front(s) \in Seq(S)
      /\ Len(Front(s)) = Len(s) - 1
      /\ \A i \in 1..(Len(s) - 1) : Front(s)[i] = s[i]
  <2> DEFINE n == Len(s) - 1
             f == SubSeq(s, 1, n)
  <2>1. n \in Nat /\ 1 \in Int /\ n - 1 + 1 = n
    BY <1>1
  <2>2. /\ f \in Seq(S)
        /\ Len(f) = IF 1 <= n THEN n - 1 + 1 ELSE 0
        /\ \A i \in 1..(n - 1 + 1) : f[i] = s[1 + i - 1]
    <3> HIDE DEF n
    <3> QED
      BY <1>2, <2>1, SubSeqProperties DEF n
  <2>3. Len(f) = n
    <3> HIDE DEF f, n
    <3> QED
      BY <2>1, <2>2
  <2>4. ASSUME NEW i \in 1..n
        PROVE  f[i] = s[i]
    <3>1. 1 + i - 1 = i
      OBVIOUS
    <3>2. f[i] = s[1 + i - 1]
      BY <2>1, <2>2
    <3> QED
      BY <3>1, <3>2
  <2> QED
    BY <2>2, <2>3, <2>4 DEF Front
<1>4. Front(s) = <<>> <=> Len(s) = 1
  BY <1>1, <1>3, EmptySeq
<1>5. s[Len(s)] \in S
  BY <1>1, ElementOfSeq
<1> QED
  BY <1>1, <1>3, <1>4, <1>5

\* The invariant holds when the timer has been set going.
LEMMA InitEstablishesIInv == Init => IInv
<1> SUFFICES ASSUME Init PROVE IInv
  OBVIOUS
<1> USE DEF Init
<1>1. 1 \in Task /\ MaxTasks + 1 \in Nat
  BY MaxTasksAssumption DEF Task
<1>2. <<>> \in Seq(Pc) /\ Len(<<>>) = 0
  BY EmptySeq
<1>3. TypeOK
  <2>1. Fresh \in Struct
    BY DEF Fresh, Struct, TaskOrNull, Uninit
  <2>2. NoLocals \in Locals
    BY DEF NoLocals, Locals, TaskOrNull
  <2>3. pit_counter \in 0..(PIT_WRAP - 1)
    BY PitWrapAssumption
  <2>4. frames \in [Task -> Seq(Pc)] /\ local \in [Task -> Locals]
    BY <1>2, <2>2
  <2>5. task \in [Task -> Struct]
    BY <2>1
  <2>6. next_pid \in 1..(MaxTasks + 1)
    BY MaxTasksAssumption
  <2> QED
    BY <1>1, <2>3, <2>4, <2>5, <2>6 DEF TypeOK, TaskOrNull, Pc
<1>4. FlagInv
  BY DEF FlagInv, InitTaskPc, ForkPc, Booting
<1>5. PhaseInv
  BY DEF PhaseInv, Booting
<1>6. ReturnsAreMatched
  BY <1>1 DEF ReturnsAreMatched
<1>7. FramesInv
  BY <1>2 DEF FramesInv
<1>8. StructsInv
  BY DEF StructsInv
<1>9. ForkInv
  BY DEF ForkInv, ForkPc
<1>10. ChainInv
  BY DEF ChainInv, Booting
<1> QED
  BY <1>3, <1>4, <1>5, <1>6, <1>7, <1>8, <1>9, <1>10 DEF IInv

\* task_init builds the first task with interrupts off.
LEMMA TaskInitPreservesIInv == IInv /\ task_init => IInv'
<1> SUFFICES ASSUME IInv, task_init PROVE IInv'
  OBVIOUS
<1> USE DEF IInv, Booting
<1>1. CASE InitDisable
  <2> USE <1>1 DEF InitDisable, schedVars, spaceVars, irqVars
  <2>1. TypeOK'
    BY DEF TypeOK, Pc, InitTaskPc
  <2>2. FlagInv' /\ PhaseInv'
    BY DEF FlagInv, PhaseInv
  <2>3. ReturnsAreMatched' /\ FramesInv' /\ StructsInv'
    BY DEF ReturnsAreMatched, FramesInv, StructsInv, PhaseInv
  <2>4. ForkInv' /\ ChainInv'
    BY DEF ForkInv, ForkPc, ChainInv, PhaseInv
  <2> QED
    BY <2>1, <2>2, <2>3, <2>4
<1>2. CASE InitAlloc
  <2> USE <1>2 DEF InitAlloc, spaceVars, irqVars
  <2>1. TypeOK'
    BY MaxTasksAssumption DEF TypeOK, Pc, InitTaskPc, PhaseInv, TaskOrNull, Task
  <2>2. FlagInv' /\ PhaseInv'
    BY DEF FlagInv, PhaseInv, InitTaskPc
  <2>3. ReturnsAreMatched' /\ FramesInv' /\ StructsInv'
    BY DEF ReturnsAreMatched, FramesInv, StructsInv, PhaseInv
  <2>4. ForkInv' /\ ChainInv'
    BY DEF ForkInv, ForkPc, ChainInv, PhaseInv
  <2> QED
    BY <2>1, <2>2, <2>3, <2>4
<1>3. CASE InitFields
  <2> USE <1>3 DEF InitFields, spaceVars, irqVars
  <2>1. /\ next_pid = 1 /\ current_task = 1 /\ current_directory = 1
        /\ 1 \in Task /\ next_pid' = 2
    BY MaxTasksAssumption DEF PhaseInv, Task
  <2>2. TypeOK'
    <3>1. [next |-> Null, eip |-> "null", page_directory |-> 1, kernel_stack |-> 1] \in Struct
      BY <2>1 DEF Struct, TaskOrNull
    <3> QED
      BY <2>1, <3>1, MaxTasksAssumption DEF TypeOK, Pc, InitTaskPc, TaskOrNull, Task
  <2>3. FlagInv' /\ PhaseInv'
    BY <2>1 DEF FlagInv, PhaseInv, InitTaskPc
  <2>4. \A d \in Task : frames[d] = <<>>
    BY <2>1 DEF ReturnsAreMatched, FramesInv, Task
  <2>5. ReturnsAreMatched' /\ FramesInv'
    BY <2>1, <2>4, EmptySeq DEF ReturnsAreMatched, FramesInv
  <2>6. task'[1].page_directory = 1 /\ task'[1].next = Null
    BY <2>1 DEF TypeOK
  <2>7. StructsInv' /\ ChainInv'
    BY <2>1, <2>6 DEF StructsInv, ChainInv
  <2>8. ForkInv'
    BY DEF ForkInv, ForkPc
  <2> QED
    BY <2>2, <2>3, <2>5, <2>7, <2>8
<1>4. CASE InitEnable
  <2> USE <1>4 DEF InitEnable, schedVars, spaceVars, irqVars
  <2>1. TypeOK'
    BY DEF TypeOK, Pc
  <2>2. FlagInv' /\ PhaseInv'
    BY DEF FlagInv, PhaseInv, InitTaskPc, ForkPc
  <2>3. ReturnsAreMatched' /\ FramesInv'
    BY DEF ReturnsAreMatched, FramesInv
  <2>4. StructsInv' /\ ForkInv' /\ ChainInv'
    BY DEF StructsInv, Unset, ForkInv, ForkPc, ChainInv
  <2> QED
    BY <2>1, <2>2, <2>3, <2>4
<1> QED
  BY <1>1, <1>2, <1>3, <1>4 DEF task_init

\* What the processor can be doing when a timer interrupt comes.
LEMMA InterruptedCode ==
    ASSUME IInv, interrupts, ~inService
    PROVE  /\ pc \in {"boot", "run", "child", "iret"}
           /\ Booting => pc = "boot" /\ current_task = Null /\ frames[1] = <<>>
<1> USE DEF IInv
<1>1. pc \in {"boot", "run", "child", "iret"}
  BY DEF TypeOK, FlagInv, ReturnsAreMatched, Pc
<1> QED
  BY <1>1 DEF FlagInv, PhaseInv, ReturnsAreMatched

\* The scheduler's choice is a task that has been created.
LEMMA TargetCreated ==
    ASSUME IInv, ~Booting, pc \notin ForkPc
    PROVE  /\ current_task \in 1..(next_pid - 1)
           /\ SwitchTarget \in 1..(next_pid - 1)
           /\ 1..(next_pid - 1) \subseteq Task
           /\ next_pid \in Nat
<1> USE DEF IInv
<1>1. next_pid \in 1..(MaxTasks + 1) /\ current_task \in 1..(next_pid - 1)
  BY DEF TypeOK, PhaseInv
<1>2. 1..(next_pid - 1) \subseteq Task /\ next_pid \in Nat
  BY <1>1, MaxTasksAssumption DEF Task
<1>3. pc # "fork_walk"
  BY DEF ForkPc
<1>4. /\ ready_queue = 1
      /\ task[current_task].next = IF current_task = next_pid - 1 THEN Null ELSE current_task + 1
  BY <1>1, <1>3 DEF ChainInv
<1>5. SwitchTarget \in 1..(next_pid - 1)
  BY <1>1, <1>4, MaxTasksAssumption DEF SwitchTarget, Null
<1> QED
  BY <1>1, <1>2, <1>5

\* A timer interrupt parks the running task and resumes the next one where
\* that one's own stack says.
LEMMA TimerPreservesIInv == IInv /\ TimerInterrupt => IInv'
<1> SUFFICES ASSUME IInv, TimerInterrupt PROVE IInv'
  OBVIOUS
<1> USE DEF IInv
<1> DEFINE d == current_directory
           f == Append(frames[d], pc)
<1>1. /\ interrupts /\ ~inService /\ inService' = TRUE /\ local' = local
      /\ frames' = [frames EXCEPT ![d] = f]
      /\ pit_counter' = Ticked
  BY DEF TimerInterrupt
<1>2. /\ pc \in {"boot", "run", "child", "iret"}
      /\ Booting => pc = "boot" /\ current_task = Null /\ frames[1] = <<>>
  BY <1>1, InterruptedCode
<1>3. d \in Task /\ frames[d] \in Seq(Pc) /\ pc \in Pc
  BY DEF TypeOK
<1>4. /\ f \in Seq(Pc) /\ f # <<>> /\ Len(f) = Len(frames[d]) + 1
      /\ \A i \in 1..Len(frames[d]) : f[i] = frames[d][i]
      /\ f[Len(frames[d]) + 1] = pc
      /\ Len(frames[d]) \in Nat
  BY <1>3, AppendProperties, LenProperties
<1>5. pit_counter' \in 0..(PIT_WRAP - 1)
  BY <1>1, PitWrapAssumption DEF TypeOK, Ticked
<1>6. frames' \in [Task -> Seq(Pc)] /\ frames'[d] = f
      /\ \A e \in Task : e # d => frames'[e] = frames[e]
  BY <1>1, <1>3, <1>4 DEF TypeOK
<1>7. CASE Booting
  <2>1. NoSwitch /\ current_task = Null /\ pc = "boot" /\ frames[1] = <<>> /\ d = 1
    BY <1>2, <1>7 DEF TimerInterrupt, PhaseInv
  <2> USE <2>1 DEF NoSwitch, schedVars, spaceVars
  <2>2. TypeOK'
    BY <1>1, <1>5, <1>6 DEF TypeOK, Pc
  <2>3. FlagInv' /\ PhaseInv'
    BY <1>1, <1>7 DEF FlagInv, PhaseInv, InitTaskPc, ForkPc, Booting
  <2>4. ReturnsAreMatched'
    BY <1>4, <1>6 DEF ReturnsAreMatched
  <2>5. Len(f) = 1 /\ f[1] = "boot"
    BY <1>4, EmptySeq
  <2>6. FramesInv'
    <3>1. ASSUME NEW e \in Task, NEW i \in 1..Len(frames'[e])
          PROVE  frames'[e][i] \in IF i > 1 THEN {"iret"}
                                   ELSE IF Booting THEN {"boot"} ELSE {"run", "child"}
      BY <1>6, <1>7, <2>5, <3>1 DEF FramesInv
    <3>2. \A e \in Task : e >= next_pid /\ e # d => frames'[e] = <<>>
      BY <1>6 DEF FramesInv
    <3>3. \A e \in Task : Len(frames'[e]) <= 1
      BY <1>6, <1>7, <2>5 DEF FramesInv
    <3> QED
      BY <3>1, <3>2, <3>3 DEF FramesInv, Booting
  <2>7. StructsInv' /\ ForkInv' /\ ChainInv'
    BY <1>7 DEF StructsInv, ForkInv, ForkPc, ChainInv, Booting
  <2> QED
    BY <2>2, <2>3, <2>4, <2>6, <2>7
<1>8. CASE ~Booting
  <2> DEFINE t == current_task
             n == SwitchTarget
  <2>1. pc \in {"run", "child", "iret"} /\ pc \notin ForkPc
    BY <1>2, <1>8 DEF PhaseInv, ForkPc
  <2>2. /\ t \in 1..(next_pid - 1) /\ n \in 1..(next_pid - 1)
        /\ 1..(next_pid - 1) \subseteq Task /\ next_pid \in Nat
    BY <1>8, <2>1, TargetCreated
  <2>3. t \in Task /\ n \in Task /\ t # Null
    BY <2>2 DEF Null
  <2>4. switch_task
    BY <2>3 DEF TimerInterrupt
  <2>5. /\ task' = [task EXCEPT ![t].eip = "switch_task"]
        /\ current_task' = n
        /\ current_directory' = task'[n].page_directory
        /\ tss_esp0' = task'[n].kernel_stack
        /\ interrupts' = TRUE /\ pc' = ResumeAt(task'[n].eip)
        /\ ready_queue' = ready_queue /\ next_pid' = next_pid
    BY <2>4 DEF switch_task
  <2>6. d = t
    BY <1>8 DEF PhaseInv
  <2>7. /\ task' \in [Task -> Struct]
        /\ task'[t].eip = "switch_task"
        /\ \A u \in Task : /\ task'[u].next = task[u].next
                           /\ task'[u].page_directory = task[u].page_directory
                           /\ task'[u].kernel_stack = task[u].kernel_stack
                           /\ u # t => task'[u] = task[u]
    BY <2>3, <2>5 DEF TypeOK, Struct
  <2>8. \A u \in 1..(next_pid - 1) :
           /\ task[u].page_directory = u
           /\ u # t =>
                \/ task[u].eip = "switch_task" /\ frames[u] # <<>>
                \/ task[u].eip = "fork" /\ frames[u] = <<>>
    BY <2>1 DEF StructsInv, Unset
  <2>9. current_directory' = n
    BY <2>2, <2>3, <2>5, <2>7, <2>8
  <2>10. \/ task'[n].eip = "switch_task" /\ frames'[n] # <<>> /\ pc' = "eoi"
         \/ task'[n].eip = "fork" /\ frames'[n] = <<>> /\ pc' = "child"
    <3>1. CASE n = t
      BY <1>4, <1>6, <2>5, <2>6, <2>7, <3>1 DEF ResumeAt
    <3>2. CASE n # t
      <4>1. task'[n] = task[n] /\ frames'[n] = frames[n]
        BY <1>6, <2>3, <2>6, <2>7, <3>2
      <4> QED
        BY <2>2, <2>5, <2>8, <3>2, <4>1 DEF ResumeAt
    <3> QED
      BY <3>1, <3>2
  <2>11. TypeOK'
    <3>1. task'[n] \in Struct
      BY <2>3, <2>7
    <3>2. tss_esp0' \in TaskOrNull \cup {Uninit}
      BY <2>5, <3>1 DEF Struct, TaskOrNull
    <3> QED
      BY <1>1, <1>5, <1>6, <2>3, <2>5, <2>7, <2>9, <2>10, <3>2 DEF TypeOK, Pc, TaskOrNull
  <2>12. FlagInv' /\ PhaseInv'
    BY <1>1, <1>8, <2>2, <2>5, <2>9, <2>10
    DEF FlagInv, PhaseInv, InitTaskPc, ForkPc, Booting
  <2>13. ReturnsAreMatched'
    BY <2>9, <2>10 DEF ReturnsAreMatched
  <2>14. FramesInv'
    <3>1. ASSUME NEW e \in Task, NEW i \in 1..Len(frames'[e])
          PROVE  frames'[e][i] \in IF i > 1 THEN {"iret"} ELSE {"run", "child"}
      <4>1. CASE e # d
        BY <1>6, <1>8, <3>1, <4>1 DEF FramesInv
      <4>2. CASE e = d /\ i \in 1..Len(frames[d])
        BY <1>3, <1>4, <1>6, <1>8, <4>2 DEF FramesInv
      <4>3. CASE e = d /\ i = Len(frames[d]) + 1
        <5>1. frames'[e][i] = pc
          BY <1>4, <1>6, <4>3
        <5>2. Len(frames[d]) = 0 => pc \in {"run", "child"}
          BY <1>3, <2>1, EmptySeq DEF ReturnsAreMatched
        <5>3. Len(frames[d]) > 0 => pc = "iret"
          BY <1>3, <2>1, EmptySeq DEF ReturnsAreMatched
        <5> QED
          BY <1>4, <4>3, <5>1, <5>2, <5>3
      <4> QED
        BY <1>4, <1>6, <4>1, <4>2, <4>3
    <3>2. \A e \in Task : e >= next_pid => frames'[e] = <<>>
      <4> SUFFICES ASSUME NEW e \in Task, e >= next_pid PROVE frames'[e] = <<>>
        OBVIOUS
      <4>1. e # t
        BY <2>2 DEF Task
      <4> QED
        BY <1>6, <2>6, <4>1 DEF FramesInv
    <3> QED
      BY <1>8, <2>5, <3>1, <3>2 DEF FramesInv, Booting
  <2>15. StructsInv'
    <3>1. ASSUME NEW u \in 1..(next_pid - 1)
          PROVE  /\ task'[u].page_directory = u
                 /\ u # n =>
                      \/ task'[u].eip = "switch_task" /\ frames'[u] # <<>>
                      \/ task'[u].eip = "fork" /\ frames'[u] = <<>>
      <4>1. CASE u = t
        BY <1>4, <1>6, <2>3, <2>6, <2>7, <2>8, <3>1, <4>1
      <4>2. CASE u # t
        BY <1>6, <2>2, <2>6, <2>7, <2>8, <3>1, <4>2
      <4> QED
        BY <4>1, <4>2
    <3>2. pc' \notin {"fork_walk", "fork_context"}
      BY <2>10
    <3> QED
      BY <2>5, <3>1, <3>2 DEF StructsInv, Unset
  <2>16. ForkInv'
    BY <2>10 DEF ForkInv, ForkPc
  <2>17. ChainInv'
    <3>1. \A u \in 1..(next_pid - 1) :
             task'[u].next = IF u = next_pid - 1 THEN Null ELSE u + 1
      BY <1>8, <2>1, <2>2, <2>7 DEF ChainInv, ForkPc
    <3>2. ready_queue' = 1
      BY <1>8, <2>5 DEF ChainInv
    <3> QED
      BY <2>5, <2>10, <3>1, <3>2 DEF ChainInv
  <2> QED
    BY <2>11, <2>12, <2>13, <2>14, <2>15, <2>16, <2>17
<1> QED
  BY <1>7, <1>8

\* Acknowledging the interrupt changes nothing a task owns.
LEMMA EndOfInterruptPreservesIInv == IInv /\ EndOfInterrupt => IInv'
<1> SUFFICES ASSUME IInv, EndOfInterrupt PROVE IInv'
  OBVIOUS
<1> USE DEF IInv, EndOfInterrupt, schedVars, spaceVars
<1>1. TypeOK'
  BY DEF TypeOK, Pc
<1>2. FlagInv' /\ PhaseInv'
  BY DEF FlagInv, PhaseInv, InitTaskPc, ForkPc, Booting
<1>3. ReturnsAreMatched' /\ FramesInv'
  BY DEF ReturnsAreMatched, FramesInv, Booting
<1>4. StructsInv' /\ ForkInv' /\ ChainInv'
  BY DEF StructsInv, Unset, ForkInv, ForkPc, ChainInv, Booting
<1> QED
  BY <1>1, <1>2, <1>3, <1>4

\* iret goes back to the innermost place interrupted.
LEMMA IretPreservesIInv == IInv /\ Iret => IInv'
<1> SUFFICES ASSUME IInv, Iret PROVE IInv'
  OBVIOUS
<1> USE DEF IInv, schedVars, spaceVars, irqVars
<1> DEFINE d == current_directory
           n == Len(frames[d])
<1>1. /\ pc = "iret" /\ frames[d] # <<>> /\ pc' = frames[d][n]
      /\ frames' = [frames EXCEPT ![d] = Front(frames[d])]
      /\ interrupts' = TRUE
      /\ UNCHANGED <<schedVars, spaceVars, irqVars, local>>
  BY DEF Iret
<1>2. d \in Task /\ frames[d] \in Seq(Pc)
  BY DEF TypeOK
<1>3. /\ n \in Nat \ {0} /\ pc' \in Pc
      /\ Front(frames[d]) \in Seq(Pc)
      /\ Len(Front(frames[d])) = n - 1
      /\ \A i \in 1..(n - 1) : Front(frames[d])[i] = frames[d][i]
      /\ Front(frames[d]) = <<>> <=> n = 1
  BY <1>1, <1>2, FrontDrops
<1>4. /\ frames' \in [Task -> Seq(Pc)] /\ frames'[d] = Front(frames[d])
      /\ \A e \in Task : e # d => frames'[e] = frames[e]
  BY <1>1, <1>2, <1>3 DEF TypeOK
<1>5. /\ n = 1 => pc' \in IF Booting THEN {"boot"} ELSE {"run", "child"}
      /\ n > 1 => pc' = "iret" /\ ~Booting
  BY <1>1, <1>2, <1>3 DEF FramesInv
<1>6. TypeOK'
  BY <1>1, <1>3, <1>4 DEF TypeOK
<1>7. FlagInv' /\ PhaseInv'
  BY <1>1, <1>3, <1>5 DEF FlagInv, PhaseInv, InitTaskPc, ForkPc, Booting
<1>8. ReturnsAreMatched'
  BY <1>1, <1>3, <1>4, <1>5 DEF ReturnsAreMatched
<1>9. FramesInv'
  <2>1. ASSUME NEW e \in Task, NEW i \in 1..Len(frames'[e])
        PROVE  frames'[e][i] \in IF i > 1 THEN {"iret"}
                                 ELSE IF Booting THEN {"boot"} ELSE {"run", "child"}
    BY <1>3, <1>4 DEF FramesInv
  <2>2. \A e \in Task : e >= next_pid /\ e # d => frames'[e] = <<>>
    BY <1>4 DEF FramesInv
  <2>3. Booting => \A e \in Task : Len(frames'[e]) <= 1
    BY <1>3, <1>4 DEF FramesInv
  <2> QED
    BY <1>1, <2>1, <2>2, <2>3 DEF FramesInv, Booting
<1>10. StructsInv'
  <2>1. ASSUME NEW t \in 1..(next_pid - 1), t # current_task
        PROVE  t # d \/ Booting
    BY <2>1 DEF PhaseInv
  <2>2. \A t \in 1..(next_pid - 1) : t \in Task
    BY MaxTasksAssumption DEF TypeOK, Task
  <2>3. Booting => 1..(next_pid - 1) = {}
    BY DEF Booting
  <2>4. pc' \notin {"fork_walk", "fork_context"}
    BY <1>3, <1>5
  <2> QED
    BY <1>1, <1>4, <2>1, <2>2, <2>3, <2>4 DEF StructsInv, Unset
<1>11. ForkInv' /\ ChainInv'
  BY <1>1, <1>3, <1>5 DEF ForkInv, ForkPc, ChainInv, Booting
<1> QED
  BY <1>6, <1>7, <1>8, <1>9, <1>10, <1>11

\* Entering ring 3 leaves no interrupt frame behind and turns interrupts off.
LEMMA UserModePreservesIInv == IInv /\ switch_to_user_mode => IInv'
<1> SUFFICES ASSUME IInv, switch_to_user_mode PROVE IInv'
  OBVIOUS
<1> USE DEF IInv, switch_to_user_mode, schedVars, irqVars
<1>1. ~Booting /\ current_task \in 1..(next_pid - 1) /\ 1..(next_pid - 1) \subseteq Task
  <2>1. ~Booting
    BY DEF PhaseInv
  <2> QED
    BY <2>1, TargetCreated DEF ForkPc
<1>2. tss_esp0' \in TaskOrNull \cup {Uninit}
  BY <1>1 DEF TypeOK, Struct, TaskOrNull
<1>3. TypeOK'
  BY <1>2 DEF TypeOK, Pc
<1>4. FlagInv' /\ PhaseInv'
  BY <1>1 DEF FlagInv, PhaseInv, InitTaskPc, ForkPc, Booting
<1>5. ReturnsAreMatched' /\ FramesInv'
  BY DEF ReturnsAreMatched, FramesInv, Booting
<1>6. StructsInv' /\ ForkInv' /\ ChainInv'
  BY DEF StructsInv, Unset, ForkInv, ForkPc, ChainInv, Booting
<1> QED
  BY <1>3, <1>4, <1>5, <1>6

\* While a task is in fork, it runs on its own stack, outside any interrupt,
\* with interrupts off.
LEMMA InFork ==
    ASSUME IInv, pc \in ForkPc \cup {"run", "child"}
    PROVE  /\ ~Booting
           /\ current_directory = current_task
           /\ current_task \in 1..(next_pid - 1)
           /\ 1..(next_pid - 1) \subseteq Task
           /\ next_pid \in Nat /\ next_pid <= MaxTasks + 1
           /\ frames[current_task] = <<>>
           /\ local[current_directory] \in Locals
<1> USE DEF IInv
<1>1. ~Booting
  BY DEF PhaseInv, ForkPc
<1>2. frames[current_directory] = <<>>
  BY DEF ReturnsAreMatched, ForkPc
<1>3. next_pid \in Nat /\ next_pid <= MaxTasks + 1
  BY MaxTasksAssumption DEF TypeOK
<1>4. current_directory = current_task /\ current_task \in 1..(next_pid - 1)
  BY <1>1 DEF PhaseInv
<1>5. 1..(next_pid - 1) \subseteq Task
  BY <1>3, MaxTasksAssumption DEF Task
<1>6. local[current_directory] \in Locals
  BY DEF TypeOK
<1> QED
  BY <1>1, <1>2, <1>3, <1>4, <1>5, <1>6

\* fork creates the child and links it at the end of the chain before any
\* interrupt can see it.
LEMMA ForkPreservesIInv == IInv /\ fork => IInv'
<1> SUFFICES ASSUME IInv, fork PROVE IInv'
  OBVIOUS
<1> USE DEF IInv
<1> DEFINE d == current_directory
<1>1. CASE ForkBegin
  <2> USE <1>1 DEF ForkBegin, schedVars, spaceVars, irqVars
  <2>1. ~Booting /\ d = current_task /\ d \in Task /\ local[d] \in Locals
    BY InFork
  <2>2. /\ local' \in [Task -> Locals]
        /\ local'[d].parent_task = current_task
    BY <2>1 DEF TypeOK, Locals, TaskOrNull
  <2>3. TypeOK'
    BY <2>2 DEF TypeOK, Pc, ForkPc
  <2>4. FlagInv' /\ PhaseInv'
    BY <2>1 DEF FlagInv, PhaseInv, Booting
  <2>5. ReturnsAreMatched' /\ FramesInv'
    BY DEF ReturnsAreMatched, FramesInv, Booting
  <2>6. StructsInv' /\ ForkInv' /\ ChainInv'
    BY <2>2 DEF StructsInv, Unset, ForkInv, ForkPc, ChainInv, Booting
  <2> QED
    BY <2>3, <2>4, <2>5, <2>6
<1>2. CASE ForkClone
  <2> USE <1>2 DEF ForkClone, schedVars, spaceVars, irqVars
  <2>1. /\ ~Booting /\ d = current_task /\ d \in Task /\ local[d] \in Locals
        /\ frames[d] = <<>> /\ next_pid \in Task /\ next_pid # d
        /\ frames[next_pid] = <<>>
    <3>1. /\ ~Booting /\ d = current_task /\ d \in Task /\ local[d] \in Locals
          /\ frames[d] = <<>> /\ d \in 1..(next_pid - 1) /\ next_pid \in Nat
      BY InFork DEF ForkPc
    <3>2. next_pid \in Task /\ next_pid # d
      BY <3>1 DEF ForkInv, Task
    <3> QED
      BY <3>1, <3>2 DEF FramesInv
  <2>2. frames' = frames
    BY <2>1 DEF TypeOK
  <2>3. local' \in [Task -> Locals] /\ local'[d] = local[d]
    BY <2>1 DEF TypeOK
  <2>4. TypeOK'
    BY <2>2, <2>3 DEF TypeOK, Pc, ForkPc
  <2>5. FlagInv' /\ PhaseInv'
    BY <2>1 DEF FlagInv, PhaseInv, Booting, ForkPc
  <2>6. ReturnsAreMatched' /\ FramesInv'
    BY <2>2 DEF ReturnsAreMatched, FramesInv, Booting
  <2>7. StructsInv' /\ ForkInv' /\ ChainInv'
    BY <2>2, <2>3 DEF StructsInv, Unset, ForkInv, ForkPc, ChainInv, Booting
  <2> QED
    BY <2>4, <2>5, <2>6, <2>7
<1>3. CASE ForkNewTask
  <2> USE <1>3 DEF ForkNewTask, spaceVars, irqVars
  <2> DEFINE n == next_pid
             t == current_task
  <2>1. /\ ~Booting /\ d = t /\ t \in 1..(n - 1) /\ n \in Nat
        /\ 1..(n - 1) \subseteq Task /\ n \in Task /\ local[d] \in Locals
        /\ frames[d] = <<>>
    <3>1. /\ ~Booting /\ d = t /\ t \in 1..(n - 1) /\ n \in Nat
          /\ 1..(n - 1) \subseteq Task /\ local[d] \in Locals /\ frames[d] = <<>>
      BY InFork DEF ForkPc
    <3>2. n \in Task
      BY DEF ForkInv
    <3> QED
      BY <3>1, <3>2
  <2>2. t # n /\ t \in Task /\ n' = n + 1 /\ n >= 2 /\ n <= MaxTasks /\ n' \in Nat
    BY <2>1, MaxTasksAssumption DEF Task
  <2>3. ChildStruct \in Struct
    BY <2>1 DEF ChildStruct, Forked, Struct, TaskOrNull, Uninit, Null
  <2>4. /\ task' \in [Task -> Struct]
        /\ task'[n] = ChildStruct
        /\ \A u \in Task : u # n =>
              /\ task'[u].next = task[u].next
              /\ task'[u].eip = task[u].eip
              /\ task'[u].page_directory = task[u].page_directory
    BY <2>1, <2>2, <2>3 DEF TypeOK, Struct
  <2>5. ready_queue = 1
    BY <2>1 DEF ChainInv
  <2>15. task'[n].page_directory = n /\ task'[n].next = Null
    <3>1. task'[n] = [next |-> Null, eip |-> "null", page_directory |-> n, kernel_stack |-> Uninit]
      BY <2>4 DEF ChildStruct, Forked
    <3> QED
      BY ONLY <3>1
  <2>6. /\ local' \in [Task -> Locals]
        /\ local'[d].new_task = n /\ local'[d].tmp_task = 1
        /\ local'[d].parent_task = local[d].parent_task
    BY <2>1, <2>2, <2>5 DEF TypeOK, Locals, TaskOrNull
  <2>7. TypeOK'
    <3>1. next_pid' \in 1..(MaxTasks + 1)
      BY <2>1, <2>2, MaxTasksAssumption
    <3>2. pc' \in Pc
      BY DEF Pc, ForkPc
    <3> QED
      BY <2>4, <2>6, <3>1, <3>2 DEF TypeOK
  <2>8. FlagInv' /\ PhaseInv'
    BY <2>1, <2>2 DEF FlagInv, PhaseInv, Booting, ForkPc
  <2>9. ReturnsAreMatched'
    BY DEF ReturnsAreMatched
  <2>10. FramesInv'
    BY <2>1, <2>2 DEF FramesInv, Booting, Task
  <2>11. frames[n] = <<>>
    BY <2>1, <2>2 DEF FramesInv
  <2>12. StructsInv'
    <3>1. ASSUME NEW u \in 1..n
          PROVE  /\ task'[u].page_directory = u
                 /\ u # t =>
                      IF u = n THEN frames[u] = <<>>
                      ELSE \/ task'[u].eip = "switch_task" /\ frames[u] # <<>>
                           \/ task'[u].eip = "fork" /\ frames[u] = <<>>
      <4>1. CASE u = n
        BY <2>11, <2>15, <4>1
      <4>2. CASE u # n
        <5>1. u \in 1..(n - 1) /\ u \in Task
          BY <2>1, <2>2, <4>2
        <5> QED
          BY <2>4, <4>2, <5>1 DEF StructsInv, Unset
      <4> QED
        BY <4>1, <4>2
    <3>2. next_pid' - 1 = n /\ pc' = "fork_walk" /\ current_task' = t /\ frames' = frames
      BY <2>1, <2>2
    <3> HIDE <1>3 DEF ForkNewTask, n, t
    <3> QED
      BY <3>1, <3>2 DEF StructsInv, Unset, n, t
  <2>13. ForkInv'
    BY <2>1, <2>2, <2>6 DEF ForkInv, ForkPc
  <2>14. ChainInv'
    <3>1. ASSUME NEW u \in 1..n
          PROVE  task'[u].next = IF u = n \/ u = n - 1 THEN Null ELSE u + 1
      <4>1. CASE u = n
        BY <2>15, <4>1
      <4>2. CASE u # n
        <5>1. u \in 1..(n - 1) /\ u \in Task
          BY <2>1, <2>2, <4>2
        <5> QED
          BY <2>1, <2>4, <4>2, <5>1 DEF ChainInv
      <4> QED
        BY <4>1, <4>2
    <3>2. /\ next_pid' - 1 = n /\ next_pid' - 2 = n - 1
          /\ pc' = "fork_walk" /\ ready_queue' = 1
      BY <2>1, <2>2, <2>5
    <3> QED
      BY <3>1, <3>2 DEF ChainInv
  <2> QED
    BY <2>7, <2>8, <2>9, <2>10, <2>12, <2>13, <2>14
<1>4. CASE ForkWalk
  <2> USE <1>4 DEF ForkWalk, schedVars, spaceVars, irqVars
  <2> DEFINE tmp == local[d].tmp_task
  <2>1. /\ ~Booting /\ d = current_task /\ d \in Task /\ local[d] \in Locals
        /\ next_pid \in Nat /\ 1..(next_pid - 1) \subseteq Task
    BY InFork DEF ForkPc
  <2>2. tmp \in 1..(next_pid - 2)
    BY DEF ForkInv
  <2>3. task[tmp].next = tmp + 1 /\ tmp + 1 \in 1..(next_pid - 2)
    BY <2>1, <2>2 DEF ChainInv
  <2>4. /\ local' \in [Task -> Locals]
        /\ local'[d].tmp_task = tmp + 1
        /\ local'[d].new_task = local[d].new_task
        /\ local'[d].parent_task = local[d].parent_task
    <3>1. tmp + 1 \in TaskOrNull
      BY <2>1, <2>3 DEF TaskOrNull
    <3>2. local' = [local EXCEPT ![d].tmp_task = tmp + 1]
      BY <2>3
    <3>3. local \in [Task -> Locals]
      BY DEF TypeOK
    <3> QED
      BY <2>1, <3>1, <3>2, <3>3 DEF Locals
  <2>5. TypeOK'
    BY <2>4 DEF TypeOK
  <2>6. FlagInv' /\ PhaseInv' /\ ReturnsAreMatched' /\ FramesInv'
    BY DEF FlagInv, PhaseInv, ReturnsAreMatched, FramesInv, Booting
  <2>7. StructsInv' /\ ChainInv'
    BY DEF StructsInv, Unset, ChainInv, Booting
  <2>8. ForkInv'
    BY <2>3, <2>4 DEF ForkInv, ForkPc
  <2> QED
    BY <2>5, <2>6, <2>7, <2>8
<1>5. CASE ForkLink
  <2> USE <1>5 DEF ForkLink, spaceVars, irqVars
  <2> DEFINE tmp == local[d].tmp_task
             n == next_pid
  <2>1. /\ ~Booting /\ d = current_task /\ local[d] \in Locals
        /\ n \in Nat /\ 1..(n - 1) \subseteq Task
    BY InFork DEF ForkPc
  <2>2. tmp \in 1..(n - 2) /\ local[d].new_task = n - 1
    BY DEF ForkInv
  <2>3. tmp = n - 2
    BY <2>1, <2>2 DEF ChainInv, Null
  <2>4. tmp \in Task /\ n - 1 \in Task
    BY <2>1, <2>2
  <2>5. /\ task' \in [Task -> Struct]
        /\ task'[tmp].next = n - 1
        /\ \A u \in Task : /\ task'[u].eip = task[u].eip
                           /\ task'[u].page_directory = task[u].page_directory
                           /\ u # tmp => task'[u].next = task[u].next
    <3>1. task' = [task EXCEPT ![tmp].next = n - 1]
      BY <2>2
    <3>2. task \in [Task -> Struct] /\ n - 1 \in TaskOrNull
      BY <2>4 DEF TypeOK, TaskOrNull
    <3> QED
      BY ONLY <2>4, <3>1, <3>2 DEF Struct
  <2>6. TypeOK'
    BY <2>5 DEF TypeOK, Pc, ForkPc
  <2>7. FlagInv' /\ PhaseInv' /\ ReturnsAreMatched' /\ FramesInv'
    BY DEF FlagInv, PhaseInv, ReturnsAreMatched, FramesInv, Booting, ForkPc
  <2>8. StructsInv'
    BY <2>1, <2>5 DEF StructsInv, Unset
  <2>9. ForkInv'
    BY DEF ForkInv, ForkPc
  <2>10. ChainInv'
    <3>1. ready_queue' = 1
      BY <2>1 DEF ChainInv
    <3>2. ASSUME NEW u \in 1..(n - 1)
          PROVE  task'[u].next = IF u = n - 1 THEN Null ELSE u + 1
      <4>1. u \in Task
        BY <2>1
      <4>2. CASE u = tmp
        BY <2>1, <2>2, <2>3, <2>5, <4>2
      <4>3. CASE u # tmp
        BY <2>1, <2>3, <2>5, <4>1, <4>3 DEF ChainInv
      <4> QED
        BY <4>2, <4>3
    <3> QED
      BY <3>1, <3>2 DEF ChainInv
  <2> QED
    BY <2>6, <2>7, <2>8, <2>9, <2>10
<1>6. CASE ForkContext
  <2> USE <1>6 DEF ForkContext, spaceVars, irqVars
  <2> DEFINE n == next_pid
  <2>1. /\ ~Booting /\ n \in Nat /\ 1..(n - 1) \subseteq Task
        /\ local[d].new_task = n - 1 /\ current_task \in 1..(n - 1)
    <3>1. /\ ~Booting /\ n \in Nat /\ 1..(n - 1) \subseteq Task
          /\ current_task \in 1..(n - 1)
      BY InFork DEF ForkPc
    <3> QED
      BY <3>1 DEF ForkInv
  <2>2. n - 1 \in Task
    BY <2>1
  <2>3. /\ task' \in [Task -> Struct]
        /\ task'[n - 1].eip = "fork"
        /\ \A u \in Task : /\ u # n - 1 => task'[u].eip = task[u].eip
                           /\ task'[u].page_directory = task[u].page_directory
                           /\ task'[u].next = task[u].next
    <3>1. task' = [task EXCEPT ![n - 1].eip = "fork"]
      BY <2>1
    <3>2. task \in [Task -> Struct]
      BY DEF TypeOK
    <3> QED
      BY ONLY <2>2, <3>1, <3>2 DEF Struct
  <2>4. TypeOK'
    BY <2>3 DEF TypeOK, Pc, ForkPc
  <2>5. FlagInv' /\ PhaseInv' /\ ReturnsAreMatched' /\ FramesInv'
    BY DEF FlagInv, PhaseInv, ReturnsAreMatched, FramesInv, Booting, ForkPc
  <2>6. StructsInv'
    BY <2>1, <2>3 DEF StructsInv, Unset
  <2>7. ForkInv'
    BY DEF ForkInv, ForkPc
  <2>8. ChainInv'
    BY <2>1, <2>3 DEF ChainInv, Booting
  <2> QED
    BY <2>4, <2>5, <2>6, <2>7, <2>8
<1>7. CASE ForkEnable \/ ForkChild
  <2> USE <1>7 DEF ForkEnable, ForkChild, schedVars, spaceVars, irqVars
  <2>1. TypeOK'
    BY DEF TypeOK, Pc
  <2>2. FlagInv' /\ PhaseInv' /\ ReturnsAreMatched' /\ FramesInv'
    BY DEF FlagInv, PhaseInv, ReturnsAreMatched, FramesInv, Booting, ForkPc, InitTaskPc
  <2>3. StructsInv' /\ ForkInv' /\ ChainInv'
    BY DEF StructsInv, Unset, ForkInv, ForkPc, ChainInv, Booting
  <2> QED
    BY <2>1, <2>2, <2>3
<1> QED
  BY <1>1, <1>2, <1>3, <1>4, <1>5, <1>6, <1>7 DEF fork

\* Every step keeps the invariant.
LEMMA NextPreservesIInv == IInv /\ [Next]_vars => IInv'
<1> SUFFICES ASSUME IInv, [Next]_vars PROVE IInv'
  OBVIOUS
<1>1. CASE UNCHANGED vars
  BY <1>1 DEF vars, schedVars, spaceVars, irqVars, IInv, TypeOK, FlagInv, PhaseInv,
     ReturnsAreMatched, FramesInv, StructsInv, Unset, ForkInv, ChainInv, Booting
<1> QED
  BY <1>1, TaskInitPreservesIInv, TimerPreservesIInv, EndOfInterruptPreservesIInv,
     IretPreservesIInv, ForkPreservesIInv, UserModePreservesIInv DEF Next, Code

\* The invariant of the scheduler.
LEMMA IInvHolds == Spec => []IInv
BY InitEstablishesIInv, NextPreservesIInv, PTL DEF Spec

\* The tasks on the ready list, in the terms of the invariant.
LEMMA LinkedTasks ==
    ASSUME IInv, Linked # {}
    PROVE  /\ ~Booting
           /\ LastLinked \in 1..(next_pid - 1)
           /\ LastLinked = IF pc = "fork_walk" THEN next_pid - 2 ELSE next_pid - 1
           /\ next_pid \in Nat
<1> USE DEF IInv
<1>1. next_pid \in Nat \ {0}
  BY MaxTasksAssumption DEF TypeOK
<1>2. LastLinked \in Int
  BY <1>1 DEF LastLinked
<1>3. LastLinked >= 1
  BY <1>2 DEF Linked
<1>4. ~Booting
  BY <1>1, <1>3 DEF LastLinked, Booting, PhaseInv
<1>5. pc \notin {"init_alloc", "init_fields"}
  BY <1>4 DEF PhaseInv
<1>6. LastLinked = IF pc = "fork_walk" THEN next_pid - 2 ELSE next_pid - 1
  BY <1>5 DEF LastLinked
<1> QED
  BY <1>1, <1>3, <1>4, <1>6

\* Every variable of the scheduler keeps its type.
THEOREM TasksTyped == Spec => []TypeOK
<1>1. IInv => TypeOK
  BY DEF IInv
<1> QED
  BY <1>1, IInvHolds, PTL

\* The ready list is one chain through every linked task (task.c's fork and switch_task).
THEOREM ReadyListIsWhole == Spec => []ReadyListWhole
<1>1. IInv => ReadyListWhole
  <2> SUFFICES ASSUME IInv, Linked # {}
               PROVE  /\ ready_queue = 1
                      /\ current_task \in Linked
                      /\ \A t \in Linked :
                            task[t].next = IF t = LastLinked THEN Null ELSE t + 1
    BY DEF ReadyListWhole
  <2> USE DEF IInv
  <2>1. /\ ~Booting /\ LastLinked \in 1..(next_pid - 1) /\ next_pid \in Nat
        /\ LastLinked = IF pc = "fork_walk" THEN next_pid - 2 ELSE next_pid - 1
    BY LinkedTasks
  <2>2. ready_queue = 1
    BY <2>1 DEF ChainInv
  <2>3. current_task \in Linked
    BY <2>1 DEF Linked, PhaseInv, ForkInv
  <2>4. \A t \in Linked : task[t].next = IF t = LastLinked THEN Null ELSE t + 1
    BY <2>1 DEF Linked, ChainInv
  <2> QED
    BY <2>2, <2>3, <2>4
<1> QED
  BY <1>1, IInvHolds, PTL

\* No timer interrupt finds a task on the list without a context that fits its
\* stack (the cli in fork and in task_init).
THEOREM ParkedAreResumable == Spec => []ParkedTasksResumable
<1>1. IInv => ParkedTasksResumable
  <2> SUFFICES ASSUME IInv, interrupts, NEW t \in Parked
               PROVE  CASE task[t].eip = "switch_task" -> frames[task[t].page_directory] # <<>>
                        [] task[t].eip = "fork"        -> frames[task[t].page_directory] = <<>>
                        [] OTHER                       -> FALSE
    BY DEF ParkedTasksResumable
  <2> USE DEF IInv
  <2>1. pc \notin ForkPc
    BY DEF FlagInv
  <2>2. LastLinked = next_pid - 1 /\ t \in 1..(next_pid - 1) /\ t # current_task
    <3>1. t \in Linked /\ t # current_task
      BY DEF Parked
    <3>2. Linked # {}
      BY <3>1
    <3> QED
      BY <2>1, <3>1, <3>2, LinkedTasks DEF Linked, ForkPc
  <2>3. ~Unset(t)
    BY <2>1 DEF Unset, ForkPc
  <2>4. /\ task[t].page_directory = t
        /\ \/ task[t].eip = "switch_task" /\ frames[t] # <<>>
           \/ task[t].eip = "fork" /\ frames[t] = <<>>
    BY <2>2, <2>3 DEF StructsInv
  <2> QED
    BY <2>4
<1> QED
  BY <1>1, IInvHolds, PTL

\* The processor never resumes an unset context, and every iret finds its frame.
THEOREM ReturnsMatch == Spec => []ReturnsAreMatched
<1>1. IInv => ReturnsAreMatched
  BY DEF IInv
<1> QED
  BY <1>1, IInvHolds, PTL

\* current_directory is the running task's page directory (task.c:158).
THEOREM DirectoryIsCurrent == Spec => []DirectoryFollowsTask
<1>1. IInv => DirectoryFollowsTask
  <2> SUFFICES ASSUME IInv, Linked # {}
               PROVE  current_directory = task[current_task].page_directory
    BY DEF DirectoryFollowsTask
  <2>1. ~Booting
    BY LinkedTasks
  <2>2. current_task \in 1..(next_pid - 1) /\ current_directory = current_task
    BY <2>1 DEF IInv, PhaseInv
  <2> QED
    BY <2>2 DEF IInv, StructsInv
<1> QED
  BY <1>1, IInvHolds, PTL

(***************************************************************************)
(* The refinement of RoundRobin.  The tasks joined are 1 to LastLinked and  *)
(* the turn is current_task's, so a step of Tasks is known by what becomes  *)
(* of these two.                                                            *)
(***************************************************************************)

\* A set of naturals has a least element.
LEMMA LeastOf ==
    ASSUME NEW S, S \subseteq Nat, S # {}
    PROVE  \E e \in S : \A x \in S : e <= x
<1>1. PICK e \in S : \A x \in S : ~(<<x, e>> \in OpToRel(<, Nat))
  BY NatLessThanWellFounded, WFMin
<1>2. \A x \in S : ~(x < e)
  BY <1>1, Zenon DEF OpToRel
<1> QED
  BY <1>2

\* The list has no head before it has a task.
HeadInv == Booting => ready_queue = Null

\* Only task_init sets the head, when it counts the first pid.
LEMMA HeadHolds == Spec => []HeadInv
<1>1. Init => HeadInv
  BY DEF Init, HeadInv
<1>2. IInv /\ HeadInv /\ [Next]_vars => HeadInv'
  <2> SUFFICES ASSUME IInv, HeadInv, [Next]_vars PROVE HeadInv'
    OBVIOUS
  <2> USE DEF HeadInv, Booting
  <2>0. next_pid \in Nat \ {0}
    BY MaxTasksAssumption DEF IInv, TypeOK
  <2>1. CASE task_init
    BY <2>0, <2>1 DEF task_init, InitDisable, InitAlloc, InitFields, InitEnable, schedVars
  <2>2. CASE TimerInterrupt
    BY <2>2 DEF TimerInterrupt, switch_task, NoSwitch, schedVars
  <2>3. CASE fork
    BY <2>0, <2>3 DEF fork, ForkBegin, ForkClone, ForkNewTask, ForkWalk, ForkLink,
       ForkContext, ForkEnable, ForkChild, schedVars
  <2>4. CASE EndOfInterrupt \/ Iret \/ switch_to_user_mode \/ UNCHANGED vars
    BY <2>4 DEF EndOfInterrupt, Iret, switch_to_user_mode, vars, schedVars
  <2> QED
    BY <2>1, <2>2, <2>3, <2>4 DEF Next, Code
<1> QED
  BY <1>1, <1>2, IInvHolds, PTL DEF Spec

\* How far the list goes, and what follows each task on it.
LEMMA ListIs ==
    ASSUME IInv, HeadInv
    PROVE  /\ LastLinked \in 0..MaxTasks
           /\ LastLinked = 0 <=> Booting
           /\ ready_queue = IF LastLinked = 0 THEN Null ELSE 1
           /\ LastLinked > 0 => current_task \in 1..LastLinked
           /\ \A t \in 1..LastLinked :
                 task[t].next = IF t = LastLinked THEN Null ELSE t + 1
<1> USE DEF IInv
<1>1. next_pid \in 1..(MaxTasks + 1) /\ MaxTasks \in Nat \ {0} /\ next_pid \in Nat
  BY MaxTasksAssumption DEF TypeOK
<1>2. CASE Booting
  <2>1. LastLinked = 0
    BY <1>1, <1>2 DEF LastLinked, Booting, PhaseInv
  <2> QED
    BY <1>1, <1>2, <2>1 DEF HeadInv
<1>3. CASE ~Booting
  <2>1. /\ current_task \in 1..(next_pid - 1)
        /\ pc \notin {"init_alloc", "init_fields"}
    BY <1>3 DEF PhaseInv
  <2>2. pc = "fork_walk" => current_task < next_pid - 1
    BY DEF ForkInv
  <2>3. LastLinked = IF pc = "fork_walk" THEN next_pid - 2 ELSE next_pid - 1
    BY <2>1 DEF LastLinked
  <2>4. LastLinked \in 1..MaxTasks /\ current_task \in 1..LastLinked
    BY <1>1, <2>1, <2>2, <2>3
  <2>5. \A t \in 1..LastLinked : task[t].next = IF t = LastLinked THEN Null ELSE t + 1
    BY <1>1, <1>3, <2>3, <2>4 DEF ChainInv
  <2> QED
    BY <1>1, <1>3, <2>4, <2>5 DEF ChainInv
<1> QED
  BY <1>2, <1>3

\* What the mapping gives in a state of Tasks.
Mapped ==
    /\ Chain = [i \in 1..LastLinked |-> i]
    /\ Turn = IF LastLinked = 0 THEN 0 ELSE current_task

\* The walk from ready_queue meets the linked tasks in order, then the null.
LEMMA WalkIs == ASSUME IInv, HeadInv PROVE Mapped
<1> DEFINE G(h) == [i \in Task |-> IF i = 1 THEN ready_queue
                                   ELSE IF h[i - 1] \in Task THEN task[h[i - 1]].next ELSE Null]
           At == CHOOSE h : h = G(h)
           n == LastLinked
           walk == [i \in Task |-> IF i <= n THEN i ELSE Null]
<1>1. /\ n \in 0..MaxTasks /\ MaxTasks \in Nat \ {0}
      /\ ready_queue = IF n = 0 THEN Null ELSE 1
      /\ n > 0 => current_task \in 1..n
      /\ \A t \in 1..n : task[t].next = IF t = n THEN Null ELSE t + 1
  BY ListIs, MaxTasksAssumption
<1>2. walk = G(walk)
  <2> HIDE DEF n
  <2>1. ASSUME NEW i \in Task, i # 1, i <= n
        PROVE  walk[i] = G(walk)[i]
    <3>1. i - 1 \in Task /\ i - 1 \in 1..n /\ i - 1 # n /\ walk[i - 1] = i - 1
      BY <1>1, <2>1 DEF Task
    <3>2. task[i - 1].next = i
      BY <1>1, <2>1, <3>1 DEF Task
    <3> QED
      BY <2>1, <3>1, <3>2
  <2>2. ASSUME NEW i \in Task, i # 1, ~(i <= n)
        PROVE  walk[i] = G(walk)[i]
    <3>1. i - 1 \in Task
      BY <1>1, <2>2 DEF Task
    <3>2. CASE i - 1 = n
      <4>1. n \in 1..n /\ task[n].next = Null /\ walk[i - 1] = n /\ n \in Task
        BY <1>1, <3>1, <3>2 DEF Task
      <4> QED
        BY <2>2, <4>1
    <3>3. CASE i - 1 # n
      <4>1. walk[i - 1] = Null /\ Null \notin Task
        BY <1>1, <2>2, <3>1, <3>3 DEF Task, Null
      <4> QED
        BY <2>2, <4>1
    <3> QED
      BY <3>2, <3>3
  <2>3. 1 \in Task => walk[1] = G(walk)[1]
    BY <1>1 DEF Task
  <2>4. \A i \in Task : walk[i] = G(walk)[i]
    BY <2>1, <2>2, <2>3
  <2> QED
    BY <2>4
<1>3. At = G(At)
  <2> HIDE DEF G, walk
  <2> QED
    BY <1>2
<1>4. At = walk
  <2> DEFINE Bad == {i \in Task : At[i] # walk[i]}
  <2> HIDE DEF At, n
  <2>1. ASSUME Bad # {} PROVE FALSE
    <3>1. Bad \subseteq Nat
      BY DEF Task
    <3>2. PICK b \in Bad : \A x \in Bad : b <= x
      BY <2>1, <3>1, LeastOf
    <3>3. b # 1
      <4>1. b = 1 => At[b] = ready_queue /\ walk[b] = ready_queue
        BY <1>2, <1>3, <3>2
      <4> QED
        BY <3>2, <4>1
    <3>4. b - 1 \in Task /\ ~(b <= b - 1)
      BY <1>1, <3>2, <3>3 DEF Task
    <3>5. At[b - 1] = walk[b - 1]
      BY <3>2, <3>4
    <3>6. G(At)[b] = G(walk)[b]
      BY <3>2, <3>5
    <3>7. At[b] = walk[b]
      BY <1>2, <1>3, <3>6
    <3> QED
      BY <3>2, <3>7
  <2>2. At = [i \in Task |-> At[i]]
    <3> HIDE DEF walk
    <3>1. \E g : At = [i \in Task |-> g[i]]
      <4> DEFINE g == [i \in Task |-> IF i = 1 THEN ready_queue
                                   ELSE IF At[i - 1] \in Task THEN task[At[i - 1]].next ELSE Null]
      <4>1. At = [i \in Task |-> g[i]]
        BY <1>3
      <4> QED
        BY <4>1
    <3> QED
      BY <3>1
  <2> QED
    BY <2>1, <2>2
<1>5. Chain = [i \in {j \in Task : At[j] \in Task} |-> At[i]]
  BY Zenon DEF Chain
<1>6. Chain = [i \in 1..n |-> i]
  <2> HIDE DEF At, n
  <2>1. {j \in Task : walk[j] \in Task} = 1..n
    <3>1. \A j \in Task : walk[j] \in Task <=> j \in 1..n
      BY <1>1 DEF Task, Null
    <3>2. 1..n \subseteq Task
      BY <1>1 DEF Task
    <3> HIDE DEF walk
    <3> QED
      BY <3>1, <3>2
  <2>2. \A i \in 1..n : walk[i] = i
    BY <1>1 DEF Task
  <2> QED
    BY <1>4, <1>5, <2>1, <2>2
<1>7. Turn = IF n = 0 THEN 0 ELSE current_task
  <2> HIDE DEF n
  <2>1. CASE n = 0
    <3>1. Chain = <<>>
      BY <1>6, <2>1
    <3> QED
      BY <2>1, <3>1 DEF Turn
  <2>2. CASE n # 0
    <3>1. DOMAIN Chain = 1..n /\ current_task \in 1..n /\ \A i \in 1..n : Chain[i] = i
      BY <1>1, <1>6, <2>2
    <3>2. Chain # <<>>
      <4>1. DOMAIN Chain # {}
        BY <3>1
      <4>2. DOMAIN <<>> = {}
        OBVIOUS
      <4> QED
        BY <4>1, <4>2
    <3>3. Turn = CHOOSE i \in DOMAIN Chain : Chain[i] = current_task
      BY <3>2 DEF Turn
    <3>4. Turn \in DOMAIN Chain /\ Chain[Turn] = current_task
      <4> HIDE DEF n
      <4>1. \E i \in DOMAIN Chain : Chain[i] = current_task
        BY <3>1
      <4> QED
        BY <3>3, <4>1
    <3> QED
      BY <2>2, <3>1, <3>4
  <2> QED
    BY <2>1, <2>2
<1> QED
  BY <1>6, <1>7 DEF Mapped

\* What a step does to the list and to the turn.
Kept == LastLinked' = LastLinked /\ (LastLinked = 0 \/ current_task' = current_task)
Started == LastLinked = 0 /\ LastLinked' = 1 /\ current_task' = 1
Lengthened ==
    /\ LastLinked > 0
    /\ LastLinked' = LastLinked + 1
    /\ LastLinked' \in Task
    /\ current_task' = current_task
Rotated ==
    /\ LastLinked > 0
    /\ LastLinked' = LastLinked
    /\ current_task' = IF current_task = LastLinked THEN 1 ELSE current_task + 1

\* task_init starts the list, ForkLink lengthens it by one, and switch_task
\* takes the next task or the first.
LEMMA StepIs ==
    ASSUME IInv, HeadInv, IInv', HeadInv', [Next]_vars
    PROVE  Kept \/ Started \/ Lengthened \/ Rotated
<1>0. /\ LastLinked \in 0..MaxTasks /\ next_pid \in Nat \ {0}
      /\ LastLinked = 0 <=> next_pid = 1
  BY ListIs, MaxTasksAssumption DEF IInv, TypeOK, Booting
<1>1. CASE InitFields
  <2>1. /\ current_task = 1 /\ next_pid = 1
    BY <1>1 DEF InitFields, IInv, PhaseInv, Booting
  <2>2. LastLinked = 0 /\ LastLinked' = 1 /\ current_task' = 1
    BY <1>0, <1>1, <2>1 DEF InitFields, LastLinked
  <2> QED
    BY <2>2 DEF Started
<1>2. CASE InitDisable \/ InitAlloc \/ InitEnable
  <2>1. LastLinked' = LastLinked
    BY <1>2, <1>0 DEF InitDisable, InitAlloc, InitEnable, LastLinked, schedVars, IInv, PhaseInv, Booting
  <2>2. LastLinked = 0 \/ current_task' = current_task
    BY <1>2, <1>0 DEF InitDisable, InitAlloc, InitEnable, LastLinked, schedVars
  <2> QED
    BY <2>1, <2>2 DEF Kept
<1>3. CASE ForkLink
  <2>1. /\ pc = "fork_walk" /\ pc' = "fork_context"
        /\ next_pid' = next_pid /\ current_task' = current_task
    BY <1>3 DEF ForkLink
  <2>2. LastLinked = next_pid - 2 /\ LastLinked' = next_pid - 1
    BY <2>1 DEF LastLinked
  <2>3. current_task < next_pid - 1 /\ current_task \in 1..(next_pid - 1)
    BY <2>1 DEF IInv, ForkInv, PhaseInv, Booting
  <2>4. next_pid - 1 \in Task
    BY <1>0, <2>3, MaxTasksAssumption DEF IInv, TypeOK, Task
  <2> QED
    BY <1>0, <2>1, <2>2, <2>3, <2>4 DEF Lengthened
<1>4. CASE ForkNewTask
  <2>1. LastLinked' = LastLinked /\ current_task' = current_task
    BY <1>0, <1>4 DEF ForkNewTask, LastLinked
  <2> QED
    BY <2>1 DEF Kept
<1>5. CASE ForkBegin \/ ForkClone \/ ForkWalk \/ ForkContext \/ ForkEnable \/ ForkChild
  <2>1. LastLinked' = LastLinked /\ current_task' = current_task
    BY <1>5 DEF ForkBegin, ForkClone, ForkWalk, ForkContext, ForkEnable, ForkChild,
       LastLinked, schedVars
  <2> QED
    BY <2>1 DEF Kept
<1>6. CASE TimerInterrupt
  <2>1. pc \notin InitTaskPc \cup ForkPc
    BY <1>6 DEF TimerInterrupt, IInv, FlagInv
  <2>2. LastLinked = next_pid - 1
    BY <2>1 DEF LastLinked, InitTaskPc, ForkPc
  <2>3. CASE current_task # Null /\ SwitchTarget \in Task
    <3>1. switch_task
      BY <1>6, <2>3 DEF TimerInterrupt
    <3>2. pc' \in {"eoi", "child", "wild"} /\ next_pid' = next_pid
      BY <3>1 DEF switch_task, ResumeAt
    <3>3. LastLinked' = LastLinked
      BY <2>2, <3>2 DEF LastLinked
    <3>4. LastLinked > 0
      BY <1>0, <2>1, <2>3 DEF IInv, PhaseInv, Booting, InitTaskPc
    <3>5. /\ ready_queue = 1 /\ current_task \in 1..LastLinked
          /\ task[current_task].next = IF current_task = LastLinked THEN Null ELSE current_task + 1
      BY <1>0, <3>4, ListIs
    <3>6. SwitchTarget = IF current_task = LastLinked THEN 1 ELSE current_task + 1
      BY <1>0, <3>5 DEF SwitchTarget, Null
    <3> QED
      BY <3>1, <3>3, <3>4, <3>6 DEF Rotated, switch_task
  <2>4. CASE ~(current_task # Null /\ SwitchTarget \in Task)
    <3>1. NoSwitch
      BY <1>6, <2>4 DEF TimerInterrupt
    <3>2. pc' \in {"eoi", "wild"} /\ next_pid' = next_pid /\ current_task' = current_task
      BY <3>1 DEF NoSwitch, schedVars
    <3>3. LastLinked' = LastLinked
      BY <2>2, <3>2 DEF LastLinked
    <3> QED
      BY <3>2, <3>3 DEF Kept
  <2> QED
    BY <2>3, <2>4
<1>7. CASE EndOfInterrupt \/ Iret
  <2>1. pc \in {"eoi", "iret"} /\ next_pid' = next_pid /\ current_task' = current_task
    BY <1>7 DEF EndOfInterrupt, Iret, schedVars
  <2>2. pc' \in {"iret", "boot", "run", "child"}
    <3>1. CASE EndOfInterrupt
      BY <3>1 DEF EndOfInterrupt
    <3>2. CASE Iret
      <4>1. /\ current_directory \in Task /\ frames \in [Task -> Seq(Pc)]
            /\ frames[current_directory] # <<>>
        BY <3>2 DEF Iret, IInv, TypeOK
      <4>2. Len(frames[current_directory]) \in 1..Len(frames[current_directory])
        BY <4>1, FrontDrops
      <4>3. frames[current_directory][Len(frames[current_directory])]
              \in {"iret", "boot", "run", "child"}
        BY <4>1, <4>2 DEF IInv, FramesInv
      <4> QED
        BY <3>2, <4>3 DEF Iret
    <3> QED
      BY <1>7, <3>1, <3>2
  <2>3. LastLinked' = LastLinked
    BY <2>1, <2>2 DEF LastLinked
  <2> QED
    BY <2>1, <2>3 DEF Kept
<1>8. CASE switch_to_user_mode
  <2>1. LastLinked' = LastLinked /\ current_task' = current_task
    BY <1>8 DEF switch_to_user_mode, LastLinked, schedVars
  <2> QED
    BY <2>1 DEF Kept
<1>9. CASE UNCHANGED vars
  BY <1>9 DEF Kept, LastLinked, vars, schedVars
<1> QED
  BY <1>1, <1>2, <1>3, <1>4, <1>5, <1>6, <1>7, <1>8, <1>9 DEF Next, Code, task_init, fork

\* The list of the first m tasks, with one more, is that of the first m + 1.
LEMMA OneMore ==
    ASSUME NEW m \in Nat
    PROVE  Append([i \in 1..m |-> i], m + 1) = [i \in 1..(m + 1) |-> i]
<1> DEFINE s == [i \in 1..m |-> i]
<1>1. s \in Seq(Nat) /\ Len(s) = m
  OBVIOUS
<1>2. /\ Append(s, m + 1) \in Seq(Nat)
      /\ Len(Append(s, m + 1)) = m + 1
      /\ \A i \in 1..m : Append(s, m + 1)[i] = s[i]
      /\ Append(s, m + 1)[m + 1] = m + 1
  BY <1>1, AppendProperties
<1>3. [i \in 1..(m + 1) |-> i] \in Seq(Nat) /\ Len([i \in 1..(m + 1) |-> i]) = m + 1
  OBVIOUS
<1>4. \A i \in 1..(m + 1) : Append(s, m + 1)[i] = [j \in 1..(m + 1) |-> j][i]
  BY <1>2
<1> QED
  BY <1>2, <1>3, <1>4, SeqEqual

\* Each step of Tasks is a step of RoundRobin, or none.
LEMMA StepsTakeTurns ==
    ASSUME IInv, HeadInv, Mapped, IInv', HeadInv', Mapped', [Next]_vars
    PROVE  [Turns!RRNext]_(Turns!rrVars)
<1> USE DEF Mapped
<1>0. /\ LastLinked \in 0..MaxTasks /\ MaxTasks \in Nat \ {0}
      /\ LastLinked > 0 => current_task \in 1..LastLinked
  BY ListIs, MaxTasksAssumption
<1>1. CASE Kept
  <2>1. Chain' = Chain /\ Turn' = Turn
    BY <1>1 DEF Kept
  <2> QED
    BY <2>1 DEF Turns!rrVars
<1>2. CASE Started
  <2>1. Chain = <<>> /\ Chain' = <<1>> /\ Turn' = 1
    BY <1>2 DEF Started
  <2>2. 1 \in Task
    BY <1>0 DEF Task
  <2> QED
    BY <2>1, <2>2 DEF Turns!RRNext, Turns!Start
<1>3. CASE Lengthened
  <2> DEFINE t == LastLinked + 1
  <2>1. Chain' = Append(Chain, t)
    BY <1>0, <1>3, OneMore DEF Lengthened
  <2>2. Turn' = Turn
    BY <1>0, <1>3 DEF Lengthened
  <2>3. t \notin Turns!Joined /\ Chain # <<>>
    BY <1>0, <1>3 DEF Turns!Joined, Lengthened
  <2>4. t \in Task
    BY <1>3 DEF Lengthened
  <2> QED
    BY <2>1, <2>2, <2>3, <2>4 DEF Turns!RRNext, Turns!Join
<1>4. CASE Rotated
  <2>1. Chain' = Chain /\ Chain # <<>> /\ Len(Chain) = LastLinked
    BY <1>0, <1>4 DEF Rotated
  <2>2. Turn = current_task
    BY <1>4 DEF Rotated
  <2>3. Turn' = (Turn % Len(Chain)) + 1
    <3>1. current_task = LastLinked => current_task % LastLinked = 0
      BY <1>0, <1>4 DEF Rotated
    <3>2. current_task # LastLinked => current_task % LastLinked = current_task
      BY <1>0, <1>4 DEF Rotated
    <3> QED
      BY <1>0, <1>4, <2>1, <2>2, <3>1, <3>2 DEF Rotated
  <2> QED
    BY <2>1, <2>3 DEF Turns!RRNext, Turns!Rotate
<1> QED
  BY <1>1, <1>2, <1>3, <1>4, StepIs

\* Task switching is round robin: the scheduler with fork and its interrupts
\* implements RoundRobin, the list being the turns and current_task the turn
\* (task.c's fork and switch_task).
THEOREM TakesTurns == Spec => SchedulesRoundRobin
<1>1. Init => Turns!RRInit
  <2> SUFFICES ASSUME Init PROVE Turns!RRInit
    OBVIOUS
  <2>1. IInv /\ HeadInv
    BY InitEstablishesIInv DEF Init, HeadInv
  <2>2. Mapped
    BY <2>1, WalkIs
  <2>3. LastLinked = 0
    BY DEF Init, LastLinked
  <2> QED
    BY <2>2, <2>3 DEF Mapped, Turns!RRInit
<1>2. IInv /\ HeadInv => Mapped
  BY WalkIs
<1>3. IInv /\ HeadInv /\ Mapped /\ IInv' /\ HeadInv' /\ Mapped' /\ [Next]_vars
        => [Turns!RRNext]_(Turns!rrVars)
  BY StepsTakeTurns
<1> QED
  BY <1>1, <1>2, <1>3, IInvHolds, HeadHolds, PTL DEF Spec, SchedulesRoundRobin, Turns!RRSpec
=============================================================================
