----------------------------- MODULE RoundRobin -----------------------------
(***************************************************************************)
(* What the scheduler promises: tasks take turns in the order they were     *)
(* created, starting again at the first after the last.                     *)
(***************************************************************************)
EXTENDS Naturals, Sequences

CONSTANT Task

VARIABLES order,   \* the tasks, in the order they joined
          turn     \* the place in order of the task that has the processor; 0 at first

rrVars == <<order, turn>>

Joined == {order[i] : i \in DOMAIN order}

RRInit == order = <<>> /\ turn = 0

\* The thread that is already running becomes the first task.
Start(t) ==
    /\ order = <<>>
    /\ order' = <<t>>
    /\ turn' = 1

Join(t) ==
    /\ order # <<>>
    /\ t \notin Joined
    /\ order' = Append(order, t)
    /\ UNCHANGED turn

Rotate ==
    /\ order # <<>>
    /\ turn' = (turn % Len(order)) + 1
    /\ UNCHANGED order

RRNext == (\E t \in Task : Start(t) \/ Join(t)) \/ Rotate

RRSpec == RRInit /\ [][RRNext]_rrVars
=============================================================================
