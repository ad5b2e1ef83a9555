---------------------------- MODULE BoundedFifo ----------------------------
(***************************************************************************)
(* What the keyboard buffer promises: characters leave in the order they    *)
(* came in, each at most once, and one is thrown away only when Capacity    *)
(* characters are waiting.                                                  *)
(***************************************************************************)
EXTENDS Naturals, Sequences

CONSTANTS Item,       \* what is queued
          Capacity    \* how many items can wait

VARIABLES queue,      \* the items waiting, oldest first
          sent,       \* every item offered so far, in order
          taken,      \* every item removed so far, in order
          lost        \* how many were refused so far

fifoVars == <<queue, sent, taken, lost>>

FifoInit ==
    /\ queue = <<>>
    /\ sent = <<>>
    /\ taken = <<>>
    /\ lost = 0

Put(x) ==
    /\ Len(queue) < Capacity
    /\ queue' = Append(queue, x)
    /\ sent' = Append(sent, x)
    /\ UNCHANGED <<taken, lost>>

Refuse(x) ==
    /\ Len(queue) = Capacity
    /\ sent' = Append(sent, x)
    /\ lost' = lost + 1
    /\ UNCHANGED <<queue, taken>>

Take ==
    /\ queue # <<>>
    /\ queue' = Tail(queue)
    /\ taken' = Append(taken, Head(queue))
    /\ UNCHANGED <<sent, lost>>

FifoNext == (\E x \in Item : Put(x) \/ Refuse(x)) \/ Take

FifoSpec == FifoInit /\ [][FifoNext]_fifoVars
=============================================================================
