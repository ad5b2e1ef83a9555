------------------------------- MODULE MCHeap -------------------------------
(***************************************************************************)
(* The heap as built, an eighth as many pages, with a few sizes asked for.  *)
(***************************************************************************)
EXTENDS Heap

MCRequest == {[size |-> 108, page_align |-> FALSE],
              [size |-> 3001, page_align |-> FALSE],
              [size |-> 3 * PAGE, page_align |-> TRUE],
              [size |-> (2 * PAGE) + 2400, page_align |-> FALSE],
              [size |-> (5 * PAGE) + 2500, page_align |-> FALSE],
              [size |-> InitialSize - OVERHEAD, page_align |-> FALSE]}

\* For the runs outside the design: one size each is enough.
MCSmall == {[size |-> 108, page_align |-> FALSE]}
MCQuarter == {[size |-> 7180, page_align |-> FALSE]}
=============================================================================
