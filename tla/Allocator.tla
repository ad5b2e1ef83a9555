----------------------------- MODULE Allocator -----------------------------
(***************************************************************************)
(* What the kernel heap promises its callers: the blocks handed out and not *)
(* yet freed lie below the limit, are aligned as asked and do not overlap.  *)
(***************************************************************************)
EXTENDS Integers

CONSTANTS PAGE,
          Request    \* [size, page_align]

VARIABLES live,      \* pointer handed out -> the request it answers
          limit      \* no block goes past it

allocatorVars == <<live, limit>>

Fresh(p, r, blocks) ==
    /\ r \in Request
    /\ r.page_align => p % PAGE = 0
    /\ \A q \in DOMAIN blocks : p + r.size <= q \/ q + blocks[q].size <= p

Below(blocks, n) == \A p \in DOMAIN blocks : 0 <= p /\ p + blocks[p].size <= n

AllocatorInit == DOMAIN live = {} /\ limit \in Nat

Allocate ==
    \E p \in DOMAIN live' \ DOMAIN live :
        /\ DOMAIN live' = DOMAIN live \cup {p}
        /\ \A q \in DOMAIN live : live'[q] = live[q]
        /\ Fresh(p, live'[p], live)

Release ==
    \E p \in DOMAIN live :
        live' = [q \in DOMAIN live \ {p} |-> live[q]]

\* The limit moves as it likes, as long as every block stays below it.
AllocatorNext ==
    /\ Allocate \/ Release \/ UNCHANGED live
    /\ limit' \in Nat
    /\ Below(live', limit')

AllocatorSpec == AllocatorInit /\ [][AllocatorNext]_allocatorVars
=============================================================================
