---------------------------- MODULE OrderedTable ----------------------------
(***************************************************************************)
(* kcommon/ordered_table.c: an array kept in order by a less-than           *)
(* predicate, here a function of two items.  The struct's array and size    *)
(* are one sequence; positions are counted from 1, from 0 in the code.      *)
(***************************************************************************)
EXTENDS Naturals, SequencesExt

\* The first position that the scan does not step over.
InsertPosition(item, array, less_than) ==
    Min({i \in DOMAIN array : ~less_than[array[i], item]} \cup {Len(array) + 1})

insert_ordered_array(item, array, less_than) ==
    InsertAt(array, InsertPosition(item, array, less_than), item)

\* There is no test of i: past the end nothing moves, and size still drops.
remove_ordered_array(i, array) ==
    IF i \in DOMAIN array THEN RemoveAt(array, i) ELSE Front(array)
=============================================================================
