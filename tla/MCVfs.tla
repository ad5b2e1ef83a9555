------------------------------- MODULE MCVfs -------------------------------
(* Ramdisks with files of less than a block, exactly one and more, a         *)
(* directory, two members of one name, and one member more than its tables   *)
(* have entries.  Blocks have two bytes.                                     *)
EXTENDS Vfs

Member(p, d, n) == [path |-> p, dir |-> d, size |-> n]

MCImages == {
    <<>>,
    <<Member(<<"etc">>, TRUE, 0), Member(<<"etc", "motd">>, FALSE, 3), Member(<<"init">>, FALSE, 2)>>,
    <<Member(<<"a", "init">>, FALSE, 2), Member(<<"b", "init">>, FALSE, 1), Member(<<"motd">>, FALSE, 1)>>,
    <<Member(<<"init">>, FALSE, 3), Member(<<"motd">>, FALSE, 2)>>,
    <<Member(<<"a">>, FALSE, 1), Member(<<"b">>, FALSE, 1), Member(<<"init">>, FALSE, 1),
      Member(<<"motd">>, FALSE, 1)>> }

MCPath == {
    <<>>, <<"dev">>, <<"dev", "kbd">>, <<"dev", "tty", "">>, <<"", "dev">>,
    <<"initrd">>, <<"initrd", "motd">>, <<"initrd", "init">>,
    <<"dev", "null">>, <<"dev", "kbd", "leds">> }

MCCount == {1, 4}

ClientSymmetry == Permutations(Client)
=============================================================================
