---------------------------- MODULE MCKeyboard ----------------------------
(* A three-slot and a keyboard with shift, caps lock, the key of 5 and %, and Enter. *)
EXTENDS Keyboard

\* 0x2A/0xAA shift down/up, 0x3A caps lock, 0x06/0x86 five down/up, 0x1C Enter.
MCScancode == {42, 170, 58, 6, 134, 28}

\* kbdMapUS at those keys; 0x06 + 128 and 0x1C + 128 are their shifted entries.
MCMap == [i \in 0..255 |->
            CASE i = 6         -> 53
              [] i = 134       -> 37
              [] i \in {28, 156} -> 10
              [] OTHER         -> 0]

=============================================================================
