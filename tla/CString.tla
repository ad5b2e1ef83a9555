------------------------------ MODULE CString ------------------------------
(***************************************************************************)
(* kcommon/string.c and kcommon/memory.c.  Memory is a function from        *)
(* addresses to characters; a function that writes returns the new memory.  *)
(* strncmp is left out: it takes two characters, not strings, and has no    *)
(* caller.                                                                  *)
(***************************************************************************)
EXTENDS Integers, Sequences, SequencesExt

CONSTANT WORD    \* 2^32: unsigned arithmetic

ASSUME WordAssumption == WORD \in Nat \ {0}

End(mem, p) == Min({q \in DOMAIN mem : q >= p /\ mem[q] = 0})

strlen(mem, p) == End(mem, p) - p

\* The string at p, without its zero.
StringAt(mem, p) == [i \in 1..strlen(mem, p) |-> mem[p + i - 1]]

\* The addresses from p on, in order.
Upward(p, count) == [i \in 1..count |-> p + i - 1]

(***************************************************************************)
(* Searching.  The loops look at addresses in order, let `skip' matches     *)
(* pass and stop at the next one.                                           *)
(***************************************************************************)
Stop(mem, value, skip, order, none) ==
    LET Look(s, i) ==
            IF s.found \/ mem[i] # value THEN s
            ELSE IF s.skip > 0 THEN [s EXCEPT !.skip = @ - 1]
            ELSE [s EXCEPT !.found = TRUE, !.at = i]
    IN  FoldLeft(Look, [found |-> FALSE, skip |-> skip, at |-> none], order).at

memidx(mem, in, value, count, skip) ==
    Stop(mem, value, skip, Upward(in, count), in + count) - in

memnidxFound(mem, in, value, count, skip) ==   \* mutant: nothing found is taken for index 0
    Stop(mem, value, skip, Reverse(Upward(in, count)), in) - in

memnidx(mem, in, value, count, skip) ==
    (Stop(mem, value, skip, Reverse(Upward(in, count)), in - 1) - in) % WORD

stridx(mem, in, value, skip) == memidx(mem, in, value, strlen(mem, in), skip)
strnidx(mem, in, value, skip) == memnidx(mem, in, value, strlen(mem, in), skip)

\* Finds the zero at the end, too; -1 for the null pointer.
strchr(mem, s, c) ==
    LET at == {q \in s..End(mem, s) : mem[q] = c}
    IN  IF at = {} THEN -1 ELSE Min(at)

(***************************************************************************)
(* Comparing: strcmp and memcmp stop at the first place that decides.       *)
(***************************************************************************)
From(mem, p) == [i \in {q - p : q \in {a \in DOMAIN mem : a >= p}} |-> mem[p + i]]
Literal(string) == [i \in 0..Len(string) |-> IF i < Len(string) THEN string[i + 1] ELSE 0]

strcmpPrefix(str1, str2) ==                \* mutant: stops when either string ends
    LET i == Min({k \in DOMAIN str1 \cap DOMAIN str2 :
                     str1[k] = 0 \/ str2[k] = 0 \/ str1[k] # str2[k]})
    IN  IF str1[i] # 0 /\ str2[i] # 0 THEN 1 ELSE 0

strcmp(str1, str2) ==
    LET i == Min({k \in DOMAIN str1 \cap DOMAIN str2 :
                     str1[k] = 0 \/ str2[k] = 0 \/ str1[k] # str2[k]})
    IN  IF str1[i] = 0 /\ str2[i] = 0 THEN 0 ELSE 1

memcmp(mem, s1, s2, n) ==
    LET differ == {k \in 0..(n - 1) : mem[s1 + k] # mem[s2 + k]}
    IN  IF differ = {} THEN 0 ELSE mem[s1 + Min(differ)] - mem[s2 + Min(differ)]

(***************************************************************************)
(* Copying, a byte at a time from the front.                                *)
(***************************************************************************)
memcpy(mem, dest, src, len) ==
    LET Copy(m, i) == [m EXCEPT ![dest + i] = m[src + i]]
    IN  FoldLeft(Copy, mem, Upward(0, len))

memrplcShort(mem, out, value1, value2, len) ==   \* mutant: the last byte is left out
    [q \in DOMAIN mem |->
        IF q \in out..(out + len - 2) /\ mem[q] = value1 THEN value2 ELSE mem[q]]

memrplc(mem, out, value1, value2, len) ==
    [q \in DOMAIN mem |->
        IF q \in out..(out + len - 1) /\ mem[q] = value1 THEN value2 ELSE mem[q]]

strcpy(mem, dest, src) == memcpy(mem, dest, src, strlen(mem, src) + 1)

(***************************************************************************)
(* strsplt: where the words start, and the line with its separators cut.    *)
(***************************************************************************)
strspltUncut(mem, in, value) ==            \* mutant: the separators stay
    LET Cut(s, i) == IF s.mem[i - 1] = value THEN [s EXCEPT !.out = Append(@, i)] ELSE s
    IN  IF mem[in] = 0 THEN [mem |-> mem, out |-> <<>>]
        ELSE FoldLeft(Cut, [mem |-> mem, out |-> <<in>>],
                      Upward(in + 1, strlen(mem, in) - 1))

strsplt(mem, in, value) ==
    LET Cut(s, i) == IF s.mem[i - 1] = value
                     THEN [mem |-> [s.mem EXCEPT ![i - 1] = 0], out |-> Append(s.out, i)]
                     ELSE s
    IN  IF mem[in] = 0 THEN [mem |-> mem, out |-> <<>>]
        ELSE FoldLeft(Cut, [mem |-> mem, out |-> <<in>>],
                      Upward(in + 1, strlen(mem, in) - 1))

(***************************************************************************)
(* itoa, of a word as wide as WORD: the digits come out last first and are  *)
(* turned round, behind the sign.                                           *)
(***************************************************************************)
Digit(remainder) == IF remainder < 10 THEN 48 + remainder ELSE 97 + remainder - 10
DECIMAL == 100            \* 'd'
HEXADECIMAL == 120        \* 'x'
MINUS == 45
Divisor(base) == IF base = HEXADECIMAL THEN 16 ELSE 10

Digits(base, ud) ==
    LET divisor == Divisor(base)
        backwards[u \in 0..(WORD - 1)] ==
            <<Digit(u % divisor)>>
                \o (IF u \div divisor = 0 THEN <<>> ELSE backwards[u \div divisor])
    IN  Reverse(backwards[ud])

itoaSigned(base, d) ==                     \* mutant: the sign of %u and %x, too
    IF d < 0 THEN <<MINUS>> \o Digits(base, (-d) % WORD) ELSE Digits(base, d % WORD)

itoa(base, d) ==
    IF base = DECIMAL /\ d < 0 THEN <<MINUS>> \o Digits(base, (-d) % WORD)
    ELSE Digits(base, d % WORD)
=============================================================================
