------------------------------ MODULE MCString ------------------------------
(***************************************************************************)
(* One call of a C library function on any memory of a few bytes, and the   *)
(* reference definitions its result is compared with.                       *)
(***************************************************************************)
EXTENDS Format

CONSTANTS
    CELLS,      \* bytes of memory; the last is zero
    Letters     \* what a byte may be, besides zero

SPACE == 32
Address == 0..(CELLS - 1)

\* A word holds any address, and -1 besides.
ASSUME MemoryAssumption == CELLS \in Nat \ {0} /\ CELLS < WORD /\ Letters \subseteq Nat

VARIABLES mem, before,   \* the memory, and as it was before the call
          call, result   \* the call with its arguments, and what it returned
vars == <<mem, before, call, result>>

Init ==
    /\ mem \in {m \in [Address -> Letters \cup {0, SPACE}] : m[CELLS - 1] = 0}
    /\ before = mem
    /\ call = [f |-> "none"]
    /\ result = <<>>

Returns(arguments, memory, value) ==
    /\ call' = arguments
    /\ mem' = memory
    /\ result' = value
    /\ UNCHANGED before

Split ==
    \E p \in Address :
        LET split == strsplt(mem, p, SPACE)
        IN  Returns([f |-> "strsplt", p |-> p], split.mem, split.out)

Compare ==
    \E p, q \in Address :
        Returns([f |-> "strcmp", p |-> p, q |-> q], mem, strcmp(From(mem, p), From(mem, q)))

CompareBytes ==
    \E p, q \in Address : \E n \in 0..(CELLS - (IF p > q THEN p ELSE q)) :
        Returns([f |-> "memcmp", p |-> p, q |-> q, n |-> n], mem, memcmp(mem, p, q, n))

Search ==
    \E p \in Address, skip \in 0..2 : \E f \in {"stridx", "strnidx"} :
        Returns([f |-> f, p |-> p, skip |-> skip], mem,
                IF f = "stridx" THEN stridx(mem, p, SPACE, skip)
                                ELSE strnidx(mem, p, SPACE, skip))

Find ==
    \E p \in Address, c \in {0, SPACE} :
        Returns([f |-> "strchr", p |-> p, c |-> c], mem, strchr(mem, p, c))

\* initrd_create_nodes: the name of a node, from the path in a tar header (with the
\* separator for '/').  tar ends the paths of directories, and no others, with one, and
\* writes none twice.
NodeName ==
    \E p \in Address :
        LET path == StringAt(mem, p)
            dir == path # <<>> /\ Last(path) = SPACE
            start == (strnidx(mem, p, SPACE, IF dir THEN 1 ELSE 0) + 1) % WORD
            room == [i \in 0..(2 * CELLS - 1) |-> IF i < CELLS THEN mem[i] ELSE 0]
            name == strcpy(room, CELLS, p + start)
        IN  /\ path \notin {<<>>, <<SPACE>>}
            /\ \A i \in 2..Len(path) : path[i] # SPACE \/ path[i - 1] # SPACE
            /\ Returns([f |-> "name", p |-> p], mem,
                       StringAt(IF dir THEN memrplc(name, CELLS, SPACE, 0, strlen(name, CELLS))
                                       ELSE name, CELLS))

\* kprintf("%+%d%s", d, string), with each of the conversions of a number; its buffer is
\* its own, so the memory does not matter.
Number ==
    /\ before = [i \in Address |-> 0]
    /\ \E base \in {DECIMAL, UNSIGNED, HEXADECIMAL}, string \in {<<>>, <<97>>, Null},
          d \in (-(WORD \div 2))..(WORD \div 2 - 1) :
          Returns([f |-> "kprintf", base |-> base, d |-> d, string |-> string], mem,
                  Formatted(<<PERCENT, 43, PERCENT, base, PERCENT, TEXT>>, <<d, string>>))

Next ==
    /\ call.f = "none"
    /\ \/ Split \/ Compare \/ CompareBytes \/ Search
       \/ Find \/ NodeName \/ Number

Spec == Init /\ [][Next]_vars

(***************************************************************************)
(* Properties.                                                              *)
(***************************************************************************)
Occurrences(p) == {i \in 0..(strlen(before, p) - 1) : before[p + i] = SPACE}

\* strsplt (string.c:14): the words, put together with the separator between them, are
\* the line, and no word holds a separator, but for one at the end of the line, which
\* stays with the last word; nothing else of the memory changes.
SplitsIntoWords ==
    call.f = "strsplt" =>
        LET line == StringAt(before, call.p)
            words == [i \in DOMAIN result |-> StringAt(mem, result[i])]
            joined == FoldLeft(LAMBDA s, w : s \o <<SPACE>> \o w, Head(words), Tail(words))
        IN  /\ (line = <<>>) <=> (words = <<>>)
            /\ words # <<>> =>
                  /\ \A i \in DOMAIN words : \A k \in DOMAIN words[i] :
                        words[i][k] = SPACE => i = Len(words) /\ k = Len(words[i])
                  /\ joined = line
            /\ \A a \in Address \ (call.p..End(before, call.p)) : mem[a] = before[a]

\* strcmp and memcmp (string.c:39, memory.c:86): zero for what is equal and for nothing
\* else, wherever the strings end or overlap.
EqualAsStrings ==
    /\ call.f = "strcmp" =>
          (result = 0 <=> StringAt(before, call.p) = StringAt(before, call.q))
    /\ call.f = "memcmp" =>
          (result = 0 <=> \A k \in 0..(call.n - 1) : before[call.p + k] = before[call.q + k])

\* stridx, strnidx and strchr: the occurrence that has `skip' others before it (behind it),
\* or the length (stridx), the largest word (strnidx, memory.c:50), null (strchr).
FindsOccurrence ==
    /\ call.f = "stridx" =>
          IF Cardinality(Occurrences(call.p)) <= call.skip
          THEN result = strlen(before, call.p)
          ELSE /\ result \in Occurrences(call.p)
               /\ Cardinality({i \in Occurrences(call.p) : i < result}) = call.skip
    /\ call.f = "strnidx" =>
          IF Cardinality(Occurrences(call.p)) <= call.skip
          THEN result = WORD - 1
          ELSE /\ result \in Occurrences(call.p)
               /\ Cardinality({i \in Occurrences(call.p) : i > result}) = call.skip
    /\ call.f = "strchr" =>
          LET at == {a \in Address : a >= call.p /\ before[a] = call.c}
          IN  IF result = -1 THEN \A a \in at : End(before, call.p) < a
              ELSE result \in at /\ \A a \in at : result <= a

\* initrd_create_nodes (initrd.c:125-134): the node of a member is named for the last
\* component of its path, also when the path has no separator to find and the index
\* strnidx returns wraps to the start.
NamesLastComponent ==
    call.f = "name" =>
        LET path == StringAt(before, call.p)
            whole == IF Last(path) = SPACE THEN Front(path) ELSE path
        IN  /\ IsSuffix(result, whole)
            /\ \A i \in DOMAIN result : result[i] # SPACE
            /\ result = whole \/ whole[Len(whole) - Len(result)] = SPACE

\* kprintf (debug.c:141) with itoa (string.c:132): the bullet, the number and the string
\* in turn, each conversion of its own argument.  Read in its base, the number is the argument
\* (%d) or the argument modulo the word (%u, %x), the most negative number too, and has no
\* leading zeros.
NumberReadsBack ==
    call.f = "kprintf" =>
        LET string == IF call.string = Null THEN NullText ELSE call.string
            number == SubSeq(result, Len(Bullet) + 1, Len(result) - Len(string))
            signed == number[1] = MINUS
            digits == IF signed THEN Tail(number) ELSE number
            Value(c) == IF c >= 97 THEN c - 97 + 10 ELSE c - 48
            read == FoldLeft(LAMBDA n, c : n * Divisor(call.base) + Value(c), 0, digits)
        IN  /\ result = Bullet \o number \o string
            /\ (IF signed THEN -read ELSE read) =
                  (IF call.base = DECIMAL THEN call.d ELSE call.d % WORD)
            /\ \A i \in DOMAIN digits : Value(digits[i]) \in 0..(Divisor(call.base) - 1)
            /\ digits[1] = 48 => Len(digits) = 1
=============================================================================
