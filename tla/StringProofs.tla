---------------------------- MODULE StringProofs ----------------------------
(***************************************************************************)
(* Theorems about the C library functions of CString and Format, for any    *)
(* memory, any bytes in it and any width of a word.                         *)
(***************************************************************************)
EXTENDS MCString, FiniteSetTheorems, SequenceTheorems, WellFoundedInduction, TLAPS

(***************************************************************************)
(* Induction, least elements and folds.                                     *)
(***************************************************************************)
(* A set of naturals has a least element. *)
LEMMA LeastOf ==
    ASSUME NEW S, S \subseteq Nat, S # {}
    PROVE  \E e \in S : \A x \in S : e <= x
<1>1. PICK e \in S : \A x \in S : ~(<<x, e>> \in OpToRel(<, Nat))
    BY NatLessThanWellFounded, WFMin
<1>2. \A x \in S : ~(x < e)
    BY <1>1, Zenon DEF OpToRel
<1> QED
    BY <1>2

(* Induction up to n, with the set of those for which it holds. *)
LEMMA UpTo ==
    ASSUME NEW n \in Nat, NEW P, 0 \in P, \A i \in 1..n : i - 1 \in P => i \in P
    PROVE  \A i \in 0..n : i \in P
<1> DEFINE Bad == {i \in 0..n : i \notin P}
<1>1. ASSUME Bad # {} PROVE FALSE
    <2>1. Bad \subseteq Nat
        OBVIOUS
    <2>2. PICK b \in Bad : \A x \in Bad : b <= x
        BY <1>1, <2>1, LeastOf
    <2>3. b \in 1..n /\ b - 1 \in 0..n /\ ~(b <= b - 1)
        BY <2>2
    <2>4. b - 1 \in P
        BY <2>2, <2>3
    <2> QED
        BY <2>2, <2>3, <2>4
<1> QED
    BY <1>1

(* The element that a fold takes first. *)
LEMMA MaxIs ==
    ASSUME NEW n \in Nat, NEW u, u \subseteq 1..n, u # {}
    PROVE  Max(u) \in u /\ (n \in u => Max(u) = n)
<1> DEFINE Below == {k \in 0..n : n - k \in u}
<1>1. Below \subseteq Nat /\ Below # {}
    <2>1. PICK x \in u : TRUE
        OBVIOUS
    <2>2. n - x \in 0..n /\ n - (n - x) = x
        BY <2>1
    <2>3. n - x \in Below
        BY <2>1, <2>2
    <2>4. Below \subseteq Nat
        OBVIOUS
    <2> HIDE DEF Below
    <2> QED
        BY <2>3, <2>4
<1>2. PICK b \in Below : \A k \in Below : b <= k
    BY <1>1, LeastOf
<1>3. ASSUME NEW x \in u PROVE n - b >= x
    <2>1. x \in 1..n /\ n - x \in 0..n /\ n - (n - x) = x
        OBVIOUS
    <2>2. n - x \in Below
        BY <2>1
    <2> QED
        BY <1>2, <2>1, <2>2
<1>4. \E e \in u : \A x \in u : e >= x
    BY <1>2, <1>3
<1> DEFINE m == Max(u)
<1>5. m \in u /\ \A x \in u : m >= x
    BY <1>4 DEF Max
<1> HIDE DEF m
<1>6. m \in u /\ (n \in u => m = n)
    BY <1>5
<1> QED
    BY <1>6 DEF m

(* The function that a fold recurses with, for a step that keeps to V. *)
Folded(h, V, base, n, step) ==
    /\ h \in [SUBSET (1..n) -> V]
    /\ \A u \in SUBSET (1..n) :
          h[u] = IF u = {} THEN base ELSE step[Max(u)][h[u \ {Max(u)}]]

LEMMA FoldExists ==
    ASSUME NEW V, NEW base \in V, NEW n \in Nat, NEW step \in [1..n -> [V -> V]]
    PROVE  \E h : Folded(h, V, base, n, step)
<1> DEFINE P == {m \in 0..n : \E h : Folded(h, V, base, m, step)}
<1>1. 0 \in P
    <2> DEFINE h == [u \in SUBSET (1..0) |-> base]
    <2>1. Folded(h, V, base, 0, step)
        BY DEF Folded
    <2> HIDE DEF h
    <2>2. 0 \in 0..n
        OBVIOUS
    <2> QED
        BY <2>1, <2>2
<1>2. ASSUME NEW m \in 1..n, m - 1 \in P PROVE m \in P
    <2>1. PICK h : Folded(h, V, base, m - 1, step)
        BY <1>2
    <2> DEFINE g == [u \in SUBSET (1..m) |-> IF m \in u THEN step[m][h[u \ {m}]] ELSE h[u]]
    <2>2. /\ h \in [SUBSET (1..(m - 1)) -> V]
          /\ \A u \in SUBSET (1..(m - 1)) :
                h[u] = IF u = {} THEN base ELSE step[Max(u)][h[u \ {Max(u)}]]
        BY <2>1 DEF Folded
    <2>3. m \in Nat /\ step[m] \in [V -> V]
        OBVIOUS
    <2>4. ASSUME NEW u \in SUBSET (1..m)
          PROVE  /\ g[u] \in V
                 /\ g[u] = IF u = {} THEN base ELSE step[Max(u)][g[u \ {Max(u)}]]
        <3>1. CASE m \in u
            <4>1. Max(u) = m /\ u # {}
                BY <2>3, <3>1, MaxIs
            <4>2. u \ {m} \in SUBSET (1..(m - 1)) /\ u \ {m} \in SUBSET (1..m) /\ m \notin u \ {m}
                OBVIOUS
            <4>3. g[u \ {m}] = h[u \ {m}] /\ h[u \ {m}] \in V
                BY <2>2, <4>2
            <4>4. g[u] = step[m][h[u \ {m}]]
                BY <3>1
            <4>5. g[u] \in V
                BY <2>3, <4>3, <4>4
            <4> HIDE DEF g
            <4> QED
                BY <4>1, <4>3, <4>4, <4>5
        <3>2. CASE m \notin u
            <4>1. u \in SUBSET (1..(m - 1))
                BY <3>2
            <4>2. g[u] = h[u] /\ h[u] \in V
                BY <2>2, <3>2, <4>1
            <4>3. u # {} => g[u \ {Max(u)}] = h[u \ {Max(u)}]
                <5>1. u \ {Max(u)} \in SUBSET (1..m) /\ m \notin u \ {Max(u)}
                    BY <3>2
                <5> QED
                    BY <5>1
            <4> HIDE DEF g
            <4> QED
                BY <2>2, <4>1, <4>2, <4>3
        <3> QED
            BY <3>1, <3>2
    <2>5. Folded(g, V, base, m, step)
        <3>1. g \in [SUBSET (1..m) -> V]
            BY <2>4
        <3> HIDE DEF g
        <3> QED
            BY <2>4, <3>1 DEF Folded
    <2> HIDE DEF g
    <2>6. m \in 0..n
        OBVIOUS
    <2> QED
        BY <2>5, <2>6
<1>3. n \in P
    <2> HIDE DEF P
    <2>1. n \in 0..n
        OBVIOUS
    <2> QED
        BY <1>1, <1>2, <2>1, UpTo
<1> QED
    BY <1>3

(* A fold's states, from the function that it recurses with. *)
FoldRun(g, V, base, n, step) ==
    /\ g \in [0..n -> V] /\ g[0] = base
    /\ \A i \in 1..n : g[i] = step[i][g[i - 1]]

FoldsWhileIn(iter, V, base, n, step) ==
    /\ iter[{}] = base
    /\ \A u \in SUBSET (1..n) : u # {} /\ iter[u \ {Max(u)}] \in V =>
          iter[u] = step[Max(u)][iter[u \ {Max(u)}]]

LEMMA FoldRuns ==
    ASSUME NEW V, NEW n \in Nat, NEW base \in V, NEW step \in [1..n -> [V -> V]], NEW iter,
           FoldsWhileIn(iter, V, base, n, step)
    PROVE  \E g : FoldRun(g, V, base, n, step) /\ g[n] = iter[1..n]
<1>0. /\ iter[{}] = base
      /\ \A u \in SUBSET (1..n) : u # {} /\ iter[u \ {Max(u)}] \in V =>
            iter[u] = step[Max(u)][iter[u \ {Max(u)}]]
    BY DEF FoldsWhileIn
<1> DEFINE g == [i \in 0..n |-> iter[1..i]]
<1>1. g[0] = base
    <2>1. 1..0 = {} /\ 0 \in 0..n
        OBVIOUS
    <2> QED
        BY <1>0, <2>1
<1>2. ASSUME NEW i \in 1..n, g[i - 1] \in V
      PROVE  g[i] = step[i][g[i - 1]] /\ g[i] \in V
    <2> HIDE DEF g
    <2>0. i \in Nat /\ i >= 1 /\ i <= n /\ n \in Nat
        OBVIOUS
    <2>1. /\ i \in Nat /\ 1..i \in SUBSET (1..n) /\ i \in 1..i /\ 1..i # {}
          /\ i \in 0..n /\ i - 1 \in 0..n
        <3>1. \A j \in 1..i : j \in 1..n
            BY <2>0
        <3>2. i \in 1..i /\ i \in 0..n /\ i - 1 \in 0..n
            BY <2>0
        <3> QED
            BY <2>0, <3>1, <3>2
    <2>2. Max(1..i) = i
        BY <2>1, MaxIs
    <2>3. (1..i) \ {i} = 1..(i - 1)
        BY <2>1
    <2>4. g[i] = iter[1..i] /\ g[i - 1] = iter[1..(i - 1)]
        BY <2>1 DEF g
    <2>5. iter[1..i] = step[i][iter[1..(i - 1)]]
        BY <1>0, <1>2, <2>1, <2>2, <2>3, <2>4
    <2>6. step[i] \in [V -> V]
        OBVIOUS
    <2> QED
        BY <1>2, <2>4, <2>5, <2>6
<1>3. g \in [0..n -> V]
    <2> DEFINE P == {i \in 0..n : g[i] \in V}
    <2>1. 0 \in P
        BY <1>1
    <2>2. ASSUME NEW i \in 1..n, i - 1 \in P PROVE i \in P
        <3>1. i - 1 \in 0..n /\ i \in 0..n
            OBVIOUS
        <3>2. g[i - 1] \in V
            BY <2>2
        <3>3. g[i] \in V
            BY <1>2, <3>2
        <3> QED
            BY <3>1, <3>3
    <2>3. \A i \in 0..n : i \in P
        <3> HIDE DEF P
        <3> QED
            BY <2>1, <2>2, UpTo
    <2> QED
        BY <2>3
<1>4. n \in 0..n
    OBVIOUS
<1>5. g[n] = iter[1..n]
    BY <1>4
<1> HIDE DEF g
<1>6. ASSUME NEW i \in 1..n PROVE g[i] = step[i][g[i - 1]]
    <2>1. i - 1 \in 0..n
        OBVIOUS
    <2> QED
        BY <1>2, <1>3, <2>1
<1> QED
    BY <1>1, <1>3, <1>5, <1>6 DEF FoldRun

(* Two runs that start alike, and go on alike, are alike. *)
GoAlike(g, h, n) ==
    /\ g[0] = h[0]
    /\ \A i \in 1..n : g[i - 1] = h[i - 1] => g[i] = h[i]

LEMMA RunsAgree ==
    ASSUME NEW n \in Nat, NEW g, NEW h, GoAlike(g, h, n)
    PROVE  \A i \in 0..n : g[i] = h[i]
<1> DEFINE P == {i \in 0..n : g[i] = h[i]}
<1>1. 0 \in P
    BY DEF GoAlike
<1>2. ASSUME NEW i \in 1..n, i - 1 \in P PROVE i \in P
    BY <1>2 DEF GoAlike
<1>3. \A i \in 0..n : i \in P
    <2> HIDE DEF P
    <2> QED
        BY <1>1, <1>2, UpTo
<1> QED
    BY <1>3

(* The least element is the one that is below the others. *)
LEMMA MinIs ==
    ASSUME NEW S, S \subseteq Nat, NEW e \in S, \A x \in S : e <= x
    PROVE  Min(S) = e
<1> DEFINE m == Min(S)
<1>1. m \in S /\ \A x \in S : m <= x
    BY DEF Min
<1> HIDE DEF m
<1>2. m <= e /\ e <= m /\ m \in Nat /\ e \in Nat
    BY <1>1
<1>3. m = e
    BY <1>2
<1> QED
    BY <1>3 DEF m

LEMMA Divides ==
    ASSUME NEW a \in Int, NEW b \in Nat \ {0}
    PROVE  a \div b \in Int /\ a % b \in 0..(b - 1) /\ a % b = a - (a \div b) * b
<1>1. a \div b \in Int
    OBVIOUS
<1>2. a % b \in 0..(b - 1)
    OBVIOUS
<1>3. a % b = a - (a \div b) * b
    OBVIOUS
<1> QED
    BY <1>1, <1>2, <1>3

(***************************************************************************)
(* Memories and the strings in them.                                        *)
(***************************************************************************)
(* A memory that ends in a zero, and a string in it from p up to its zero at k. *)
IsMemory(m, top) == top \in Nat /\ m \in [0..top -> Nat] /\ m[top] = 0

Ends(m, top, p, k) ==
    /\ p \in 0..top /\ k \in p..top
    /\ m[k] = 0 /\ \A i \in p..(k - 1) : m[i] # 0

LEMMA HasEnd ==
    ASSUME NEW m, NEW top, IsMemory(m, top), NEW p \in 0..top
    PROVE  \E k : Ends(m, top, p, k)
<1> DEFINE Zeros == {q \in p..top : m[q] = 0}
<1>0. top \in Nat /\ m[top] = 0
    BY DEF IsMemory
<1>1. top \in Zeros
    BY <1>0
<1>2. Zeros \subseteq Nat
    OBVIOUS
<1>3. PICK k \in Zeros : \A x \in Zeros : k <= x
    <2> HIDE DEF Zeros
    <2> QED
        BY <1>1, <1>2, LeastOf
<1>4. ASSUME NEW i \in p..(k - 1) PROVE m[i] # 0
    <2>1. i \in p..top /\ ~(k <= i)
        BY <1>0, <1>3
    <2> QED
        BY <1>3, <2>1
<1> QED
    BY <1>0, <1>3, <1>4 DEF Ends

LEMMA StringIs ==
    ASSUME NEW m, NEW top, IsMemory(m, top), NEW p, NEW k, Ends(m, top, p, k)
    PROVE  /\ strlen(m, p) = k - p
           /\ StringAt(m, p) \in Seq(Nat) /\ Len(StringAt(m, p)) = k - p
           /\ \A i \in 1..(k - p) : StringAt(m, p)[i] = m[p + i - 1]
<1>1. /\ top \in Nat /\ m \in [0..top -> Nat] /\ p \in 0..top /\ k \in p..top
      /\ m[k] = 0 /\ \A i \in p..(k - 1) : m[i] # 0
    BY DEF IsMemory, Ends
<1> DEFINE Zeros == {q \in DOMAIN m : q >= p /\ m[q] = 0}
<1>2. k \in Zeros /\ Zeros \subseteq Nat
    BY <1>1
<1>3. ASSUME NEW q \in Zeros PROVE k <= q
    <2>1. q \in 0..top /\ q >= p /\ m[q] = 0
        BY <1>1
    <2>2. q \notin p..(k - 1)
        BY <1>1, <2>1
    <2> QED
        BY <1>1, <2>1, <2>2
<1>4. Min(Zeros) = k
    <2> HIDE DEF Zeros
    <2> QED
        BY <1>2, <1>3, MinIs
<1>5. strlen(m, p) = k - p
    BY <1>4 DEF strlen, End
<1>6. PICK n : n = k - p
    OBVIOUS
<1>7. n \in Nat /\ \A i \in 1..n : m[p + i - 1] \in Nat
    BY <1>1, <1>6
<1>8. StringAt(m, p) = [i \in 1..n |-> m[p + i - 1]]
    BY <1>5, <1>6 DEF StringAt
<1>9. StringAt(m, p) \in [1..n -> Nat]
    BY <1>7, <1>8
<1>10. StringAt(m, p) \in Seq(Nat) /\ Len(StringAt(m, p)) = n
    BY <1>7, <1>9
<1> QED
    BY <1>5, <1>6, <1>8, <1>10

(* The invariant: the call works on the memory as it was before. *)
Memory ==
    /\ IsMemory(before, CELLS - 1)
    /\ call.f = "none" => mem = before

LEMMA Cells == CELLS - 1 \in Nat /\ Address = 0..(CELLS - 1) /\ CELLS \in Nat \ {0}
BY MemoryAssumption DEF Address

(* Every call says which it is. *)
LEMMA CallsAre ==
    Next =>
        \/ Split /\ call'.f = "strsplt"
        \/ Compare /\ call'.f = "strcmp"
        \/ CompareBytes /\ call'.f = "memcmp"
        \/ Search /\ call'.f \in {"stridx", "strnidx"}
        \/ Find /\ call'.f = "strchr"
        \/ NodeName /\ call'.f = "name"
        \/ Number /\ call'.f = "kprintf"
<1>1. CASE Split
    BY <1>1 DEF Split, Returns
<1>2. CASE Compare
    BY <1>2 DEF Compare, Returns
<1>3. CASE CompareBytes
    BY <1>3 DEF CompareBytes, Returns
<1>4. CASE Search
    BY <1>4 DEF Search, Returns
<1>5. CASE Find
    BY <1>5 DEF Find, Returns
<1>6. CASE NodeName
    <2>1. PICK p \in Address : call' = [f |-> "name", p |-> p]
        BY <1>6, Zenon DEF NodeName, Returns
    <2> QED
        BY <1>6, <2>1
<1>7. CASE Number
    <2>1. PICK base, d, string :
              call' = [f |-> "kprintf", base |-> base, d |-> d, string |-> string]
        BY <1>7, Zenon DEF Number, Returns
    <2> QED
        BY <1>7, <2>1
<1> QED
    BY <1>1, <1>2, <1>3, <1>4, <1>5, <1>6, <1>7 DEF Next

LEMMA MemoryKept == Spec => []Memory
<1>1. Init => Memory
    <2> SUFFICES ASSUME Init PROVE Memory
        OBVIOUS
    <2>1. /\ mem \in [Address -> Letters \cup {0, SPACE}] /\ mem[CELLS - 1] = 0
          /\ before = mem
        BY DEF Init
    <2>2. Letters \cup {0, SPACE} \subseteq Nat
        BY MemoryAssumption DEF SPACE
    <2>3. mem \in [0..(CELLS - 1) -> Nat]
        BY <2>1, <2>2, Cells
    <2> QED
        BY <2>1, <2>3, Cells DEF Memory, IsMemory
<1>2. Memory /\ [Next]_vars => Memory'
    <2> SUFFICES ASSUME Memory, [Next]_vars PROVE Memory'
        OBVIOUS
    <2>1. before' = before
        BY Zenon DEF Next, vars, Split, Compare, CompareBytes, Search, Find, NodeName, Number, Returns
    <2>2. IsMemory(before', CELLS - 1)
        BY <2>1 DEF Memory
    <2>3. CASE Next
        <3>1. call'.f # "none"
            BY <2>3, CallsAre
        <3> QED
            BY <2>2, <3>1 DEF Memory
    <2>4. CASE UNCHANGED vars
        BY <2>2, <2>4 DEF Memory, vars
    <2> QED
        BY <2>3, <2>4
<1> QED
    BY <1>1, <1>2, PTL DEF Spec

(***************************************************************************)
(* Comparing.                                                               *)
(***************************************************************************)
LEMMA StrcmpIs ==
    ASSUME NEW m, NEW top, IsMemory(m, top), NEW p \in 0..top, NEW q \in 0..top
    PROVE  strcmp(From(m, p), From(m, q)) = 0 <=> StringAt(m, p) = StringAt(m, q)
<1>1. top \in Nat /\ m \in [0..top -> Nat] /\ m[top] = 0
    BY DEF IsMemory
<1> DEFINE rest == top - (IF p > q THEN p ELSE q)
           sp == From(m, p)
           sq == From(m, q)
           Decide == {k \in DOMAIN sp \cap DOMAIN sq : sp[k] = 0 \/ sq[k] = 0 \/ sp[k] # sq[k]}
           i == Min(Decide)
<1>2. rest \in Nat /\ p + rest \in 0..top /\ q + rest \in 0..top /\ (p + rest = top \/ q + rest = top)
    BY <1>1
<1>3. ASSUME NEW r \in 0..top
      PROVE  DOMAIN From(m, r) = 0..(top - r) /\ \A k \in 0..(top - r) : From(m, r)[k] = m[r + k]
    <2>1. {a - r : a \in {b \in DOMAIN m : b >= r}} = 0..(top - r)
        <3>1. ASSUME NEW k \in 0..(top - r) PROVE k \in {a - r : a \in {b \in DOMAIN m : b >= r}}
            <4>1. k + r \in DOMAIN m /\ k + r >= r /\ k = (k + r) - r
                BY <1>1
            <4> QED
                BY <4>1
        <3>2. ASSUME NEW k \in {a - r : a \in {b \in DOMAIN m : b >= r}} PROVE k \in 0..(top - r)
            BY <1>1
        <3> QED
            BY <3>1, <3>2
    <2> QED
        BY <2>1 DEF From
<1>a. DOMAIN sp = 0..(top - p) /\ \A k \in 0..(top - p) : sp[k] = m[p + k]
    BY <1>3
<1>b. DOMAIN sq = 0..(top - q) /\ \A k \in 0..(top - q) : sq[k] = m[q + k]
    BY <1>3
<1>c. (0..(top - p)) \cap (0..(top - q)) = 0..rest
    BY <1>1
<1>4. DOMAIN sp \cap DOMAIN sq = 0..rest
    BY <1>a, <1>b, <1>c
<1>5. ASSUME NEW k \in 0..rest PROVE sp[k] = m[p + k] /\ sq[k] = m[q + k]
    <2>1. k \in 0..(top - p) /\ k \in 0..(top - q)
        BY <1>1
    <2> QED
        BY <1>a, <1>b, <2>1
<1> HIDE DEF sp, sq
<1>6. Decide = {k \in 0..rest : m[p + k] = 0 \/ m[q + k] = 0 \/ m[p + k] # m[q + k]}
    BY <1>4, <1>5
<1>7. rest \in Decide
    <2>1. rest \in 0..rest
        BY <1>2
    <2>2. m[p + rest] = 0 \/ m[q + rest] = 0
        BY <1>1, <1>2
    <2> HIDE DEF rest
    <2> QED
        BY <1>6, <2>1, <2>2
<1>8. i \in Decide /\ \A k \in Decide : i <= k
    <2>1. Decide \subseteq Nat
        BY <1>6
    <2>2. PICK e \in Decide : \A k \in Decide : e <= k
        <3> HIDE DEF Decide
        <3> QED
            BY <1>7, <2>1, LeastOf
    <2>3. i = e
        <3> HIDE DEF Decide
        <3> QED
            BY <2>1, <2>2, MinIs
    <2> QED
        BY <2>2, <2>3
<1>9. strcmp(sp, sq) = IF sp[i] = 0 /\ sq[i] = 0 THEN 0 ELSE 1
    BY DEF strcmp
<1> HIDE DEF i, Decide, rest
<1>10. /\ i \in 0..rest /\ (m[p + i] = 0 \/ m[q + i] = 0 \/ m[p + i] # m[q + i])
       /\ \A k \in 0..(i - 1) : m[p + k] # 0 /\ m[q + k] # 0 /\ m[p + k] = m[q + k]
    BY <1>2, <1>6, <1>8
<1>11. strcmp(sp, sq) = 0 <=> m[p + i] = 0 /\ m[q + i] = 0
    BY <1>5, <1>9, <1>10
<1>12. i \in Nat /\ p + i \in p..top /\ q + i \in q..top
    BY <1>1, <1>2, <1>10
<1>13. CASE m[p + i] = 0 /\ m[q + i] = 0
    <2>1. Ends(m, top, p, p + i)
        <3>1. ASSUME NEW a \in p..(p + i - 1) PROVE m[a] # 0
            <4>1. a - p \in 0..(i - 1) /\ p + (a - p) = a
                BY <1>12
            <4> QED
                BY <1>10, <4>1
        <3> QED
            BY <1>12, <1>13, <3>1 DEF Ends
    <2>2. Ends(m, top, q, q + i)
        <3>1. ASSUME NEW a \in q..(q + i - 1) PROVE m[a] # 0
            <4>1. a - q \in 0..(i - 1) /\ q + (a - q) = a
                BY <1>12
            <4> QED
                BY <1>10, <4>1
        <3> QED
            BY <1>12, <1>13, <3>1 DEF Ends
    <2>3. strlen(m, p) = i /\ strlen(m, q) = i
        BY <1>12, <2>1, <2>2, StringIs
    <2>4. ASSUME NEW j \in 1..i PROVE m[p + j - 1] = m[q + j - 1]
        <3>1. j - 1 \in 0..(i - 1) /\ p + (j - 1) = p + j - 1 /\ q + (j - 1) = q + j - 1
            BY <1>12
        <3> QED
            BY <1>10, <3>1
    <2>5. StringAt(m, p) = StringAt(m, q)
        BY <2>3, <2>4 DEF StringAt
    <2> QED
        BY <1>11, <1>13, <2>5 DEF sp, sq
<1>14. CASE ~(m[p + i] = 0 /\ m[q + i] = 0)
    <2>1. ASSUME StringAt(m, p) = StringAt(m, q) PROVE FALSE
        <3>1. PICK kp : Ends(m, top, p, kp)
            BY HasEnd
        <3>2. PICK kq : Ends(m, top, q, kq)
            BY HasEnd
        <3>3. /\ Len(StringAt(m, p)) = kp - p
              /\ \A j \in 1..(kp - p) : StringAt(m, p)[j] = m[p + j - 1]
            BY <3>1, StringIs
        <3>4. /\ Len(StringAt(m, q)) = kq - q
              /\ \A j \in 1..(kq - q) : StringAt(m, q)[j] = m[q + j - 1]
            BY <3>2, StringIs
        <3>5. /\ kp \in p..top /\ m[kp] = 0 /\ \A a \in p..(kp - 1) : m[a] # 0
              /\ kq \in q..top /\ m[kq] = 0 /\ \A a \in q..(kq - 1) : m[a] # 0
            BY <3>1, <3>2 DEF Ends
        <3>6. PICK l : l = kp - p /\ l = kq - q
            BY <2>1, <3>3, <3>4
        <3>7. l \in Nat /\ kp = p + l /\ kq = q + l /\ l \in 0..rest
            BY <1>1, <3>5, <3>6 DEF rest
        <3>8. ~(l <= i - 1)
            BY <1>10, <1>12, <3>5, <3>7
        <3>9. CASE l = i
            BY <1>14, <3>5, <3>7, <3>9
        <3>10. CASE l > i
            <4>1. i + 1 \in 1..l /\ p + (i + 1) - 1 = p + i /\ q + (i + 1) - 1 = q + i
                BY <1>12, <3>7, <3>10
            <4>2. m[p + i] = m[q + i]
                BY <2>1, <3>3, <3>4, <3>6, <4>1
            <4>3. p + i \in p..(kp - 1)
                BY <1>12, <3>7, <3>10
            <4>4. m[p + i] # 0
                BY <3>5, <4>3
            <4> QED
                BY <1>10, <4>2, <4>4
        <3> QED
            BY <1>12, <3>7, <3>8, <3>9, <3>10
    <2> QED
        BY <1>11, <1>14, <2>1 DEF sp, sq
<1> QED
    BY <1>13, <1>14

SameBytes(m, p, q, n) == \A k \in 0..(n - 1) : m[p + k] = m[q + k]

LEMMA MemcmpIs ==
    ASSUME NEW m, NEW top, IsMemory(m, top), NEW p \in 0..top, NEW q \in 0..top,
           NEW n \in Nat, p + n <= top + 1, q + n <= top + 1
    PROVE  memcmp(m, p, q, n) = 0 <=> SameBytes(m, p, q, n)
<1> USE DEF SameBytes
<1>1. top \in Nat /\ m \in [0..top -> Nat]
    BY DEF IsMemory
<1> DEFINE Differ == {k \in 0..(n - 1) : m[p + k] # m[q + k]}
           i == Min(Differ)
<1>2. memcmp(m, p, q, n) = IF Differ = {} THEN 0 ELSE m[p + i] - m[q + i]
    BY DEF memcmp
<1>3. CASE Differ = {}
    BY <1>2, <1>3
<1>4. CASE Differ # {}
    <2>1. Differ \subseteq Nat
        OBVIOUS
    <2>2. i \in Differ
        <3> HIDE DEF Differ
        <3>1. PICK e \in Differ : \A k \in Differ : e <= k
            BY <1>4, <2>1, LeastOf
        <3> QED
            BY <2>1, <3>1, MinIs
    <2> HIDE DEF i
    <2>3. i \in 0..(n - 1) /\ m[p + i] # m[q + i]
        BY <2>2
    <2>4. p + i \in 0..top /\ q + i \in 0..top
        BY <1>1, <2>3
    <2>5. m[p + i] \in Nat /\ m[q + i] \in Nat
        BY <1>1, <2>4
    <2>6. m[p + i] - m[q + i] # 0
        BY <2>3, <2>5
    <2> QED
        BY <1>2, <1>4, <2>3, <2>6
<1> QED
    BY <1>3, <1>4

(* What a comparison says, of the memory that it was called on. *)
LEMMA ComparedStep == Memory /\ EqualAsStrings /\ [Next]_vars => EqualAsStrings'
<1> SUFFICES ASSUME Memory, EqualAsStrings, [Next]_vars PROVE EqualAsStrings'
    OBVIOUS
<1>0. IsMemory(before, CELLS - 1) /\ (call.f = "none" => mem = before)
    BY DEF Memory
<1>1. CASE UNCHANGED vars
    BY <1>1 DEF EqualAsStrings, vars, StringAt, strlen, End
<1>2. CASE Next
    <2>1. mem = before
        BY <1>0, <1>2 DEF Next
    <2>2. CASE Compare
        <3>1. PICK p \in Address, q \in Address :
                  /\ call' = [f |-> "strcmp", p |-> p, q |-> q]
                  /\ result' = strcmp(From(before, p), From(before, q))
                  /\ before' = before
            BY <2>1, <2>2 DEF Compare, Returns
        <3>2. call'.f = "strcmp" /\ call'.p = p /\ call'.q = q
            BY <3>1
        <3>3. result' = 0 <=> StringAt(before, p) = StringAt(before, q)
            BY <1>0, <3>1, Cells, StrcmpIs
        <3>4. call'.f # "memcmp"
            BY <3>2
        <3> QED
            BY <3>1, <3>2, <3>3, <3>4, Zenon DEF EqualAsStrings
    <2>3. CASE CompareBytes
        <3>0. PICK p \in Address, q \in Address :
                  \E n \in 0..(CELLS - (IF p > q THEN p ELSE q)) :
                      Returns([f |-> "memcmp", p |-> p, q |-> q, n |-> n], mem, memcmp(mem, p, q, n))
            BY <2>3 DEF CompareBytes
        <3>1. PICK n \in 0..(CELLS - (IF p > q THEN p ELSE q)) :
                  /\ call' = [f |-> "memcmp", p |-> p, q |-> q, n |-> n]
                  /\ result' = memcmp(before, p, q, n)
                  /\ before' = before
            BY <2>1, <3>0 DEF Returns
        <3>2. call'.f = "memcmp" /\ call'.p = p /\ call'.q = q /\ call'.n = n
            BY <3>1
        <3>3. n \in Nat /\ p + n <= CELLS - 1 + 1 /\ q + n <= CELLS - 1 + 1
            BY Cells
        <3>a. PICK top : top = CELLS - 1 /\ top \in Nat
            BY Cells
        <3>b. /\ IsMemory(before, top) /\ p \in 0..top /\ q \in 0..top
              /\ n \in Nat /\ p + n <= top + 1 /\ q + n <= top + 1
            BY <1>0, <3>3, <3>a, Cells
        <3>c. memcmp(before, p, q, n) = 0 <=> SameBytes(before, p, q, n)
            BY <3>b, MemcmpIs
        <3>4. result' = 0 <=> \A k \in 0..(n - 1) : before[p + k] = before[q + k]
            BY <3>1, <3>c DEF SameBytes
        <3>5. call'.f # "strcmp"
            BY <3>2
        <3> QED
            BY <3>1, <3>2, <3>4, <3>5, Zenon DEF EqualAsStrings
    <2>4. CASE call'.f \notin {"strcmp", "memcmp"}
        BY <2>4 DEF EqualAsStrings
    <2>5. \/ Compare \/ CompareBytes \/ call'.f \notin {"strcmp", "memcmp"}
        BY <1>2, CallsAre
    <2> QED
        BY <2>2, <2>3, <2>4, <2>5
<1> QED
    BY <1>1, <1>2

(* strcmp and memcmp are zero for what is equal and for nothing else. *)
THEOREM ComparesContents == Spec => []EqualAsStrings
<1>1. Init => EqualAsStrings
    BY DEF Init, EqualAsStrings
<1> QED
    BY <1>1, MemoryKept, ComparedStep, PTL DEF Spec

(***************************************************************************)
(* Searching.                                                               *)
(***************************************************************************)
Looked(m, value, s, i) ==
    IF s.found \/ m[i] # value THEN s
    ELSE IF s.skip > 0 THEN [s EXCEPT !.skip = @ - 1]
    ELSE [s EXCEPT !.found = TRUE, !.at = i]

Scans == [found : BOOLEAN, skip : Int, at : Int]

Scan(m, value, base, order) ==
    LET Look(s, i) == Looked(m, value, s, i) IN FoldLeft(Look, base, order)

LEMMA LookedTyped ==
    ASSUME NEW m, NEW value, NEW s \in Scans, NEW i \in Int
    PROVE  Looked(m, value, s, i) \in Scans
<1>1. CASE s.found \/ m[i] # value
    BY <1>1, Zenon DEF Looked
<1>2. CASE ~(s.found \/ m[i] # value) /\ s.skip > 0
    <2>1. Looked(m, value, s, i) = [s EXCEPT !.skip = @ - 1]
        BY <1>2, Zenon DEF Looked
    <2> QED
        BY <2>1 DEF Scans
<1>3. CASE ~(s.found \/ m[i] # value) /\ ~(s.skip > 0)
    <2>1. Looked(m, value, s, i) = [s EXCEPT !.found = TRUE, !.at = i]
        BY <1>3, Zenon DEF Looked
    <2> QED
        BY <2>1 DEF Scans
<1> QED
    BY <1>1, <1>2, <1>3

(* The states of the loop, an address at a time. *)
LooksRun(g, m, value, base, order) ==
    /\ g[0] = base
    /\ \A i \in 1..Len(order) : g[i] = Looked(m, value, g[i - 1], order[i])

LEMMA ScanRuns ==
    ASSUME NEW m, NEW value, NEW base \in Scans, NEW order \in Seq(Int)
    PROVE  \E g : /\ LooksRun(g, m, value, base, order) /\ g \in [0..Len(order) -> Scans]
                 /\ Scan(m, value, base, order) = g[Len(order)]
<1> DEFINE n == Len(order)
           V == Scans
           Unfolded(h) == [u \in SUBSET (DOMAIN order) |->
                           IF u = {} THEN base
                           ELSE Looked(m, value, h[u \ {Max(u)}], order[Max(u)])]
           iter == CHOOSE h : h = Unfolded(h)
           step == [i \in 1..n |-> [v \in V |-> Looked(m, value, v, order[i])]]
<1>1. n \in Nat /\ DOMAIN order = 1..n /\ \A i \in 1..n : order[i] \in Int
    OBVIOUS
<1>2. Scan(m, value, base, order) = iter[DOMAIN order]
    BY Zenon DEF Scan, FoldLeft, MapThenFoldSet
<1> HIDE DEF n
<1>3. step \in [1..n -> [V -> V]]
    <2>1. \A i \in 1..n : [v \in V |-> Looked(m, value, v, order[i])] \in [V -> V]
        BY <1>1, LookedTyped
    <2> QED
        BY <2>1
<1>4. \A i \in 1..n, v \in V : step[i][v] = Looked(m, value, v, order[i])
    OBVIOUS
<1> HIDE DEF step, V
<1>5. base \in V
    BY DEF V
<1>6. PICK h : Folded(h, V, base, n, step)
    BY <1>1, <1>3, <1>5, FoldExists
<1>7. h = Unfolded(h)
    <2>1. /\ h \in [SUBSET (1..n) -> V]
          /\ \A u \in SUBSET (1..n) : h[u] = IF u = {} THEN base ELSE step[Max(u)][h[u \ {Max(u)}]]
        BY <1>6 DEF Folded
    <2>2. ASSUME NEW u \in SUBSET (1..n)
          PROVE  (IF u = {} THEN base
                  ELSE Looked(m, value, h[u \ {Max(u)}], order[Max(u)])) = h[u]
        <3>1. CASE u = {}
            BY <2>1, <3>1
        <3>2. CASE u # {}
            <4>1. Max(u) \in 1..n
                BY <1>1, <3>2, MaxIs
            <4>2. h[u \ {Max(u)}] \in V
                BY <2>1
            <4> QED
                BY <1>4, <2>1, <3>2, <4>1, <4>2
        <3> QED
            BY <3>1, <3>2
    <2>3. h = [u \in SUBSET (1..n) |-> h[u]]
        BY <2>1
    <2>4. Unfolded(h) = [u \in SUBSET (1..n) |-> h[u]]
        BY <1>1, <2>2
    <2> QED
        BY <2>3, <2>4
<1>8. iter = Unfolded(iter)
    <2> HIDE DEF Unfolded
    <2> QED
        BY <1>7
<1>9. \A u \in SUBSET (1..n) :
          iter[u] = IF u = {} THEN base
                    ELSE Looked(m, value, iter[u \ {Max(u)}], order[Max(u)])
    <2> HIDE DEF iter
    <2> QED
        BY <1>1, <1>8
<1> HIDE DEF iter
<1>10. FoldsWhileIn(iter, V, base, n, step)
    <2>1. iter[{}] = base
        BY <1>9
    <2>2. ASSUME NEW u \in SUBSET (1..n), u # {}, iter[u \ {Max(u)}] \in V
          PROVE  iter[u] = step[Max(u)][iter[u \ {Max(u)}]]
        <3>1. PICK w : w = iter[u \ {Max(u)}]
            OBVIOUS
        <3>2. Max(u) \in 1..n
            BY <1>1, <2>2, MaxIs
        <3>3. iter[u] = Looked(m, value, w, order[Max(u)])
            BY <1>9, <2>2, <3>1
        <3>4. step[Max(u)][w] = Looked(m, value, w, order[Max(u)])
            BY <1>4, <2>2, <3>1, <3>2
        <3> QED
            BY <3>1, <3>3, <3>4
    <2> QED
        BY <2>1, <2>2 DEF FoldsWhileIn
<1>11. PICK g : FoldRun(g, V, base, n, step) /\ g[n] = iter[1..n]
    <2> HIDE DEF Unfolded
    <2>1. n \in Nat
        BY <1>1
    <2>2. PICK V1, step1, iter1, n1 : V1 = V /\ step1 = step /\ iter1 = iter /\ n1 = n
        OBVIOUS
    <2>3. base \in V1 /\ n1 \in Nat /\ FoldsWhileIn(iter1, V1, base, n1, step1)
        BY <1>5, <1>10, <2>1, <2>2
    <2>4. step1 \in [1..n1 -> [V1 -> V1]]
        BY <1>3, <2>2
    <2>5. \E f : FoldRun(f, V1, base, n1, step1) /\ f[n1] = iter1[1..n1]
        BY <2>3, <2>4, FoldRuns
    <2> QED
        BY <2>2, <2>5
<1>12. /\ g \in [0..n -> V] /\ g[0] = base
       /\ \A i \in 1..n : g[i] = step[i][g[i - 1]]
    BY <1>11 DEF FoldRun
<1>13. ASSUME NEW i \in 1..n PROVE g[i] = Looked(m, value, g[i - 1], order[i])
    <2>1. i - 1 \in 0..n
        BY <1>1
    <2>2. g[i - 1] \in V
        BY <1>12, <2>1
    <2> QED
        BY <1>4, <1>12, <2>2
<1>14. Scan(m, value, base, order) = g[n]
    BY <1>1, <1>2, <1>11
<1> QED
    BY <1>12, <1>13, <1>14 DEF LooksRun, n, V

(* Addresses in some order, as offsets from in, and those looked at so far. *)
Ordered(order, in, idx, passed, n) ==
    /\ order \in Seq(Int) /\ Len(order) = n
    /\ passed[0] = {}
    /\ \A k \in 1..n : /\ idx[k] \in Int /\ order[k] = in + idx[k]
                       /\ idx[k] \notin passed[k - 1]
                       /\ passed[k] = passed[k - 1] \cup {idx[k]}

Hits(m, value, in, set) == {x \in set : m[in + x] = value}

Found(at, m, value, in, skip, idx, passed, n) ==
    \E k \in 1..n : /\ idx[k] \in Hits(m, value, in, passed[n]) /\ at = in + idx[k]
                    /\ Cardinality(Hits(m, value, in, passed[k - 1])) = skip

Outcome(at, m, value, in, skip, none, idx, passed, n) ==
    IF Cardinality(Hits(m, value, in, passed[n])) <= skip THEN at = none
    ELSE Found(at, m, value, in, skip, idx, passed, n)

ScanState(s, m, value, in, skip, none, idx, passed, n) ==
    LET count == Cardinality(Hits(m, value, in, passed[n]))
    IN  /\ IsFiniteSet(Hits(m, value, in, passed[n])) /\ count \in Nat
        /\ s \in Scans
        /\ count <= skip => s.found = FALSE /\ s.skip = skip - count /\ s.at = none
        /\ count > skip => s.found = TRUE /\ Found(s.at, m, value, in, skip, idx, passed, n)

LEMMA LookedIs ==
    ASSUME NEW m, NEW value, NEW in \in Int, NEW n \in Nat, NEW skip \in Nat, NEW none \in Int,
           NEW order, NEW idx, NEW passed, Ordered(order, in, idx, passed, n),
           NEW j \in 1..n, NEW s, ScanState(s, m, value, in, skip, none, idx, passed, j - 1)
    PROVE  ScanState(Looked(m, value, s, order[j]), m, value, in, skip, none, idx, passed, j)
<1> DEFINE H(k) == Hits(m, value, in, passed[k])
           t == Looked(m, value, s, order[j])
<1>1. /\ j \in Nat /\ idx[j] \in Int /\ order[j] = in + idx[j] /\ order[j] \in Int
      /\ idx[j] \notin passed[j - 1] /\ passed[j] = passed[j - 1] \cup {idx[j]}
    <2>1. /\ idx[j] \in Int /\ order[j] = in + idx[j]
          /\ idx[j] \notin passed[j - 1] /\ passed[j] = passed[j - 1] \cup {idx[j]}
        BY DEF Ordered
    <2> QED
        BY <2>1
<1>2. PICK c : c = Cardinality(H(j - 1))
    OBVIOUS
<1>3. /\ IsFiniteSet(H(j - 1)) /\ c \in Nat /\ s \in Scans
      /\ c <= skip => s.found = FALSE /\ s.skip = skip - c /\ s.at = none
      /\ c > skip => s.found = TRUE /\ Found(s.at, m, value, in, skip, idx, passed, j - 1)
    BY <1>2 DEF ScanState
<1>4. t \in Scans
    BY <1>1, <1>3, LookedTyped
<1>5. ASSUME NEW at, Found(at, m, value, in, skip, idx, passed, j - 1)
      PROVE  Found(at, m, value, in, skip, idx, passed, j)
    <2>1. PICK k \in 1..(j - 1) :
              /\ idx[k] \in Hits(m, value, in, passed[j - 1]) /\ at = in + idx[k]
              /\ Cardinality(Hits(m, value, in, passed[k - 1])) = skip
        BY <1>5 DEF Found
    <2>2. k \in 1..j /\ idx[k] \in Hits(m, value, in, passed[j])
        BY <1>1, <2>1 DEF Hits
    <2> QED
        BY <2>1, <2>2 DEF Found
<1>6. CASE m[order[j]] # value
    <2>1. t = s
        BY <1>6 DEF Looked
    <2>2. H(j) = H(j - 1)
        BY <1>1, <1>6 DEF Hits
    <2> HIDE DEF t, H
    <2>3. Cardinality(H(j)) = c
        BY <1>2, <2>2
    <2>4. IsFiniteSet(H(j))
        BY <1>3, <2>2
    <2> QED
        BY <1>3, <1>5, <2>1, <2>3, <2>4 DEF ScanState, t, H
<1>7. CASE m[order[j]] = value
    <2>1. H(j) = H(j - 1) \cup {idx[j]} /\ idx[j] \notin H(j - 1) /\ idx[j] \in H(j)
        BY <1>1, <1>7 DEF Hits
    <2>2. IsFiniteSet(H(j)) /\ Cardinality(H(j)) = c + 1
        <3> HIDE DEF H
        <3> QED
            BY <1>2, <1>3, <2>1, FS_AddElement
    <2>3. CASE c > skip
        <3>1. t = s
            BY <1>3, <2>3, Zenon DEF Looked
        <3>2. t.found = TRUE /\ Found(t.at, m, value, in, skip, idx, passed, j)
            BY <1>3, <1>5, <2>3, <3>1
        <3>3. c + 1 > skip /\ c + 1 \in Nat /\ ~(c + 1 <= skip)
            BY <1>3, <2>3
        <3> QED
            BY <1>4, <2>2, <3>2, <3>3 DEF ScanState
    <2>4. CASE c < skip
        <3>1. s.found = FALSE /\ s.skip > 0
            BY <1>3, <2>4
        <3>2. t = [s EXCEPT !.skip = @ - 1]
            BY <1>7, <3>1, Zenon DEF Looked
        <3>3. t.found = FALSE /\ t.skip = skip - (c + 1) /\ t.at = none
            BY <1>3, <2>4, <3>2 DEF Scans
        <3>4. c + 1 <= skip /\ c + 1 \in Nat /\ ~(c + 1 > skip)
            BY <1>3, <2>4
        <3> QED
            BY <1>4, <2>2, <3>3, <3>4 DEF ScanState
    <2>5. CASE c = skip
        <3>1. s.found = FALSE /\ ~(s.skip > 0)
            BY <1>3, <2>5
        <3>2. t = [s EXCEPT !.found = TRUE, !.at = order[j]]
            BY <1>7, <3>1, Zenon DEF Looked
        <3>3. t.found = TRUE /\ t.at = order[j]
            BY <1>3, <3>2 DEF Scans
        <3>4. Found(t.at, m, value, in, skip, idx, passed, j)
            <4>1. j \in 1..j /\ t.at = in + idx[j]
                BY <1>1, <3>3
            <4>2. Cardinality(Hits(m, value, in, passed[j - 1])) = skip
                BY <1>2, <2>5
            <4> QED
                BY <2>1, <4>1, <4>2 DEF Found
        <3>5. ~(c + 1 <= skip) /\ c + 1 > skip /\ c + 1 \in Nat
            BY <1>3, <2>5
        <3> QED
            BY <1>4, <2>2, <3>3, <3>4, <3>5 DEF ScanState
    <2> QED
        BY <1>3, <2>3, <2>4, <2>5
<1> QED
    BY <1>6, <1>7

(* Where the loop stops: at the match that has `skip' others before it in the order. *)
LEMMA StopIs ==
    ASSUME NEW m, NEW value, NEW in \in Int, NEW n \in Nat, NEW skip \in Nat, NEW none \in Int,
           NEW order, NEW idx, NEW passed, Ordered(order, in, idx, passed, n)
    PROVE  Outcome(Stop(m, value, skip, order, none), m, value, in, skip, none, idx, passed, n)
<1>1. order \in Seq(Int) /\ Len(order) = n /\ passed[0] = {}
    BY DEF Ordered
<1> DEFINE base == [found |-> FALSE, skip |-> skip, at |-> none]
<1>2. base \in Scans
    BY DEF Scans
<1>3. Stop(m, value, skip, order, none) = Scan(m, value, base, order).at
    BY Zenon DEF Stop, Scan, Looked
<1>4. base.found = FALSE /\ base.skip = skip /\ base.at = none
    OBVIOUS
<1> HIDE DEF base
<1>5. PICK g : /\ LooksRun(g, m, value, base, order) /\ g \in [0..Len(order) -> Scans]
               /\ Scan(m, value, base, order) = g[Len(order)]
    BY <1>1, <1>2, ScanRuns
<1>6. g[0] = base /\ \A i \in 1..n : g[i] = Looked(m, value, g[i - 1], order[i])
    BY <1>1, <1>5 DEF LooksRun
<1> DEFINE P == {i \in 0..n : ScanState(g[i], m, value, in, skip, none, idx, passed, i)}
<1>7. 0 \in P
    <2>1. Hits(m, value, in, passed[0]) = {}
        BY <1>1 DEF Hits
    <2>2. IsFiniteSet(Hits(m, value, in, passed[0])) /\ Cardinality(Hits(m, value, in, passed[0])) = 0
        BY <2>1, FS_EmptySet
    <2>3. 0 \in 0..n /\ 0 <= skip /\ ~(0 > skip) /\ skip - 0 = skip
        OBVIOUS
    <2>4. ScanState(g[0], m, value, in, skip, none, idx, passed, 0)
        BY <1>2, <1>4, <1>6, <2>2, <2>3 DEF ScanState
    <2> QED
        BY <2>3, <2>4
<1>8. ASSUME NEW i \in 1..n, i - 1 \in P PROVE i \in P
    <2>1. PICK s : s = g[i - 1]
        OBVIOUS
    <2>2. ScanState(s, m, value, in, skip, none, idx, passed, i - 1)
        BY <1>8, <2>1
    <2>3. ScanState(Looked(m, value, s, order[i]), m, value, in, skip, none, idx, passed, i)
        BY <2>2, LookedIs
    <2>4. i \in 0..n
        OBVIOUS
    <2> QED
        BY <1>6, <2>1, <2>3, <2>4
<1>9. n \in P
    <2> HIDE DEF P
    <2>1. n \in 0..n
        OBVIOUS
    <2> QED
        BY <1>7, <1>8, <2>1, UpTo
<1>10. ScanState(g[n], m, value, in, skip, none, idx, passed, n)
    BY <1>9
<1>11. Stop(m, value, skip, order, none) = g[n].at
    BY <1>1, <1>3, <1>5
<1>12. CASE Cardinality(Hits(m, value, in, passed[n])) <= skip
    BY <1>10, <1>11, <1>12 DEF ScanState, Outcome
<1>13. CASE ~(Cardinality(Hits(m, value, in, passed[n])) <= skip)
    <2>1. Cardinality(Hits(m, value, in, passed[n])) \in Nat
        BY <1>10 DEF ScanState
    <2>2. Cardinality(Hits(m, value, in, passed[n])) > skip
        BY <1>13, <2>1
    <2> QED
        BY <1>10, <1>11, <1>13, <2>2 DEF ScanState, Outcome
<1> QED
    BY <1>12, <1>13

(* The offsets of the separators in a string at p of some length. *)
Occurs(m, p, length) == {i \in 0..(length - 1) : m[p + i] = SPACE}

FoundForwards(r, m, p, length, skip) ==
    IF Cardinality(Occurs(m, p, length)) <= skip THEN r = length
    ELSE /\ r \in Occurs(m, p, length)
         /\ Cardinality({i \in Occurs(m, p, length) : i < r}) = skip

FoundBackwards(r, m, p, length, skip) ==
    IF Cardinality(Occurs(m, p, length)) <= skip THEN r = WORD - 1
    ELSE /\ r \in Occurs(m, p, length)
         /\ Cardinality({i \in Occurs(m, p, length) : i > r}) = skip

LEMMA StridxIs ==
    ASSUME NEW m, NEW top, IsMemory(m, top), NEW p, NEW k, Ends(m, top, p, k), NEW skip \in Nat
    PROVE  FoundForwards(stridx(m, p, SPACE, skip), m, p, k - p, skip)
<1>1. top \in Nat /\ p \in 0..top /\ k \in p..top
    BY DEF IsMemory, Ends
<1> DEFINE n == k - p
           order == Upward(p, n)
           none == p + n
           idx == [i \in 1..n |-> i - 1]
           passed == [i \in 0..n |-> 0..(i - 1)]
           at == Stop(m, SPACE, skip, order, none)
<1>2. n \in Nat /\ p \in Int /\ none \in Int
    BY <1>1
<1>3. stridx(m, p, SPACE, skip) = at - p
    BY StringIs DEF stridx, memidx
<1> HIDE DEF at, n
<1>4. Ordered(order, p, idx, passed, n)
    <2>1. order = [i \in 1..n |-> p + i - 1]
        BY DEF Upward
    <2>2. order \in Seq(Int) /\ Len(order) = n
        BY <1>2, <2>1
    <2>3. passed[0] = {}
        BY <1>2
    <2>4. ASSUME NEW j \in 1..n
          PROVE  /\ idx[j] \in Int /\ order[j] = p + idx[j]
                 /\ idx[j] \notin passed[j - 1]
                 /\ passed[j] = passed[j - 1] \cup {idx[j]}
        <3>1. idx[j] = j - 1 /\ order[j] = p + j - 1 /\ j \in Nat
            BY <2>1
        <3>2. passed[j - 1] = 0..(j - 1 - 1) /\ passed[j] = 0..(j - 1)
            BY <1>2
        <3>3. 0..(j - 1) = (0..(j - 1 - 1)) \cup {j - 1}
            BY <3>1
        <3> HIDE DEF idx, passed, order
        <3> QED
            BY <1>2, <3>1, <3>2, <3>3
    <2> QED
        BY <2>2, <2>3, <2>4 DEF Ordered
<1>5. passed[n] = 0..(n - 1) /\ \A j \in 1..n : idx[j] = j - 1 /\ passed[j - 1] = 0..(j - 1 - 1)
    BY <1>2
<1> HIDE DEF order, none, idx, passed
<1>6. Outcome(at, m, SPACE, p, skip, none, idx, passed, n)
    BY <1>2, <1>4, StopIs DEF at
<1>7. Hits(m, SPACE, p, passed[n]) = Occurs(m, p, n)
    BY <1>5 DEF Hits, Occurs
<1>8. CASE Cardinality(Occurs(m, p, n)) <= skip
    <2>1. at = none
        BY <1>6, <1>7, <1>8 DEF Outcome
    <2>2. at - p = n
        BY <1>2, <2>1 DEF none
    <2> QED
        BY <1>3, <1>8, <2>2 DEF FoundForwards, n
<1>9. CASE ~(Cardinality(Occurs(m, p, n)) <= skip)
    <2>1. PICK j \in 1..n :
              /\ idx[j] \in Occurs(m, p, n) /\ at = p + idx[j]
              /\ Cardinality(Hits(m, SPACE, p, passed[j - 1])) = skip
        BY <1>6, <1>7, <1>9 DEF Outcome, Found
    <2>2. idx[j] = j - 1 /\ passed[j - 1] = 0..(j - 1 - 1) /\ at - p = j - 1
        BY <1>2, <1>5, <2>1
    <2>3. Hits(m, SPACE, p, passed[j - 1]) = {i \in Occurs(m, p, n) : i < j - 1}
        BY <1>2, <2>2 DEF Hits, Occurs
    <2>4. j - 1 \in Occurs(m, p, n)
        BY <2>1, <2>2
    <2> QED
        BY <1>3, <1>9, <2>1, <2>2, <2>3, <2>4 DEF FoundForwards, n
<1> QED
    BY <1>8, <1>9

LEMMA StrnidxIs ==
    ASSUME NEW m, NEW top, IsMemory(m, top), top < WORD, NEW p, NEW k, Ends(m, top, p, k),
           NEW skip \in Nat
    PROVE  FoundBackwards(strnidx(m, p, SPACE, skip), m, p, k - p, skip)
<1>1. top \in Nat /\ p \in 0..top /\ k \in p..top /\ WORD \in Nat \ {0}
    BY WordAssumption DEF IsMemory, Ends
<1> DEFINE n == k - p
           order == Reverse(Upward(p, n))
           none == p - 1
           idx == [i \in 1..n |-> n - i]
           passed == [i \in 0..n |-> (n - i)..(n - 1)]
           at == Stop(m, SPACE, skip, order, none)
<1>2. n \in Nat /\ n < WORD /\ p \in Int /\ none \in Int
    BY <1>1
<1>3. strnidx(m, p, SPACE, skip) = (at - p) % WORD
    BY StringIs DEF strnidx, memnidx
<1> HIDE DEF at, n
<1>4. Ordered(order, p, idx, passed, n)
    <2>0. Upward(p, n) = [i \in 1..n |-> p + i - 1] /\ Len(Upward(p, n)) = n
        BY <1>2 DEF Upward
    <2>1. order = [i \in 1..n |-> p + (n - i)]
        <3>1. order = [i \in 1..n |-> Upward(p, n)[(n - i) + 1]]
            BY <2>0 DEF Reverse
        <3>2. ASSUME NEW i \in 1..n PROVE Upward(p, n)[(n - i) + 1] = p + (n - i)
            <4>1. (n - i) + 1 \in 1..n /\ p + ((n - i) + 1) - 1 = p + (n - i)
                BY <1>2
            <4> QED
                BY <2>0, <4>1
        <3> QED
            BY <3>1, <3>2
    <2>2. order \in Seq(Int) /\ Len(order) = n
        <3> HIDE DEF order
        <3> QED
            BY <1>2, <2>1
    <2>3. passed[0] = {}
        BY <1>2
    <2>4. ASSUME NEW j \in 1..n
          PROVE  /\ idx[j] \in Int /\ order[j] = p + idx[j]
                 /\ idx[j] \notin passed[j - 1]
                 /\ passed[j] = passed[j - 1] \cup {idx[j]}
        <3>1. idx[j] = n - j /\ order[j] = p + (n - j) /\ j \in Nat
            <4> HIDE DEF order
            <4> QED
                BY <2>1
        <3>2. passed[j - 1] = (n - (j - 1))..(n - 1) /\ passed[j] = (n - j)..(n - 1)
            BY <1>2
        <3>3. (n - j)..(n - 1) = ((n - (j - 1))..(n - 1)) \cup {n - j}
            BY <1>2, <3>1
        <3> HIDE DEF idx, passed, order
        <3> QED
            BY <1>2, <3>1, <3>2, <3>3
    <2> QED
        BY <2>2, <2>3, <2>4 DEF Ordered
<1>5. /\ passed[n] = 0..(n - 1)
      /\ \A j \in 1..n : idx[j] = n - j /\ passed[j - 1] = (n - (j - 1))..(n - 1)
    BY <1>2
<1> HIDE DEF order, none, idx, passed
<1>6. Outcome(at, m, SPACE, p, skip, none, idx, passed, n)
    BY <1>2, <1>4, StopIs DEF at
<1>7. Hits(m, SPACE, p, passed[n]) = Occurs(m, p, n)
    BY <1>5 DEF Hits, Occurs
<1>8. CASE Cardinality(Occurs(m, p, n)) <= skip
    <2>1. at = none
        BY <1>6, <1>7, <1>8 DEF Outcome
    <2>2. at - p = -1
        BY <1>2, <2>1 DEF none
    <2>3. (-1) % WORD = WORD - 1
        BY <1>1
    <2> QED
        BY <1>3, <1>8, <2>2, <2>3 DEF FoundBackwards, n
<1>9. CASE ~(Cardinality(Occurs(m, p, n)) <= skip)
    <2>1. PICK j \in 1..n :
              /\ idx[j] \in Occurs(m, p, n) /\ at = p + idx[j]
              /\ Cardinality(Hits(m, SPACE, p, passed[j - 1])) = skip
        BY <1>6, <1>7, <1>9 DEF Outcome, Found
    <2>2. idx[j] = n - j /\ passed[j - 1] = (n - (j - 1))..(n - 1) /\ at - p = n - j
        BY <1>2, <1>5, <2>1
    <2>3. Hits(m, SPACE, p, passed[j - 1]) = {i \in Occurs(m, p, n) : i > n - j}
        BY <1>2, <2>2 DEF Hits, Occurs
    <2>4. n - j \in Occurs(m, p, n)
        BY <2>1, <2>2
    <2>5. (n - j) % WORD = n - j
        BY <1>1, <1>2
    <2> QED
        BY <1>3, <1>9, <2>1, <2>2, <2>3, <2>4, <2>5 DEF FoundBackwards, n
<1> QED
    BY <1>8, <1>9

LEMMA EndIs ==
    ASSUME NEW m, NEW top, IsMemory(m, top), NEW p, NEW k, Ends(m, top, p, k)
    PROVE  End(m, p) = k
<1>1. strlen(m, p) = k - p
    BY StringIs
<1>2. p \in 0..top /\ k \in p..top /\ top \in Nat
    BY DEF IsMemory, Ends
<1> DEFINE Zeros == {q \in DOMAIN m : q >= p /\ m[q] = 0}
<1>3. DOMAIN m = 0..top
    BY DEF IsMemory
<1>4. k \in Zeros /\ Zeros \subseteq Nat
    BY <1>2, <1>3 DEF Ends
<1>5. ASSUME NEW q \in Zeros PROVE k <= q
    <2>1. q \in 0..top /\ q >= p /\ m[q] = 0
        BY <1>3
    <2>2. q \notin p..(k - 1)
        BY <2>1 DEF Ends
    <2> QED
        BY <1>2, <2>1, <2>2
<1> HIDE DEF Zeros
<1>6. Min(Zeros) = k
    BY <1>4, <1>5, MinIs
<1> QED
    BY <1>6 DEF End, Zeros

FoundChar(r, m, top, p, k, char) ==
    IF r = -1 THEN \A a \in 0..top : a >= p /\ m[a] = char => k < a
    ELSE r \in 0..top /\ r >= p /\ m[r] = char /\ \A a \in 0..top : a >= p /\ m[a] = char => r <= a

LEMMA StrchrIs ==
    ASSUME NEW m, NEW top, IsMemory(m, top), NEW p, NEW k, Ends(m, top, p, k), NEW char
    PROVE  FoundChar(strchr(m, p, char), m, top, p, k, char)
<1>1. top \in Nat /\ p \in 0..top /\ k \in p..top
    BY DEF IsMemory, Ends
<1> DEFINE at == {q \in p..k : m[q] = char}
<1>2. strchr(m, p, char) = IF at = {} THEN -1 ELSE Min(at)
    BY EndIs DEF strchr
<1>3. CASE at = {}
    <2>1. ASSUME NEW a \in 0..top, a >= p, m[a] = char PROVE k < a
        BY <1>1, <1>3, <2>1
    <2>2. strchr(m, p, char) = -1
        BY <1>2, <1>3
    <2> QED
        BY <2>1, <2>2 DEF FoundChar
<1>4. CASE at # {}
    <2>1. at \subseteq Nat
        BY <1>1
    <2>2. PICK e \in at : \A x \in at : e <= x
        <3> HIDE DEF at
        <3> QED
            BY <1>4, <2>1, LeastOf
    <2>3. strchr(m, p, char) = e
        <3> HIDE DEF at
        <3> QED
            BY <1>2, <1>4, <2>1, <2>2, MinIs
    <2>4. ASSUME NEW a \in 0..top, a >= p, m[a] = char PROVE e <= a
        <3>1. CASE a <= k
            BY <1>1, <2>2, <2>4, <3>1
        <3>2. CASE a > k
            BY <1>1, <2>2, <3>2
        <3> QED
            BY <1>1, <3>1, <3>2
    <2>5. e \in p..k /\ m[e] = char /\ e # -1 /\ e \in 0..top /\ e >= p
        BY <1>1, <2>2
    <2> HIDE DEF at
    <2> QED
        BY <2>3, <2>4, <2>5 DEF FoundChar
<1> QED
    BY <1>3, <1>4

(* What a search says, of the memory that it was called on. *)
Searched(f, r, m, p, skip) ==
    LET length == strlen(m, p)
    IN  IF f = "stridx" THEN FoundForwards(r, m, p, length, skip)
        ELSE FoundBackwards(r, m, p, length, skip)

LEMMA SearchedIs ==
    ASSUME NEW m, IsMemory(m, CELLS - 1), NEW p \in Address, NEW skip \in 0..2,
           NEW f \in {"stridx", "strnidx"}
    PROVE  Searched(f, IF f = "stridx" THEN stridx(m, p, SPACE, skip)
                                      ELSE strnidx(m, p, SPACE, skip), m, p, skip)
<1>1. PICK top : top = CELLS - 1 /\ top \in Nat /\ top < WORD
    BY MemoryAssumption, WordAssumption
<1>2. IsMemory(m, top) /\ p \in 0..top
    BY <1>1 DEF Address
<1>3. PICK k : Ends(m, top, p, k)
    BY <1>2, HasEnd
<1>4. strlen(m, p) = k - p
    BY <1>2, <1>3, StringIs
<1>5. FoundForwards(stridx(m, p, SPACE, skip), m, p, k - p, skip)
    BY <1>2, <1>3, StridxIs
<1>6. FoundBackwards(strnidx(m, p, SPACE, skip), m, p, k - p, skip)
    BY <1>1, <1>2, <1>3, StrnidxIs
<1> QED
    BY <1>4, <1>5, <1>6, Zenon DEF Searched

LEMMA SearchStep == Memory /\ FindsOccurrence /\ [Next]_vars => FindsOccurrence'
<1> SUFFICES ASSUME Memory, FindsOccurrence, [Next]_vars PROVE FindsOccurrence'
    OBVIOUS
<1>0. IsMemory(before, CELLS - 1) /\ (call.f = "none" => mem = before)
    BY DEF Memory
<1>1. CASE UNCHANGED vars
    BY <1>1 DEF FindsOccurrence, vars, Occurrences, strlen, End
<1>2. CASE Next
    <2>1. mem = before
        BY <1>0, <1>2 DEF Next
    <2>2. CASE Search
        <3>1. PICK p \in Address, skip \in 0..2, f \in {"stridx", "strnidx"} :
                  /\ call' = [f |-> f, p |-> p, skip |-> skip]
                  /\ result' = IF f = "stridx" THEN stridx(before, p, SPACE, skip)
                                               ELSE strnidx(before, p, SPACE, skip)
                  /\ before' = before
            BY <2>1, <2>2 DEF Search, Returns
        <3>2. call'.f = f /\ call'.p = p /\ call'.skip = skip /\ f # "strchr"
            BY <3>1
        <3>3. Searched(f, result', before, p, skip)
            BY <1>0, <3>1, SearchedIs
        <3>4. Occurrences(p)' = Occurs(before, p, strlen(before, p))
            BY <3>1 DEF Occurrences, Occurs
        <3>5. strlen(before, p)' = strlen(before, p)
            BY <3>1 DEF strlen, End
        <3>6. CASE f = "stridx"
            <4>1. FoundForwards(result', before, p, strlen(before, p), skip)
                BY <3>3, <3>6 DEF Searched
            <4>2. call'.f # "strnidx"
                BY <3>2, <3>6
            <4> QED
                BY <3>1, <3>2, <3>4, <3>5, <4>1, <4>2, Zenon DEF FindsOccurrence, FoundForwards
        <3>7. CASE f = "strnidx"
            <4>1. FoundBackwards(result', before, p, strlen(before, p), skip)
                BY <3>3, <3>7 DEF Searched
            <4>2. call'.f # "stridx"
                BY <3>2, <3>7
            <4> QED
                BY <3>1, <3>2, <3>4, <3>5, <4>1, <4>2, Zenon DEF FindsOccurrence, FoundBackwards
        <3> QED
            BY <3>6, <3>7
    <2>3. CASE Find
        <3>1. PICK p \in Address, c \in {0, SPACE} :
                  /\ call' = [f |-> "strchr", p |-> p, c |-> c]
                  /\ result' = strchr(before, p, c)
                  /\ before' = before
            BY <2>1, <2>3 DEF Find, Returns
        <3>2. call'.f = "strchr" /\ call'.p = p /\ call'.c = c
            BY <3>1
        <3>3. PICK top : top = CELLS - 1 /\ IsMemory(before, top) /\ p \in 0..top
            BY <1>0 DEF Address
        <3>4. PICK k : Ends(before, top, p, k)
            BY <3>3, HasEnd
        <3>5. End(before, p) = k
            BY <3>3, <3>4, EndIs
        <3>6. FoundChar(strchr(before, p, c), before, top, p, k, c)
            BY <3>3, <3>4, StrchrIs
        <3>7. Address = 0..top /\ End(before, p)' = k
            BY <3>1, <3>3, <3>5 DEF Address, End
        <3>8. LET at == {a \in Address : a >= p /\ before[a] = c}
              IN  IF result' = -1 THEN \A a \in at : k < a
                  ELSE result' \in at /\ \A a \in at : result' <= a
            BY <3>1, <3>6, <3>7 DEF FoundChar
        <3>9. call'.f # "stridx" /\ call'.f # "strnidx"
            BY <3>2
        <3> QED
            BY <3>1, <3>2, <3>7, <3>8, <3>9, Zenon DEF FindsOccurrence
    <2>4. CASE call'.f \notin {"stridx", "strnidx", "strchr"}
        BY <2>4 DEF FindsOccurrence
    <2>5. \/ Search \/ Find \/ call'.f \notin {"stridx", "strnidx", "strchr"}
        BY <1>2, CallsAre
    <2> QED
        BY <2>2, <2>3, <2>4, <2>5
<1> QED
    BY <1>1, <1>2

(* stridx, strnidx and strchr find the occurrence that they are to find, or say that there *)
(* is none, also when the answer wraps to the largest word.                                *)
THEOREM FindsTheOccurrence == Spec => []FindsOccurrence
<1>1. Init => FindsOccurrence
    BY DEF Init, FindsOccurrence
<1> QED
    BY <1>1, MemoryKept, SearchStep, PTL DEF Spec

(***************************************************************************)
(* Copying, and the name of a node.                                         *)
(***************************************************************************)
Copied(m, dest, src, i) == [m EXCEPT ![dest + i] = m[src + i]]

CopyAll(m, dest, src, order) ==
    LET Copy(s, i) == Copied(s, dest, src, i) IN FoldLeft(Copy, m, order)

Indices(length) == 0..length

Fits(dest, src, length, top) ==
    /\ top \in Nat /\ dest \in Nat /\ src \in Nat /\ length \in Nat
    /\ dest + length <= top /\ src + length <= top

LEMMA CopiedTyped ==
    ASSUME NEW top, NEW dest, NEW src, NEW length, Fits(dest, src, length, top),
           NEW m \in [0..top -> Nat], NEW i \in Indices(length)
    PROVE  Copied(m, dest, src, i) \in [0..top -> Nat]
<1>1. src + i \in 0..top
    BY DEF Fits, Indices
<1>2. m[src + i] \in Nat
    BY <1>1
<1> QED
    BY <1>2 DEF Copied

(* The memories of a copy, a byte at a time. *)
CopyRun(g, m, dest, src, order) ==
    /\ g[0] = m
    /\ \A i \in 1..Len(order) : g[i] = Copied(g[i - 1], dest, src, order[i])

LEMMA CopyRuns ==
    ASSUME NEW top, NEW dest, NEW src, NEW length, Fits(dest, src, length, top),
           NEW m \in [0..top -> Nat], NEW order \in Seq(Indices(length))
    PROVE  \E g : /\ CopyRun(g, m, dest, src, order) /\ g \in [0..Len(order) -> [0..top -> Nat]]
                 /\ CopyAll(m, dest, src, order) = g[Len(order)]
<1> DEFINE n == Len(order)
           V == [0..top -> Nat]
           Unfolded(h) == [u \in SUBSET (DOMAIN order) |->
                           IF u = {} THEN m
                           ELSE Copied(h[u \ {Max(u)}], dest, src, order[Max(u)])]
           iter == CHOOSE h : h = Unfolded(h)
           step == [i \in 1..n |-> [v \in V |-> Copied(v, dest, src, order[i])]]
<1>1. n \in Nat /\ DOMAIN order = 1..n /\ \A i \in 1..n : order[i] \in Indices(length)
    OBVIOUS
<1>2. CopyAll(m, dest, src, order) = iter[DOMAIN order]
    BY Zenon DEF CopyAll, FoldLeft, MapThenFoldSet
<1> HIDE DEF n
<1>3. step \in [1..n -> [V -> V]]
    <2>1. \A i \in 1..n : [v \in V |-> Copied(v, dest, src, order[i])] \in [V -> V]
        BY <1>1, CopiedTyped
    <2> QED
        BY <2>1
<1>4. \A i \in 1..n, v \in V : step[i][v] = Copied(v, dest, src, order[i])
    OBVIOUS
<1> HIDE DEF step, V
<1>5. m \in V
    BY DEF V
<1>6. PICK h : Folded(h, V, m, n, step)
    BY <1>1, <1>3, <1>5, FoldExists
<1>7. h = Unfolded(h)
    <2>1. /\ h \in [SUBSET (1..n) -> V]
          /\ \A u \in SUBSET (1..n) : h[u] = IF u = {} THEN m ELSE step[Max(u)][h[u \ {Max(u)}]]
        BY <1>6 DEF Folded
    <2>2. ASSUME NEW u \in SUBSET (1..n)
          PROVE  (IF u = {} THEN m
                  ELSE Copied(h[u \ {Max(u)}], dest, src, order[Max(u)])) = h[u]
        <3>1. CASE u = {}
            BY <2>1, <3>1
        <3>2. CASE u # {}
            <4>1. Max(u) \in 1..n
                BY <1>1, <3>2, MaxIs
            <4>2. h[u \ {Max(u)}] \in V
                BY <2>1
            <4> QED
                BY <1>4, <2>1, <3>2, <4>1, <4>2
        <3> QED
            BY <3>1, <3>2
    <2>3. h = [u \in SUBSET (1..n) |-> h[u]]
        BY <2>1
    <2>4. Unfolded(h) = [u \in SUBSET (1..n) |-> h[u]]
        BY <1>1, <2>2
    <2> QED
        BY <2>3, <2>4
<1>8. iter = Unfolded(iter)
    <2> HIDE DEF Unfolded
    <2> QED
        BY <1>7
<1>9. \A u \in SUBSET (1..n) :
          iter[u] = IF u = {} THEN m
                    ELSE Copied(iter[u \ {Max(u)}], dest, src, order[Max(u)])
    <2> HIDE DEF iter
    <2> QED
        BY <1>1, <1>8
<1> HIDE DEF iter
<1>10. FoldsWhileIn(iter, V, m, n, step)
    <2>1. iter[{}] = m
        BY <1>9
    <2>2. ASSUME NEW u \in SUBSET (1..n), u # {}, iter[u \ {Max(u)}] \in V
          PROVE  iter[u] = step[Max(u)][iter[u \ {Max(u)}]]
        <3>1. PICK w : w = iter[u \ {Max(u)}]
            OBVIOUS
        <3>2. Max(u) \in 1..n
            BY <1>1, <2>2, MaxIs
        <3>3. iter[u] = Copied(w, dest, src, order[Max(u)])
            BY <1>9, <2>2, <3>1
        <3>4. step[Max(u)][w] = Copied(w, dest, src, order[Max(u)])
            BY <1>4, <2>2, <3>1, <3>2
        <3> QED
            BY <3>1, <3>3, <3>4
    <2> QED
        BY <2>1, <2>2 DEF FoldsWhileIn
<1>11. PICK g : FoldRun(g, V, m, n, step) /\ g[n] = iter[1..n]
    <2> HIDE DEF Unfolded
    <2>1. n \in Nat
        BY <1>1
    <2>2. PICK V1, step1, iter1, n1 : V1 = V /\ step1 = step /\ iter1 = iter /\ n1 = n
        OBVIOUS
    <2>3. m \in V1 /\ n1 \in Nat /\ FoldsWhileIn(iter1, V1, m, n1, step1)
        BY <1>5, <1>10, <2>1, <2>2
    <2>4. step1 \in [1..n1 -> [V1 -> V1]]
        BY <1>3, <2>2
    <2>5. \E f : FoldRun(f, V1, m, n1, step1) /\ f[n1] = iter1[1..n1]
        BY <2>3, <2>4, FoldRuns
    <2> QED
        BY <2>2, <2>5
<1>12. /\ g \in [0..n -> V] /\ g[0] = m
       /\ \A i \in 1..n : g[i] = step[i][g[i - 1]]
    BY <1>11 DEF FoldRun
<1>13. ASSUME NEW i \in 1..n PROVE g[i] = Copied(g[i - 1], dest, src, order[i])
    <2>1. i - 1 \in 0..n
        BY <1>1
    <2>2. g[i - 1] \in V
        BY <1>12, <2>1
    <2> QED
        BY <1>4, <1>12, <2>2
<1>14. CopyAll(m, dest, src, order) = g[n]
    BY <1>1, <1>2, <1>11
<1> QED
    BY <1>12, <1>13, <1>14 DEF CopyRun, n, V

(* A copy to the addresses behind those it reads. *)
CopyOf(m, dest, src, length, top) ==
    [q \in 0..top |-> IF q \in dest..(dest + length) THEN m[src + (q - dest)] ELSE m[q]]

LEMMA MemcpyIs ==
    ASSUME NEW top, NEW dest, NEW src, NEW length, Fits(dest, src, length, top),
           src + length < dest, NEW m \in [0..top -> Nat]
    PROVE  memcpy(m, dest, src, length + 1) = CopyOf(m, dest, src, length, top)
<1>1. /\ top \in Nat /\ dest \in Nat /\ src \in Nat /\ length \in Nat
      /\ dest + length <= top /\ src + length <= top
    BY DEF Fits
<1> DEFINE n == length + 1
           order == Upward(0, n)
           Upto(i) == [q \in 0..top |-> IF q \in dest..(dest + i - 1) THEN m[src + (q - dest)] ELSE m[q]]
<1>2. n \in Nat /\ n - 1 = length
    BY <1>1
<1>3. memcpy(m, dest, src, n) = CopyAll(m, dest, src, order)
    BY Zenon DEF memcpy, CopyAll, Copied
<1> HIDE DEF n
<1>4. order = [i \in 1..n |-> 0 + i - 1]
    BY DEF Upward
<1>5. \A i \in 1..n : 0 + i - 1 \in 0..length
    BY <1>1, <1>2
<1>6. order \in Seq(Indices(length)) /\ Len(order) = n /\ \A i \in 1..n : order[i] = i - 1
    <2> HIDE DEF order
    <2>1. order \in [1..n -> Indices(length)]
        BY <1>4, <1>5 DEF Indices
    <2> QED
        BY <1>2, <1>4, <2>1
<1> HIDE DEF order
<1>7. PICK g : /\ CopyRun(g, m, dest, src, order)
               /\ CopyAll(m, dest, src, order) = g[Len(order)]
    BY <1>6, CopyRuns
<1>8. g[0] = m /\ \A i \in 1..n : g[i] = Copied(g[i - 1], dest, src, i - 1)
    BY <1>6, <1>7 DEF CopyRun
<1> DEFINE P == {i \in 0..n : g[i] = Upto(i)}
<1>9. 0 \in P
    <2>1. \A q \in 0..top : q \notin dest..(dest + 0 - 1)
        BY <1>1
    <2>2. Upto(0) = m
        BY <2>1
    <2> HIDE DEF Upto
    <2> QED
        BY <1>2, <1>8, <2>2
<1>10. ASSUME NEW i \in 1..n, i - 1 \in P PROVE i \in P
    <2>1. PICK s : s = Upto(i - 1)
        OBVIOUS
    <2>2. s = [q \in 0..top |-> IF q \in dest..(dest + (i - 1) - 1) THEN m[src + (q - dest)] ELSE m[q]]
        BY <2>1
    <2>3. g[i] = Copied(s, dest, src, i - 1)
        BY <1>8, <1>10, <2>1
    <2>4. /\ i \in Nat /\ src + (i - 1) \in 0..top /\ dest + (i - 1) \in 0..top
          /\ src + (i - 1) < dest
        BY <1>1, <1>2
    <2>5. s[src + (i - 1)] = m[src + (i - 1)]
        BY <1>1, <2>2, <2>4
    <2>6. g[i] = [q \in 0..top |-> IF q = dest + (i - 1) THEN m[src + (i - 1)] ELSE s[q]]
        BY <2>2, <2>3, <2>4, <2>5 DEF Copied
    <2>7. ASSUME NEW q \in 0..top
          PROVE  (IF q = dest + (i - 1) THEN m[src + (i - 1)] ELSE s[q])
                     = (IF q \in dest..(dest + i - 1) THEN m[src + (q - dest)] ELSE m[q])
        <3>1. CASE q = dest + (i - 1)
            <4>1. q \in dest..(dest + i - 1) /\ src + (q - dest) = src + (i - 1)
                BY <1>1, <2>4, <3>1
            <4> QED
                BY <3>1, <4>1
        <3>2. CASE q # dest + (i - 1)
            <4>1. q \in dest..(dest + i - 1) <=> q \in dest..(dest + (i - 1) - 1)
                BY <1>1, <2>4, <3>2
            <4>2. s[q] = IF q \in dest..(dest + (i - 1) - 1) THEN m[src + (q - dest)] ELSE m[q]
                BY <2>2
            <4> QED
                BY <3>2, <4>1, <4>2
        <3> QED
            BY <3>1, <3>2
    <2>8. g[i] = Upto(i)
        BY <2>6, <2>7
    <2>9. i \in 0..n
        BY <1>2
    <2> HIDE DEF Upto
    <2> QED
        BY <2>8, <2>9
<1>11. n \in P
    <2> HIDE DEF P
    <2>1. n \in 0..n
        BY <1>2
    <2> QED
        BY <1>2, <1>9, <1>10, <2>1, UpTo
<1>12. g[n] = Upto(n)
    BY <1>11
<1>13. dest + n - 1 = dest + length
    BY <1>1, <1>2
<1>14. Upto(n) = [q \in 0..top |-> IF q \in dest..(dest + length) THEN m[src + (q - dest)] ELSE m[q]]
    BY <1>13
<1> HIDE DEF Upto
<1>15. memcpy(m, dest, src, n) = Upto(n)
    BY <1>3, <1>6, <1>7, <1>12
<1> QED
    BY <1>14, <1>15 DEF n, CopyOf

(* A string copied behind the memory it is in. *)
LEMMA StrcpyIs ==
    ASSUME NEW m, NEW top, IsMemory(m, top), NEW src, NEW k, Ends(m, top, src, k),
           NEW dest \in Nat, k < dest, dest + (k - src) <= top
    PROVE  /\ IsMemory(strcpy(m, dest, src), top)
           /\ Ends(strcpy(m, dest, src), top, dest, dest + (k - src))
           /\ \A i \in 0..(k - src) : strcpy(m, dest, src)[dest + i] = m[src + i]
<1>1. /\ top \in Nat /\ m \in [0..top -> Nat] /\ m[top] = 0 /\ src \in 0..top /\ k \in src..top
      /\ m[k] = 0 /\ \A i \in src..(k - 1) : m[i] # 0
    BY DEF IsMemory, Ends
<1>2. PICK length : length = k - src /\ length \in Nat
    BY <1>1
<1>3. PICK t : t = strcpy(m, dest, src)
    OBVIOUS
<1>4. Fits(dest, src, length, top) /\ src + length < dest /\ src + length = k
    BY <1>1, <1>2 DEF Fits
<1>5. t = [q \in 0..top |-> IF q \in dest..(dest + length) THEN m[src + (q - dest)] ELSE m[q]]
    <2>1. strlen(m, src) + 1 = length + 1
        BY <1>2, StringIs
    <2>2. t = memcpy(m, dest, src, length + 1)
        BY <1>3, <2>1 DEF strcpy
    <2>3. memcpy(m, dest, src, length + 1) = CopyOf(m, dest, src, length, top)
        BY <1>1, <1>4, MemcpyIs
    <2> QED
        BY <2>2, <2>3 DEF CopyOf
<1>6. ASSUME NEW i \in 0..length PROVE t[dest + i] = m[src + i]
    <2>1. dest + i \in 0..top /\ dest + i \in dest..(dest + length) /\ src + ((dest + i) - dest) = src + i
        BY <1>1, <1>2
    <2> QED
        BY <1>5, <2>1
<1>7. t \in [0..top -> Nat]
    <2>1. ASSUME NEW q \in 0..top
          PROVE  (IF q \in dest..(dest + length) THEN m[src + (q - dest)] ELSE m[q]) \in Nat
        <3>1. CASE q \in dest..(dest + length)
            <4>1. src + (q - dest) \in 0..top
                BY <1>1, <1>4, <3>1
            <4>2. m[src + (q - dest)] \in Nat
                BY <1>1, <4>1
            <4> QED
                BY <3>1, <4>2
        <3>2. CASE q \notin dest..(dest + length)
            BY <1>1, <3>2
        <3> QED
            BY <3>1, <3>2
    <2> QED
        BY <1>5, <2>1
<1>8. t[top] = 0
    <2>1. CASE top \in dest..(dest + length)
        <3>1. top = dest + length /\ length \in 0..length
            BY <1>1, <1>2, <2>1
        <3>2. t[dest + length] = m[src + length]
            BY <1>6, <3>1
        <3> QED
            BY <1>1, <1>4, <3>1, <3>2
    <2>2. CASE top \notin dest..(dest + length)
        BY <1>1, <1>5, <2>2
    <2> QED
        BY <2>1, <2>2
<1>9. Ends(t, top, dest, dest + length)
    <2>1. length \in 0..length
        BY <1>2
    <2>2. t[dest + length] = 0
        BY <1>1, <1>4, <1>6, <2>1
    <2>3. ASSUME NEW q \in dest..(dest + length - 1) PROVE t[q] # 0
        <3>1. q - dest \in 0..length /\ dest + (q - dest) = q /\ src + (q - dest) \in src..(k - 1)
            BY <1>1, <1>2
        <3>2. t[q] = m[src + (q - dest)]
            BY <1>6, <3>1
        <3> QED
            BY <1>1, <3>1, <3>2
    <2>4. dest \in 0..top /\ dest + length \in dest..top
        BY <1>1, <1>2
    <2> QED
        BY <1>2, <2>2, <2>3, <2>4 DEF Ends
<1>10. IsMemory(t, top)
    BY <1>1, <1>7, <1>8 DEF IsMemory
<1> QED
    BY <1>2, <1>3, <1>6, <1>9, <1>10

LEMMA SuffixIs ==
    ASSUME NEW r \in Seq(Nat), NEW w \in Seq(Nat), Len(r) <= Len(w),
           \A i \in 1..Len(r) : r[i] = w[Len(w) - Len(r) + i]
    PROVE  IsSuffix(r, w)
<1>0. Len(r) \in Nat /\ Len(w) \in Nat
    BY LenProperties
<1>1. PICK n : n = Len(r) /\ n \in Nat
    BY <1>0
<1>2. PICK l : l = Len(w) /\ l \in Nat
    BY <1>0
<1>3. Reverse(r) = [i \in 1..n |-> r[(n - i) + 1]] /\ Reverse(w) = [i \in 1..l |-> w[(l - i) + 1]]
    BY <1>1, <1>2 DEF Reverse
<1>4. \A i \in 1..n : (n - i) + 1 \in 1..n
    BY <1>1
<1>5. \A i \in 1..l : (l - i) + 1 \in 1..l
    BY <1>2
<1>6. Reverse(r) \in Seq(Nat) /\ Len(Reverse(r)) = n
    <2>1. \A i \in 1..n : r[(n - i) + 1] \in Nat
        BY <1>1, <1>4
    <2> QED
        BY <1>1, <1>3, <2>1
<1>7. Reverse(w) \in Seq(Nat) /\ Len(Reverse(w)) = l
    <2>1. \A i \in 1..l : w[(l - i) + 1] \in Nat
        BY <1>2, <1>5
    <2> QED
        BY <1>2, <1>3, <2>1
<1>8. ASSUME NEW i \in 1..n PROVE Reverse(r)[i] = Reverse(w)[i]
    <2>1. (n - i) + 1 \in 1..n /\ i \in 1..l /\ l - n + ((n - i) + 1) = (l - i) + 1
        BY <1>1, <1>2
    <2>2. r[(n - i) + 1] = w[(l - i) + 1]
        BY <1>1, <1>2, <2>1
    <2> QED
        BY <1>3, <2>1, <2>2
<1>9. PICK a, b : a = Reverse(r) /\ b = Reverse(w)
    OBVIOUS
<1>a. /\ a \in Seq(Nat) /\ b \in Seq(Nat)
      /\ \A i \in 1..n : a[i] \in Nat /\ b[i] \in Nat
    <2>1. ASSUME NEW i \in 1..n PROVE i \in 1..Len(a) /\ i \in 1..Len(b)
        BY <1>1, <1>2, <1>6, <1>7, <1>9
    <2> QED
        BY <1>6, <1>7, <1>9, <2>1, ElementOfSeq
<1>10. /\ SubSeq(a, 1, n) \in Seq(Nat) /\ Len(SubSeq(a, 1, n)) = n
       /\ \A i \in 1..n : SubSeq(a, 1, n)[i] = a[i]
    BY <1>1, <1>a, SubSeqProperties
<1>11. /\ SubSeq(b, 1, n) \in Seq(Nat) /\ Len(SubSeq(b, 1, n)) = n
       /\ \A i \in 1..n : SubSeq(b, 1, n)[i] = b[i]
    BY <1>1, <1>a, SubSeqProperties
<1>12. SubSeq(a, 1, n) = SubSeq(b, 1, n)
    BY <1>8, <1>9, <1>10, <1>11
<1> QED
    BY <1>1, <1>2, <1>6, <1>7, <1>9, <1>12, Zenon DEF IsSuffix, IsPrefix

(* NodeName's result, of the memory it was called on. *)
Room(m) == [i \in 0..(2 * CELLS - 1) |-> IF i < CELLS THEN m[i] ELSE 0]

StartOf(m, p, dir) == (strnidx(m, p, SPACE, IF dir THEN 1 ELSE 0) + 1) % WORD

NameIn(m, p) ==
    LET path == StringAt(m, p)
        dir == path # <<>> /\ Last(path) = SPACE
        name == strcpy(Room(m), CELLS, p + StartOf(m, p, dir))
    IN  StringAt(IF dir THEN memrplc(name, CELLS, SPACE, 0, strlen(name, CELLS)) ELSE name, CELLS)

LastComponent(r, path) ==
    LET whole == IF Last(path) = SPACE THEN Front(path) ELSE path
    IN  /\ IsSuffix(r, whole)
        /\ \A i \in DOMAIN r : r[i] # SPACE
        /\ r = whole \/ whole[Len(whole) - Len(r)] = SPACE

(* Where the last component starts and ends, as offsets in the path of some length. *)
Component(m, p, start, end) ==
    /\ start \in 0..end
    /\ start = 0 \/ m[p + start - 1] = SPACE
    /\ \A i \in start..(end - 1) : m[p + i] # SPACE

LEMMA StartIs ==
    ASSUME NEW m, NEW top, IsMemory(m, top), top + 1 < WORD, NEW p, NEW k, Ends(m, top, p, k),
           k # p, NEW end, end = IF m[k - 1] = SPACE THEN k - p - 1 ELSE k - p
    PROVE  Component(m, p, StartOf(m, p, m[k - 1] = SPACE), end)
<1>1. /\ top \in Nat /\ p \in 0..top /\ k \in (p + 1)..top /\ WORD \in Nat \ {0} /\ top < WORD
      /\ m \in [0..top -> Nat]
    BY WordAssumption DEF IsMemory, Ends
<1> DEFINE O == Occurs(m, p, k - p)
           skip == IF m[k - 1] = SPACE THEN 1 ELSE 0
           r == strnidx(m, p, SPACE, skip)
           start == StartOf(m, p, m[k - 1] = SPACE)
<1>2. start = (r + 1) % WORD
    BY DEF StartOf
<1>3. FoundBackwards(r, m, p, k - p, skip)
    <2>1. skip \in Nat
        OBVIOUS
    <2> HIDE DEF skip
    <2> QED
        BY <1>1, <2>1, StrnidxIs
<1> HIDE DEF r, start
<1>4. /\ Cardinality(O) <= skip => r = WORD - 1
      /\ ~(Cardinality(O) <= skip) => r \in O /\ Cardinality({i \in O : i > r}) = skip
    BY <1>3 DEF FoundBackwards
<1>5. IsFiniteSet(O) /\ O \subseteq 0..(k - p - 1)
    <2>1. O \subseteq 0..(k - p - 1)
        BY DEF Occurs
    <2>2. IsFiniteSet(0..(k - p - 1))
        BY <1>1, FS_Interval
    <2> HIDE DEF O
    <2> QED
        BY <2>1, <2>2, FS_Subset
<1>6. k - p - 1 \in Nat /\ p + (k - p - 1) = k - 1
    BY <1>1
<1>7. m[k - 1] = SPACE <=> k - p - 1 \in O
    BY <1>6 DEF Occurs
<1>8. \A i \in 0..(k - p - 1) : i \in O <=> m[p + i] = SPACE
    BY DEF Occurs
<1> HIDE DEF O
<1>9. CASE Cardinality(O) <= skip
    <2>1. start = 0
        <3>1. r + 1 = WORD
            BY <1>1, <1>4, <1>9
        <3>2. WORD % WORD = 0
            BY <1>1
        <3> QED
            BY <1>2, <3>1, <3>2
    <2>2. ASSUME NEW i \in 0..(end - 1) PROVE i \notin O
        <3>1. SUFFICES ASSUME i \in O PROVE FALSE
            OBVIOUS
        <3>2. CASE m[k - 1] = SPACE
            <4>1. skip = 1 /\ i # k - p - 1
                BY <1>1, <3>2
            <4>2. {i, k - p - 1} \subseteq O
                BY <1>7, <3>1, <3>2
            <4>3. Cardinality({i, k - p - 1}) = 2
                <5>1. IsFiniteSet({k - p - 1}) /\ Cardinality({k - p - 1}) = 1
                    BY FS_Singleton
                <5>2. {i, k - p - 1} = {k - p - 1} \cup {i} /\ i \notin {k - p - 1}
                    BY <4>1
                <5> QED
                    BY <5>1, <5>2, FS_AddElement
            <4>4. Cardinality({i, k - p - 1}) <= Cardinality(O)
                BY <1>5, <4>2, FS_Subset
            <4>5. Cardinality(O) \in Nat
                BY <1>5, FS_CardinalityType
            <4> QED
                BY <1>9, <4>1, <4>3, <4>4, <4>5
        <3>3. CASE m[k - 1] # SPACE
            <4>1. skip = 0
                BY <3>3
            <4>2. Cardinality(O) \in Nat
                BY <1>5, FS_CardinalityType
            <4>3. Cardinality(O) = 0
                BY <1>9, <4>1, <4>2
            <4>4. O = {}
                BY <1>5, <4>3, FS_EmptySet
            <4> QED
                BY <3>1, <4>4
        <3> QED
            BY <3>2, <3>3
    <2>3. end \in Nat /\ end <= k - p
        BY <1>1
    <2>4. ASSUME NEW i \in 0..(end - 1) PROVE m[p + i] # SPACE
        <3>1. i \in 0..(k - p - 1)
            BY <1>1, <2>3
        <3> QED
            BY <1>8, <2>2, <3>1
    <2> QED
        BY <2>1, <2>3, <2>4 DEF Component, start
<1>10. CASE ~(Cardinality(O) <= skip)
    <2>1. r \in O /\ r \in 0..(k - p - 1) /\ Cardinality({i \in O : i > r}) = skip
        BY <1>4, <1>5, <1>10
    <2>2. start = r + 1
        <3>1. r + 1 \in 0..(WORD - 1)
            BY <1>1, <2>1
        <3>2. (r + 1) % WORD = r + 1
            BY <1>1, <3>1
        <3> QED
            BY <1>2, <3>2
    <2>3. IsFiniteSet({i \in O : i > r})
        <3>1. {i \in O : i > r} \subseteq O
            OBVIOUS
        <3> QED
            BY <1>5, <3>1, FS_Subset
    <2>4. m[p + r] = SPACE /\ p + start - 1 = p + r
        BY <1>1, <1>8, <2>1, <2>2
    <2>5. CASE m[k - 1] = SPACE
        <3>1. skip = 1 /\ end = k - p - 1
            BY <2>5
        <3>2. PICK e : {i \in O : i > r} = {e}
            BY <2>1, <2>3, <3>1, FS_Singleton
        <3>3. e \in O /\ e > r
            BY <3>2
        <3>4. r < k - p - 1
            BY <1>1, <1>5, <2>1, <3>3
        <3>5. e = k - p - 1
            BY <1>7, <2>5, <3>2, <3>4
        <3>6. start \in 0..end
            BY <1>1, <2>1, <2>2, <3>1, <3>4
        <3>7. ASSUME NEW i \in start..(end - 1) PROVE m[p + i] # SPACE
            <4>1. i \in 0..(k - p - 1) /\ i > r /\ i # e
                BY <1>1, <2>1, <2>2, <3>1, <3>5
            <4>2. i \notin O
                BY <3>2, <4>1
            <4> QED
                BY <1>8, <4>1, <4>2
        <3> QED
            BY <2>4, <3>6, <3>7 DEF Component, start
    <2>6. CASE m[k - 1] # SPACE
        <3>1. skip = 0 /\ end = k - p
            BY <2>6
        <3>2. {i \in O : i > r} = {}
            BY <2>1, <2>3, <3>1, FS_EmptySet
        <3>3. start \in 0..end
            BY <1>1, <2>1, <2>2, <3>1
        <3>4. ASSUME NEW i \in start..(end - 1) PROVE m[p + i] # SPACE
            <4>1. i \in 0..(k - p - 1) /\ i > r
                BY <1>1, <2>1, <2>2, <3>1
            <4>2. i \notin O
                BY <3>2, <4>1
            <4> QED
                BY <1>8, <4>1, <4>2
        <3> QED
            BY <2>4, <3>3, <3>4 DEF Component, start
    <2> QED
        BY <2>5, <2>6
<1> QED
    BY <1>9, <1>10

(* The string that ends the path's, from where the component starts to where it ends. *)
LEMMA ComponentIsLast ==
    ASSUME NEW m, NEW top, IsMemory(m, top), NEW p, NEW k, Ends(m, top, p, k), k # p,
           NEW end, end = IF m[k - 1] = SPACE THEN k - p - 1 ELSE k - p,
           NEW start, Component(m, p, start, end),
           NEW r \in Seq(Nat), Len(r) = end - start, \A i \in 1..(end - start) : r[i] = m[p + start + i - 1]
    PROVE  LastComponent(r, StringAt(m, p))
<1>1. /\ top \in Nat /\ p \in 0..top /\ k \in (p + 1)..top /\ m \in [0..top -> Nat]
    BY DEF IsMemory, Ends
<1>2. PICK path : path = StringAt(m, p)
    OBVIOUS
<1>3. path \in Seq(Nat) /\ Len(path) = k - p /\ \A i \in 1..(k - p) : path[i] = m[p + i - 1]
    BY <1>2, StringIs
<1>4. /\ start \in 0..end /\ (start = 0 \/ m[p + start - 1] = SPACE)
      /\ \A i \in start..(end - 1) : m[p + i] # SPACE
    BY DEF Component
<1>5. Last(path) = m[k - 1]
    <2>1. k - p \in 1..(k - p) /\ p + (k - p) - 1 = k - 1
        BY <1>1
    <2> QED
        BY <1>3, <2>1 DEF Last
<1>6. PICK whole : whole = IF Last(path) = SPACE THEN Front(path) ELSE path
    OBVIOUS
<1>7. /\ whole \in Seq(Nat) /\ Len(whole) = end /\ end \in Nat
      /\ \A i \in 1..end : whole[i] = m[p + i - 1]
    <2>1. CASE m[k - 1] = SPACE
        <3>1. whole = SubSeq(path, 1, end) /\ end = k - p - 1 /\ end \in Nat
            BY <1>1, <1>3, <1>5, <1>6, <2>1 DEF Front
        <3>2. ASSUME NEW i \in 1..end PROVE path[i] \in Nat /\ path[i] = m[p + i - 1]
            <4>1. i \in 1..Len(path) /\ i \in 1..(k - p)
                BY <1>1, <1>3, <3>1
            <4> QED
                BY <1>3, <4>1, ElementOfSeq
        <3>3. /\ whole \in Seq(Nat) /\ Len(whole) = end
              /\ \A i \in 1..end : whole[i] = path[i]
            <4>1. \A i \in 1..end : path[i] \in Nat
                BY <3>2
            <4>2. /\ SubSeq(path, 1, end) \in Seq(Nat)
                  /\ Len(SubSeq(path, 1, end)) = IF 1 <= end THEN end - 1 + 1 ELSE 0
                  /\ \A i \in 1..(end - 1 + 1) : SubSeq(path, 1, end)[i] = path[1 + i - 1]
                BY <3>1, <4>1, SubSeqProperties
            <4> QED
                BY <3>1, <4>2
        <3> QED
            BY <3>1, <3>2, <3>3
    <2>2. CASE m[k - 1] # SPACE
        <3>1. whole = path /\ end = k - p
            BY <1>5, <1>6, <2>2
        <3> QED
            BY <1>1, <1>3, <3>1
    <2> QED
        BY <2>1, <2>2
<1>8. start \in Nat /\ Len(r) = end - start /\ end - start \in Nat
    BY <1>4, <1>7
<1>9. ASSUME NEW i \in 1..(end - start) PROVE r[i] = whole[start + i] /\ r[i] # SPACE
    <2>1. start + i \in 1..end /\ p + (start + i) - 1 = p + start + i - 1
        BY <1>1, <1>8
    <2>2. whole[start + i] = m[p + start + i - 1]
        BY <1>7, <2>1
    <2>3. start + i - 1 \in start..(end - 1) /\ p + (start + i - 1) = p + start + i - 1
        BY <1>1, <1>8
    <2>4. m[p + start + i - 1] # SPACE
        BY <1>4, <2>3
    <2> QED
        BY <2>2, <2>4
<1>10. IsSuffix(r, whole)
    <2>1. Len(r) <= Len(whole)
        BY <1>7, <1>8
    <2>2. Len(whole) - Len(r) = start
        BY <1>7, <1>8
    <2>3. ASSUME NEW i \in 1..Len(r) PROVE r[i] = whole[Len(whole) - Len(r) + i]
        BY <1>8, <1>9, <2>2
    <2> QED
        BY <1>7, <2>1, <2>3, SuffixIs
<1>11. \A i \in DOMAIN r : r[i] # SPACE
    <2>1. DOMAIN r = 1..(end - start)
        BY <1>8, LenProperties
    <2> QED
        BY <1>9, <2>1
<1>12. CASE start = 0
    <2>1. Len(r) = Len(whole) /\ \A i \in 1..Len(r) : r[i] = whole[i]
        BY <1>7, <1>8, <1>9, <1>12
    <2>2. r = whole
        BY <1>7, <2>1, SeqEqual
    <2> QED
        BY <1>2, <1>6, <1>10, <1>11, <2>2, Zenon DEF LastComponent
<1>13. CASE start # 0
    <2>1. start \in 1..end /\ Len(whole) - Len(r) = start
        BY <1>4, <1>7, <1>8, <1>13
    <2>2. whole[Len(whole) - Len(r)] = SPACE
        BY <1>4, <1>7, <1>13, <2>1
    <2> QED
        BY <1>2, <1>6, <1>10, <1>11, <2>2, Zenon DEF LastComponent
<1> QED
    BY <1>12, <1>13

LEMMA NameIs ==
    ASSUME NEW m, IsMemory(m, CELLS - 1), NEW p \in Address, StringAt(m, p) # <<>>
    PROVE  LastComponent(NameIn(m, p), StringAt(m, p))
<1>1. PICK top : top = CELLS - 1 /\ top \in Nat /\ top + 1 < WORD
    BY MemoryAssumption, WordAssumption
<1>2. IsMemory(m, top) /\ p \in 0..top
    BY <1>1 DEF Address
<1>3. PICK k : Ends(m, top, p, k)
    BY <1>2, HasEnd
<1>4. /\ StringAt(m, p) \in Seq(Nat) /\ Len(StringAt(m, p)) = k - p
      /\ \A i \in 1..(k - p) : StringAt(m, p)[i] = m[p + i - 1]
    BY <1>2, <1>3, StringIs
<1>5. /\ top \in Nat /\ p \in 0..top /\ k \in p..top /\ m \in [0..top -> Nat] /\ m[top] = 0
      /\ m[k] = 0 /\ \A i \in p..(k - 1) : m[i] # 0
    BY <1>2, <1>3 DEF IsMemory, Ends
<1>6. k # p
    <2>1. Len(StringAt(m, p)) # 0
        BY <1>4, EmptySeq
    <2> QED
        BY <1>4, <1>5, <2>1
<1>7. Last(StringAt(m, p)) = m[k - 1]
    <2>1. k - p \in 1..(k - p) /\ p + (k - p) - 1 = k - 1
        BY <1>5, <1>6
    <2> QED
        BY <1>4, <2>1 DEF Last
<1>8. PICK end : end = IF m[k - 1] = SPACE THEN k - p - 1 ELSE k - p
    OBVIOUS
<1>9. PICK start : start = StartOf(m, p, m[k - 1] = SPACE)
    OBVIOUS
<1>10. Component(m, p, start, end)
    BY <1>1, <1>2, <1>3, <1>6, <1>8, <1>9, StartIs
<1>11. start \in 0..end /\ \A i \in start..(end - 1) : m[p + i] # SPACE
    BY <1>10 DEF Component
<1>12. start \in Nat /\ end \in Nat /\ end <= k - p /\ p + start \in p..k /\ start <= end
    BY <1>5, <1>6, <1>8, <1>11
<1>a. PICK src : src = p + start
    OBVIOUS
<1>b. PICK length : length = k - src
    OBVIOUS
<1>c. PICK last : last = 2 * CELLS - 1
    OBVIOUS
<1>d. PICK size : size = end - start
    OBVIOUS
<1>e. PICK room : room = Room(m)
    OBVIOUS
<1>f. PICK name : name = strcpy(room, CELLS, src)
    OBVIOUS
<1>13. /\ last \in Nat /\ CELLS \in Nat \ {0} /\ CELLS = top + 1 /\ last = top + CELLS
       /\ src \in 0..top /\ src \in p..k /\ length \in Nat
    <2>1. CELLS \in Nat \ {0} /\ CELLS = top + 1
        BY <1>1, MemoryAssumption
    <2>2. last \in Nat /\ last = top + CELLS
        BY <1>1, <1>c, <2>1
    <2>3. src \in p..k /\ src \in 0..top
        BY <1>5, <1>12, <1>a
    <2> QED
        BY <1>5, <1>b, <2>1, <2>2, <2>3
<1>14. IsMemory(room, last) /\ \A i \in 0..top : room[i] = m[i]
    <2>1. ASSUME NEW i \in 0..last PROVE (IF i < CELLS THEN m[i] ELSE 0) \in Nat
        <3>1. CASE i < CELLS
            BY <1>5, <1>13, <3>1
        <3>2. CASE ~(i < CELLS)
            BY <3>2
        <3> QED
            BY <3>1, <3>2
    <2>2. room = [i \in 0..last |-> IF i < CELLS THEN m[i] ELSE 0]
        BY <1>c, <1>e DEF Room
    <2>3. room \in [0..last -> Nat]
        BY <2>1, <2>2
    <2>4. room[last] = 0
        <3>1. last \in 0..last
            BY <1>13
        <3>2. CASE last < CELLS
            <4>1. last = top
                BY <1>1, <1>13, <3>2
            <4> QED
                BY <1>5, <2>2, <3>1, <3>2, <4>1
        <3>3. CASE ~(last < CELLS)
            BY <2>2, <3>1, <3>3
        <3> QED
            BY <3>2, <3>3
    <2>5. ASSUME NEW i \in 0..top PROVE room[i] = m[i]
        <3>1. i \in 0..last /\ i < CELLS
            BY <1>1, <1>13
        <3> QED
            BY <2>2, <3>1
    <2> QED
        BY <1>13, <2>3, <2>4, <2>5 DEF IsMemory
<1>15. Ends(room, last, src, k)
    <2>1. ASSUME NEW i \in src..(k - 1) PROVE room[i] # 0
        <3>1. i \in p..(k - 1) /\ i \in 0..top
            BY <1>5, <1>13
        <3> QED
            BY <1>5, <1>14, <3>1
    <2>2. src \in 0..last /\ k \in src..last /\ k \in 0..top
        BY <1>5, <1>13
    <2>3. room[k] = 0
        BY <1>5, <1>14, <2>2
    <2> QED
        BY <2>1, <2>2, <2>3 DEF Ends
<1>16. /\ IsMemory(name, last)
       /\ Ends(name, last, CELLS, CELLS + length)
       /\ \A i \in 0..length : name[CELLS + i] = m[src + i]
    <2>1. CELLS \in Nat /\ k < CELLS /\ CELLS + (k - src) <= last
        BY <1>5, <1>13
    <2>2. /\ IsMemory(name, last)
          /\ Ends(name, last, CELLS, CELLS + (k - src))
          /\ \A i \in 0..(k - src) : name[CELLS + i] = room[src + i]
        <3> QED
            BY <1>14, <1>15, <1>f, <2>1, StrcpyIs
    <2>3. \A i \in 0..length : src + i \in 0..top
        BY <1>5, <1>13, <1>b
    <2> QED
        BY <1>14, <1>b, <2>2, <2>3
<1> DEFINE dir == m[k - 1] = SPACE
           cut == memrplc(name, CELLS, SPACE, 0, strlen(name, CELLS))
           final == IF dir THEN cut ELSE name
<1>17. NameIn(m, p) = StringAt(final, CELLS)
    <2>1. (StringAt(m, p) # <<>> /\ Last(StringAt(m, p)) = SPACE) = dir
        BY <1>7
    <2> QED
        BY <1>9, <1>a, <1>e, <1>f, <2>1 DEF NameIn, cut
<1>18. /\ name \in [0..last -> Nat] /\ name[last] = 0
       /\ \A i \in CELLS..(CELLS + length - 1) : name[i] # 0
       /\ name[CELLS + length] = 0
    <2>1. name \in [0..last -> Nat] /\ name[last] = 0
        BY <1>16 DEF IsMemory
    <2>2. /\ \A i \in CELLS..(CELLS + length - 1) : name[i] # 0
          /\ name[CELLS + length] = 0
        BY <1>13, <1>16 DEF Ends
    <2> QED
        BY <2>1, <2>2
<1>19. /\ size \in Nat /\ size <= length /\ CELLS + length \in 0..last
       /\ size = IF dir THEN length - 1 ELSE length
       /\ CELLS + size \in CELLS..last /\ CELLS \in 0..last
    BY <1>5, <1>8, <1>12, <1>13, <1>16, <1>a, <1>b, <1>d DEF Ends
<1>20. ASSUME NEW i \in 0..(size - 1) PROVE name[CELLS + i] = m[src + i] /\ m[src + i] # SPACE
    <2>0. size \in Nat /\ size <= length /\ length \in Nat
        BY <1>13, <1>19
    <2>1. i \in 0..length /\ start + i \in start..(end - 1) /\ p + (start + i) = src + i
        BY <1>5, <1>12, <1>a, <1>d, <2>0
    <2>2. m[p + (start + i)] # SPACE
        BY <1>11, <2>1
    <2> QED
        BY <1>16, <2>1, <2>2
<1>21. /\ IsMemory(final, last) /\ Ends(final, last, CELLS, CELLS + size)
       /\ \A i \in 0..(size - 1) : final[CELLS + i] = m[src + i]
    <2>1. CASE ~dir
        <3>1. final = name /\ size = length
            BY <1>19, <2>1
        <3> HIDE DEF final
        <3>2. \A i \in 0..(size - 1) : final[CELLS + i] = m[src + i]
            BY <1>20, <3>1
        <3> QED
            BY <1>16, <3>1, <3>2
    <2>2. CASE dir
        <3>1. strlen(name, CELLS) = length
            <4>1. strlen(name, CELLS) = (CELLS + length) - CELLS
                BY <1>16, StringIs
            <4> QED
                BY <1>13, <4>1
        <3>2. final = [q \in 0..last |-> IF q \in CELLS..(CELLS + length - 1) /\ name[q] = SPACE
                                         THEN 0 ELSE name[q]]
            BY <1>18, <2>2, <3>1 DEF memrplc
        <3> HIDE DEF final
        <3>3. final \in [0..last -> Nat]
            BY <1>18, <3>2
        <3>4. final[last] = 0
            <4>1. last \in 0..last
                BY <1>13
            <4> QED
                BY <1>18, <3>2, <4>1
        <3>5. ASSUME NEW i \in 0..(size - 1) PROVE final[CELLS + i] = m[src + i] /\ final[CELLS + i] # 0
            <4>1. CELLS + i \in 0..last /\ CELLS + i \in CELLS..(CELLS + length - 1)
                BY <1>13, <1>19
            <4>2. final[CELLS + i] = name[CELLS + i]
                BY <1>20, <3>2, <4>1
            <4> QED
                BY <1>18, <1>20, <4>1, <4>2
        <3>6. final[CELLS + size] = 0
            <4>1. size = length - 1 /\ size \in 0..length
                BY <1>19, <2>2
            <4>2. src + size = k - 1
                BY <1>5, <1>13, <1>b, <4>1
            <4>3. name[CELLS + size] = SPACE
                BY <1>16, <2>2, <4>1, <4>2
            <4>4. CELLS + size \in 0..last /\ CELLS + size \in CELLS..(CELLS + length - 1)
                BY <1>13, <1>19, <4>1
            <4> QED
                BY <3>2, <4>3, <4>4
        <3>7. ASSUME NEW q \in CELLS..(CELLS + size - 1) PROVE final[q] # 0
            <4>0. size \in Nat /\ CELLS \in Nat
                BY <1>13, <1>19
            <4>1. q - CELLS \in 0..(size - 1) /\ CELLS + (q - CELLS) = q
                BY <4>0
            <4> QED
                BY <3>5, <4>1
        <3>8. Ends(final, last, CELLS, CELLS + size)
            BY <1>19, <3>6, <3>7 DEF Ends
        <3> QED
            BY <1>13, <3>3, <3>4, <3>5, <3>8 DEF IsMemory
    <2> QED
        BY <2>1, <2>2
<1> HIDE DEF final
<1>22. PICK r : r = NameIn(m, p)
    OBVIOUS
<1>23. r \in Seq(Nat) /\ Len(r) = size /\ \A i \in 1..size : r[i] = final[CELLS + i - 1]
    <2>1. (CELLS + size) - CELLS = size
        BY <1>13, <1>19
    <2> QED
        BY <1>17, <1>21, <1>22, <2>1, StringIs
<1>24. \A i \in 1..(end - start) : r[i] = m[p + start + i - 1]
    <2>1. ASSUME NEW i \in 1..size PROVE r[i] = m[p + start + i - 1]
        <3>1. i - 1 \in 0..(size - 1) /\ CELLS + (i - 1) = CELLS + i - 1 /\ src + (i - 1) = p + start + i - 1
            BY <1>5, <1>12, <1>13, <1>19, <1>a
        <3> QED
            BY <1>21, <1>23, <3>1
    <2> QED
        BY <1>d, <2>1
<1>25. r \in Seq(Nat) /\ Len(r) = end - start
    BY <1>23, <1>d
<1> QED
    BY <1>2, <1>3, <1>6, <1>8, <1>10, <1>22, <1>24, <1>25, ComponentIsLast

LEMMA NameStep == Memory /\ NamesLastComponent /\ [Next]_vars => NamesLastComponent'
<1> SUFFICES ASSUME Memory, NamesLastComponent, [Next]_vars PROVE NamesLastComponent'
    OBVIOUS
<1>0. IsMemory(before, CELLS - 1) /\ (call.f = "none" => mem = before)
    BY DEF Memory
<1>1. CASE UNCHANGED vars
    BY <1>1 DEF NamesLastComponent, vars, StringAt, strlen, End
<1>2. CASE Next
    <2>1. mem = before
        BY <1>0, <1>2 DEF Next
    <2>2. CASE NodeName
        <3>1. PICK p \in Address :
                  /\ StringAt(before, p) \notin {<<>>, <<SPACE>>}
                  /\ call' = [f |-> "name", p |-> p]
                  /\ result' = NameIn(before, p)
                  /\ before' = before
            BY <2>1, <2>2, Zenon DEF NodeName, Returns, NameIn, StartOf, Room
        <3>2. call'.f = "name" /\ call'.p = p
            BY <3>1
        <3>3. LastComponent(NameIn(before, p), StringAt(before, p))
            BY <1>0, <3>1, NameIs
        <3>4. LastComponent(result', StringAt(before', call'.p))
            BY <3>1, <3>2, <3>3
        <3> QED
            BY <3>4, Zenon DEF NamesLastComponent, LastComponent
    <2>3. CASE call'.f # "name"
        BY <2>3 DEF NamesLastComponent
    <2>4. NodeName \/ call'.f # "name"
        BY <1>2, CallsAre
    <2> QED
        BY <2>2, <2>3, <2>4
<1> QED
    BY <1>1, <1>2

(* A node is named for the last component of the path, a directory's too, and that of a *)
(* path without a separator, for which the index wraps to its start.                    *)
THEOREM NamesTheLastComponent == Spec => []NamesLastComponent
<1>1. Init => NamesLastComponent
    BY DEF Init, NamesLastComponent
<1> QED
    BY <1>1, MemoryKept, NameStep, PTL DEF Spec

(***************************************************************************)
(* The text of a number.                                                    *)
(***************************************************************************)
Taken(s, c) ==
    IF ~s.conversion
    THEN IF c = PERCENT THEN [s EXCEPT !.conversion = TRUE]
         ELSE [s EXCEPT !.text = Append(@, c)]
    ELSE IF c \in Bullets
    THEN [s EXCEPT !.conversion = FALSE, !.text = @ \o Bullet]
    ELSE [conversion |-> FALSE, args |-> Tail(s.args),
          text |-> s.text \o Converted(c, Head(s.args))]

TakeAll(base, format) ==
    LET Take(s, c) == Taken(s, c) IN FoldLeft(Take, base, format)

(* The states of kprintf, a character of the format at a time. *)
TakeRun(g, base, format) ==
    /\ g[0] = base
    /\ \A i \in 1..Len(format) : g[i] = Taken(g[i - 1], format[i])

LEMMA TakeRuns ==
    ASSUME NEW base, NEW format, Len(format) \in Nat, DOMAIN format = 1..Len(format)
    PROVE  \E g : TakeRun(g, base, format) /\ TakeAll(base, format) = g[Len(format)]
<1> DEFINE n == Len(format)
           Unfolded(h, m) == [u \in SUBSET (1..m) |->
                              IF u = {} THEN base
                              ELSE Taken(h[u \ {Max(u)}], format[Max(u)])]
           Whole(h) == [u \in SUBSET (DOMAIN format) |->
                        IF u = {} THEN base
                        ELSE Taken(h[u \ {Max(u)}], format[Max(u)])]
           iter == CHOOSE h : h = Whole(h)
           Solved == {m \in 0..n : \E h : h = Unfolded(h, m)}
<1>1. n \in Nat /\ DOMAIN format = 1..n
    OBVIOUS
<1>2. TakeAll(base, format) = iter[DOMAIN format]
    BY Zenon DEF TakeAll, FoldLeft, MapThenFoldSet
<1> HIDE DEF n
<1>3. 0 \in Solved
    <2> DEFINE h == [u \in SUBSET (1..0) |-> base]
    <2>1. \A u \in SUBSET (1..0) : u = {}
        OBVIOUS
    <2>2. h = Unfolded(h, 0)
        BY <2>1
    <2> HIDE DEF Unfolded, h
    <2>3. 0 \in 0..n
        BY <1>1
    <2> QED
        BY <2>2, <2>3
<1>4. ASSUME NEW m \in 1..n, m - 1 \in Solved PROVE m \in Solved
    <2>1. PICK h : h = Unfolded(h, m - 1)
        BY <1>4
    <2> DEFINE g == [u \in SUBSET (1..m) |->
                     IF m \in u THEN Taken(h[u \ {m}], format[m]) ELSE h[u]]
    <2>2. \A u \in SUBSET (1..(m - 1)) :
              h[u] = IF u = {} THEN base
                     ELSE Taken(h[u \ {Max(u)}], format[Max(u)])
        BY <2>1
    <2>3. m \in Nat
        BY <1>1
    <2>4. ASSUME NEW u \in SUBSET (1..m)
          PROVE  g[u] = IF u = {} THEN base
                        ELSE Taken(g[u \ {Max(u)}], format[Max(u)])
        <3>1. CASE m \in u
            <4>1. Max(u) = m /\ u # {}
                BY <2>3, <3>1, MaxIs
            <4>2. u \ {m} \in SUBSET (1..m) /\ m \notin u \ {m}
                OBVIOUS
            <4>3. g[u \ {m}] = h[u \ {m}]
                BY <4>2
            <4>4. g[u] = Taken(h[u \ {m}], format[m])
                BY <3>1
            <4> HIDE DEF g
            <4> QED
                BY <4>1, <4>3, <4>4
        <3>2. CASE m \notin u
            <4>1. u \in SUBSET (1..(m - 1))
                BY <2>3, <3>2
            <4>2. g[u] = h[u]
                BY <3>2
            <4>3. u # {} => g[u \ {Max(u)}] = h[u \ {Max(u)}]
                <5>1. u \ {Max(u)} \in SUBSET (1..m) /\ m \notin u \ {Max(u)}
                    BY <3>2
                <5> QED
                    BY <5>1
            <4> HIDE DEF g
            <4> QED
                BY <2>2, <4>1, <4>2, <4>3
        <3> QED
            BY <3>1, <3>2
    <2>5. g = [u \in SUBSET (1..m) |-> g[u]]
        OBVIOUS
    <2> HIDE DEF g
    <2>6. g = Unfolded(g, m)
        BY <2>4, <2>5
    <2>7. m \in 0..n
        BY <1>1
    <2> HIDE DEF Unfolded
    <2> QED
        BY <2>6, <2>7
<1>5. n \in Solved
    <2> HIDE DEF Solved
    <2>1. n \in 0..n
        BY <1>1
    <2> QED
        BY <1>1, <1>3, <1>4, <2>1, UpTo
<1>6. PICK h : h = Unfolded(h, n)
    <2> HIDE DEF Unfolded
    <2> QED
        BY <1>5
<1>7. h = Whole(h)
    BY <1>1, <1>6
<1>8. iter = Whole(iter)
    <2> HIDE DEF Whole
    <2> QED
        BY <1>7
<1>9. \A u \in SUBSET (1..n) :
          iter[u] = IF u = {} THEN base
                    ELSE Taken(iter[u \ {Max(u)}], format[Max(u)])
    <2> HIDE DEF iter
    <2> QED
        BY <1>1, <1>8
<1> HIDE DEF iter, Solved
<1> DEFINE g == [i \in 0..n |-> iter[1..i]]
<1>10. g[0] = base
    <2>1. 1..0 = {} /\ 0 \in 0..n /\ 1..0 \in SUBSET (1..n)
        BY <1>1
    <2> QED
        BY <1>9, <2>1
<1>11. ASSUME NEW i \in 1..n PROVE g[i] = Taken(g[i - 1], format[i])
    <2>0. i \in Nat /\ i >= 1 /\ i <= n
        BY <1>1
    <2>1. 1..i \in SUBSET (1..n) /\ i \in 1..i /\ 1..i # {} /\ i \in 0..n /\ i - 1 \in 0..n
        <3>1. \A j \in 1..i : j \in 1..n
            BY <1>1, <2>0
        <3>2. i \in 1..i /\ i \in 0..n /\ i - 1 \in 0..n
            BY <1>1, <2>0
        <3> QED
            BY <3>1, <3>2
    <2>2. Max(1..i) = i
        BY <2>0, <2>1, MaxIs
    <2>3. (1..i) \ {i} = 1..(i - 1)
        BY <2>0
    <2>4. g[i] = iter[1..i] /\ g[i - 1] = iter[1..(i - 1)]
        BY <2>1
    <2> HIDE DEF g
    <2> QED
        BY <1>9, <2>1, <2>2, <2>3, <2>4
<1>12. TakeAll(base, format) = g[n]
    <2>1. n \in 0..n
        BY <1>1
    <2> QED
        BY <1>1, <1>2, <2>1
<1> HIDE DEF g
<1> QED
    BY <1>10, <1>11, <1>12 DEF TakeRun, n

Printing(s, conversion, args, text) ==
    s = [conversion |-> conversion, args |-> args, text |-> text]

LEMMA PrintingParts ==
    ASSUME NEW x, NEW a, NEW t, NEW s \in [conversion : {x}, args : {a}, text : {t}]
    PROVE  s = [conversion |-> x, args |-> a, text |-> t]
OBVIOUS

LEMMA PercentTaken ==
    ASSUME NEW s, NEW a, NEW t, Printing(s, FALSE, a, t)
    PROVE  Printing(Taken(s, PERCENT), TRUE, a, t)
<1>1. s = [conversion |-> FALSE, args |-> a, text |-> t]
    BY DEF Printing
<1>2. Taken(s, PERCENT) = [s EXCEPT !.conversion = TRUE]
    BY <1>1 DEF Taken
<1>3. [s EXCEPT !.conversion = TRUE] = [conversion |-> TRUE, args |-> a, text |-> t]
    <2>1. s \in [conversion : BOOLEAN, args : {a}, text : {t}]
        BY <1>1
    <2>2. [s EXCEPT !.conversion = TRUE] \in [conversion : {TRUE}, args : {a}, text : {t}]
        BY <2>1
    <2> QED
        BY <2>2, PrintingParts
<1> QED
    BY <1>2, <1>3 DEF Printing

LEMMA BulletTaken ==
    ASSUME NEW s, NEW a, NEW t, Printing(s, TRUE, a, t), NEW c \in Bullets
    PROVE  Printing(Taken(s, c), FALSE, a, t \o Bullet)
<1>1. s = [conversion |-> TRUE, args |-> a, text |-> t]
    BY DEF Printing
<1>2. Taken(s, c) = [s EXCEPT !.conversion = FALSE, !.text = @ \o Bullet]
    BY <1>1, Zenon DEF Taken
<1>3. PICK v : v = t \o Bullet
    OBVIOUS
<1>4. [s EXCEPT !.conversion = FALSE, !.text = @ \o Bullet] = [s EXCEPT !.conversion = FALSE, !.text = v]
    BY <1>1, <1>3
<1>5. [s EXCEPT !.conversion = FALSE, !.text = v] = [conversion |-> FALSE, args |-> a, text |-> v]
    <2>1. s \in [conversion : BOOLEAN, args : {a}, text : {t}]
        BY <1>1
    <2>2. [s EXCEPT !.conversion = FALSE, !.text = v] \in [conversion : {FALSE}, args : {a}, text : {v}]
        BY <2>1
    <2> QED
        BY <2>2, PrintingParts
<1> QED
    BY <1>2, <1>3, <1>4, <1>5 DEF Printing

LEMMA ArgumentTaken ==
    ASSUME NEW s, NEW a, NEW t, Printing(s, TRUE, a, t), NEW c, c \notin Bullets
    PROVE  Printing(Taken(s, c), FALSE, Tail(a), t \o Converted(c, Head(a)))
<1>1. s = [conversion |-> TRUE, args |-> a, text |-> t]
    BY DEF Printing
<1>2. s.conversion = TRUE /\ s.args = a /\ s.text = t
    BY <1>1
<1> QED
    BY <1>2, Zenon DEF Taken, Printing

LEMMA FormattedIs ==
    ASSUME NEW base \in {DECIMAL, UNSIGNED, HEXADECIMAL}, NEW d \in Int, NEW string \in Seq(Nat)
    PROVE  Formatted(<<PERCENT, 43, PERCENT, base, PERCENT, TEXT>>, <<d, string>>)
               = ((<<>> \o Bullet) \o itoa(base, d)) \o (IF string = Null THEN NullText ELSE string)
<1> DEFINE format == <<PERCENT, 43, PERCENT, base, PERCENT, TEXT>>
           args == <<d, string>>
           start == [conversion |-> FALSE, args |-> args, text |-> <<>>]
<1>1. Formatted(format, args) = TakeAll(start, format).text
    BY Zenon DEF Formatted, TakeAll, Taken
<1>2. /\ Len(format) = 6 /\ DOMAIN format = 1..6
      /\ format[1] = PERCENT /\ format[2] = 43 /\ format[3] = PERCENT /\ format[4] = base
      /\ format[5] = PERCENT /\ format[6] = TEXT
    OBVIOUS
<1>3. Head(args) = d /\ Head(Tail(args)) = string
    OBVIOUS
<1>4. Printing(start, FALSE, args, <<>>)
    BY DEF Printing
<1> HIDE DEF format, args, start
<1>5. PICK g : TakeRun(g, start, format) /\ TakeAll(start, format) = g[6]
    <2>1. Len(format) \in Nat /\ DOMAIN format = 1..Len(format)
        BY <1>2
    <2>2. \E h : TakeRun(h, start, format) /\ TakeAll(start, format) = h[Len(format)]
        BY <2>1, TakeRuns
    <2> QED
        BY <1>2, <2>2
<1>6. /\ g[0] = start /\ g[1] = Taken(g[0], PERCENT) /\ g[2] = Taken(g[1], 43)
      /\ g[3] = Taken(g[2], PERCENT) /\ g[4] = Taken(g[3], base)
      /\ g[5] = Taken(g[4], PERCENT) /\ g[6] = Taken(g[5], TEXT)
    <2>1. g[0] = start /\ \A i \in 1..6 : g[i] = Taken(g[i - 1], format[i])
        BY <1>2, <1>5 DEF TakeRun
    <2>2. g[1] = Taken(g[0], PERCENT)
        BY <1>2, <2>1
    <2>3. g[2] = Taken(g[1], 43)
        BY <1>2, <2>1
    <2>4. g[3] = Taken(g[2], PERCENT)
        BY <1>2, <2>1
    <2>5. g[4] = Taken(g[3], base)
        BY <1>2, <2>1
    <2>6. g[5] = Taken(g[4], PERCENT)
        BY <1>2, <2>1
    <2>7. g[6] = Taken(g[5], TEXT)
        BY <1>2, <2>1
    <2> QED
        BY <2>1, <2>2, <2>3, <2>4, <2>5, <2>6, <2>7
<1>7. 43 \in Bullets /\ base \notin Bullets /\ TEXT \notin Bullets
    BY DEF Bullets, TEXT, DECIMAL, UNSIGNED, HEXADECIMAL
<1>8. Printing(g[1], TRUE, args, <<>>)
    BY <1>4, <1>6, PercentTaken
<1>9. Printing(g[2], FALSE, args, <<>> \o Bullet)
    BY <1>6, <1>7, <1>8, BulletTaken
<1>10. Printing(g[3], TRUE, args, <<>> \o Bullet)
    BY <1>6, <1>9, PercentTaken
<1>11. Printing(g[4], FALSE, Tail(args), (<<>> \o Bullet) \o itoa(base, d))
    <2>1. Printing(g[4], FALSE, Tail(args), (<<>> \o Bullet) \o Converted(base, Head(args)))
        BY <1>6, <1>7, <1>10, ArgumentTaken
    <2>2. Converted(base, d) = itoa(base, d)
        <3>1. base # TEXT
            BY DEF TEXT, DECIMAL, UNSIGNED, HEXADECIMAL
        <3> QED
            BY <3>1, Zenon DEF Converted
    <2> QED
        BY <1>3, <2>1, <2>2
<1>12. Printing(g[5], TRUE, Tail(args), (<<>> \o Bullet) \o itoa(base, d))
    BY <1>6, <1>11, PercentTaken
<1>13. Printing(g[6], FALSE, Tail(Tail(args)),
                ((<<>> \o Bullet) \o itoa(base, d)) \o Converted(TEXT, Head(Tail(args))))
    BY <1>6, <1>7, <1>12, ArgumentTaken
<1>14. Converted(TEXT, string) = IF string = Null THEN NullText ELSE string
    <2>1. TEXT \notin {DECIMAL, UNSIGNED, HEXADECIMAL}
        BY DEF TEXT, DECIMAL, UNSIGNED, HEXADECIMAL
    <2> QED
        BY <2>1, Zenon DEF Converted
<1>15. g[6].text = ((<<>> \o Bullet) \o itoa(base, d)) \o Converted(TEXT, Head(Tail(args)))
    <2>1. PICK v : v = ((<<>> \o Bullet) \o itoa(base, d)) \o Converted(TEXT, Head(Tail(args)))
        OBVIOUS
    <2>2. Printing(g[6], FALSE, Tail(Tail(args)), v)
        BY <1>13, <2>1
    <2>3. g[6].text = v
        BY <2>2 DEF Printing
    <2> QED
        BY <2>1, <2>3
<1> QED
    BY <1>1, <1>3, <1>5, <1>14, <1>15 DEF format, args

(* What a digit stands for, and reading digits from the left. *)
Stands(c) == IF c >= 97 THEN c - 97 + 10 ELSE c - 48

ReadAs(base, digits) ==
    LET Value(c) == IF c >= 97 THEN c - 97 + 10 ELSE c - 48
    IN  FoldLeft(LAMBDA n, c : n * Divisor(base) + Value(c), 0, digits)

(* The numbers read, a digit at a time. *)
ReadRun(g, base, digits) ==
    /\ g[0] = 0
    /\ \A i \in 1..Len(digits) : g[i] = (g[i - 1] * Divisor(base) + Stands(digits[i]))

LEMMA ReadRuns ==
    ASSUME NEW base, NEW digits, Len(digits) \in Nat, DOMAIN digits = 1..Len(digits)
    PROVE  \E g : ReadRun(g, base, digits) /\ ReadAs(base, digits) = g[Len(digits)]
<1> DEFINE n == Len(digits)
           Unfolded(h, m) == [u \in SUBSET (1..m) |->
                              IF u = {} THEN 0
                              ELSE (h[u \ {Max(u)}] * Divisor(base) + Stands(digits[Max(u)]))]
           Whole(h) == [u \in SUBSET (DOMAIN digits) |->
                        IF u = {} THEN 0
                        ELSE (h[u \ {Max(u)}] * Divisor(base) + Stands(digits[Max(u)]))]
           iter == CHOOSE h : h = Whole(h)
           Solved == {m \in 0..n : \E h : h = Unfolded(h, m)}
<1>1. n \in Nat /\ DOMAIN digits = 1..n
    OBVIOUS
<1>2. ReadAs(base, digits) = iter[DOMAIN digits]
    BY Zenon DEF ReadAs, FoldLeft, MapThenFoldSet, Stands
<1> HIDE DEF n
<1>3. 0 \in Solved
    <2> DEFINE h == [u \in SUBSET (1..0) |-> 0]
    <2>1. \A u \in SUBSET (1..0) : u = {}
        OBVIOUS
    <2>2. h = Unfolded(h, 0)
        BY <2>1
    <2> HIDE DEF Unfolded, h
    <2>3. 0 \in 0..n
        BY <1>1
    <2> QED
        BY <2>2, <2>3
<1>4. ASSUME NEW m \in 1..n, m - 1 \in Solved PROVE m \in Solved
    <2>1. PICK h : h = Unfolded(h, m - 1)
        BY <1>4
    <2> DEFINE g == [u \in SUBSET (1..m) |->
                     IF m \in u THEN (h[u \ {m}] * Divisor(base) + Stands(digits[m])) ELSE h[u]]
    <2>2. \A u \in SUBSET (1..(m - 1)) :
              h[u] = IF u = {} THEN 0
                     ELSE (h[u \ {Max(u)}] * Divisor(base) + Stands(digits[Max(u)]))
        BY <2>1
    <2>3. m \in Nat
        BY <1>1
    <2>4. ASSUME NEW u \in SUBSET (1..m)
          PROVE  g[u] = IF u = {} THEN 0
                        ELSE (g[u \ {Max(u)}] * Divisor(base) + Stands(digits[Max(u)]))
        <3>1. CASE m \in u
            <4>1. Max(u) = m /\ u # {}
                BY <2>3, <3>1, MaxIs
            <4>2. u \ {m} \in SUBSET (1..m) /\ m \notin u \ {m}
                OBVIOUS
            <4>3. g[u \ {m}] = h[u \ {m}]
                BY <4>2
            <4>4. g[u] = (h[u \ {m}] * Divisor(base) + Stands(digits[m]))
                BY <3>1
            <4> HIDE DEF g
            <4> QED
                BY <4>1, <4>3, <4>4
        <3>2. CASE m \notin u
            <4>1. u \in SUBSET (1..(m - 1))
                BY <2>3, <3>2
            <4>2. g[u] = h[u]
                BY <3>2
            <4>3. u # {} => g[u \ {Max(u)}] = h[u \ {Max(u)}]
                <5>1. u \ {Max(u)} \in SUBSET (1..m) /\ m \notin u \ {Max(u)}
                    BY <3>2
                <5> QED
                    BY <5>1
            <4> HIDE DEF g
            <4> QED
                BY <2>2, <4>1, <4>2, <4>3
        <3> QED
            BY <3>1, <3>2
    <2>5. g = [u \in SUBSET (1..m) |-> g[u]]
        OBVIOUS
    <2> HIDE DEF g
    <2>6. g = Unfolded(g, m)
        BY <2>4, <2>5
    <2>7. m \in 0..n
        BY <1>1
    <2> HIDE DEF Unfolded
    <2> QED
        BY <2>6, <2>7
<1>5. n \in Solved
    <2> HIDE DEF Solved
    <2>1. n \in 0..n
        BY <1>1
    <2> QED
        BY <1>1, <1>3, <1>4, <2>1, UpTo
<1>6. PICK h : h = Unfolded(h, n)
    <2> HIDE DEF Unfolded
    <2> QED
        BY <1>5
<1>7. h = Whole(h)
    BY <1>1, <1>6
<1>8. iter = Whole(iter)
    <2> HIDE DEF Whole
    <2> QED
        BY <1>7
<1>9. \A u \in SUBSET (1..n) :
          iter[u] = IF u = {} THEN 0
                    ELSE (iter[u \ {Max(u)}] * Divisor(base) + Stands(digits[Max(u)]))
    <2> HIDE DEF iter
    <2> QED
        BY <1>1, <1>8
<1> HIDE DEF iter, Solved
<1> DEFINE g == [i \in 0..n |-> iter[1..i]]
<1>10. g[0] = 0
    <2>1. 1..0 = {} /\ 0 \in 0..n /\ 1..0 \in SUBSET (1..n)
        BY <1>1
    <2> QED
        BY <1>9, <2>1
<1>11. ASSUME NEW i \in 1..n PROVE g[i] = (g[i - 1] * Divisor(base) + Stands(digits[i]))
    <2>0. i \in Nat /\ i >= 1 /\ i <= n
        BY <1>1
    <2>1. 1..i \in SUBSET (1..n) /\ i \in 1..i /\ 1..i # {} /\ i \in 0..n /\ i - 1 \in 0..n
        <3>1. \A j \in 1..i : j \in 1..n
            BY <1>1, <2>0
        <3>2. i \in 1..i /\ i \in 0..n /\ i - 1 \in 0..n
            BY <1>1, <2>0
        <3> QED
            BY <3>1, <3>2
    <2>2. Max(1..i) = i
        BY <2>0, <2>1, MaxIs
    <2>3. (1..i) \ {i} = 1..(i - 1)
        BY <2>0
    <2>4. g[i] = iter[1..i] /\ g[i - 1] = iter[1..(i - 1)]
        BY <2>1
    <2> HIDE DEF g
    <2> QED
        BY <1>9, <2>1, <2>2, <2>3, <2>4
<1>12. ReadAs(base, digits) = g[n]
    <2>1. n \in 0..n
        BY <1>1
    <2> QED
        BY <1>1, <1>2, <2>1
<1> HIDE DEF g
<1> QED
    BY <1>10, <1>11, <1>12 DEF ReadRun, n

LEMMA DivisorIs == \A base : Divisor(base) \in {10, 16}
BY DEF Divisor

LEMMA DigitIs ==
    ASSUME NEW x \in 0..15
    PROVE  /\ Digit(x) \in Nat /\ Digit(x) >= 48 /\ Stands(Digit(x)) = x
           /\ Digit(x) = 48 => x = 0
BY DEF Digit, Stands

(* Digits last first: what is left of the number before and behind each (Left), each in   *)
(* its base, and a zero last of all only for the number zero.                             *)
Left(l, s, u, divisor) ==
    /\ l[0] = u /\ l[Len(s)] = 0
    /\ \A j \in 0..Len(s) : l[j] \in Nat
    /\ \A j \in 1..Len(s) : l[j - 1] = l[j] * divisor + Stands(s[j])

DigitsOf(s, u, divisor) ==
    /\ s \in Seq(Nat) /\ Len(s) \in Nat \ {0}
    /\ \E l : Left(l, s, u, divisor)
    /\ \A j \in 1..Len(s) : s[j] >= 48 /\ Stands(s[j]) \in 0..(divisor - 1)
    /\ s[Len(s)] = 48 => u = 0 /\ Len(s) = 1

LEMMA OneDigit ==
    ASSUME NEW divisor \in {10, 16}, NEW u \in Nat, u \div divisor = 0
    PROVE  DigitsOf(<<Digit(u % divisor)>>, u, divisor)
<1>1. /\ u % divisor \in 0..(divisor - 1) /\ u = (u \div divisor) * divisor + (u % divisor)
    <2>1. divisor \in Nat \ {0} /\ u \in Int
        OBVIOUS
    <2>2. u % divisor \in 0..(divisor - 1) /\ u % divisor = u - (u \div divisor) * divisor
        BY <2>1, Divides
    <2>3. (u \div divisor) * divisor = 0
        OBVIOUS
    <2> QED
        BY <2>2, <2>3
<1>2. PICK x : x = u % divisor /\ x = u /\ x \in 0..15
    <2>1. (u \div divisor) * divisor = 0
        OBVIOUS
    <2> QED
        BY <1>1, <2>1
<1>3. PICK c : c = Digit(x)
    OBVIOUS
<1>4. c \in Nat /\ c >= 48 /\ Stands(c) = x /\ (c = 48 => x = 0)
    BY <1>2, <1>3, DigitIs
<1>5. PICK s : s = <<c>>
    OBVIOUS
<1>6. s \in Seq(Nat) /\ Len(s) = 1 /\ s[1] = c
    BY <1>4, <1>5
<1> DEFINE l == [j \in 0..1 |-> IF j = 0 THEN u ELSE 0]
<1>7. l[0] = u /\ l[1] = 0
    OBVIOUS
<1> HIDE DEF l
<1>8. Left(l, s, u, divisor)
    <2>1. ASSUME NEW j \in 1..1 PROVE l[j - 1] = l[j] * divisor + Stands(s[j])
        <3>1. j = 1 /\ 0 * divisor = 0
            OBVIOUS
        <3> QED
            BY <1>2, <1>4, <1>6, <1>7, <3>1
    <2>2. \A j \in 0..1 : l[j] \in Nat
        BY <1>7
    <2> QED
        BY <1>6, <1>7, <2>1, <2>2 DEF Left
<1>9. DigitsOf(s, u, divisor)
    <2>1. Stands(s[1]) \in 0..(divisor - 1)
        BY <1>1, <1>2, <1>4, <1>6
    <2>2. \E h : Left(h, s, u, divisor)
        BY <1>8
    <2>3. \A j \in 1..Len(s) : j = 1
        BY <1>6
    <2>4. s[Len(s)] = 48 => u = 0 /\ Len(s) = 1
        BY <1>2, <1>4, <1>6
    <2>5. \A j \in 1..Len(s) : s[j] >= 48 /\ Stands(s[j]) \in 0..(divisor - 1)
        BY <1>4, <1>6, <2>1, <2>3
    <2>6. s \in Seq(Nat) /\ Len(s) \in Nat \ {0}
        BY <1>6
    <2> QED
        BY <2>2, <2>4, <2>5, <2>6 DEF DigitsOf
<1> QED
    BY <1>2, <1>3, <1>5, <1>9

LEMMA OneMoreDigit ==
    ASSUME NEW divisor \in {10, 16}, NEW u \in Nat, u \div divisor # 0,
           NEW t, DigitsOf(t, u \div divisor, divisor)
    PROVE  DigitsOf(<<Digit(u % divisor)>> \o t, u, divisor)
<1>1. PICK x, w : x = u % divisor /\ w = u \div divisor
    OBVIOUS
<1>2. x \in 0..(divisor - 1) /\ x \in 0..15 /\ w \in Nat /\ w # 0 /\ u = w * divisor + x
    <2>1. divisor \in Nat \ {0} /\ u \in Int
        OBVIOUS
    <2>2. u % divisor \in 0..(divisor - 1) /\ u % divisor = u - (u \div divisor) * divisor
        BY <2>1, Divides
    <2>3. w \in Nat
        BY <1>1, <2>1
    <2>4. w * divisor \in Nat /\ x = u - w * divisor
        BY <1>1, <2>1, <2>2, <2>3
    <2>5. u = w * divisor + x
        BY <2>4
    <2> QED
        BY <1>1, <2>2, <2>3, <2>5
<1>3. PICK c : c = Digit(x)
    OBVIOUS
<1>4. c \in Nat /\ c >= 48 /\ Stands(c) = x
    BY <1>2, <1>3, DigitIs
<1>5. /\ t \in Seq(Nat) /\ Len(t) \in Nat \ {0}
      /\ \E l : Left(l, t, w, divisor)
      /\ \A j \in 1..Len(t) : t[j] >= 48 /\ Stands(t[j]) \in 0..(divisor - 1)
      /\ t[Len(t)] # 48
    <2>1. DigitsOf(t, w, divisor)
        BY <1>1
    <2> QED
        BY <1>2, <2>1 DEF DigitsOf
<1>6. PICK s : s = <<c>> \o t
    OBVIOUS
<1>7. PICK n : n = Len(t) /\ n \in Nat \ {0}
    BY <1>5
<1>8. /\ s \in Seq(Nat) /\ Len(s) = n + 1 /\ s[1] = c
      /\ \A j \in 2..(n + 1) : s[j] = t[j - 1]
    <2>1. PICK f : f = <<c>>
        OBVIOUS
    <2>2. f \in Seq(Nat) /\ Len(f) = 1 /\ f[1] = c
        BY <1>4, <2>1
    <2>3. /\ f \o t \in Seq(Nat) /\ Len(f \o t) = Len(f) + Len(t)
          /\ \A i \in 1..(Len(f) + Len(t)) : (f \o t)[i] = IF i <= Len(f) THEN f[i] ELSE t[i - Len(f)]
        <3>1. t \in Seq(Nat)
            BY <1>5
        <3>2. f \in Seq(Nat)
            BY <2>2
        <3> QED
            BY <3>1, <3>2, ConcatProperties
    <2>4. s = f \o t
        BY <1>6, <2>1
    <2>5. \A i \in 1..(1 + n) : s[i] = IF i <= 1 THEN f[i] ELSE t[i - 1]
        BY <1>7, <2>2, <2>3, <2>4
    <2>6. s \in Seq(Nat) /\ Len(s) = n + 1
        BY <1>7, <2>2, <2>3, <2>4
    <2>7. s[1] = c
        BY <1>7, <2>2, <2>5
    <2>8. ASSUME NEW j \in 2..(n + 1) PROVE s[j] = t[j - 1]
        BY <1>7, <2>5
    <2> QED
        BY <2>6, <2>7, <2>8
<1>9. PICK k : Left(k, t, w, divisor)
    BY <1>5
<1>10. /\ k[0] = w /\ k[n] = 0 /\ \A j \in 0..n : k[j] \in Nat
       /\ \A j \in 1..n : k[j - 1] = k[j] * divisor + Stands(t[j])
    BY <1>7, <1>9 DEF Left
<1> DEFINE l == [j \in 0..(n + 1) |-> IF j = 0 THEN u ELSE k[j - 1]]
<1>11. l[0] = u /\ \A j \in 1..(n + 1) : l[j] = k[j - 1]
    BY <1>7
<1> HIDE DEF l
<1>12. Left(l, s, u, divisor)
    <2>1. ASSUME NEW j \in 1..(n + 1) PROVE l[j - 1] = l[j] * divisor + Stands(s[j])
        <3>1. CASE j = 1
            <4>1. l[j - 1] = u /\ l[j] = w /\ s[j] = c
                BY <1>7, <1>8, <1>10, <1>11, <3>1
            <4> QED
                BY <1>2, <1>4, <4>1
        <3>2. CASE j # 1
            <4>1. j - 1 \in 1..n /\ j \in 2..(n + 1) /\ j - 1 \in 1..(n + 1)
                BY <1>7, <3>2
            <4>2. l[j - 1] = k[j - 1 - 1] /\ l[j] = k[j - 1] /\ s[j] = t[j - 1]
                BY <1>8, <1>11, <4>1
            <4>3. k[j - 1 - 1] = k[j - 1] * divisor + Stands(t[j - 1])
                BY <1>10, <4>1
            <4> QED
                BY <4>2, <4>3
        <3> QED
            BY <3>1, <3>2
    <2>2. ASSUME NEW j \in 0..(n + 1) PROVE l[j] \in Nat
        <3>1. CASE j = 0
            BY <1>11, <3>1
        <3>2. CASE j # 0
            <4>1. j \in 1..(n + 1) /\ j - 1 \in 0..n
                BY <1>7, <3>2
            <4> QED
                BY <1>10, <1>11, <4>1
        <3> QED
            BY <3>1, <3>2
    <2>3. l[n + 1] = 0
        <3>1. PICK e : e = n + 1 /\ e \in 1..(n + 1) /\ e - 1 = n
            BY <1>7
        <3>2. l[e] = k[n]
            BY <1>11, <3>1
        <3> QED
            BY <1>10, <3>1, <3>2
    <2> QED
        BY <1>8, <1>11, <2>1, <2>2, <2>3 DEF Left
<1>13. DigitsOf(s, u, divisor)
    <2>1. ASSUME NEW j \in 1..(n + 1) PROVE s[j] >= 48 /\ Stands(s[j]) \in 0..(divisor - 1)
        <3>1. CASE j = 1
            BY <1>2, <1>4, <1>8, <3>1
        <3>2. CASE j # 1
            <4>1. j \in 2..(n + 1) /\ j - 1 \in 1..n
                BY <1>7, <3>2
            <4> QED
                BY <1>5, <1>7, <1>8, <4>1
        <3> QED
            BY <3>1, <3>2
    <2>2. s[n + 1] # 48
        <3>1. PICK e : e = n + 1 /\ e \in 2..(n + 1) /\ e - 1 = n
            BY <1>7
        <3>2. s[e] = t[n]
            BY <1>8, <3>1
        <3> QED
            BY <1>5, <1>7, <3>1, <3>2
    <2>3. n + 1 \in Nat \ {0} /\ Len(s) = n + 1 /\ s \in Seq(Nat)
        BY <1>7, <1>8
    <2>4. \E h : Left(h, s, u, divisor)
        BY <1>12
    <2> QED
        BY <2>1, <2>2, <2>3, <2>4 DEF DigitsOf
<1> QED
    BY <1>1, <1>3, <1>6, <1>13

(* itoa's recursion: a number after the smaller ones that it is left with. *)
Backwards(b, top, divisor) ==
    b = [u \in 0..top |-> <<Digit(u % divisor)>>
                              \o (IF u \div divisor = 0 THEN <<>> ELSE b[u \div divisor])]

LEMMA Smaller ==
    ASSUME NEW divisor \in {10, 16}, NEW u \in Nat
    PROVE  /\ u \div divisor \in Nat /\ u \div divisor <= u
           /\ u \div divisor # 0 => u \div divisor < u
OBVIOUS

LEMMA BackwardsExists ==
    ASSUME NEW divisor \in {10, 16}, NEW n \in Nat
    PROVE  \E b : Backwards(b, n, divisor)
<1> DEFINE P == {m \in 0..n : \E b : Backwards(b, m, divisor)}
<1>1. 0 \in P
    <2> DEFINE b == [u \in 0..0 |-> <<Digit(u % divisor)>> \o <<>>]
    <2>1. \A u \in 0..0 : u \div divisor = 0
        <3>1. ASSUME NEW u \in 0..0 PROVE u \div divisor = 0
            <4>1. u = 0 /\ u \in Nat
                OBVIOUS
            <4> QED
                BY <4>1
        <3> QED
            BY <3>1
    <2>2. b = [u \in 0..0 |-> <<Digit(u % divisor)>>
                              \o (IF u \div divisor = 0 THEN <<>> ELSE b[u \div divisor])]
        BY <2>1
    <2> HIDE DEF b
    <2>3. Backwards(b, 0, divisor)
        BY <2>2 DEF Backwards
    <2>4. 0 \in 0..n
        OBVIOUS
    <2> QED
        BY <2>3, <2>4
<1>2. ASSUME NEW m \in 1..n, m - 1 \in P PROVE m \in P
    <2>1. PICK f : Backwards(f, m - 1, divisor)
        BY <1>2
    <2> DEFINE b == [u \in 0..m |->
                     <<Digit(u % divisor)>>
                         \o (IF u \div divisor = 0 THEN <<>> ELSE f[u \div divisor])]
    <2>2. \A u \in 0..(m - 1) :
              f[u] = <<Digit(u % divisor)>>
                         \o (IF u \div divisor = 0 THEN <<>> ELSE f[u \div divisor])
        BY <2>1 DEF Backwards
    <2>3. m \in Nat
        OBVIOUS
    <2>4. ASSUME NEW w \in 0..(m - 1) PROVE b[w] = f[w]
        <3>1. w \in 0..m
            BY <2>3
        <3> QED
            BY <2>2, <3>1
    <2>5. ASSUME NEW u \in 0..m
          PROVE  (IF u \div divisor = 0 THEN <<>> ELSE f[u \div divisor])
                     = (IF u \div divisor = 0 THEN <<>> ELSE b[u \div divisor])
        <3> HIDE DEF b
        <3>1. u \div divisor # 0 => u \div divisor \in 0..(m - 1)
            <4>1. u \in Nat /\ u <= m
                BY <2>3
            <4>2. PICK w : w = u \div divisor
                OBVIOUS
            <4>3. w \in Nat /\ (w # 0 => w < u)
                BY <4>1, <4>2, Smaller
            <4>4. w # 0 => w \in 0..(m - 1)
                BY <2>3, <4>1, <4>3
            <4> QED
                BY <4>2, <4>4
        <3>2. u \div divisor # 0 => b[u \div divisor] = f[u \div divisor]
            BY <2>4, <3>1
        <3> QED
            BY <3>2
    <2>6. b = [u \in 0..m |-> <<Digit(u % divisor)>>
                              \o (IF u \div divisor = 0 THEN <<>> ELSE b[u \div divisor])]
        <3>1. \A u \in 0..m : (IF u \div divisor = 0 THEN <<>> ELSE f[u \div divisor])
                                  = (IF u \div divisor = 0 THEN <<>> ELSE b[u \div divisor])
            <4> HIDE DEF b
            <4> QED
                BY <2>5
        <3> DEFINE e == b
        <3>2. \A u \in 0..m : (IF u \div divisor = 0 THEN <<>> ELSE f[u \div divisor])
                                  = (IF u \div divisor = 0 THEN <<>> ELSE e[u \div divisor])
            <4> HIDE DEF b
            <4> QED
                BY <3>1
        <3> HIDE DEF e
        <3>3. b = [u \in 0..m |-> <<Digit(u % divisor)>>
                              \o (IF u \div divisor = 0 THEN <<>> ELSE e[u \div divisor])]
            BY <3>2
        <3> HIDE DEF b
        <3> QED
            BY <3>3 DEF e
    <2> HIDE DEF b
    <2>7. Backwards(b, m, divisor)
        BY <2>6 DEF Backwards
    <2>8. m \in 0..n
        OBVIOUS
    <2> QED
        BY <2>7, <2>8
<1>3. n \in P
    <2> HIDE DEF P
    <2>1. n \in 0..n
        OBVIOUS
    <2> QED
        BY <1>1, <1>2, <2>1, UpTo
<1> QED
    BY <1>3

LEMMA BackwardsDigits ==
    ASSUME NEW divisor \in {10, 16}, NEW n \in Nat, NEW b, Backwards(b, n, divisor)
    PROVE  \A u \in 0..n : DigitsOf(b[u], u, divisor)
<1>1. \A u \in 0..n : b[u] = <<Digit(u % divisor)>>
                                 \o (IF u \div divisor = 0 THEN <<>> ELSE b[u \div divisor])
    BY DEF Backwards
<1>2. ASSUME NEW u \in 0..n,
             u \div divisor # 0 => DigitsOf(b[u \div divisor], u \div divisor, divisor)
      PROVE  DigitsOf(b[u], u, divisor)
    <2>1. u \in Nat
        OBVIOUS
    <2>2. CASE u \div divisor = 0
        <3>1. b[u] = <<Digit(u % divisor)>> \o <<>>
            BY <1>1, <2>2
        <3>2. DigitsOf(<<Digit(u % divisor)>>, u, divisor)
            BY <2>1, <2>2, OneDigit
        <3>3. <<Digit(u % divisor)>> \in Seq(Nat)
            BY <3>2 DEF DigitsOf
        <3>4. <<Digit(u % divisor)>> \o <<>> = <<Digit(u % divisor)>>
            BY <3>3, ConcatEmptySeq
        <3> QED
            BY <3>1, <3>2, <3>4
    <2>3. CASE u \div divisor # 0
        <3>1. PICK t : t = b[u \div divisor]
            OBVIOUS
        <3>2. b[u] = <<Digit(u % divisor)>> \o t
            BY <1>1, <2>3, <3>1
        <3>3. DigitsOf(t, u \div divisor, divisor)
            BY <1>2, <2>3, <3>1
        <3>4. DigitsOf(<<Digit(u % divisor)>> \o t, u, divisor)
            BY <2>1, <2>3, <3>3, OneMoreDigit
        <3> QED
            BY <3>2, <3>4
    <2> QED
        BY <2>2, <2>3
<1> DEFINE P == {m \in 0..n : \A u \in 0..m : DigitsOf(b[u], u, divisor)}
<1>3. 0 \in P
    <2>1. 0 \in 0..n /\ 0 \div divisor = 0
        OBVIOUS
    <2>2. DigitsOf(b[0], 0, divisor)
        BY <1>2, <2>1
    <2>3. \A u \in 0..0 : u = 0
        OBVIOUS
    <2> QED
        BY <2>1, <2>2, <2>3
<1>4. ASSUME NEW m \in 1..n, m - 1 \in P PROVE m \in P
    <2>1. m \in Nat /\ m \in 0..n /\ \A u \in 0..(m - 1) : DigitsOf(b[u], u, divisor)
        BY <1>4
    <2>2. PICK w : w = m \div divisor
        OBVIOUS
    <2>3. w \in Nat /\ (w # 0 => w < m)
        BY <2>1, <2>2, Smaller
    <2>4. w # 0 => w \in 0..(m - 1)
        BY <2>1, <2>3
    <2>5. w # 0 => DigitsOf(b[w], w, divisor)
        BY <2>1, <2>4
    <2>6. DigitsOf(b[m], m, divisor)
        BY <1>2, <2>1, <2>2, <2>5
    <2>7. \A u \in 0..m : u = m \/ u \in 0..(m - 1)
        BY <2>1
    <2> QED
        BY <2>1, <2>6, <2>7
<1>5. n \in P
    <2> HIDE DEF P
    <2>1. n \in 0..n
        OBVIOUS
    <2> QED
        BY <1>3, <1>4, <2>1, UpTo
<1> QED
    BY <1>5

(* Digits, the right way round. *)
ReadsAs(s, base, u) ==
    /\ s \in Seq(Nat) /\ Len(s) \in Nat \ {0}
    /\ ReadAs(base, s) = u
    /\ \A i \in 1..Len(s) : s[i] >= 48 /\ Stands(s[i]) \in 0..(Divisor(base) - 1)
    /\ s[1] = 48 => Len(s) = 1

LEMMA ReversedReads ==
    ASSUME NEW base, NEW u, NEW t, DigitsOf(t, u, Divisor(base))
    PROVE  ReadsAs(Reverse(t), base, u)
<1>1. PICK divisor : divisor = Divisor(base)
    OBVIOUS
<1>2. /\ t \in Seq(Nat) /\ Len(t) \in Nat \ {0}
      /\ \E l : Left(l, t, u, divisor)
      /\ \A j \in 1..Len(t) : t[j] >= 48 /\ Stands(t[j]) \in 0..(divisor - 1)
      /\ t[Len(t)] = 48 => u = 0 /\ Len(t) = 1
    BY <1>1 DEF DigitsOf
<1>3. PICK n : n = Len(t) /\ n \in Nat \ {0}
    BY <1>2
<1>4. PICK l : Left(l, t, u, divisor)
    BY <1>2
<1>5. /\ l[0] = u /\ l[n] = 0 /\ \A j \in 1..n : l[j - 1] = l[j] * divisor + Stands(t[j])
    BY <1>3, <1>4 DEF Left
<1>6. PICK s : s = Reverse(t)
    OBVIOUS
<1>7. s = [i \in 1..n |-> t[(n - i) + 1]]
    BY <1>3, <1>6 DEF Reverse
<1>8. ASSUME NEW i \in 1..n PROVE (n - i) + 1 \in 1..n /\ s[i] = t[(n - i) + 1] /\ s[i] \in Nat
    <2>1. (n - i) + 1 \in 1..n
        BY <1>3
    <2>2. t[(n - i) + 1] \in Nat
        <3>1. t \in Seq(Nat) /\ (n - i) + 1 \in 1..Len(t)
            BY <1>2, <1>3, <2>1
        <3> QED
            BY <3>1, ElementOfSeq
    <2> QED
        BY <1>7, <2>1, <2>2
<1>9. s \in Seq(Nat) /\ Len(s) = n /\ DOMAIN s = 1..n
    <2>1. s = [i \in 1..n |-> s[i]]
        BY <1>7
    <2>2. s \in [1..n -> Nat]
        BY <1>8, <2>1
    <2> QED
        BY <1>3, <2>2
<1>10. PICK g : ReadRun(g, base, s) /\ ReadAs(base, s) = g[n]
    <2>1. Len(s) \in Nat /\ DOMAIN s = 1..Len(s)
        BY <1>3, <1>9
    <2>2. \E h : ReadRun(h, base, s) /\ ReadAs(base, s) = h[Len(s)]
        BY <2>1, ReadRuns
    <2> QED
        BY <1>9, <2>2
<1>11. g[0] = 0 /\ \A i \in 1..n : g[i] = g[i - 1] * divisor + Stands(s[i])
    BY <1>1, <1>9, <1>10 DEF ReadRun
<1> DEFINE P == {i \in 0..n : g[i] = l[n - i]}
<1>12. 0 \in P
    <2>1. 0 \in 0..n /\ n - 0 = n
        BY <1>3
    <2> QED
        BY <1>5, <1>11, <2>1
<1>13. ASSUME NEW i \in 1..n, i - 1 \in P PROVE i \in P
    <2>1. PICK j : j = (n - i) + 1 /\ j \in 1..n /\ n - (i - 1) = j /\ j - 1 = n - i
        BY <1>3
    <2>2. g[i - 1] = l[j] /\ s[i] = t[j]
        BY <1>8, <1>13, <2>1
    <2>3. g[i] = l[j] * divisor + Stands(t[j])
        BY <1>11, <2>2
    <2>4. l[j - 1] = l[j] * divisor + Stands(t[j])
        BY <1>5, <2>1
    <2>5. i \in 0..n
        BY <1>3
    <2> QED
        BY <2>1, <2>3, <2>4, <2>5
<1>14. n \in P
    <2> HIDE DEF P
    <2>1. n \in 0..n
        BY <1>3
    <2> QED
        BY <1>3, <1>12, <1>13, <2>1, UpTo
<1>15. ReadAs(base, s) = u
    <2>1. n - n = 0
        BY <1>3
    <2> QED
        BY <1>5, <1>10, <1>14, <2>1
<1>16. \A i \in 1..n : s[i] >= 48 /\ Stands(s[i]) \in 0..(divisor - 1)
    BY <1>2, <1>3, <1>8
<1>17. s[1] = 48 => n = 1
    <2>1. 1 \in 1..n /\ (n - 1) + 1 = n
        BY <1>3
    <2>2. s[1] = t[n]
        BY <1>8, <2>1
    <2> QED
        BY <1>2, <1>3, <2>2
<1>18. ReadsAs(s, base, u)
    BY <1>1, <1>3, <1>9, <1>15, <1>16, <1>17 DEF ReadsAs
<1> QED
    BY <1>6, <1>18

LEMMA DigitsIs ==
    ASSUME NEW base, NEW u \in 0..(WORD - 1)
    PROVE  ReadsAs(Digits(base, u), base, u)
<1>1. PICK divisor : divisor = Divisor(base) /\ divisor \in {10, 16}
    BY DivisorIs
<1>2. WORD - 1 \in Nat
    BY WordAssumption
<1> DEFINE Unfolded(f) == [v \in 0..(WORD - 1) |->
                            <<Digit(v % Divisor(base))>>
                                \o (IF v \div Divisor(base) = 0 THEN <<>> ELSE f[v \div Divisor(base)])]
           b == CHOOSE f : f = Unfolded(f)
<1>3. Digits(base, u) = Reverse(b[u])
    BY Zenon DEF Digits
<1>4. PICK f : Backwards(f, WORD - 1, divisor)
    BY <1>1, <1>2, BackwardsExists
<1>5. f = Unfolded(f)
    BY <1>1, <1>4 DEF Backwards
<1>6. b = Unfolded(b)
    <2> HIDE DEF Unfolded
    <2> QED
        BY <1>5
<1>7. Backwards(b, WORD - 1, divisor)
    <2> HIDE DEF b
    <2> QED
        BY <1>1, <1>6 DEF Backwards
<1> HIDE DEF b
<1>8. DigitsOf(b[u], u, divisor)
    BY <1>1, <1>2, <1>7, BackwardsDigits
<1> QED
    BY <1>1, <1>3, <1>8, ReversedReads

(* The text of a number, with its sign. *)
NumberText(number, base, d) ==
    LET signed == number[1] = MINUS
        digits == IF signed THEN Tail(number) ELSE number
        read == ReadAs(base, digits)
    IN  /\ (IF signed THEN -read ELSE read) = (IF base = DECIMAL THEN d ELSE d % WORD)
        /\ \A i \in DOMAIN digits : Stands(digits[i]) \in 0..(Divisor(base) - 1)
        /\ digits[1] = 48 => Len(digits) = 1

LEMMA SignedText ==
    ASSUME NEW base, base = DECIMAL, NEW d \in Int, d < 0, NEW s, ReadsAs(s, base, -d)
    PROVE  <<MINUS>> \o s \in Seq(Nat) /\ NumberText(<<MINUS>> \o s, base, d)
<1>1. /\ s \in Seq(Nat) /\ Len(s) \in Nat \ {0} /\ ReadAs(base, s) = -d
      /\ \A i \in 1..Len(s) : Stands(s[i]) \in 0..(Divisor(base) - 1)
      /\ s[1] = 48 => Len(s) = 1
    BY DEF ReadsAs
<1>2. PICK t : t = <<MINUS>> \o s
    OBVIOUS
<1>3. t \in Seq(Nat) /\ t[1] = MINUS /\ Tail(t) = s
    <2>1. PICK f : f = <<MINUS>>
        OBVIOUS
    <2>2. f \in Seq(Nat) /\ Len(f) = 1 /\ f[1] = MINUS
        BY <2>1 DEF MINUS
    <2>3. /\ f \o s \in Seq(Nat) /\ Len(f \o s) = Len(f) + Len(s)
          /\ \A i \in 1..(Len(f) + Len(s)) : (f \o s)[i] = IF i <= Len(f) THEN f[i] ELSE s[i - Len(f)]
        BY <1>1, <2>2, ConcatProperties
    <2>4. PICK n : n = Len(s) /\ n \in Nat \ {0}
        BY <1>1
    <2>5. /\ t \in Seq(Nat) /\ Len(t) = 1 + n
          /\ \A i \in 1..(1 + n) : t[i] = IF i <= 1 THEN f[i] ELSE s[i - 1]
        BY <1>2, <2>1, <2>2, <2>3, <2>4
    <2>6. t[1] = MINUS
        <3>1. 1 \in 1..(1 + n)
            BY <2>4
        <3> QED
            BY <2>2, <2>5, <3>1
    <2>7. t # <<>>
        BY <2>4, <2>5
    <2>8. /\ Tail(t) \in Seq(Nat) /\ Len(Tail(t)) = Len(t) - 1
          /\ \A i \in 1..Len(Tail(t)) : Tail(t)[i] = t[i + 1]
        BY <2>5, <2>7, HeadTailProperties
    <2>9. Len(Tail(t)) = Len(s)
        BY <2>4, <2>5, <2>8
    <2>10. ASSUME NEW i \in 1..Len(Tail(t)) PROVE Tail(t)[i] = s[i]
        <3>1. i + 1 \in 1..(1 + n) /\ ~(i + 1 <= 1) /\ i + 1 - 1 = i
            BY <2>4, <2>9
        <3>2. t[i + 1] = s[i]
            BY <2>5, <3>1
        <3> QED
            BY <2>8, <3>2
    <2>11. Tail(t) = s
        BY <1>1, <2>8, <2>9, <2>10, SeqEqual
    <2> QED
        BY <2>5, <2>6, <2>11
<1>4. DOMAIN s = 1..Len(s)
    BY <1>1, LenProperties
<1>5. -(-d) = d
    OBVIOUS
<1>6. NumberText(t, base, d)
    BY <1>1, <1>3, <1>4, <1>5 DEF NumberText
<1> QED
    BY <1>2, <1>3, <1>6

LEMMA UnsignedText ==
    ASSUME NEW base, NEW d, NEW s, ReadsAs(s, base, d % WORD), base = DECIMAL => d % WORD = d
    PROVE  s \in Seq(Nat) /\ NumberText(s, base, d)
<1>1. /\ s \in Seq(Nat) /\ Len(s) \in Nat \ {0} /\ ReadAs(base, s) = d % WORD
      /\ \A i \in 1..Len(s) : s[i] >= 48 /\ Stands(s[i]) \in 0..(Divisor(base) - 1)
      /\ s[1] = 48 => Len(s) = 1
    BY DEF ReadsAs
<1>2. s[1] # MINUS
    <2>1. 1 \in 1..Len(s)
        BY <1>1
    <2>2. s[1] >= 48 /\ s[1] \in Nat
        BY <1>1, <2>1, ElementOfSeq
    <2> QED
        BY <2>2 DEF MINUS
<1>3. DOMAIN s = 1..Len(s)
    BY <1>1, LenProperties
<1> QED
    BY <1>1, <1>2, <1>3 DEF NumberText

LEMMA ItoaIs ==
    ASSUME NEW base, NEW d \in (-(WORD \div 2))..(WORD \div 2 - 1)
    PROVE  itoa(base, d) \in Seq(Nat) /\ NumberText(itoa(base, d), base, d)
<1>1. /\ WORD \in Nat \ {0} /\ d \in Int /\ (d < 0 => -d \in 0..(WORD - 1)) /\ (d >= 0 => d \in 0..(WORD - 1))
    BY WordAssumption
<1>2. CASE base = DECIMAL /\ d < 0
    <2>1. (-d) % WORD = -d /\ (-d) \in 0..(WORD - 1)
        <3>1. PICK e : e = -d /\ e \in 0..(WORD - 1)
            BY <1>1, <1>2
        <3>2. e % WORD = e
            BY <1>1, <3>1
        <3> QED
            BY <3>1, <3>2
    <2>2. ReadsAs(Digits(base, -d), base, -d)
        BY <2>1, DigitsIs
    <2>3. itoa(base, d) = <<MINUS>> \o Digits(base, -d)
        BY <1>2, <2>1 DEF itoa
    <2> QED
        BY <1>1, <1>2, <2>2, <2>3, SignedText
<1>3. CASE ~(base = DECIMAL /\ d < 0)
    <2>1. d % WORD \in 0..(WORD - 1)
        BY <1>1
    <2>2. ReadsAs(Digits(base, d % WORD), base, d % WORD)
        BY <2>1, DigitsIs
    <2>3. base = DECIMAL => d % WORD = d
        <3>1. SUFFICES ASSUME base = DECIMAL PROVE d % WORD = d
            OBVIOUS
        <3>2. d \in 0..(WORD - 1)
            BY <1>1, <1>3, <3>1
        <3> QED
            BY <1>1, <3>2
    <2>4. itoa(base, d) = Digits(base, d % WORD)
        BY <1>3, Zenon DEF itoa
    <2> QED
        BY <2>2, <2>3, <2>4, UnsignedText
<1> QED
    BY <1>2, <1>3

(* What kprintf prints, of the number and the string. *)
TextReadsBack(r, base, d, string) ==
    LET number == SubSeq(r, Len(Bullet) + 1, Len(r) - Len(string))
    IN  r = Bullet \o number \o string /\ NumberText(number, base, d)

LEMMA NumberReads ==
    ASSUME NEW base \in {DECIMAL, UNSIGNED, HEXADECIMAL}, NEW string \in Seq(Nat),
           NEW d \in (-(WORD \div 2))..(WORD \div 2 - 1)
    PROVE  TextReadsBack(Formatted(<<PERCENT, 43, PERCENT, base, PERCENT, TEXT>>, <<d, string>>),
                         base, d, IF string = Null THEN NullText ELSE string)
<1>1. d \in Int /\ string \in Seq(Nat)
    <2>1. d \in Int
        BY WordAssumption
    <2> QED
        BY <2>1
<1>2. PICK w : w = IF string = Null THEN NullText ELSE string
    OBVIOUS
<1>3. w \in Seq(Nat)
    BY <1>1, <1>2 DEF NullText
<1>4. PICK t : t = itoa(base, d)
    OBVIOUS
<1>5. t \in Seq(Nat) /\ NumberText(t, base, d)
    BY <1>4, ItoaIs
<1>6. PICK r : r = Formatted(<<PERCENT, 43, PERCENT, base, PERCENT, TEXT>>, <<d, string>>)
    OBVIOUS
<1>7. PICK bullet : bullet = Bullet
    OBVIOUS
<1>8. bullet \in Seq(Nat) /\ Len(bullet) = 4
    BY <1>7 DEF Bullet
<1>9. r = (bullet \o t) \o w
    <2>1. r = ((<<>> \o Bullet) \o itoa(base, d)) \o w
        BY <1>1, <1>2, <1>6, FormattedIs
    <2>2. <<>> \o bullet = bullet
        BY <1>8, ConcatEmptySeq
    <2> QED
        BY <1>4, <1>7, <2>1, <2>2
<1>10. PICK h : h = bullet \o t
    OBVIOUS
<1>11. PICK n, k : n = Len(t) /\ k = Len(w) /\ n \in Nat /\ k \in Nat
    BY <1>3, <1>5, LenProperties
<1>12. /\ h \in Seq(Nat) /\ Len(h) = 4 + n
       /\ \A i \in 1..(4 + n) : h[i] = IF i <= 4 THEN bullet[i] ELSE t[i - 4]
    <2>1. /\ bullet \o t \in Seq(Nat) /\ Len(bullet \o t) = Len(bullet) + Len(t)
          /\ \A i \in 1..(Len(bullet) + Len(t)) :
                (bullet \o t)[i] = IF i <= Len(bullet) THEN bullet[i] ELSE t[i - Len(bullet)]
        BY <1>5, <1>8, ConcatProperties
    <2> QED
        BY <1>8, <1>10, <1>11, <2>1
<1>13. /\ r \in Seq(Nat) /\ Len(r) = 4 + n + k
       /\ \A i \in 1..(4 + n) : r[i] = h[i]
    <2>1. /\ h \o w \in Seq(Nat) /\ Len(h \o w) = Len(h) + Len(w)
          /\ \A i \in 1..(Len(h) + Len(w)) :
                (h \o w)[i] = IF i <= Len(h) THEN h[i] ELSE w[i - Len(h)]
        BY <1>3, <1>12, ConcatProperties
    <2>2. r = h \o w
        BY <1>9, <1>10
    <2>3. r \in Seq(Nat) /\ Len(r) = 4 + n + k
        BY <1>11, <1>12, <2>1, <2>2
    <2>4. ASSUME NEW i \in 1..(4 + n) PROVE r[i] = h[i]
        <3>1. i \in 1..(Len(h) + Len(w)) /\ i <= Len(h)
            BY <1>11, <1>12
        <3> QED
            BY <2>1, <2>2, <3>1
    <2> QED
        BY <2>3, <2>4
<1>14. PICK e, number : e \in Int /\ e = 4 + n /\ number = SubSeq(r, 5, e)
    <2>1. 4 + n \in Int
        BY <1>11
    <2> QED
        BY <2>1
<1>15. number = t
    <2>1. \A i \in 5..e : r[i] \in Nat
        <3>1. ASSUME NEW i \in 5..e PROVE r[i] \in Nat
            <4>1. i \in 1..Len(r)
                BY <1>11, <1>13, <1>14
            <4> QED
                BY <1>13, <4>1, ElementOfSeq
        <3> QED
            BY <3>1
    <2>2. /\ SubSeq(r, 5, e) \in Seq(Nat)
          /\ Len(SubSeq(r, 5, e)) = IF 5 <= e THEN e - 5 + 1 ELSE 0
          /\ \A i \in 1..(e - 5 + 1) : SubSeq(r, 5, e)[i] = r[5 + i - 1]
        <3>1. 5 \in Int /\ e \in Int
            BY <1>14
        <3> QED
            BY <2>1, <3>1, SubSeqProperties
    <2>3. number \in Seq(Nat) /\ Len(number) = Len(t)
        BY <1>11, <1>14, <2>2
    <2>4. ASSUME NEW i \in 1..Len(number) PROVE number[i] = t[i]
        <3>1. /\ i \in 1..(e - 5 + 1) /\ 5 + i - 1 = i + 4 /\ i + 4 \in 1..(4 + n)
              /\ ~(i + 4 <= 4) /\ i + 4 - 4 = i
            BY <1>11, <1>14, <2>3
        <3>2. number[i] = r[i + 4]
            BY <1>14, <2>2, <3>1
        <3>3. r[i + 4] = h[i + 4]
            BY <1>13, <3>1
        <3>4. h[i + 4] = t[i]
            BY <1>12, <3>1
        <3> QED
            BY <3>2, <3>3, <3>4
    <2> QED
        BY <1>5, <2>3, <2>4, SeqEqual
<1>16. SubSeq(r, Len(Bullet) + 1, Len(r) - Len(w)) = number
    <2>1. Len(Bullet) + 1 = 5
        BY <1>7, <1>8
    <2>2. Len(r) - Len(w) = 4 + n
        BY <1>11, <1>13
    <2> QED
        BY <1>14, <2>1, <2>2
<1>17. TextReadsBack(r, base, d, w)
    BY <1>5, <1>7, <1>9, <1>15, <1>16, Zenon DEF TextReadsBack
<1> QED
    BY <1>2, <1>6, <1>17

(* The property, with the text, the arguments and the string named. *)
LEMMA NumberPropertyIs ==
    NumberReadsBack <=>
        (call.f = "kprintf" =>
            TextReadsBack(result, call.base, call.d,
                          IF call.string = Null THEN NullText ELSE call.string))
BY Zenon DEF NumberReadsBack, TextReadsBack, NumberText, ReadAs, Stands

LEMMA NumberStep == Memory /\ NumberReadsBack /\ [Next]_vars => NumberReadsBack'
<1> SUFFICES ASSUME Memory, NumberReadsBack, [Next]_vars PROVE NumberReadsBack'
    OBVIOUS
<1>1. call.f = "kprintf" =>
          TextReadsBack(result, call.base, call.d,
                        IF call.string = Null THEN NullText ELSE call.string)
    BY NumberPropertyIs
<1>2. (NumberReadsBack <=>
          (call.f = "kprintf" =>
              TextReadsBack(result, call.base, call.d,
                            IF call.string = Null THEN NullText ELSE call.string)))'
    BY NumberPropertyIs, PTL
<1>3. CASE UNCHANGED vars
    BY <1>1, <1>2, <1>3 DEF vars
<1>4. CASE Next
    <2>1. CASE Number
        <3>1. PICK base \in {DECIMAL, UNSIGNED, HEXADECIMAL} :
                  \E string \in {<<>>, <<97>>, Null}, d \in (-(WORD \div 2))..(WORD \div 2 - 1) :
                      Returns([f |-> "kprintf", base |-> base, d |-> d, string |-> string], mem,
                              Formatted(<<PERCENT, 43, PERCENT, base, PERCENT, TEXT>>, <<d, string>>))
            BY <2>1, Zenon DEF Number
        <3>2. PICK string \in {<<>>, <<97>>, Null}, d \in (-(WORD \div 2))..(WORD \div 2 - 1) :
                  Returns([f |-> "kprintf", base |-> base, d |-> d, string |-> string], mem,
                          Formatted(<<PERCENT, 43, PERCENT, base, PERCENT, TEXT>>, <<d, string>>))
            BY <3>1
        <3>3. PICK r : r = Formatted(<<PERCENT, 43, PERCENT, base, PERCENT, TEXT>>, <<d, string>>)
            OBVIOUS
        <3>4. TextReadsBack(r, base, d, IF string = Null THEN NullText ELSE string)
            <4>1. <<>> \in Seq(Nat) /\ <<97>> \in Seq(Nat) /\ Null \in Seq(Nat)
                BY DEF Null
            <4>2. string \in Seq(Nat)
                BY <4>1
            <4> QED
                BY <3>3, <4>2, NumberReads
        <3>5. call' = [f |-> "kprintf", base |-> base, d |-> d, string |-> string] /\ result' = r
            BY <3>2, <3>3 DEF Returns
        <3>6. call'.base = base /\ call'.d = d /\ call'.string = string
            BY <3>5
        <3>7. TextReadsBack(result', call'.base, call'.d,
                            IF call'.string = Null THEN NullText ELSE call'.string)
            BY <3>4, <3>5, <3>6
        <3> QED
            BY <1>2, <3>7
    <2>2. CASE call'.f # "kprintf"
        BY <1>2, <2>2
    <2>3. Number \/ call'.f # "kprintf"
        BY <1>4, CallsAre
    <2> QED
        BY <2>1, <2>2, <2>3
<1> QED
    BY <1>3, <1>4

(* kprintf's text is the bullet, the number and the string; the number reads back as the *)
(* argument, or the argument as a word, without leading zeros.                           *)
THEOREM PrintsTheNumber == Spec => []NumberReadsBack
<1>1. Init => NumberReadsBack
    <2>1. Init => call.f # "kprintf"
        BY DEF Init
    <2> QED
        BY <2>1, NumberPropertyIs
<1> QED
    BY <1>1, MemoryKept, NumberStep, PTL DEF Spec

(***************************************************************************)
(* Splitting.                                                               *)
(***************************************************************************)
(* strsplt cuts one position after the other, on a memory and the words found so far. *)
Uncut(m, p) == [mem |-> m, out |-> <<p>>]

CutAt(s, i) ==
    IF s.mem[i - 1] = SPACE THEN [mem |-> [s.mem EXCEPT ![i - 1] = 0], out |-> Append(s.out, i)] ELSE s

CutAll(base, order) ==
    LET Cut(s, i) == CutAt(s, i) IN FoldLeft(Cut, base, order)

(* The memories and words, a position at a time. *)
CutRun(g, base, order) ==
    /\ g[0] = base
    /\ \A i \in 1..Len(order) : g[i] = CutAt(g[i - 1], order[i])

LEMMA CutRuns ==
    ASSUME NEW base, NEW order, Len(order) \in Nat, DOMAIN order = 1..Len(order)
    PROVE  \E g : CutRun(g, base, order) /\ CutAll(base, order) = g[Len(order)]
<1> DEFINE n == Len(order)
           Unfolded(h, m) == [u \in SUBSET (1..m) |->
                              IF u = {} THEN base
                              ELSE CutAt(h[u \ {Max(u)}], order[Max(u)])]
           Whole(h) == [u \in SUBSET (DOMAIN order) |->
                        IF u = {} THEN base
                        ELSE CutAt(h[u \ {Max(u)}], order[Max(u)])]
           iter == CHOOSE h : h = Whole(h)
           Solved == {m \in 0..n : \E h : h = Unfolded(h, m)}
<1>1. n \in Nat /\ DOMAIN order = 1..n
    OBVIOUS
<1>2. CutAll(base, order) = iter[DOMAIN order]
    BY Zenon DEF CutAll, FoldLeft, MapThenFoldSet
<1> HIDE DEF n
<1>3. 0 \in Solved
    <2> DEFINE h == [u \in SUBSET (1..0) |-> base]
    <2>1. \A u \in SUBSET (1..0) : u = {}
        OBVIOUS
    <2>2. h = Unfolded(h, 0)
        BY <2>1
    <2> HIDE DEF Unfolded, h
    <2>3. 0 \in 0..n
        BY <1>1
    <2> QED
        BY <2>2, <2>3
<1>4. ASSUME NEW m \in 1..n, m - 1 \in Solved PROVE m \in Solved
    <2>1. PICK h : h = Unfolded(h, m - 1)
        BY <1>4
    <2> DEFINE g == [u \in SUBSET (1..m) |->
                     IF m \in u THEN CutAt(h[u \ {m}], order[m]) ELSE h[u]]
    <2>2. \A u \in SUBSET (1..(m - 1)) :
              h[u] = IF u = {} THEN base
                     ELSE CutAt(h[u \ {Max(u)}], order[Max(u)])
        BY <2>1
    <2>3. m \in Nat
        BY <1>1
    <2>4. ASSUME NEW u \in SUBSET (1..m)
          PROVE  g[u] = IF u = {} THEN base
                        ELSE CutAt(g[u \ {Max(u)}], order[Max(u)])
        <3>1. CASE m \in u
            <4>1. Max(u) = m /\ u # {}
                BY <2>3, <3>1, MaxIs
            <4>2. u \ {m} \in SUBSET (1..m) /\ m \notin u \ {m}
                OBVIOUS
            <4>3. g[u \ {m}] = h[u \ {m}]
                BY <4>2
            <4>4. g[u] = CutAt(h[u \ {m}], order[m])
                BY <3>1
            <4> HIDE DEF g
            <4> QED
                BY <4>1, <4>3, <4>4
        <3>2. CASE m \notin u
            <4>1. u \in SUBSET (1..(m - 1))
                BY <2>3, <3>2
            <4>2. g[u] = h[u]
                BY <3>2
            <4>3. u # {} => g[u \ {Max(u)}] = h[u \ {Max(u)}]
                <5>1. u \ {Max(u)} \in SUBSET (1..m) /\ m \notin u \ {Max(u)}
                    BY <3>2
                <5> QED
                    BY <5>1
            <4> HIDE DEF g
            <4> QED
                BY <2>2, <4>1, <4>2, <4>3
        <3> QED
            BY <3>1, <3>2
    <2>5. g = [u \in SUBSET (1..m) |-> g[u]]
        OBVIOUS
    <2> HIDE DEF g
    <2>6. g = Unfolded(g, m)
        BY <2>4, <2>5
    <2>7. m \in 0..n
        BY <1>1
    <2> HIDE DEF Unfolded
    <2> QED
        BY <2>6, <2>7
<1>5. n \in Solved
    <2> HIDE DEF Solved
    <2>1. n \in 0..n
        BY <1>1
    <2> QED
        BY <1>1, <1>3, <1>4, <2>1, UpTo
<1>6. PICK h : h = Unfolded(h, n)
    <2> HIDE DEF Unfolded
    <2> QED
        BY <1>5
<1>7. h = Whole(h)
    BY <1>1, <1>6
<1>8. iter = Whole(iter)
    <2> HIDE DEF Whole
    <2> QED
        BY <1>7
<1>9. \A u \in SUBSET (1..n) :
          iter[u] = IF u = {} THEN base
                    ELSE CutAt(iter[u \ {Max(u)}], order[Max(u)])
    <2> HIDE DEF iter
    <2> QED
        BY <1>1, <1>8
<1> HIDE DEF iter, Solved
<1> DEFINE g == [i \in 0..n |-> iter[1..i]]
<1>10. g[0] = base
    <2>1. 1..0 = {} /\ 0 \in 0..n /\ 1..0 \in SUBSET (1..n)
        BY <1>1
    <2> QED
        BY <1>9, <2>1
<1>11. ASSUME NEW i \in 1..n PROVE g[i] = CutAt(g[i - 1], order[i])
    <2>0. i \in Nat /\ i >= 1 /\ i <= n
        BY <1>1
    <2>1. 1..i \in SUBSET (1..n) /\ i \in 1..i /\ 1..i # {} /\ i \in 0..n /\ i - 1 \in 0..n
        <3>1. \A j \in 1..i : j \in 1..n
            BY <1>1, <2>0
        <3>2. i \in 1..i /\ i \in 0..n /\ i - 1 \in 0..n
            BY <1>1, <2>0
        <3> QED
            BY <3>1, <3>2
    <2>2. Max(1..i) = i
        BY <2>0, <2>1, MaxIs
    <2>3. (1..i) \ {i} = 1..(i - 1)
        BY <2>0
    <2>4. g[i] = iter[1..i] /\ g[i - 1] = iter[1..(i - 1)]
        BY <2>1
    <2> HIDE DEF g
    <2> QED
        BY <1>9, <2>1, <2>2, <2>3, <2>4
<1>12. CutAll(base, order) = g[n]
    <2>1. n \in 0..n
        BY <1>1
    <2> QED
        BY <1>1, <1>2, <2>1
<1> HIDE DEF g
<1> QED
    BY <1>10, <1>11, <1>12 DEF CutRun, n

(* No separator from a up to b. *)
Unbroken(m, a, b) == \A x \in a..(b - 1) : m[x] # SPACE

(* The memory cut in front of p + j and before, and where the words up to there start:    *)
(* each behind the separator that ends the one before it.                                 *)
CutTo(sm, m, top, p, j) ==
    /\ sm \in [0..top -> Nat]
    /\ \A a \in 0..top : sm[a] = IF a \in p..(p + j - 1) /\ m[a] = SPACE THEN 0 ELSE m[a]

Starts(out, m, p, j) ==
    /\ out \in Seq(Int) /\ Len(out) \in Nat \ {0} /\ out[1] = p
    /\ \A i \in 1..Len(out) : out[i] \in p..(p + j)
    /\ \A i \in 1..(Len(out) - 1) :
          /\ out[i] <= out[i + 1] - 1 /\ m[out[i + 1] - 1] = SPACE
          /\ Unbroken(m, out[i], out[i + 1] - 1)
    /\ Unbroken(m, out[Len(out)], p + j)

LEMMA StartsOn ==
    ASSUME NEW out, NEW m, NEW p \in Nat, NEW j \in Nat, Starts(out, m, p, j), m[p + j] # SPACE
    PROVE  Starts(out, m, p, j + 1)
<1>1. /\ out \in Seq(Int) /\ Len(out) \in Nat \ {0} /\ out[1] = p
      /\ \A i \in 1..Len(out) : out[i] \in p..(p + j)
      /\ \A i \in 1..(Len(out) - 1) :
            /\ out[i] <= out[i + 1] - 1 /\ m[out[i + 1] - 1] = SPACE
            /\ Unbroken(m, out[i], out[i + 1] - 1)
      /\ Unbroken(m, out[Len(out)], p + j)
    BY DEF Starts
<1>2. \A i \in 1..Len(out) : out[i] \in p..(p + (j + 1))
    <2>1. ASSUME NEW i \in 1..Len(out) PROVE out[i] \in p..(p + (j + 1))
        <3>1. out[i] \in p..(p + j)
            BY <1>1
        <3> QED
            BY <3>1
    <2> QED
        BY <2>1
<1>3. PICK l : l = out[Len(out)] /\ l \in Int
    <2>1. Len(out) \in 1..Len(out)
        BY <1>1
    <2> QED
        BY <1>1, <2>1
<1>4. Unbroken(m, l, p + (j + 1))
    <2>1. ASSUME NEW x \in l..((p + (j + 1)) - 1) PROVE m[x] # SPACE
        <3>1. x \in l..((p + j) - 1) \/ x = p + j
            BY <1>3
        <3>2. \A y \in l..((p + j) - 1) : m[y] # SPACE
            BY <1>1, <1>3 DEF Unbroken
        <3> QED
            BY <3>1, <3>2
    <2> QED
        BY <2>1 DEF Unbroken
<1> QED
    BY <1>1, <1>2, <1>3, <1>4 DEF Starts

LEMMA StartsAnew ==
    ASSUME NEW out, NEW m, NEW p \in Nat, NEW j \in Nat, Starts(out, m, p, j), m[p + j] = SPACE
    PROVE  Starts(Append(out, p + (j + 1)), m, p, j + 1)
<1>1. /\ out \in Seq(Int) /\ Len(out) \in Nat \ {0} /\ out[1] = p
      /\ \A i \in 1..Len(out) : out[i] \in p..(p + j)
      /\ \A i \in 1..(Len(out) - 1) :
            /\ out[i] <= out[i + 1] - 1 /\ m[out[i + 1] - 1] = SPACE
            /\ Unbroken(m, out[i], out[i + 1] - 1)
      /\ Unbroken(m, out[Len(out)], p + j)
    BY DEF Starts
<1>2. PICK n, e : n = Len(out) /\ n \in Nat \ {0} /\ e = p + (j + 1) /\ e \in Int
    <2>1. p + (j + 1) \in Int
        OBVIOUS
    <2> QED
        BY <1>1, <2>1
<1>3. PICK t : t = Append(out, e)
    OBVIOUS
<1>4. /\ t \in Seq(Int) /\ Len(t) = n + 1 /\ t[n + 1] = e
      /\ \A i \in 1..n : t[i] = out[i]
    BY <1>1, <1>2, <1>3
<1>5. \A i \in 1..(n + 1) : t[i] \in p..(p + (j + 1))
    <2>1. ASSUME NEW i \in 1..(n + 1) PROVE t[i] \in p..(p + (j + 1))
        <3>1. CASE i = n + 1
            BY <1>2, <1>4, <3>1
        <3>2. CASE i # n + 1
            <4>1. i \in 1..n
                BY <1>2, <3>2
            <4>2. out[i] \in p..(p + j)
                BY <1>1, <1>2, <4>1
            <4> QED
                BY <1>4, <4>1, <4>2
        <3> QED
            BY <3>1, <3>2
    <2> QED
        BY <2>1
<1>6. ASSUME NEW i \in 1..n
      PROVE  /\ t[i] <= t[i + 1] - 1 /\ m[t[i + 1] - 1] = SPACE
             /\ Unbroken(m, t[i], t[i + 1] - 1)
    <2>1. CASE i = n
        <3>1. t[i] = out[n] /\ t[i + 1] = e /\ e - 1 = p + j
            BY <1>2, <1>4, <2>1
        <3>2. out[n] \in p..(p + j)
            BY <1>1, <1>2
        <3> QED
            BY <1>1, <1>2, <3>1, <3>2
    <2>2. CASE i # n
        <3>1. i \in 1..(n - 1) /\ i \in 1..n /\ i + 1 \in 1..n
            BY <1>2, <2>2
        <3>2. t[i] = out[i] /\ t[i + 1] = out[i + 1]
            BY <1>4, <3>1
        <3> QED
            BY <1>1, <1>2, <3>1, <3>2
    <2> QED
        BY <2>1, <2>2
<1>7. Unbroken(m, e, p + (j + 1))
    BY <1>2 DEF Unbroken
<1>8. t[1] = p
    BY <1>1, <1>2, <1>4
<1>9. Starts(t, m, p, j + 1)
    <2>1. Len(t) \in Nat \ {0} /\ Len(t) = n + 1 /\ Len(t) - 1 = n /\ t[Len(t)] = e
        BY <1>2, <1>4
    <2> QED
        BY <1>4, <1>5, <1>6, <1>7, <1>8, <2>1 DEF Starts
<1> QED
    BY <1>2, <1>3, <1>9

LEMMA CutStep ==
    ASSUME NEW m, NEW top, IsMemory(m, top), NEW p \in 0..top, NEW j \in Nat, p + j < top,
           NEW s, CutTo(s.mem, m, top, p, j), Starts(s.out, m, p, j)
    PROVE  /\ CutTo(CutAt(s, p + (j + 1)).mem, m, top, p, j + 1)
           /\ Starts(CutAt(s, p + (j + 1)).out, m, p, j + 1)
<1>1. top \in Nat /\ m \in [0..top -> Nat]
    BY DEF IsMemory
<1>2. PICK sm, out : sm = s.mem /\ out = s.out
    OBVIOUS
<1>3. /\ sm \in [0..top -> Nat]
      /\ \A a \in 0..top : sm[a] = IF a \in p..(p + j - 1) /\ m[a] = SPACE THEN 0 ELSE m[a]
    BY <1>2 DEF CutTo
<1>4. Starts(out, m, p, j)
    BY <1>2
<1>5. PICK b, e : b = p + j /\ b \in 0..top /\ b \notin p..(p + j - 1) /\ e = p + (j + 1) /\ e - 1 = b
    <2>1. p + j \in 0..top /\ p + j \notin p..(p + j - 1) /\ p + (j + 1) - 1 = p + j
        BY <1>1
    <2> QED
        BY <2>1
<1>6. sm[b] = m[b]
    BY <1>3, <1>5
<1>7. PICK t : t = CutAt(s, e)
    OBVIOUS
<1>8. CASE m[b] = SPACE
    <2>1. t = [mem |-> [sm EXCEPT ![b] = 0], out |-> Append(out, e)]
        BY <1>2, <1>5, <1>6, <1>7, <1>8 DEF CutAt
    <2>2. Starts(t.out, m, p, j + 1)
        <3>1. Starts(Append(out, p + (j + 1)), m, p, j + 1)
            <4>1. p \in Nat /\ m[p + j] = SPACE
                BY <1>1, <1>5, <1>8
            <4> QED
                BY <1>4, <4>1, StartsAnew
        <3> QED
            BY <1>5, <2>1, <3>1
    <2>3. ASSUME NEW a \in 0..top
          PROVE  [sm EXCEPT ![b] = 0][a]
                     = IF a \in p..(p + (j + 1) - 1) /\ m[a] = SPACE THEN 0 ELSE m[a]
        <3>1. CASE a = b
            <4>1. a \in p..(p + (j + 1) - 1)
                BY <1>1, <1>5, <3>1
            <4> QED
                BY <1>3, <1>5, <1>8, <3>1, <4>1
        <3>2. CASE a # b
            <4>1. a \in p..(p + (j + 1) - 1) <=> a \in p..(p + j - 1)
                BY <1>1, <1>5, <3>2
            <4> QED
                BY <1>3, <3>2, <4>1
        <3> QED
            BY <3>1, <3>2
    <2>4. [sm EXCEPT ![b] = 0] \in [0..top -> Nat]
        BY <1>3
    <2>5. CutTo(t.mem, m, top, p, j + 1)
        BY <2>1, <2>3, <2>4 DEF CutTo
    <2> QED
        BY <1>5, <1>7, <2>2, <2>5
<1>9. CASE m[b] # SPACE
    <2>1. t = s
        BY <1>2, <1>5, <1>6, <1>7, <1>9 DEF CutAt
    <2>2. Starts(t.out, m, p, j + 1)
        <3>1. Starts(out, m, p, j + 1)
            <4>1. p \in Nat /\ m[p + j] # SPACE
                BY <1>1, <1>5, <1>9
            <4> QED
                BY <1>4, <4>1, StartsOn
        <3> QED
            BY <1>2, <2>1, <3>1
    <2>3. ASSUME NEW a \in 0..top
          PROVE  sm[a] = IF a \in p..(p + (j + 1) - 1) /\ m[a] = SPACE THEN 0 ELSE m[a]
        <3>1. CASE a = b
            BY <1>6, <1>9, <3>1
        <3>2. CASE a # b
            <4>1. a \in p..(p + (j + 1) - 1) <=> a \in p..(p + j - 1)
                BY <1>1, <1>5, <3>2
            <4> QED
                BY <1>3, <4>1
        <3> QED
            BY <3>1, <3>2
    <2>4. CutTo(t.mem, m, top, p, j + 1)
        BY <1>2, <1>3, <2>1, <2>3 DEF CutTo
    <2> QED
        BY <1>5, <1>7, <2>2, <2>4
<1> QED
    BY <1>8, <1>9

LEMMA SplitIs ==
    ASSUME NEW m, NEW top, IsMemory(m, top), NEW p, NEW k, Ends(m, top, p, k), p < k
    PROVE  /\ CutTo(strsplt(m, p, SPACE).mem, m, top, p, k - p - 1)
           /\ Starts(strsplt(m, p, SPACE).out, m, p, k - p - 1)
<1>1. /\ top \in Nat /\ m \in [0..top -> Nat] /\ p \in 0..top /\ k \in p..top
      /\ m[k] = 0 /\ \A i \in p..(k - 1) : m[i] # 0
    BY DEF IsMemory, Ends
<1>2. PICK n : n = k - p - 1 /\ n \in Nat /\ p + n < top
    BY <1>1
<1>3. m[p] # 0 /\ strlen(m, p) - 1 = n
    <2>1. strlen(m, p) = k - p
        BY StringIs
    <2>2. p \in p..(k - 1)
        BY <1>1
    <2> QED
        BY <1>1, <1>2, <2>1, <2>2
<1>4. PICK order : order = Upward(p + 1, n)
    OBVIOUS
<1>5. order = [i \in 1..n |-> (p + 1) + i - 1]
    BY <1>4 DEF Upward
<1>6. DOMAIN order = 1..n /\ Len(order) = n /\ \A i \in 1..n : order[i] = p + i
    <2>1. \A i \in 1..n : (p + 1) + i - 1 = p + i
        BY <1>1, <1>2
    <2>2. DOMAIN order = 1..n /\ \A i \in 1..n : order[i] = p + i
        BY <1>5, <2>1
    <2>3. \A i \in 1..n : p + i \in Int
        BY <1>1, <1>2
    <2>4. order \in [1..n -> Int]
        BY <1>5, <2>1, <2>3
    <2>5. order \in Seq(Int)
        BY <1>2, <2>4
    <2> QED
        BY <1>2, <2>2, <2>5, LenProperties
<1>7. strsplt(m, p, SPACE) = CutAll(Uncut(m, p), order)
    <2>1. strsplt(m, p, SPACE) =
              IF m[p] = 0 THEN [mem |-> m, out |-> <<>>]
              ELSE CutAll(Uncut(m, p), Upward(p + 1, strlen(m, p) - 1))
        BY Zenon DEF strsplt, CutAll, CutAt, Uncut
    <2> QED
        BY <1>3, <1>4, <2>1
<1>8. PICK g : CutRun(g, Uncut(m, p), order) /\ CutAll(Uncut(m, p), order) = g[Len(order)]
    BY <1>2, <1>6, CutRuns
<1>9. g[0] = Uncut(m, p) /\ \A i \in 1..n : g[i] = CutAt(g[i - 1], p + i)
    BY <1>6, <1>8 DEF CutRun
<1> DEFINE P == {i \in 0..n : CutTo(g[i].mem, m, top, p, i) /\ Starts(g[i].out, m, p, i)}
<1>10. 0 \in P
    <2>1. g[0].mem = m /\ g[0].out = <<p>>
        BY <1>9 DEF Uncut
    <2>2. CutTo(m, m, top, p, 0)
        <3>1. \A a \in 0..top : a \notin p..(p + 0 - 1)
            BY <1>1
        <3> QED
            BY <1>1, <3>1 DEF CutTo
    <2>3. Starts(<<p>>, m, p, 0)
        <3>1. PICK out : out = <<p>>
            OBVIOUS
        <3>2. p \in Int /\ p \in p..(p + 0) /\ p + 0 = p
            BY <1>1
        <3>3. out \in Seq(Int) /\ Len(out) = 1 /\ out[1] = p
            BY <3>1, <3>2
        <3>4. \A i \in 1..Len(out) : out[i] \in p..(p + 0)
            BY <3>2, <3>3
        <3>5. Unbroken(m, p, p + 0)
            BY <1>1 DEF Unbroken
        <3>6. Starts(out, m, p, 0)
            BY <3>3, <3>4, <3>5 DEF Starts
        <3> QED
            BY <3>1, <3>6
    <2>4. 0 \in 0..n
        BY <1>2
    <2> QED
        BY <2>1, <2>2, <2>3, <2>4
<1>11. ASSUME NEW i \in 1..n, i - 1 \in P PROVE i \in P
    <2>1. PICK j : j = i - 1 /\ j \in Nat /\ j + 1 = i /\ p + j < top /\ i \in 0..n
        BY <1>1, <1>2
    <2>2. PICK s : s = g[j]
        OBVIOUS
    <2>3. CutTo(s.mem, m, top, p, j) /\ Starts(s.out, m, p, j)
        BY <1>11, <2>1, <2>2
    <2>4. /\ CutTo(CutAt(s, p + (j + 1)).mem, m, top, p, j + 1)
          /\ Starts(CutAt(s, p + (j + 1)).out, m, p, j + 1)
        BY <1>1, <2>1, <2>3, CutStep
    <2>5. g[i] = CutAt(s, p + (j + 1))
        BY <1>9, <2>1, <2>2
    <2> QED
        BY <2>1, <2>4, <2>5
<1>12. n \in P
    <2> HIDE DEF P
    <2>1. n \in 0..n
        BY <1>2
    <2> QED
        BY <1>2, <1>10, <1>11, <2>1, UpTo
<1>13. CutTo(g[n].mem, m, top, p, n) /\ Starts(g[n].out, m, p, n)
    BY <1>12
<1> QED
    BY <1>2, <1>6, <1>7, <1>8, <1>13

(* Words joined, with a separator between them. *)
JoinAll(base, words) == FoldLeft(LAMBDA s, w : s \o <<SPACE>> \o w, base, words)

(* The texts joined, a word at a time. *)
JoinRun(g, base, words) ==
    /\ g[0] = base
    /\ \A i \in 1..Len(words) : g[i] = (g[i - 1] \o <<SPACE>> \o words[i])

LEMMA JoinRuns ==
    ASSUME NEW base, NEW words, Len(words) \in Nat, DOMAIN words = 1..Len(words)
    PROVE  \E g : JoinRun(g, base, words) /\ JoinAll(base, words) = g[Len(words)]
<1> DEFINE n == Len(words)
           Unfolded(h, m) == [u \in SUBSET (1..m) |->
                              IF u = {} THEN base
                              ELSE (h[u \ {Max(u)}] \o <<SPACE>> \o words[Max(u)])]
           Whole(h) == [u \in SUBSET (DOMAIN words) |->
                        IF u = {} THEN base
                        ELSE (h[u \ {Max(u)}] \o <<SPACE>> \o words[Max(u)])]
           iter == CHOOSE h : h = Whole(h)
           Solved == {m \in 0..n : \E h : h = Unfolded(h, m)}
<1>1. n \in Nat /\ DOMAIN words = 1..n
    OBVIOUS
<1>2. JoinAll(base, words) = iter[DOMAIN words]
    BY Zenon DEF JoinAll, FoldLeft, MapThenFoldSet
<1> HIDE DEF n
<1>3. 0 \in Solved
    <2> DEFINE h == [u \in SUBSET (1..0) |-> base]
    <2>1. \A u \in SUBSET (1..0) : u = {}
        OBVIOUS
    <2>2. h = Unfolded(h, 0)
        BY <2>1
    <2> HIDE DEF Unfolded, h
    <2>3. 0 \in 0..n
        BY <1>1
    <2> QED
        BY <2>2, <2>3
<1>4. ASSUME NEW m \in 1..n, m - 1 \in Solved PROVE m \in Solved
    <2>1. PICK h : h = Unfolded(h, m - 1)
        BY <1>4
    <2> DEFINE g == [u \in SUBSET (1..m) |->
                     IF m \in u THEN (h[u \ {m}] \o <<SPACE>> \o words[m]) ELSE h[u]]
    <2>2. \A u \in SUBSET (1..(m - 1)) :
              h[u] = IF u = {} THEN base
                     ELSE (h[u \ {Max(u)}] \o <<SPACE>> \o words[Max(u)])
        BY <2>1
    <2>3. m \in Nat
        BY <1>1
    <2>4. ASSUME NEW u \in SUBSET (1..m)
          PROVE  g[u] = IF u = {} THEN base
                        ELSE (g[u \ {Max(u)}] \o <<SPACE>> \o words[Max(u)])
        <3>1. CASE m \in u
            <4>1. Max(u) = m /\ u # {}
                BY <2>3, <3>1, MaxIs
            <4>2. u \ {m} \in SUBSET (1..m) /\ m \notin u \ {m}
                OBVIOUS
            <4>3. g[u \ {m}] = h[u \ {m}]
                BY <4>2
            <4>4. g[u] = (h[u \ {m}] \o <<SPACE>> \o words[m])
                BY <3>1
            <4> HIDE DEF g
            <4> QED
                BY <4>1, <4>3, <4>4
        <3>2. CASE m \notin u
            <4>1. u \in SUBSET (1..(m - 1))
                BY <2>3, <3>2
            <4>2. g[u] = h[u]
                BY <3>2
            <4>3. u # {} => g[u \ {Max(u)}] = h[u \ {Max(u)}]
                <5>1. u \ {Max(u)} \in SUBSET (1..m) /\ m \notin u \ {Max(u)}
                    BY <3>2
                <5> QED
                    BY <5>1
            <4> HIDE DEF g
            <4> QED
                BY <2>2, <4>1, <4>2, <4>3
        <3> QED
            BY <3>1, <3>2
    <2>5. g = [u \in SUBSET (1..m) |-> g[u]]
        OBVIOUS
    <2> HIDE DEF g
    <2>6. g = Unfolded(g, m)
        BY <2>4, <2>5
    <2>7. m \in 0..n
        BY <1>1
    <2> HIDE DEF Unfolded
    <2> QED
        BY <2>6, <2>7
<1>5. n \in Solved
    <2> HIDE DEF Solved
    <2>1. n \in 0..n
        BY <1>1
    <2> QED
        BY <1>1, <1>3, <1>4, <2>1, UpTo
<1>6. PICK h : h = Unfolded(h, n)
    <2> HIDE DEF Unfolded
    <2> QED
        BY <1>5
<1>7. h = Whole(h)
    BY <1>1, <1>6
<1>8. iter = Whole(iter)
    <2> HIDE DEF Whole
    <2> QED
        BY <1>7
<1>9. \A u \in SUBSET (1..n) :
          iter[u] = IF u = {} THEN base
                    ELSE (iter[u \ {Max(u)}] \o <<SPACE>> \o words[Max(u)])
    <2> HIDE DEF iter
    <2> QED
        BY <1>1, <1>8
<1> HIDE DEF iter, Solved
<1> DEFINE g == [i \in 0..n |-> iter[1..i]]
<1>10. g[0] = base
    <2>1. 1..0 = {} /\ 0 \in 0..n /\ 1..0 \in SUBSET (1..n)
        BY <1>1
    <2> QED
        BY <1>9, <2>1
<1>11. ASSUME NEW i \in 1..n PROVE g[i] = (g[i - 1] \o <<SPACE>> \o words[i])
    <2>0. i \in Nat /\ i >= 1 /\ i <= n
        BY <1>1
    <2>1. 1..i \in SUBSET (1..n) /\ i \in 1..i /\ 1..i # {} /\ i \in 0..n /\ i - 1 \in 0..n
        <3>1. \A j \in 1..i : j \in 1..n
            BY <1>1, <2>0
        <3>2. i \in 1..i /\ i \in 0..n /\ i - 1 \in 0..n
            BY <1>1, <2>0
        <3> QED
            BY <3>1, <3>2
    <2>2. Max(1..i) = i
        BY <2>0, <2>1, MaxIs
    <2>3. (1..i) \ {i} = 1..(i - 1)
        BY <2>0
    <2>4. g[i] = iter[1..i] /\ g[i - 1] = iter[1..(i - 1)]
        BY <2>1
    <2> HIDE DEF g
    <2> QED
        BY <1>9, <2>1, <2>2, <2>3, <2>4
<1>12. JoinAll(base, words) = g[n]
    <2>1. n \in 0..n
        BY <1>1
    <2> QED
        BY <1>1, <1>2, <2>1
<1> HIDE DEF g
<1> QED
    BY <1>10, <1>11, <1>12 DEF JoinRun, n

(* The text of a memory from a up to b. *)
Stretch(s, m, a, b) ==
    /\ s \in Seq(Nat) /\ Len(s) = b - a
    /\ \A x \in 1..(b - a) : s[x] = m[a + x - 1]

LEMMA JoinStep ==
    ASSUME NEW m, NEW a \in Nat, NEW b \in Nat, NEW e \in Nat, a <= b, b < e,
           NEW s, Stretch(s, m, a, b), m[b] = SPACE, NEW w, Stretch(w, m, b + 1, e)
    PROVE  Stretch(s \o <<SPACE>> \o w, m, a, e)
<1>1. s \in Seq(Nat) /\ Len(s) = b - a /\ \A x \in 1..(b - a) : s[x] = m[a + x - 1]
    BY DEF Stretch
<1>2. /\ w \in Seq(Nat) /\ Len(w) = e - (b + 1)
      /\ \A x \in 1..(e - (b + 1)) : w[x] = m[(b + 1) + x - 1]
    BY DEF Stretch
<1>3. PICK f : f = <<SPACE>>
    OBVIOUS
<1>4. f \in Seq(Nat) /\ Len(f) = 1 /\ f[1] = SPACE
    BY <1>3 DEF SPACE
<1>5. PICK h : h = s \o f
    OBVIOUS
<1>6. /\ h \in Seq(Nat) /\ Len(h) = b - a + 1
      /\ \A x \in 1..(b - a + 1) : h[x] = IF x <= b - a THEN s[x] ELSE f[x - (b - a)]
    <2>1. /\ s \o f \in Seq(Nat) /\ Len(s \o f) = Len(s) + Len(f)
          /\ \A x \in 1..(Len(s) + Len(f)) :
                (s \o f)[x] = IF x <= Len(s) THEN s[x] ELSE f[x - Len(s)]
        BY <1>1, <1>4, ConcatProperties
    <2> QED
        BY <1>1, <1>4, <1>5, <2>1
<1>7. PICK r : r = h \o w
    OBVIOUS
<1>8. /\ r \in Seq(Nat) /\ Len(r) = (b - a + 1) + (e - (b + 1))
      /\ \A x \in 1..((b - a + 1) + (e - (b + 1))) :
            r[x] = IF x <= b - a + 1 THEN h[x] ELSE w[x - (b - a + 1)]
    <2>1. /\ h \o w \in Seq(Nat) /\ Len(h \o w) = Len(h) + Len(w)
          /\ \A x \in 1..(Len(h) + Len(w)) :
                (h \o w)[x] = IF x <= Len(h) THEN h[x] ELSE w[x - Len(h)]
        BY <1>2, <1>6, ConcatProperties
    <2> QED
        BY <1>2, <1>6, <1>7, <2>1
<1>9. (b - a + 1) + (e - (b + 1)) = e - a
    OBVIOUS
<1>10. ASSUME NEW x \in 1..(e - a) PROVE r[x] = m[a + x - 1]
    <2>1. CASE x <= b - a
        <3>1. x \in 1..(b - a) /\ x \in 1..(b - a + 1) /\ x <= b - a + 1
            BY <2>1
        <3>2. r[x] = h[x] /\ h[x] = s[x]
            BY <1>6, <1>8, <1>9, <2>1, <3>1
        <3> QED
            BY <1>1, <3>1, <3>2
    <2>2. CASE x = b - a + 1
        <3>1. /\ x \in 1..(b - a + 1) /\ x <= b - a + 1 /\ ~(x <= b - a) /\ x - (b - a) = 1
              /\ a + x - 1 = b
            BY <2>2
        <3>2. r[x] = h[x] /\ h[x] = f[1]
            BY <1>6, <1>8, <1>9, <3>1
        <3> QED
            BY <1>4, <3>1, <3>2
    <2>3. CASE x > b - a + 1
        <3>1. PICK y : y = x - (b - a + 1) /\ y \in 1..(e - (b + 1)) /\ (b + 1) + y - 1 = a + x - 1
            <4>1. /\ x - (b - a + 1) \in 1..(e - (b + 1))
                  /\ (b + 1) + (x - (b - a + 1)) - 1 = a + x - 1
                BY <2>3
            <4> QED
                BY <4>1
        <3>2. r[x] = w[y]
            <4>1. ~(x <= b - a + 1)
                BY <2>3
            <4> QED
                BY <1>8, <1>9, <3>1, <4>1
        <3> QED
            BY <1>2, <3>1, <3>2
    <2> QED
        BY <2>1, <2>2, <2>3
<1>11. Stretch(r, m, a, e)
    BY <1>8, <1>9, <1>10 DEF Stretch
<1> QED
    BY <1>3, <1>5, <1>7, <1>11

(* Where a word ends: at the separator in front of the next, or at the end of the line. *)
WordEnd(out, k, i) == IF i < Len(out) THEN out[i + 1] - 1 ELSE k

LEMMA WordIs ==
    ASSUME NEW m, NEW top, IsMemory(m, top), NEW p, NEW k, Ends(m, top, p, k), p < k,
           NEW sm, CutTo(sm, m, top, p, k - p - 1), NEW out, Starts(out, m, p, k - p - 1),
           NEW i \in 1..Len(out)
    PROVE  /\ out[i] \in Nat /\ WordEnd(out, k, i) \in Nat /\ out[i] <= WordEnd(out, k, i)
           /\ Stretch(StringAt(sm, out[i]), m, out[i], WordEnd(out, k, i))
           /\ \A x \in 1..Len(StringAt(sm, out[i])) :
                 StringAt(sm, out[i])[x] = SPACE => i = Len(out) /\ x = Len(StringAt(sm, out[i]))
<1>1. /\ top \in Nat /\ m \in [0..top -> Nat] /\ m[top] = 0 /\ p \in 0..top /\ k \in p..top
      /\ m[k] = 0 /\ \A x \in p..(k - 1) : m[x] # 0
    BY DEF IsMemory, Ends
<1>2. PICK j : j = k - p - 1 /\ j \in Nat /\ p + j = k - 1
    <2>1. k - p - 1 \in Nat /\ p + (k - p - 1) = k - 1
        BY <1>1
    <2> QED
        BY <2>1
<1>3. /\ sm \in [0..top -> Nat]
      /\ \A a \in 0..top : sm[a] = IF a \in p..(k - 2) /\ m[a] = SPACE THEN 0 ELSE m[a]
    <2>1. /\ sm \in [0..top -> Nat]
          /\ \A a \in 0..top : sm[a] = IF a \in p..(p + j - 1) /\ m[a] = SPACE THEN 0 ELSE m[a]
        BY <1>2 DEF CutTo
    <2>2. p + j - 1 = k - 2
        BY <1>1, <1>2
    <2> QED
        BY <2>1, <2>2
<1>4. /\ out \in Seq(Int) /\ Len(out) \in Nat \ {0} /\ out[1] = p
      /\ \A x \in 1..Len(out) : out[x] \in p..(k - 1)
      /\ \A x \in 1..(Len(out) - 1) :
            /\ out[x] <= out[x + 1] - 1 /\ m[out[x + 1] - 1] = SPACE
            /\ Unbroken(m, out[x], out[x + 1] - 1)
      /\ Unbroken(m, out[Len(out)], k - 1)
    BY <1>2 DEF Starts
<1>5. PICK n : n = Len(out) /\ n \in Nat \ {0}
    BY <1>4
<1>6. PICK b : b = out[i] /\ b \in p..(k - 1) /\ b \in Nat /\ b \in 0..top
    <2>1. out[i] \in p..(k - 1)
        BY <1>4
    <2> QED
        BY <1>1, <2>1
<1>7. PICK e : e = WordEnd(out, k, i)
    OBVIOUS
<1>8. /\ e \in b..k /\ e \in Nat /\ e <= top
      /\ (e = k => i = n) /\ (e # k => e \in p..(k - 2) /\ m[e] = SPACE)
      /\ \A x \in b..(e - 1) : x # k - 1 => m[x] # SPACE
      /\ (i # n => e < k - 1)
    <2>1. CASE i < n
        <3>1. i \in 1..(n - 1) /\ i + 1 \in 1..n
            BY <1>5, <2>1
        <3>2. e = out[i + 1] - 1 /\ out[i + 1] \in p..(k - 1)
            BY <1>4, <1>5, <1>7, <2>1, <3>1 DEF WordEnd
        <3>3. b <= e /\ m[e] = SPACE /\ Unbroken(m, b, e)
            BY <1>4, <1>5, <1>6, <3>1, <3>2
        <3>4. e \in b..k /\ e \in Nat /\ e <= top /\ e # k /\ e < k - 1 /\ e \in p..(k - 2)
            <4>1. top \in Nat /\ p \in 0..top /\ k \in p..top
                BY <1>1
            <4>2. b \in p..(k - 1) /\ b <= e
                BY <1>6, <3>3
            <4>3. PICK c : c = out[i + 1] /\ e = c - 1 /\ c \in p..(k - 1)
                BY <3>2
            <4>4. top \in Nat /\ p \in Nat /\ k \in Nat /\ p <= k /\ k <= top
                BY <4>1
            <4>5. b \in Int /\ c \in Int /\ p <= b /\ c <= k - 1
                BY <4>2, <4>3, <4>4
            <4>6. e \in Int /\ b <= e
                BY <4>2, <4>3, <4>5
            <4> QED
                BY <4>3, <4>4, <4>5, <4>6
        <3>5. \A x \in b..(e - 1) : m[x] # SPACE
            BY <3>3 DEF Unbroken
        <3> QED
            BY <3>3, <3>4, <3>5
    <2>2. CASE ~(i < n)
        <3>1. i = n /\ e = k
            BY <1>5, <1>7, <2>2 DEF WordEnd
        <3>2. Unbroken(m, b, k - 1)
            BY <1>4, <1>5, <1>6, <3>1
        <3>3. \A x \in b..((k - 1) - 1) : m[x] # SPACE
            BY <3>2 DEF Unbroken
        <3>4. ASSUME NEW x \in b..(e - 1), x # k - 1 PROVE m[x] # SPACE
            <4>1. x \in b..((k - 1) - 1)
                BY <1>1, <1>6, <3>1, <3>4
            <4> QED
                BY <3>3, <4>1
        <3>5. e \in b..k /\ e \in Nat /\ e <= top
            BY <1>1, <1>6, <3>1
        <3> QED
            BY <3>1, <3>4, <3>5
    <2> QED
        BY <2>1, <2>2
<1>9. \A x \in b..(e - 1) : sm[x] = m[x] /\ m[x] # 0
    <2>1. ASSUME NEW x \in b..(e - 1) PROVE sm[x] = m[x] /\ m[x] # 0
        <3>1. x \in 0..top /\ x \in p..(k - 1)
            <4>1. top \in Nat /\ p \in 0..top /\ k \in p..top
                BY <1>1
            <4>2. b \in p..(k - 1) /\ e \in b..k
                BY <1>6, <1>8
            <4> QED
                BY <4>1, <4>2
        <3>2. x \in p..(k - 2) => x # k - 1
            BY <1>1
        <3>3. x \in p..(k - 2) => m[x] # SPACE
            BY <1>8, <3>2
        <3>4. m[x] # 0
            BY <1>1, <3>1
        <3> QED
            BY <1>3, <3>1, <3>3, <3>4
    <2> QED
        BY <2>1
<1>10. sm[e] = 0
    <2>1. e \in 0..top
        BY <1>1, <1>8
    <2> QED
        BY <1>1, <1>3, <1>8, <2>1
<1>11. IsMemory(sm, top) /\ Ends(sm, top, b, e)
    <2>1. sm[top] = 0
        BY <1>1, <1>3
    <2>2. e \in b..top
        BY <1>1, <1>6, <1>8
    <2> QED
        BY <1>1, <1>3, <1>6, <1>9, <1>10, <2>1, <2>2 DEF IsMemory, Ends
<1>12. PICK w : w = StringAt(sm, b)
    OBVIOUS
<1>13. w \in Seq(Nat) /\ Len(w) = e - b /\ \A x \in 1..(e - b) : w[x] = sm[b + x - 1]
    BY <1>11, <1>12, StringIs
<1>14. ASSUME NEW x \in 1..(e - b)
       PROVE  b + x - 1 \in b..(e - 1) /\ w[x] = m[b + x - 1]
    <2>1. b + x - 1 \in b..(e - 1)
        BY <1>6, <1>8
    <2> QED
        BY <1>9, <1>13, <2>1
<1>15. Stretch(w, m, b, e)
    BY <1>13, <1>14 DEF Stretch
<1>16. ASSUME NEW x \in 1..Len(w), w[x] = SPACE PROVE i = n /\ x = Len(w)
    <2>1. x \in 1..(e - b)
        BY <1>13
    <2>2. b + x - 1 \in b..(e - 1) /\ m[b + x - 1] = SPACE
        BY <1>14, <1>16, <2>1
    <2>3. b + x - 1 = k - 1
        BY <1>8, <2>2
    <2>4. /\ k \in Nat /\ b \in Nat /\ e \in Nat /\ e <= k /\ (e = k => i = n)
          /\ Len(w) = e - b /\ x \in Nat /\ x <= e - b
        <3>1. top \in Nat /\ p \in 0..top /\ k \in p..top
            BY <1>1
        <3>2. b \in p..(k - 1) /\ e \in b..k /\ b \in Nat /\ e \in Nat /\ (e = k => i = n)
            BY <1>6, <1>8
        <3> QED
            BY <1>13, <2>1, <3>1, <3>2
    <2> QED
        BY <2>3, <2>4
<1>17. b <= e
    BY <1>6, <1>8
<1> QED
    BY <1>5, <1>6, <1>7, <1>8, <1>12, <1>15, <1>16, <1>17

(* The words, joined, are the line. *)
LEMMA JoinedIs ==
    ASSUME NEW m, NEW p \in Nat, NEW k \in Nat, p < k, NEW out, Starts(out, m, p, k - p - 1),
           NEW words, words \in Seq(Seq(Nat)), Len(words) = Len(out),
           \A i \in 1..Len(out) : /\ out[i] \in Nat /\ WordEnd(out, k, i) \in Nat
                                  /\ out[i] <= WordEnd(out, k, i)
                                  /\ Stretch(words[i], m, out[i], WordEnd(out, k, i))
    PROVE  Stretch(JoinAll(Head(words), Tail(words)), m, p, k)
<1>1. /\ Len(out) \in Nat \ {0} /\ out[1] = p
      /\ \A i \in 1..(Len(out) - 1) : m[out[i + 1] - 1] = SPACE
    BY DEF Starts
<1>2. PICK n : n = Len(out) /\ n \in Nat \ {0}
    BY <1>1
<1>3. words \in Seq(Seq(Nat)) /\ Len(words) = n /\ words # <<>>
    BY <1>2
<1>4. PICK base, rest : base = Head(words) /\ rest = Tail(words)
    OBVIOUS
<1>5. /\ rest \in Seq(Seq(Nat)) /\ Len(rest) = n - 1
      /\ \A i \in 1..Len(rest) : rest[i] = words[i + 1]
    BY <1>3, <1>4, HeadTailProperties
<1>6. base = words[1]
    BY <1>3, <1>4
<1>7. Len(rest) \in Nat /\ DOMAIN rest = 1..Len(rest)
    BY <1>5, LenProperties
<1>8. PICK g : JoinRun(g, base, rest) /\ JoinAll(base, rest) = g[Len(rest)]
    BY <1>7, JoinRuns
<1>9. g[0] = base /\ \A i \in 1..Len(rest) : g[i] = (g[i - 1] \o <<SPACE>> \o rest[i])
    BY <1>8 DEF JoinRun
<1>10. PICK l : l = n - 1 /\ l \in Nat /\ l = Len(rest) /\ l + 1 = n
    BY <1>2, <1>5, <1>7
<1> DEFINE P == {i \in 0..l : Stretch(g[i], m, p, WordEnd(out, k, i + 1))}
<1>11. 0 \in P
    <2>1. 1 \in 1..Len(out) /\ 0 + 1 = 1
        BY <1>1
    <2>2. Stretch(words[1], m, out[1], WordEnd(out, k, 1))
        BY <2>1
    <2>3. Stretch(g[0], m, p, WordEnd(out, k, 0 + 1))
        BY <1>1, <1>6, <1>9, <2>1, <2>2
    <2>4. 0 \in 0..l
        BY <1>10
    <2> QED
        BY <2>3, <2>4
<1>12. ASSUME NEW i \in 1..l, i - 1 \in P PROVE i \in P
    <2>1. PICK h : h = i + 1 /\ h \in 1..n /\ i \in 1..n /\ i \in 1..(n - 1) /\ i < n /\ (i - 1) + 1 = i
        BY <1>10
    <2>2. PICK a, b, e : a = out[h] /\ b = WordEnd(out, k, i) /\ e = WordEnd(out, k, h)
        OBVIOUS
    <2>3. a \in Nat /\ e \in Nat /\ a <= e /\ Stretch(words[h], m, a, e)
        BY <1>2, <2>1, <2>2
    <2>4. b \in Nat /\ out[i] \in Nat /\ out[i] <= b
        BY <1>2, <2>1, <2>2
    <2>5. b = a - 1 /\ m[b] = SPACE
        BY <1>1, <1>2, <2>1, <2>2 DEF WordEnd
    <2>6. a = b + 1 /\ b < e
        BY <2>3, <2>4, <2>5
    <2>7. PICK s, w : s = g[i - 1] /\ w = rest[i] /\ g[i] = s \o <<SPACE>> \o w
        BY <1>9, <1>10
    <2>8. Stretch(s, m, p, b)
        BY <1>12, <2>1, <2>2, <2>7
    <2>9. Stretch(w, m, b + 1, e)
        BY <1>5, <1>10, <2>1, <2>3, <2>6, <2>7
    <2>10. p <= b
        <3>1. Len(s) = b - p /\ Len(s) \in Nat
            <4>1. s \in Seq(Nat) /\ Len(s) = b - p
                BY <2>8 DEF Stretch
            <4> QED
                BY <4>1, LenProperties
        <3> QED
            BY <2>4, <3>1
    <2>11. Stretch(s \o <<SPACE>> \o w, m, p, e)
        BY <2>3, <2>4, <2>5, <2>6, <2>8, <2>9, <2>10, JoinStep
    <2>12. i \in 0..l
        BY <1>10
    <2> QED
        BY <2>1, <2>2, <2>7, <2>11, <2>12
<1>13. l \in P
    <2> HIDE DEF P
    <2>1. l \in 0..l
        BY <1>10
    <2> QED
        BY <1>10, <1>11, <1>12, <2>1, UpTo
<1>14. WordEnd(out, k, l + 1) = k
    BY <1>2, <1>10 DEF WordEnd
<1>15. Stretch(g[l], m, p, k)
    BY <1>13, <1>14
<1> QED
    BY <1>4, <1>8, <1>10, <1>15

(* What strsplt leaves, of a line and a memory. *)
WordsOf(line, words) ==
    /\ (line = <<>>) <=> (words = <<>>)
    /\ words # <<>> =>
          /\ \A i \in DOMAIN words : \A k \in DOMAIN words[i] :
                words[i][k] = SPACE => i = Len(words) /\ k = Len(words[i])
          /\ JoinAll(Head(words), Tail(words)) = line

SplitText(out, sm, m, p) ==
    /\ WordsOf(StringAt(m, p), [i \in DOMAIN out |-> StringAt(sm, out[i])])
    /\ \A a \in Address \ (p..End(m, p)) : sm[a] = m[a]

LEMMA SplitPropertyIs == SplitsIntoWords <=> (call.f = "strsplt" => SplitText(result, mem, before, call.p))
BY Zenon DEF SplitsIntoWords, SplitText, WordsOf, JoinAll

LEMMA Splits ==
    ASSUME NEW m, IsMemory(m, CELLS - 1), NEW p \in Address
    PROVE  SplitText(strsplt(m, p, SPACE).out, strsplt(m, p, SPACE).mem, m, p)
<1>1. PICK top : top = CELLS - 1 /\ top \in Nat /\ Address = 0..top /\ IsMemory(m, top)
    BY Cells
<1>2. PICK k : Ends(m, top, p, k)
    BY <1>1, HasEnd
<1>3. /\ m \in [0..top -> Nat] /\ p \in 0..top /\ k \in p..top /\ m[k] = 0
      /\ End(m, p) = k
    BY <1>1, <1>2, EndIs DEF IsMemory, Ends
<1>4. PICK line : line = StringAt(m, p)
    OBVIOUS
<1>5. line \in Seq(Nat) /\ Len(line) = k - p /\ \A x \in 1..(k - p) : line[x] = m[p + x - 1]
    <2>1. Ends(m, top, p, k)
        BY <1>1, <1>2
    <2>2. /\ StringAt(m, p) \in Seq(Nat) /\ Len(StringAt(m, p)) = k - p
          /\ \A x \in 1..(k - p) : StringAt(m, p)[x] = m[p + x - 1]
        BY <1>1, <2>1, StringIs
    <2> QED
        BY <1>4, <2>2
<1>6. PICK r, sm, out : r = strsplt(m, p, SPACE) /\ sm = r.mem /\ out = r.out
    OBVIOUS
<1>7. PICK words : words = [i \in DOMAIN out |-> StringAt(sm, out[i])]
    OBVIOUS
<1>8. CASE p = k
    <2>1. r = [mem |-> m, out |-> <<>>]
        <3>1. m[p] = 0
            BY <1>3, <1>8
        <3> QED
            BY <1>6, <3>1, Zenon DEF strsplt
    <2>2. sm = m /\ out = <<>>
        BY <1>6, <2>1
    <2>3. words = <<>>
        <3>1. DOMAIN words = 1..0 /\ words \in [1..0 -> Seq(Nat)]
            BY <1>7, <2>2
        <3>2. words \in Seq(Seq(Nat)) /\ Len(words) = 0
            BY <3>1
        <3> QED
            BY <3>2, EmptySeq
    <2>4. line = <<>>
        <3>1. Len(line) = 0
            BY <1>3, <1>5, <1>8
        <3> QED
            BY <1>5, <3>1, EmptySeq
    <2>5. WordsOf(line, words)
        BY <2>3, <2>4 DEF WordsOf
    <2> QED
        BY <1>4, <1>6, <1>7, <2>2, <2>5 DEF SplitText
<1>9. CASE p < k
    <2>1. CutTo(sm, m, top, p, k - p - 1) /\ Starts(out, m, p, k - p - 1)
        BY <1>1, <1>2, <1>6, <1>9, SplitIs
    <2>2. out \in Seq(Int) /\ Len(out) \in Nat \ {0} /\ out[1] = p
        BY <2>1 DEF Starts
    <2>3. PICK n : n = Len(out) /\ n \in Nat \ {0} /\ DOMAIN out = 1..n
        BY <2>2, LenProperties
    <2>4. ASSUME NEW i \in 1..n
          PROVE  /\ words[i] = StringAt(sm, out[i])
                 /\ out[i] \in Nat /\ WordEnd(out, k, i) \in Nat /\ out[i] <= WordEnd(out, k, i)
                 /\ Stretch(words[i], m, out[i], WordEnd(out, k, i))
                 /\ words[i] \in Seq(Nat)
                 /\ \A x \in 1..Len(words[i]) : words[i][x] = SPACE => i = n /\ x = Len(words[i])
        <3>1. words[i] = StringAt(sm, out[i])
            BY <1>7, <2>3
        <3>2. i \in 1..Len(out)
            BY <2>3
        <3>3. /\ out[i] \in Nat /\ WordEnd(out, k, i) \in Nat /\ out[i] <= WordEnd(out, k, i)
              /\ Stretch(StringAt(sm, out[i]), m, out[i], WordEnd(out, k, i))
              /\ \A x \in 1..Len(StringAt(sm, out[i])) :
                    StringAt(sm, out[i])[x] = SPACE => i = Len(out) /\ x = Len(StringAt(sm, out[i]))
            BY <1>1, <1>2, <1>9, <2>1, <3>2, WordIs
        <3>4. StringAt(sm, out[i]) \in Seq(Nat)
            BY <3>3 DEF Stretch
        <3> QED
            BY <2>3, <3>1, <3>3, <3>4
    <2>5. words \in Seq(Seq(Nat)) /\ Len(words) = n /\ DOMAIN words = 1..n /\ words # <<>>
        <3>1. DOMAIN words = 1..n
            BY <1>7, <2>3
        <3>2. words = [i \in 1..n |-> words[i]]
            BY <1>7, <2>3
        <3>3. words \in [1..n -> Seq(Nat)]
            BY <2>4, <3>2
        <3>4. words \in Seq(Seq(Nat)) /\ Len(words) = n
            BY <2>3, <3>3
        <3> QED
            BY <2>3, <3>1, <3>4
    <2>6. PICK joined : joined = JoinAll(Head(words), Tail(words))
        OBVIOUS
    <2>7. Stretch(joined, m, p, k)
        <3>1. p \in Nat /\ k \in Nat
            BY <1>1, <1>3
        <3>2. Len(words) = Len(out)
            BY <2>3, <2>5
        <3>3. \A i \in 1..Len(out) : /\ out[i] \in Nat /\ WordEnd(out, k, i) \in Nat
                                     /\ out[i] <= WordEnd(out, k, i)
                                     /\ Stretch(words[i], m, out[i], WordEnd(out, k, i))
            BY <2>3, <2>4
        <3>4. words \in Seq(Seq(Nat))
            BY <2>5
        <3> QED
            BY <1>9, <2>1, <2>6, <3>1, <3>2, <3>3, <3>4, JoinedIs
    <2>8. joined = line
        <3>1. joined \in Seq(Nat) /\ Len(joined) = k - p /\ \A x \in 1..(k - p) : joined[x] = m[p + x - 1]
            BY <2>7 DEF Stretch
        <3> QED
            BY <1>5, <3>1, SeqEqual
    <2>9. line # <<>>
        <3>1. Len(line) # 0
            BY <1>1, <1>3, <1>5, <1>9
        <3> QED
            BY <3>1, EmptySeq
    <2>10. ASSUME NEW i \in DOMAIN words, NEW x \in DOMAIN words[i], words[i][x] = SPACE
           PROVE  i = Len(words) /\ x = Len(words[i])
        <3>1. i \in 1..n
            BY <2>5
        <3>2. words[i] \in Seq(Nat)
            BY <2>4, <3>1
        <3>3. x \in 1..Len(words[i])
            BY <3>2, LenProperties
        <3> QED
            BY <2>4, <2>5, <2>10, <3>1, <3>3
    <2>11. WordsOf(line, words)
        BY <2>5, <2>6, <2>8, <2>9, <2>10 DEF WordsOf
    <2>12. \A a \in 0..top : sm[a] = IF a \in p..(p + (k - p - 1) - 1) /\ m[a] = SPACE THEN 0 ELSE m[a]
        BY <2>1 DEF CutTo
    <2>13. ASSUME NEW a \in Address \ (p..End(m, p)) PROVE sm[a] = m[a]
        <3>1. a \in 0..top /\ a \notin p..k
            BY <1>1, <1>3
        <3>2. a \notin p..(p + (k - p - 1) - 1)
            BY <1>1, <1>3, <3>1
        <3> QED
            BY <2>12, <3>1, <3>2
    <2>14. SplitText(out, sm, m, p)
        BY <1>4, <1>7, <2>11, <2>13 DEF SplitText
    <2> QED
        BY <1>6, <2>14
<1> QED
    BY <1>1, <1>3, <1>8, <1>9

LEMMA SplitStep == Memory /\ SplitsIntoWords /\ [Next]_vars => SplitsIntoWords'
<1> SUFFICES ASSUME Memory, SplitsIntoWords, [Next]_vars PROVE SplitsIntoWords'
    OBVIOUS
<1>1. call.f = "strsplt" => SplitText(result, mem, before, call.p)
    BY SplitPropertyIs
<1>2. (SplitsIntoWords <=> (call.f = "strsplt" => SplitText(result, mem, before, call.p)))'
    BY SplitPropertyIs, PTL
<1>3. CASE UNCHANGED vars
    BY <1>1, <1>2, <1>3 DEF vars
<1>4. CASE Next
    <2>1. CASE Split
        <3>1. PICK p \in Address :
                  LET split == strsplt(mem, p, SPACE)
                  IN  Returns([f |-> "strsplt", p |-> p], split.mem, split.out)
            BY <2>1 DEF Split
        <3>2. /\ call' = [f |-> "strsplt", p |-> p] /\ mem' = strsplt(mem, p, SPACE).mem
              /\ result' = strsplt(mem, p, SPACE).out /\ before' = before
            BY <3>1 DEF Returns
        <3>3. mem = before /\ IsMemory(before, CELLS - 1)
            BY <1>4 DEF Memory, Next
        <3>4. SplitText(result', mem', before', call'.p)
            <4>1. call'.p = p
                BY <3>2
            <4>2. SplitText(strsplt(before, p, SPACE).out, strsplt(before, p, SPACE).mem, before, p)
                BY <3>3, Splits
            <4> QED
                BY <3>2, <3>3, <4>1, <4>2
        <3> QED
            BY <1>2, <3>4
    <2>2. CASE call'.f # "strsplt"
        BY <1>2, <2>2
    <2>3. Split \/ call'.f # "strsplt"
        BY <1>4, CallsAre
    <2> QED
        BY <2>1, <2>2, <2>3
<1> QED
    BY <1>3, <1>4

(* strsplt's words, joined with the separator, are the line, none holds a separator but   *)
(* for one at the end of the line, and nothing else of the memory changes.                *)
THEOREM SplitsTheLine == Spec => []SplitsIntoWords
<1>1. Init => SplitsIntoWords
    <2>1. Init => call.f # "strsplt"
        BY DEF Init
    <2> QED
        BY <2>1, SplitPropertyIs
<1> QED
    BY <1>1, MemoryKept, SplitStep, PTL DEF Spec
=============================================================================
