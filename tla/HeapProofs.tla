----------------------------- MODULE HeapProofs -----------------------------
(***************************************************************************)
(* Theorems about Heap, used within its design.                             *)
(*                                                                          *)
(* IInv says that the heap is Sound, or that a call did not come back and    *)
(* every page but perhaps the last still has its frame (Ended).             *)
(*                                                                          *)
(* Sound has five parts.  Whole: the headers of blocks and holes tile the    *)
(* heap, each header says which of the two it is, and every tile but a hole *)
(* at the end is closed by a footer that leads back to it.  Listed: the     *)
(* index has each hole once.  Backed: there is a frame for each page up to  *)
(* the end, which may lie inside a page.  Answers: a block has the room and *)
(* the place that were asked for.  Serving: a request alloc is busy with is *)
(* within the design.                                                       *)
(*                                                                          *)
(* Whole is about a memory, not a state.  So what alloc and free write is   *)
(* followed tag by tag in constant-level lemmas: a write keeps every tag    *)
(* outside its range (Keeps), hence every tile outside it; a tile is cut or *)
(* two are joined (CutTile, JoinTiles); and each way in which an action can *)
(* go, of three for AllocCarve and four for free, is a lemma of its own.    *)
(* What a case finds is one predicate (Filled, FreedLast, ...), opaque to   *)
(* those who only pass it on.                                               *)
(***************************************************************************)
EXTENDS Heap, NaturalsInduction, WellFoundedInduction, SequenceTheorems, TLAPS

(***************************************************************************)
(* The index: a sequence in which each hole is once.                        *)
(***************************************************************************)
LEMMA LeastOf ==
    ASSUME NEW S, S \subseteq Nat, S # {}
    PROVE  \E e \in S : \A x \in S : e <= x
<1>1. PICK e \in S : \A x \in S : ~(<<x, e>> \in OpToRel(<, Nat))
  BY NatLessThanWellFounded, WFMin
<1>2. \A x \in S : ~(x < e)
  BY <1>1, Zenon DEF OpToRel
<1> QED
  BY <1>2

Once(s) == \A i, j \in DOMAIN s : s[i] = s[j] => i = j

LEMMA InsertAtIs ==
    ASSUME NEW S, NEW s \in Seq(S), NEW n \in 1..(Len(s) + 1), NEW x \in S
    PROVE  /\ InsertAt(s, n, x) \in Seq(S)
           /\ DOMAIN InsertAt(s, n, x) = 1..(Len(s) + 1)
           /\ \A k \in 1..(n - 1) : InsertAt(s, n, x)[k] = s[k]
           /\ InsertAt(s, n, x)[n] = x
           /\ \A k \in n..Len(s) : InsertAt(s, n, x)[k + 1] = s[k]
<1> DEFINE a == SubSeq(s, 1, n - 1)
           b == SubSeq(s, n, Len(s))
           ax == a \o <<x>>
<1>1. Len(s) \in Nat /\ n \in Nat /\ \A k \in 1..Len(s) : s[k] \in S
  BY LenProperties, ElementOfSeq
<1>2. a \in Seq(S) /\ Len(a) = n - 1 /\ \A k \in 1..(n - 1) : a[k] = s[k]
  <2>1. \A k \in 1..(n - 1) : s[k] \in S
    BY <1>1
  <2>2. n - 1 \in Int /\ 1 \in Int
    BY <1>1
  <2>3. a \in Seq(S) /\ Len(a) = (IF 1 <= n - 1 THEN n - 1 - 1 + 1 ELSE 0)
        /\ \A k \in 1..(n - 1 - 1 + 1) : a[k] = s[1 + k - 1]
    BY <2>1, <2>2, SubSeqProperties
  <2> QED
    BY <1>1, <2>3
<1>3. b \in Seq(S) /\ Len(b) = Len(s) + 1 - n /\ \A k \in 1..(Len(s) + 1 - n) : b[k] = s[n + k - 1]
  <2>1. \A k \in n..Len(s) : s[k] \in S
    BY <1>1
  <2>3. b \in Seq(S) /\ Len(b) = (IF n <= Len(s) THEN Len(s) - n + 1 ELSE 0)
        /\ \A k \in 1..(Len(s) - n + 1) : b[k] = s[n + k - 1]
    BY <1>1, <2>1, SubSeqProperties
  <2> QED
    BY <1>1, <2>3
<1>4. <<x>> \in Seq(S) /\ Len(<<x>>) = 1 /\ <<x>>[1] = x
  OBVIOUS
<1> HIDE DEF a, b
<1>5. ax \in Seq(S) /\ Len(ax) = n /\ \A k \in 1..n : ax[k] = IF k <= n - 1 THEN a[k] ELSE <<x>>[k - (n - 1)]
  BY <1>1, <1>2, <1>4, ConcatProperties
<1>6. ax[n] = x /\ \A k \in 1..(n - 1) : ax[k] = s[k]
  <2>1. ax[n] = <<x>>[n - (n - 1)]
    BY <1>1, <1>5
  <2>2. n - (n - 1) = 1
    BY <1>1
  <2> QED
    BY <1>1, <1>2, <1>4, <1>5, <2>1, <2>2
<1> HIDE DEF ax
<1>7. /\ ax \o b \in Seq(S) /\ Len(ax \o b) = Len(s) + 1
      /\ \A k \in 1..(Len(s) + 1) : (ax \o b)[k] = IF k <= n THEN ax[k] ELSE b[k - n]
  BY <1>1, <1>3, <1>5, ConcatProperties
<1>8. InsertAt(s, n, x) = ax \o b
  BY DEF InsertAt, ax, a, b
<1>9. DOMAIN (ax \o b) = 1..(Len(s) + 1)
  BY <1>7, LenProperties
<1>10. \A k \in n..Len(s) : (ax \o b)[k + 1] = s[k]
  <2> TAKE k \in n..Len(s)
  <2>1. k + 1 \in 1..(Len(s) + 1) /\ ~(k + 1 <= n) /\ k + 1 - n \in 1..(Len(s) + 1 - n) /\ n + (k + 1 - n) - 1 = k
    BY <1>1
  <2>2. (ax \o b)[k + 1] = b[k + 1 - n]
    BY <1>7, <2>1
  <2>3. b[k + 1 - n] = s[n + (k + 1 - n) - 1]
    BY <1>3, <2>1
  <2> QED
    BY <2>1, <2>2, <2>3
<1> QED
  BY <1>1, <1>6, <1>7, <1>8, <1>9, <1>10

LEMMA RemoveAtIs ==
    ASSUME NEW S, NEW s \in Seq(S), NEW n \in 1..Len(s)
    PROVE  /\ RemoveAt(s, n) \in Seq(S)
           /\ DOMAIN RemoveAt(s, n) = 1..(Len(s) - 1)
           /\ \A k \in 1..(n - 1) : RemoveAt(s, n)[k] = s[k]
           /\ \A k \in (n + 1)..Len(s) : RemoveAt(s, n)[k - 1] = s[k]
<1> DEFINE a == SubSeq(s, 1, n - 1)
           b == SubSeq(s, n + 1, Len(s))
<1>1. Len(s) \in Nat /\ n \in Nat /\ \A k \in 1..Len(s) : s[k] \in S
  BY LenProperties, ElementOfSeq
<1>2. a \in Seq(S) /\ Len(a) = n - 1 /\ \A k \in 1..(n - 1) : a[k] = s[k]
  <2>1. \A k \in 1..(n - 1) : s[k] \in S
    BY <1>1
  <2>2. n - 1 \in Int /\ 1 \in Int
    BY <1>1
  <2>3. a \in Seq(S) /\ Len(a) = (IF 1 <= n - 1 THEN n - 1 - 1 + 1 ELSE 0)
        /\ \A k \in 1..(n - 1 - 1 + 1) : a[k] = s[1 + k - 1]
    BY <2>1, <2>2, SubSeqProperties
  <2> QED
    BY <1>1, <2>3
<1>3. b \in Seq(S) /\ Len(b) = Len(s) - n /\ \A k \in 1..(Len(s) - n) : b[k] = s[n + k]
  <2>1. \A k \in (n + 1)..Len(s) : s[k] \in S
    BY <1>1
  <2>2. n + 1 \in Int
    BY <1>1
  <2>3. b \in Seq(S) /\ Len(b) = (IF n + 1 <= Len(s) THEN Len(s) - (n + 1) + 1 ELSE 0)
        /\ \A k \in 1..(Len(s) - (n + 1) + 1) : b[k] = s[n + 1 + k - 1]
    BY <1>1, <2>1, <2>2, SubSeqProperties
  <2>4. \A k \in 1..(Len(s) - n) : k \in 1..(Len(s) - (n + 1) + 1) /\ n + 1 + k - 1 = n + k
    BY <1>1
  <2>5. \A k \in 1..(Len(s) - n) : b[k] = s[n + k]
    BY <2>3, <2>4
  <2> QED
    BY <1>1, <2>3, <2>5
<1> HIDE DEF a, b
<1>7. /\ a \o b \in Seq(S) /\ Len(a \o b) = Len(s) - 1
      /\ \A k \in 1..(Len(s) - 1) : (a \o b)[k] = IF k <= n - 1 THEN a[k] ELSE b[k - (n - 1)]
  BY <1>1, <1>2, <1>3, ConcatProperties
<1>8. RemoveAt(s, n) = a \o b
  BY DEF RemoveAt, a, b
<1>9. DOMAIN (a \o b) = 1..(Len(s) - 1)
  BY <1>7, LenProperties
<1>10. \A k \in (n + 1)..Len(s) : (a \o b)[k - 1] = s[k]
  <2> TAKE k \in (n + 1)..Len(s)
  <2>1. k - 1 \in 1..(Len(s) - 1) /\ ~(k - 1 <= n - 1) /\ k - n \in 1..(Len(s) - n)
        /\ n + (k - n) = k /\ (k - 1) - (n - 1) = k - n
    BY <1>1
  <2>2. (a \o b)[k - 1] = b[k - n]
    BY <1>7, <2>1
  <2>3. b[k - n] = s[n + (k - n)]
    BY <1>3, <2>1
  <2> QED
    BY <2>1, <2>2, <2>3
<1>11. \A k \in 1..(n - 1) : (a \o b)[k] = s[k]
  BY <1>1, <1>2, <1>7
<1> QED
  BY <1>1, <1>7, <1>8, <1>9, <1>10, <1>11

\* Wherever it goes, an item not yet listed is then listed once.
LEMMA InsertedOnce ==
    ASSUME NEW S, NEW s \in Seq(S), NEW x \in S, x \notin Range(s), Once(s), NEW less_than
    PROVE  /\ insert_ordered_array(x, s, less_than) \in Seq(S)
           /\ Once(insert_ordered_array(x, s, less_than))
           /\ \A y : y \in Range(insert_ordered_array(x, s, less_than)) <=> y \in Range(s) \/ y = x
<1> DEFINE Q == {i \in DOMAIN s : ~less_than[s[i], x]}
           P == Q \cup {Len(s) + 1}
           n == InsertPosition(x, s, less_than)
           t == InsertAt(s, n, x)
<1>1. Len(s) \in Nat /\ DOMAIN s = 1..Len(s)
  BY LenProperties
<1>2. n \in 1..(Len(s) + 1)
  <2>0. Q \subseteq DOMAIN s
    BY Zenon
  <2> HIDE DEF Q
  <2>1. P \subseteq Nat /\ P # {} /\ P \subseteq 1..(Len(s) + 1)
    BY <1>1, <2>0
  <2>2. \E e \in P : \A z \in P : e <= z
    BY <2>1, LeastOf
  <2>3. n = CHOOSE e \in P : \A z \in P : e <= z
    BY Zenon DEF InsertPosition, Min, P, Q
  <2> HIDE DEF P
  <2> QED
    BY <2>1, <2>2, <2>3
<1>3. insert_ordered_array(x, s, less_than) = t
  BY DEF insert_ordered_array
<1> HIDE DEF n, P, Q
<1>4. /\ t \in Seq(S) /\ DOMAIN t = 1..(Len(s) + 1)
      /\ \A k \in 1..(n - 1) : t[k] = s[k]
      /\ t[n] = x
      /\ \A k \in n..Len(s) : t[k + 1] = s[k]
  BY <1>2, InsertAtIs
<1> HIDE DEF t
<1> DEFINE old(k) == IF k < n THEN k ELSE k - 1
<1>5. \A k \in DOMAIN t : k # n => old(k) \in DOMAIN s /\ t[k] = s[old(k)]
  <2> SUFFICES ASSUME NEW k \in DOMAIN t, k # n PROVE old(k) \in DOMAIN s /\ t[k] = s[old(k)]
    OBVIOUS
  <2>1. CASE k < n
    BY <1>1, <1>2, <1>4, <2>1
  <2>2. CASE k > n
    <3>1. k - 1 \in n..Len(s) /\ (k - 1) + 1 = k /\ ~(k < n)
      BY <1>1, <1>2, <1>4, <2>2
    <3> QED
      BY <1>1, <1>2, <1>4, <3>1
  <2> QED
    BY <1>1, <1>2, <1>4, <2>1, <2>2
<1>6. \A i, j \in DOMAIN t : i # n /\ j # n /\ old(i) = old(j) => i = j
  BY <1>1, <1>2, <1>4
<1>7. \A k \in DOMAIN s : s[k] # x
  BY DEF Range
<1>8. Once(t)
  BY <1>4, <1>5, <1>6, <1>7 DEF Once
<1>9. ASSUME NEW y PROVE y \in Range(t) <=> y \in Range(s) \/ y = x
  <2>1. ASSUME NEW k \in DOMAIN s PROVE \E m \in DOMAIN t : t[m] = s[k]
    <3>1. CASE k < n
      BY <1>1, <1>2, <1>4, <3>1
    <3>2. CASE k >= n
      <4>1. k \in n..Len(s) /\ k + 1 \in DOMAIN t
        BY <1>1, <1>2, <1>4, <3>2
      <4> QED
        BY <1>4, <4>1
    <3> QED
      BY <1>1, <1>2, <3>1, <3>2
  <2>2. n \in DOMAIN t
    BY <1>2, <1>4
  <2>3. y \in Range(t) <=> \E m \in DOMAIN t : t[m] = y
    BY DEF Range
  <2>4. y \in Range(s) <=> \E m \in DOMAIN s : s[m] = y
    BY DEF Range
  <2> QED
    BY <1>4, <1>5, <2>1, <2>2, <2>3, <2>4
<1> QED
  BY <1>3, <1>4, <1>8, <1>9

LEMMA RemovedOnce ==
    ASSUME NEW S, NEW s \in Seq(S), NEW n \in DOMAIN s, Once(s)
    PROVE  /\ remove_ordered_array(n, s) \in Seq(S)
           /\ Once(remove_ordered_array(n, s))
           /\ \A y : y \in Range(remove_ordered_array(n, s)) <=> y \in Range(s) /\ y # s[n]
<1> DEFINE t == RemoveAt(s, n)
<1>1. Len(s) \in Nat /\ DOMAIN s = 1..Len(s)
  BY LenProperties
<1>3. remove_ordered_array(n, s) = t
  BY DEF remove_ordered_array
<1>4. /\ t \in Seq(S) /\ DOMAIN t = 1..(Len(s) - 1)
      /\ \A k \in 1..(n - 1) : t[k] = s[k]
      /\ \A k \in (n + 1)..Len(s) : t[k - 1] = s[k]
  BY <1>1, RemoveAtIs
<1> HIDE DEF t
<1> DEFINE old(k) == IF k < n THEN k ELSE k + 1
<1>5. \A k \in DOMAIN t : old(k) \in DOMAIN s /\ old(k) # n /\ t[k] = s[old(k)]
  <2> TAKE k \in DOMAIN t
  <2>1. CASE k < n
    BY <1>1, <1>4, <2>1
  <2>2. CASE k >= n
    <3>1. k + 1 \in (n + 1)..Len(s) /\ (k + 1) - 1 = k /\ ~(k < n)
      BY <1>1, <1>4, <2>2
    <3> QED
      BY <1>1, <1>4, <3>1
  <2> QED
    BY <1>1, <1>4, <2>1, <2>2
<1>6. \A i, j \in DOMAIN t : old(i) = old(j) => i = j
  BY <1>1, <1>4
<1>8. Once(t)
  BY <1>5, <1>6 DEF Once
<1>9. ASSUME NEW y PROVE y \in Range(t) <=> y \in Range(s) /\ y # s[n]
  <2>1. ASSUME NEW k \in DOMAIN s, k # n PROVE \E m \in DOMAIN t : t[m] = s[k]
    <3>1. CASE k < n
      BY <1>1, <1>4, <3>1
    <3>2. CASE k > n
      <4>1. k \in (n + 1)..Len(s) /\ k - 1 \in DOMAIN t
        BY <1>1, <1>4, <3>2
      <4> QED
        BY <1>4, <4>1
    <3> QED
      BY <1>1, <2>1, <3>1, <3>2
  <2>3. y \in Range(t) <=> \E m \in DOMAIN t : t[m] = y
    BY DEF Range
  <2>4. y \in Range(s) <=> \E m \in DOMAIN s : s[m] = y
    BY DEF Range
  <2>5. \A k \in DOMAIN s : s[k] = s[n] => k = n
    BY DEF Once
  <2> QED
    BY <1>5, <2>1, <2>3, <2>4, <2>5
<1> QED
  BY <1>3, <1>4, <1>8, <1>9

\* The predicate, asked of two items.
Less(less_than, a, b) == less_than[a, b]

\* A table in order: nothing is less than what is in front of it.
InOrder(s, less_than) == \A k \in 1..(Len(s) - 1) : ~Less(less_than, s[k + 1], s[k])

\* insert_ordered_array, on a table in order, leaves a table in order, for any items
\* and any predicate that holds one way only between two items.
THEOREM InsertionKeepsOrder ==
    ASSUME NEW S, NEW s \in Seq(S), NEW x \in S, NEW less_than,
           \A a, b \in S : Less(less_than, a, b) => ~Less(less_than, b, a),
           InOrder(s, less_than)
    PROVE  InOrder(insert_ordered_array(x, s, less_than), less_than)
<1> DEFINE Q == {i \in DOMAIN s : ~Less(less_than, s[i], x)}
           P == Q \cup {Len(s) + 1}
           n == InsertPosition(x, s, less_than)
           t == InsertAt(s, n, x)
<1>1. Len(s) \in Nat /\ DOMAIN s = 1..Len(s)
  BY LenProperties
<1>2. n \in P /\ (\A z \in P : n <= z) /\ n \in 1..(Len(s) + 1)
  <2>0. Q \subseteq DOMAIN s
    BY Zenon
  <2> HIDE DEF Q
  <2>1. P \subseteq Nat /\ P # {} /\ P \subseteq 1..(Len(s) + 1)
    BY <1>1, <2>0
  <2>2. \E e \in P : \A z \in P : e <= z
    BY <2>1, LeastOf
  <2>3. n = CHOOSE e \in P : \A z \in P : e <= z
    BY Zenon DEF InsertPosition, Min, P, Q, Less
  <2> HIDE DEF P, n
  <2> QED
    BY <2>1, <2>2, <2>3
<1>3. insert_ordered_array(x, s, less_than) = t
  BY DEF insert_ordered_array
<1> HIDE DEF n, P
<1>4. /\ t \in Seq(S) /\ DOMAIN t = 1..(Len(s) + 1)
      /\ \A k \in 1..(n - 1) : t[k] = s[k]
      /\ t[n] = x
      /\ \A k \in n..Len(s) : t[k + 1] = s[k]
  BY <1>2, InsertAtIs
<1> HIDE DEF t
<1>5. Len(t) = Len(s) + 1
  BY <1>1, <1>4, LenProperties
<1>6. \A k \in DOMAIN s : k < n => Less(less_than, s[k], x)
  <2>1. ASSUME NEW k \in DOMAIN s, k < n, ~Less(less_than, s[k], x) PROVE FALSE
    <3>1. k \in P
      BY <2>1 DEF P
    <3>2. n <= k
      BY <1>2, <3>1
    <3> QED
      BY <1>1, <1>2, <2>1, <3>2
  <2> QED
    BY <2>1
<1>7. n \in DOMAIN s => ~Less(less_than, s[n], x)
  BY <1>1, <1>2 DEF P
<1>8. ASSUME NEW k \in 1..(Len(t) - 1) PROVE ~Less(less_than, t[k + 1], t[k])
  <2>0. k \in 1..Len(s)
    BY <1>1, <1>5
  <2>1. CASE k + 1 < n
    <3>1. k \in 1..(n - 1) /\ k + 1 \in 1..(n - 1) /\ k \in 1..(Len(s) - 1)
      BY <1>1, <1>2, <2>0, <2>1
    <3>2. t[k] = s[k] /\ t[k + 1] = s[k + 1]
      BY <1>4, <3>1
    <3> QED
      BY <3>1, <3>2 DEF InOrder
  <2>2. CASE k + 1 = n
    <3>1. k \in 1..(n - 1) /\ k < n /\ k \in DOMAIN s
      BY <1>1, <2>0, <2>2
    <3>2. t[k] = s[k] /\ t[k + 1] = x /\ Less(less_than, s[k], x)
      BY <1>4, <1>6, <2>2, <3>1
    <3>3. s[k] \in S
      BY <1>1, <3>1, ElementOfSeq
    <3> QED
      BY <3>2, <3>3
  <2>3. CASE k = n
    <3>1. n \in n..Len(s) /\ n \in DOMAIN s
      BY <1>1, <2>0, <2>3
    <3>2. t[k] = x /\ t[k + 1] = s[n]
      BY <1>4, <2>3, <3>1
    <3> QED
      BY <1>7, <3>1, <3>2
  <2>4. CASE n < k
    <3>1. PICK j : j = k - 1 /\ j \in n..Len(s) /\ j + 1 = k /\ k \in n..Len(s) /\ j \in 1..(Len(s) - 1)
      <4>1. /\ k - 1 \in n..Len(s) /\ (k - 1) + 1 = k /\ k \in n..Len(s)
            /\ k - 1 \in 1..(Len(s) - 1)
        BY <1>1, <1>2, <2>0, <2>4
      <4> QED
        BY <4>1
    <3>2. t[j + 1] = s[j] /\ t[k + 1] = s[k]
      BY <1>4, <3>1
    <3> QED
      BY <3>1, <3>2 DEF InOrder
  <2> QED
    BY <1>1, <1>2, <2>0, <2>1, <2>2, <2>3, <2>4
<1> QED
  BY <1>3, <1>8 DEF InOrder

\* remove_ordered_array, of an item of the table, leaves a table in order, if what is not
\* less than another is not less than what that one is not less than.
THEOREM RemovalKeepsOrder ==
    ASSUME NEW S, NEW s \in Seq(S), NEW n \in DOMAIN s, NEW less_than,
           \A a, b, c \in S : ~Less(less_than, a, b) /\ ~Less(less_than, b, c) => ~Less(less_than, a, c),
           InOrder(s, less_than)
    PROVE  InOrder(remove_ordered_array(n, s), less_than)
<1> DEFINE t == RemoveAt(s, n)
<1>1. Len(s) \in Nat /\ DOMAIN s = 1..Len(s)
  BY LenProperties
<1>2. remove_ordered_array(n, s) = t
  BY DEF remove_ordered_array
<1>3. /\ t \in Seq(S) /\ DOMAIN t = 1..(Len(s) - 1)
      /\ \A k \in 1..(n - 1) : t[k] = s[k]
      /\ \A k \in (n + 1)..Len(s) : t[k - 1] = s[k]
  BY <1>1, RemoveAtIs
<1> HIDE DEF t
<1>4. Len(t) = Len(s) - 1
  <2>1. DOMAIN t = 1..Len(t) /\ Len(t) \in Nat
    BY <1>3, LenProperties
  <2>2. Len(s) - 1 \in Nat
    BY <1>1
  <2> QED
    BY <1>3, <2>1, <2>2
<1>5. ASSUME NEW k \in 1..(Len(t) - 1) PROVE ~Less(less_than, t[k + 1], t[k])
  <2>0. k \in 1..(Len(s) - 1) /\ k + 1 \in 1..(Len(s) - 1) /\ k + 2 \in 1..Len(s) /\ (k + 1) + 1 = k + 2
    BY <1>1, <1>4
  <2>1. CASE k + 1 < n
    <3>1. k \in 1..(n - 1) /\ k + 1 \in 1..(n - 1)
      BY <1>1, <2>0, <2>1
    <3>2. t[k] = s[k] /\ t[k + 1] = s[k + 1]
      BY <1>3, <3>1
    <3> QED
      BY <2>0, <3>2 DEF InOrder
  <2>2. CASE k + 1 = n
    <3>1. k \in 1..(n - 1) /\ k + 2 \in (n + 1)..Len(s) /\ (k + 2) - 1 = k + 1
      BY <1>1, <2>0, <2>2
    <3>2. t[k] = s[k] /\ t[k + 1] = s[k + 2]
      BY <1>3, <3>1
    <3>3. ~Less(less_than, s[k + 1], s[k]) /\ ~Less(less_than, s[k + 2], s[k + 1])
      BY <2>0 DEF InOrder
    <3>4. s[k] \in S /\ s[k + 1] \in S /\ s[k + 2] \in S
      BY <1>1, <2>0, ElementOfSeq
    <3> QED
      BY <3>2, <3>3, <3>4
  <2>3. CASE k + 1 > n
    <3>1. /\ k + 1 \in (n + 1)..Len(s) /\ k + 2 \in (n + 1)..Len(s)
          /\ (k + 1) - 1 = k /\ (k + 2) - 1 = k + 1
      BY <1>1, <2>0, <2>3
    <3>2. t[k] = s[k + 1] /\ t[k + 1] = s[k + 2]
      BY <1>3, <3>1
    <3>3. ~Less(less_than, s[(k + 1) + 1], s[k + 1])
      BY <2>0 DEF InOrder
    <3> QED
      BY <2>0, <3>2, <3>3
  <2> QED
    BY <1>1, <2>0, <2>1, <2>2, <2>3
<1> QED
  BY <1>2, <1>5 DEF InOrder

(***************************************************************************)
(* The inductive invariant.  s gives the size of the tile that starts at    *)
(* each address, e is where the last one ends.                               *)
(***************************************************************************)
Tiling(s, e) ==
    /\ e \in Nat /\ DOMAIN s \subseteq Nat /\ 0 \in DOMAIN s
    /\ \A h \in DOMAIN s :
          /\ s[h] \in Nat /\ s[h] >= OVERHEAD
          /\ h + s[h] <= e
          /\ h + s[h] = e \/ h + s[h] \in DOMAIN s
    /\ \A g, h \in DOMAIN s : g < h => g + s[g] <= h

\* A memory of tags.
Memory(m) ==
    /\ m = [header |-> m.header, footer |-> m.footer]
    /\ \A a \in DOMAIN m.header : a \in Nat /\ m.header[a] \in [is_hole : BOOLEAN, size : Nat]
    /\ \A a \in DOMAIN m.footer : a \in Nat /\ m.footer[a] \in Nat

Length(m, h) == m.header[h].size

HoleAt(m, h, len) == h \in DOMAIN m.header /\ m.header[h].is_hole /\ Length(m, h) = len
BlockAt(m, h, len) == h \in DOMAIN m.header /\ ~m.header[h].is_hole /\ Length(m, h) = len

\* The tile at h ends in a footer that leads to it.
Closed(m, h) ==
    /\ h + Length(m, h) - FTR \in DOMAIN m.footer
    /\ m.footer[h + Length(m, h) - FTR] = h

Marked(m, B, H) ==
    \A h \in B \cup H : h \in DOMAIN m.header /\ (m.header[h].is_hole <=> h \in H)

\* Only a hole at the heap's end may be without its footer.
Footed(m, B, H, e) == \A h \in B \cup H : h \in B \/ h + Length(m, h) < e => Closed(m, h)

\* The blocks B and the holes H of m are all there is up to e.
Whole(m, B, H, e) ==
    /\ Memory(m)
    /\ B \cap H = {}
    /\ Marked(m, B, H)
    /\ Tiling([h \in B \cup H |-> Length(m, h)], e)
    /\ Footed(m, B, H, e)

\* The index is a list of holes, each once.
Listed == index \in Seq(Nat) /\ Once(index)

\* The heap ends in the address space, with frames for all its pages.
Backed ==
    /\ HEAP_MIN_SIZE <= end /\ START + end <= WORD
    /\ PagesOf(0, end) \subseteq framed /\ framed \subseteq present /\ present \subseteq Nat

\* The headers of the blocks handed out, l, are where the pointers say; each
\* block of m has room for what was asked.
Headers(l) == {p - HDR : p \in DOMAIN l}

Answers(l, m) ==
    \A p \in DOMAIN l :
        /\ p \in Nat
        /\ l[p] \in Request
        /\ l[p].size + OVERHEAD <= Length(m, p - HDR)
        /\ l[p].page_align => p % PAGE = 0

\* No call has stopped, and alloc serves what the design allows.
Serving ==
    /\ pc \in {"idle", "alloc"} /\ req \in Request /\ allocs \in 0..MaxAllocs
    /\ pc = "alloc" => Serviceable(req)

Sound == Whole(mem, Blocks, Holes, end) /\ Listed /\ Backed /\ Answers(live, mem) /\ Serving

\* A call has stopped within expand, or right after it.
Ended == pc \in Stop /\ TypeOK /\ HeapIsBacked

IInv == Sound \/ Ended

(***************************************************************************)
(* Constants.                                                               *)
(***************************************************************************)
LEMMA Constants ==
    /\ PAGE \in Nat \ {0} /\ HDR \in Nat \ {0} /\ FTR \in Nat \ {0}
    /\ HEAP_MIN_SIZE \in Nat \ {0} /\ START \in Nat \ {0}
    /\ InitialSize \in Nat \ {0} /\ WORD \in Nat \ {0}
    /\ OVERHEAD \in Nat \ {0} /\ OVERHEAD = HDR + FTR
<1>1. /\ PAGE \in Nat \ {0} /\ HDR \in Nat \ {0} /\ FTR \in Nat \ {0}
      /\ HEAP_MIN_SIZE \in Nat \ {0} /\ START \in Nat \ {0}
      /\ InitialSize \in Nat \ {0} /\ WORD \in Nat \ {0}
  BY SizeAssumption
<1> QED
  BY <1>1 DEF OVERHEAD

LEMMA UnwrappedIs ==
    ASSUME NEW n \in Nat, n < WORD
    PROVE  U(n) = n
  BY Constants DEF U

\* Addresses in the address space do not wrap.
LEMMA FooterOfIs ==
    ASSUME NEW a \in Nat, NEW size \in Nat, size >= FTR, START + a + size <= WORD
    PROVE  FooterOf(a, size) = a + size - FTR
<1>1. START + (a + size - FTR) \in Nat /\ START + (a + size - FTR) < WORD
  BY Constants
<1>2. U(START + (a + size - FTR)) = START + (a + size - FTR)
  BY <1>1, UnwrappedIs
<1> QED
  BY <1>2, Constants DEF FooterOf, Address

(***************************************************************************)
(* What writing to memory keeps.                                            *)
(***************************************************************************)

\* n has the tags of m outside lo..hi-1.
Keeps(m, n, lo, hi) ==
    /\ \A a \in DOMAIN m.header :
          a + HDR <= lo \/ hi <= a => a \in DOMAIN n.header /\ n.header[a] = m.header[a]
    /\ \A a \in DOMAIN m.footer :
          a + FTR <= lo \/ hi <= a => a \in DOMAIN n.footer /\ n.footer[a] = m.footer[a]

LEMMA KeepsMore ==
    ASSUME NEW m, NEW n, NEW lo \in Nat, NEW hi \in Nat, NEW lo2 \in Nat, NEW hi2 \in Nat,
           Memory(m), Keeps(m, n, lo, hi), lo2 <= lo, hi <= hi2
    PROVE  Keeps(m, n, lo2, hi2)
<1>1. \A a \in DOMAIN m.header : a \in Nat
  BY DEF Memory
<1>2. \A a \in DOMAIN m.footer : a \in Nat
  BY DEF Memory
<1>3. \A a \in Nat : a + HDR <= lo2 \/ hi2 <= a => a + HDR <= lo \/ hi <= a
  BY Constants
<1>4. \A a \in Nat : a + FTR <= lo2 \/ hi2 <= a => a + FTR <= lo \/ hi <= a
  BY Constants
<1> QED
  BY <1>1, <1>2, <1>3, <1>4 DEF Keeps

LEMMA KeepsBoth ==
    ASSUME NEW m, NEW n, NEW o, NEW lo, NEW hi, Keeps(m, n, lo, hi), Keeps(n, o, lo, hi)
    PROVE  Keeps(m, o, lo, hi)
  BY DEF Keeps

LEMMA OutsideIs ==
    ASSUME NEW tags, NEW len, NEW lo, NEW hi
    PROVE  /\ \A a : a \in DOMAIN Outside(tags, len, lo, hi) <=>
                        a \in DOMAIN tags /\ (a + len <= lo \/ hi <= a)
           /\ \A a \in DOMAIN Outside(tags, len, lo, hi) : Outside(tags, len, lo, hi)[a] = tags[a]
  BY DEF Outside

LEMMA OverwrittenIs ==
    ASSUME NEW m, Memory(m), NEW lo, NEW hi
    PROVE  Memory(Overwritten(m, lo, hi)) /\ Keeps(m, Overwritten(m, lo, hi), lo, hi)
<1> DEFINE hs == Outside(m.header, HDR, lo, hi)
           fs == Outside(m.footer, FTR, lo, hi)
           n == [header |-> hs, footer |-> fs]
<1>1. Overwritten(m, lo, hi) = n
  BY DEF Overwritten
<1>2. /\ \A a : a \in DOMAIN hs <=> a \in DOMAIN m.header /\ (a + HDR <= lo \/ hi <= a)
      /\ \A a \in DOMAIN hs : hs[a] = m.header[a]
  BY OutsideIs
<1>3. /\ \A a : a \in DOMAIN fs <=> a \in DOMAIN m.footer /\ (a + FTR <= lo \/ hi <= a)
      /\ \A a \in DOMAIN fs : fs[a] = m.footer[a]
  BY OutsideIs
<1> HIDE DEF hs, fs
<1>4. n.header = hs /\ n.footer = fs /\ n = [header |-> n.header, footer |-> n.footer]
  OBVIOUS
<1> HIDE DEF n
<1>5. Memory(n)
  BY <1>2, <1>3, <1>4 DEF Memory
<1>6. Keeps(m, n, lo, hi)
  BY <1>2, <1>3, <1>4 DEF Keeps
<1> QED
  BY <1>1, <1>5, <1>6

LEMMA AddHeaderIs ==
    ASSUME NEW m, Memory(m), NEW a \in Nat, NEW is_hole \in BOOLEAN, NEW size \in Nat
    PROVE  /\ Memory(AddHeader(m, a, is_hole, size))
           /\ Keeps(m, AddHeader(m, a, is_hole, size), a, a + HDR)
           /\ a \in DOMAIN AddHeader(m, a, is_hole, size).header
           /\ (AddHeader(m, a, is_hole, size).header[a].is_hole <=> is_hole) /\ AddHeader(m, a, is_hole, size).header[a].size = size
           /\ AddHeader(m, a, is_hole, size).footer = m.footer
<1> DEFINE tag == [is_hole |-> is_hole, size |-> size]
           hs == With(m.header, a, tag)
           n == AddHeader(m, a, is_hole, size)
<1>1. m = [header |-> m.header, footer |-> m.footer]
  BY DEF Memory
<1>2. n = [header |-> hs, footer |-> m.footer]
  BY <1>1 DEF AddHeader
<1>3. /\ DOMAIN hs = DOMAIN m.header \cup {a}
      /\ hs[a] = tag
      /\ \A b \in DOMAIN m.header : b # a => hs[b] = m.header[b]
  BY DEF With
<1>4. tag \in [is_hole : BOOLEAN, size : Nat]
  OBVIOUS
<1> HIDE DEF hs, n, tag
<1>5. n.header = hs /\ n.footer = m.footer /\ n = [header |-> n.header, footer |-> n.footer]
  BY <1>2
<1>6. Memory(n)
  BY <1>3, <1>4, <1>5 DEF Memory
<1>7. \A b \in DOMAIN m.header : b + HDR <= a \/ a + HDR <= b => b # a
  BY Constants DEF Memory
<1>8. Keeps(m, n, a, a + HDR)
  BY <1>3, <1>5, <1>7 DEF Keeps
<1> QED
  BY <1>3, <1>5, <1>6, <1>8 DEF n, tag

LEMMA AddFooterIs ==
    ASSUME NEW m, Memory(m), NEW a \in Nat, NEW h \in Nat
    PROVE  /\ Memory(AddFooter(m, a, h))
           /\ Keeps(m, AddFooter(m, a, h), a, a + FTR)
           /\ a \in DOMAIN AddFooter(m, a, h).footer
           /\ AddFooter(m, a, h).footer[a] = h
           /\ AddFooter(m, a, h).header = m.header
<1> DEFINE fs == With(m.footer, a, h)
           n == AddFooter(m, a, h)
<1>1. m = [header |-> m.header, footer |-> m.footer]
  BY DEF Memory
<1>2. n = [header |-> m.header, footer |-> fs]
  BY <1>1 DEF AddFooter
<1>3. /\ DOMAIN fs = DOMAIN m.footer \cup {a}
      /\ fs[a] = h
      /\ \A b \in DOMAIN m.footer : b # a => fs[b] = m.footer[b]
  BY DEF With
<1> HIDE DEF fs, n
<1>5. n.header = m.header /\ n.footer = fs /\ n = [header |-> n.header, footer |-> n.footer]
  BY <1>2
<1>6. Memory(n)
  BY <1>3, <1>5 DEF Memory
<1>7. \A b \in DOMAIN m.footer : b + FTR <= a \/ a + FTR <= b => b # a
  BY Constants DEF Memory
<1>8. Keeps(m, n, a, a + FTR)
  BY <1>3, <1>5, <1>7 DEF Keeps
<1> QED
  BY <1>3, <1>5, <1>6, <1>8 DEF n

LEMMA PutHeaderIs ==
    ASSUME NEW m, Memory(m), NEW a \in Nat, NEW is_hole \in BOOLEAN, NEW size \in Nat
    PROVE  /\ Memory(PutHeader(m, a, is_hole, size))
           /\ Keeps(m, PutHeader(m, a, is_hole, size), a, a + HDR)
           /\ a \in DOMAIN PutHeader(m, a, is_hole, size).header
           /\ (PutHeader(m, a, is_hole, size).header[a].is_hole <=> is_hole) /\ PutHeader(m, a, is_hole, size).header[a].size = size
<1> DEFINE w == Overwritten(m, a, a + HDR)
<1>1. Memory(w) /\ Keeps(m, w, a, a + HDR)
  BY OverwrittenIs
<1>2. PutHeader(m, a, is_hole, size) = AddHeader(w, a, is_hole, size)
  BY DEF PutHeader
<1> HIDE DEF w
<1>3. /\ Memory(AddHeader(w, a, is_hole, size)) /\ Keeps(w, AddHeader(w, a, is_hole, size), a, a + HDR)
      /\ a \in DOMAIN AddHeader(w, a, is_hole, size).header
      /\ (AddHeader(w, a, is_hole, size).header[a].is_hole <=> is_hole) /\ AddHeader(w, a, is_hole, size).header[a].size = size
  BY <1>1, AddHeaderIs
<1>4. Keeps(m, AddHeader(w, a, is_hole, size), a, a + HDR)
  BY <1>1, <1>3, KeepsBoth
<1> QED
  BY <1>2, <1>3, <1>4

LEMMA PutFooterIs ==
    ASSUME NEW m, Memory(m), NEW a \in Nat, NEW h \in Nat
    PROVE  /\ Memory(PutFooter(m, a, h))
           /\ Keeps(m, PutFooter(m, a, h), a, a + FTR)
           /\ a \in DOMAIN PutFooter(m, a, h).footer
           /\ PutFooter(m, a, h).footer[a] = h
<1> DEFINE w == Overwritten(m, a, a + FTR)
<1>1. Memory(w) /\ Keeps(m, w, a, a + FTR)
  BY OverwrittenIs
<1>2. PutFooter(m, a, h) = AddFooter(w, a, h)
  BY DEF PutFooter
<1> HIDE DEF w
<1>3. /\ Memory(AddFooter(w, a, h)) /\ Keeps(w, AddFooter(w, a, h), a, a + FTR)
      /\ a \in DOMAIN AddFooter(w, a, h).footer
      /\ AddFooter(w, a, h).footer[a] = h
  BY <1>1, AddFooterIs
<1>4. Keeps(m, AddFooter(w, a, h), a, a + FTR)
  BY <1>1, <1>3, KeepsBoth
<1> QED
  BY <1>2, <1>3, <1>4

LEMMA PutBlockIs ==
    ASSUME NEW m, Memory(m), NEW a \in Nat, NEW size \in Nat, size >= OVERHEAD
    PROVE  /\ Memory(PutBlock(m, a, size))
           /\ Keeps(m, PutBlock(m, a, size), a, a + size)
           /\ a \in DOMAIN PutBlock(m, a, size).header
           /\ ~PutBlock(m, a, size).header[a].is_hole /\ PutBlock(m, a, size).header[a].size = size
           /\ Closed(PutBlock(m, a, size), a)
<1>0. PICK b \in BOOLEAN : b = FALSE
  OBVIOUS
<1> DEFINE w == Overwritten(m, a, a + size)
           x == AddHeader(w, a, b, size)
           f == a + size - FTR
           y == AddFooter(x, f, a)
<1>1. Memory(w) /\ Keeps(m, w, a, a + size)
  BY OverwrittenIs
<1>2. PutBlock(m, a, size) = y
  BY <1>0 DEF PutBlock
<1>3. f \in Nat /\ a + size \in Nat /\ a <= f /\ f + FTR <= a + size /\ a + HDR <= a + size /\ a + HDR \in Nat
      /\ f + FTR \in Nat
  BY Constants
<1> HIDE DEF w, f
<1>4. /\ Memory(x) /\ Keeps(w, x, a, a + HDR) /\ a \in DOMAIN x.header
      /\ ~x.header[a].is_hole /\ x.header[a].size = size
  BY <1>0, <1>1, AddHeaderIs
<1> HIDE DEF x
<1>5. /\ Memory(y) /\ Keeps(x, y, f, f + FTR) /\ f \in DOMAIN y.footer
      /\ y.footer[f] = a /\ y.header = x.header
  <2>1. Memory(x)
    BY <1>4
  <2> QED
    BY <1>3, <2>1, AddFooterIs
<1> HIDE DEF y
<1>6. Keeps(w, x, a, a + size)
  BY <1>1, <1>3, <1>4, KeepsMore
<1>7. Keeps(x, y, a, a + size)
  BY <1>3, <1>4, <1>5, KeepsMore
<1>8. Keeps(m, y, a, a + size)
  BY <1>1, <1>6, <1>7, KeepsBoth
<1>9. Closed(y, a)
  BY <1>4, <1>5 DEF Closed, Length, f
<1> QED
  BY <1>2, <1>4, <1>5, <1>8, <1>9

LEMMA PutHoleIs ==
    ASSUME NEW m, Memory(m), NEW a \in Nat, NEW size \in Nat, size >= OVERHEAD,
           START + a + size <= WORD
    PROVE  /\ Memory(PutHole(m, a, size))
           /\ Keeps(m, PutHole(m, a, size), a, a + size)
           /\ a \in DOMAIN PutHole(m, a, size).header
           /\ PutHole(m, a, size).header[a].is_hole /\ PutHole(m, a, size).header[a].size = size
           /\ Closed(PutHole(m, a, size), a)
<1>0. PICK b \in BOOLEAN : b = TRUE
  OBVIOUS
<1> DEFINE x == PutHeader(m, a, b, size)
           f == a + size - FTR
           y == PutFooter(x, f, a)
<1>1. FooterOf(a, size) = f
  BY FooterOfIs, Constants
<1>2. PutHole(m, a, size) = y
  BY <1>0, <1>1 DEF PutHole
<1>3. f \in Nat /\ a + size \in Nat /\ a <= f /\ f + FTR <= a + size /\ a + HDR <= a + size /\ a + HDR \in Nat
      /\ f + FTR \in Nat /\ a + HDR <= f
  BY Constants
<1> HIDE DEF f
<1>a. /\ Memory(x) /\ Keeps(m, x, a, a + HDR) /\ a \in DOMAIN x.header
      /\ (x.header[a].is_hole <=> b) /\ x.header[a].size = size
  BY PutHeaderIs
<1>4. /\ Memory(x) /\ Keeps(m, x, a, a + HDR) /\ a \in DOMAIN x.header
      /\ x.header[a].is_hole /\ x.header[a].size = size
  BY <1>0, <1>a, Zenon
<1> HIDE DEF x
<1>5. /\ Memory(y) /\ Keeps(x, y, f, f + FTR) /\ f \in DOMAIN y.footer /\ y.footer[f] = a
  <2>1. Memory(x)
    BY <1>4
  <2> QED
    BY <1>3, <2>1, PutFooterIs
<1> HIDE DEF y
<1>6. Keeps(m, x, a, a + size)
  BY <1>3, <1>4, KeepsMore
<1>7. Keeps(x, y, a, a + size)
  BY <1>3, <1>4, <1>5, KeepsMore
<1>8. Keeps(m, y, a, a + size)
  BY <1>6, <1>7, KeepsBoth
<1>9. a \in DOMAIN y.header /\ y.header[a] = x.header[a]
  BY <1>3, <1>4, <1>5 DEF Keeps
<1>10. Closed(y, a)
  BY <1>4, <1>5, <1>9 DEF Closed, Length, f
<1> QED
  BY <1>2, <1>4, <1>5, <1>8, <1>9, <1>10

LEMMA SetSizeIs ==
    ASSUME NEW m, Memory(m), NEW a \in DOMAIN m.header, NEW size \in Nat
    PROVE  /\ Memory(SetSize(m, a, size))
           /\ Keeps(m, SetSize(m, a, size), a, a + HDR)
           /\ DOMAIN SetSize(m, a, size).header = DOMAIN m.header
           /\ SetSize(m, a, size).header[a].is_hole /\ SetSize(m, a, size).header[a].size = size
           /\ \A b \in DOMAIN m.header : b # a => SetSize(m, a, size).header[b] = m.header[b]
           /\ SetSize(m, a, size).footer = m.footer
<1> DEFINE tag == [is_hole |-> TRUE, size |-> size]
           hs == [m.header EXCEPT ![a] = tag]
           n == SetSize(m, a, size)
<1>1. m = [header |-> m.header, footer |-> m.footer]
  BY DEF Memory
<1>2. n = [header |-> hs, footer |-> m.footer]
  <2>1. n = [m EXCEPT !.header[a] = tag]
    BY Zenon DEF SetSize
  <2> HIDE DEF n, tag
  <2> QED
    BY <1>1, <2>1
<1>3. /\ DOMAIN hs = DOMAIN m.header
      /\ hs[a] = tag
      /\ \A b \in DOMAIN m.header : b # a => hs[b] = m.header[b]
  OBVIOUS
<1>4. tag \in [is_hole : BOOLEAN, size : Nat]
  OBVIOUS
<1> HIDE DEF hs, n, tag
<1>5. n.header = hs /\ n.footer = m.footer /\ n = [header |-> n.header, footer |-> n.footer]
  BY <1>2
<1>6. Memory(n)
  BY <1>3, <1>4, <1>5 DEF Memory
<1>7. \A b \in DOMAIN m.header : b + HDR <= a \/ a + HDR <= b => b # a
  BY Constants DEF Memory
<1>8. Keeps(m, n, a, a + HDR)
  BY <1>3, <1>5, <1>7 DEF Keeps
<1> QED
  BY <1>3, <1>5, <1>6, <1>8 DEF n, tag

(***************************************************************************)
(* Tilings.                                                                 *)
(***************************************************************************)

\* The tile at h is cut at h + n.
LEMMA CutTile ==
    ASSUME NEW s, NEW e, Tiling(s, e), NEW h \in DOMAIN s, NEW n \in Nat,
           n >= OVERHEAD, s[h] - n >= OVERHEAD,
           NEW t, \A x : x \in DOMAIN t <=> x \in DOMAIN s \/ x = h + n,
           t[h] = n, t[h + n] = s[h] - n,
           \A x \in DOMAIN s : x # h => t[x] = s[x]
    PROVE  Tiling(t, e)
<1>1. /\ e \in Nat /\ 0 \in DOMAIN s /\ h \in Nat /\ s[h] \in Nat /\ h + s[h] <= e
      /\ OVERHEAD \in Nat \ {0}
  BY Constants DEF Tiling
<1>2. h + n \in Nat /\ h < h + n /\ h + n < h + s[h] /\ (h + n) + (s[h] - n) = h + s[h] /\ s[h] - n \in Nat
  BY <1>1
<1>3. \A x \in DOMAIN s : /\ x \in Nat /\ s[x] \in Nat /\ s[x] >= OVERHEAD /\ x + s[x] <= e
                          /\ x + s[x] = e \/ x + s[x] \in DOMAIN s
                          /\ x < h => x + s[x] <= h
                          /\ h < x => h + s[h] <= x
  BY DEF Tiling
<1>4. \A x \in DOMAIN t : x \in Nat /\ t[x] \in Nat /\ t[x] >= OVERHEAD
                           /\ x + t[x] <= e /\ (x + t[x] = e \/ x + t[x] \in DOMAIN t)
  <2> TAKE x \in DOMAIN t
  <2>1. CASE x = h
    BY <1>1, <1>2, <1>3, <2>1
  <2>2. CASE x = h + n
    <3>1. x + t[x] = h + s[h]
      BY <1>2, <2>2
    <3> QED
      BY <1>1, <1>2, <1>3, <2>2, <3>1
  <2>3. CASE x \in DOMAIN s /\ x # h
    BY <1>3, <2>3
  <2> QED
    BY <2>1, <2>2, <2>3
<1>5. \A x, y \in DOMAIN t : x < y => x + t[x] <= y
  <2> TAKE x, y \in DOMAIN t
  <2> HAVE x < y
  <2>0. x \in Nat /\ y \in Nat
    BY <1>4
  <2>1. CASE x = h
    BY <1>1, <1>2, <1>3, <2>0, <2>1
  <2>2. CASE x = h + n
    <3>1. x + t[x] = h + s[h]
      BY <1>2, <2>2
    <3> QED
      BY <1>1, <1>2, <1>3, <2>0, <2>2, <3>1
  <2>3. CASE x \in DOMAIN s /\ x # h
    <3>1. CASE y \in DOMAIN s
      BY <2>3, <3>1 DEF Tiling
    <3>2. CASE y = h + n
      <4>1. x < h
        BY <1>1, <1>2, <1>3, <2>0, <2>3, <3>2
      <4> QED
        BY <1>1, <1>2, <1>3, <2>3, <3>2, <4>1
    <3> QED
      BY <3>1, <3>2
  <2> QED
    BY <2>1, <2>2, <2>3
<1> QED
  BY <1>1, <1>4, <1>5 DEF Tiling

\* The tiles at g and at its end h become one.
LEMMA JoinTiles ==
    ASSUME NEW s, NEW e, Tiling(s, e), NEW g \in DOMAIN s, NEW h \in DOMAIN s, g + s[g] = h,
           NEW t, \A x : x \in DOMAIN t <=> x \in DOMAIN s /\ x # h,
           t[g] = s[g] + s[h],
           \A x \in DOMAIN s : x # g /\ x # h => t[x] = s[x]
    PROVE  Tiling(t, e)
<1>1. /\ e \in Nat /\ 0 \in DOMAIN s /\ h \in Nat /\ s[h] \in Nat /\ h + s[h] <= e
      /\ OVERHEAD \in Nat \ {0} /\ g \in Nat /\ s[g] \in Nat /\ s[g] >= OVERHEAD /\ s[h] >= OVERHEAD
  BY Constants DEF Tiling
<1>2. g < h /\ g + (s[g] + s[h]) = h + s[h] /\ h # 0 /\ g # h
  BY <1>1
<1>3. \A x \in DOMAIN s : /\ x \in Nat /\ s[x] \in Nat /\ s[x] >= OVERHEAD /\ x + s[x] <= e
                          /\ x + s[x] = e \/ x + s[x] \in DOMAIN s
                          /\ x < g => x + s[x] <= g
                          /\ h < x => h + s[h] <= x
                          /\ g < x => h <= x
  BY <1>1, <1>2 DEF Tiling
<1>4. \A x \in DOMAIN t : x \in Nat /\ t[x] \in Nat /\ t[x] >= OVERHEAD
                           /\ x + t[x] <= e /\ (x + t[x] = e \/ x + t[x] \in DOMAIN t)
  <2> TAKE x \in DOMAIN t
  <2>1. CASE x = g
    BY <1>1, <1>2, <1>3, <2>1
  <2>3. CASE x \in DOMAIN s /\ x # g /\ x # h
    <3>1. x + s[x] # h
      BY <1>1, <1>2, <1>3, <2>3
    <3> QED
      BY <1>3, <2>3, <3>1
  <2> QED
    BY <2>1, <2>3
<1>5. \A x, y \in DOMAIN t : x < y => x + t[x] <= y
  <2> TAKE x, y \in DOMAIN t
  <2> HAVE x < y
  <2>0. x \in Nat /\ y \in Nat
    BY <1>4
  <2>1. CASE x = g
    BY <1>1, <1>2, <1>3, <2>0, <2>1
  <2>3. CASE x \in DOMAIN s /\ x # g /\ x # h
    BY <2>3 DEF Tiling
  <2> QED
    BY <2>1, <2>3
<1> QED
  BY <1>1, <1>2, <1>4, <1>5 DEF Tiling

\* From c on there is one tile, which ends at f.
LEMMA CutTiling ==
    ASSUME NEW s, NEW e, Tiling(s, e), NEW c, c \in DOMAIN s \/ c = e, NEW f \in Nat, f - c >= OVERHEAD,
           NEW t, \A x : x \in DOMAIN t <=> (x \in DOMAIN s /\ x < c) \/ x = c,
           t[c] = f - c,
           \A x \in DOMAIN s : x < c => t[x] = s[x]
    PROVE  Tiling(t, f)
<1>1. /\ e \in Nat /\ 0 \in DOMAIN s /\ c \in Nat /\ OVERHEAD \in Nat \ {0}
  BY Constants DEF Tiling
<1>2. f - c \in Nat /\ c + (f - c) = f /\ c < f
  BY <1>1
<1>3. \A x \in DOMAIN s : /\ x \in Nat /\ s[x] \in Nat /\ s[x] >= OVERHEAD /\ x + s[x] <= e
                          /\ x + s[x] = e \/ x + s[x] \in DOMAIN s
                          /\ x < c => x + s[x] <= c
  <2> TAKE x \in DOMAIN s
  <2>1. x \in Nat /\ s[x] \in Nat /\ s[x] >= OVERHEAD /\ x + s[x] <= e
        /\ (x + s[x] = e \/ x + s[x] \in DOMAIN s)
    BY DEF Tiling
  <2>2. x < c => x + s[x] <= c
    BY <2>1 DEF Tiling
  <2> QED
    BY <2>1, <2>2
<1>4. \A x \in DOMAIN t : x \in Nat /\ t[x] \in Nat /\ t[x] >= OVERHEAD
                           /\ x + t[x] <= f /\ (x + t[x] = f \/ x + t[x] \in DOMAIN t)
  <2> TAKE x \in DOMAIN t
  <2>1. CASE x = c
    BY <1>1, <1>2, <2>1
  <2>3. CASE x \in DOMAIN s /\ x < c
    <3>1. x \in Nat /\ t[x] = s[x] /\ s[x] \in Nat /\ s[x] >= OVERHEAD /\ x + s[x] <= c
      BY <1>3, <2>3
    <3>2. x + s[x] <= f
      BY <1>1, <1>2, <3>1
    <3>3. x + s[x] = c \/ x + s[x] \in DOMAIN s
      BY <1>1, <1>3, <2>3, <3>1
    <3>4. x + s[x] \in DOMAIN t
      BY <1>1, <3>1, <3>3
    <3> QED
      BY <3>1, <3>2, <3>4
  <2> QED
    BY <2>1, <2>3
<1>5. \A x, y \in DOMAIN t : x < y => x + t[x] <= y
  <2> TAKE x, y \in DOMAIN t
  <2> HAVE x < y
  <2>1. CASE x = c
    BY <1>1, <1>4, <2>1
  <2>2. CASE x \in DOMAIN s /\ x < c
    <3>1. CASE y = c
      BY <1>3, <2>2, <3>1
    <3>2. CASE y \in DOMAIN s
      BY <2>2, <3>2 DEF Tiling
    <3> QED
      BY <3>1, <3>2
  <2> QED
    BY <2>1, <2>2
<1>6. 0 \in DOMAIN t
  BY <1>1
<1> QED
  BY <1>4, <1>5, <1>6 DEF Tiling

\* A tile that is not the first is behind another.
LEMMA TileBefore ==
    ASSUME NEW s, NEW e, Tiling(s, e), NEW h, h \in DOMAIN s \/ h = e, h # 0
    PROVE  \E g \in DOMAIN s : g + s[g] = h
<1> DEFINE D == {h - x : x \in {y \in DOMAIN s : y < h}}
<1>1. /\ e \in Nat /\ DOMAIN s \subseteq Nat /\ 0 \in DOMAIN s /\ h \in Nat /\ h > 0
  BY DEF Tiling
<1>2. D \subseteq Nat /\ h - 0 \in D
  BY <1>1
<1>3. PICK d \in D : \A x \in D : d <= x
  BY <1>2, LeastOf
<1>4. PICK g \in DOMAIN s : g < h /\ d = h - g
  OBVIOUS
<1>5. \A x \in DOMAIN s : x < h => x <= g
  <2> TAKE x \in DOMAIN s
  <2> HAVE x < h
  <2>1. h - x \in D
    OBVIOUS
  <2>2. h - g <= h - x
    BY <1>3, <1>4, <2>1
  <2> QED
    BY <1>1, <2>2
<1>6. s[g] \in Nat /\ s[g] > 0 /\ g + s[g] <= h /\ (g + s[g] = e \/ g + s[g] \in DOMAIN s)
  <2>1. s[g] \in Nat /\ s[g] >= OVERHEAD /\ g + s[g] <= e /\ (g + s[g] = e \/ g + s[g] \in DOMAIN s)
    BY DEF Tiling
  <2>2. h \in DOMAIN s => g + s[g] <= h
    BY <1>4 DEF Tiling
  <2> QED
    BY <1>1, <2>1, <2>2, Constants
<1>7. h <= e
  <2>1. h \in DOMAIN s => s[h] \in Nat /\ h + s[h] <= e
    BY DEF Tiling
  <2> QED
    BY <1>1, <2>1
<1>8. ~(g + s[g] < h)
  <2> SUFFICES ASSUME g + s[g] < h PROVE FALSE
    OBVIOUS
  <2>1. g + s[g] \in DOMAIN s
    BY <1>1, <1>6, <1>7
  <2>2. g + s[g] <= g
    BY <1>5, <2>1
  <2> QED
    BY <1>1, <1>6, <2>2
<1> QED
  BY <1>1, <1>6, <1>8

(***************************************************************************)
(* Heaps: what a write to some of the tiles leaves of the others.           *)
(***************************************************************************)
\* The tiles of m that start at T.
Sizes(m, T) == [h \in T |-> Length(m, h)]

LEMMA WholeTiles ==
    ASSUME NEW m, NEW B, NEW H, NEW e, Whole(m, B, H, e)
    PROVE  /\ e \in Nat
           /\ \A h \in B \cup H :
                 /\ h \in Nat /\ Length(m, h) \in Nat /\ Length(m, h) >= OVERHEAD
                 /\ h + Length(m, h) <= e
                 /\ h + Length(m, h) = e \/ h + Length(m, h) \in B \cup H
                 /\ h \in DOMAIN m.header
           /\ \A g, h \in B \cup H : g < h => g + Length(m, g) <= h
           /\ 0 \in B \cup H
           /\ Tiling(Sizes(m, B \cup H), e)
<1> DEFINE s == Sizes(m, B \cup H)
<1>1. Tiling(s, e)
  BY DEF Whole, Sizes
<1>2. DOMAIN s = B \cup H /\ \A h \in B \cup H : s[h] = Length(m, h)
  BY DEF Sizes
<1> HIDE DEF s
<1>3. \A h \in B \cup H :
                 /\ h \in Nat /\ Length(m, h) \in Nat /\ Length(m, h) >= OVERHEAD
                 /\ h + Length(m, h) <= e
                 /\ h + Length(m, h) = e \/ h + Length(m, h) \in B \cup H
  BY <1>1, <1>2 DEF Tiling
<1>4. \A g, h \in B \cup H : g < h => g + Length(m, g) <= h
  BY <1>1, <1>2 DEF Tiling
<1>5. \A h \in B \cup H : h \in DOMAIN m.header
  BY DEF Whole, Marked
<1> QED
  BY <1>1, <1>2, <1>3, <1>4, <1>5 DEF Tiling, s

LEMMA TagKept ==
    ASSUME NEW m, NEW n, NEW lo \in Nat, NEW hi \in Nat, Keeps(m, n, lo, hi),
           NEW h \in Nat, h \in DOMAIN m.header, Length(m, h) \in Nat, Length(m, h) >= OVERHEAD,
           h + Length(m, h) <= lo \/ hi <= h
    PROVE  /\ h \in DOMAIN n.header /\ n.header[h] = m.header[h] /\ Length(n, h) = Length(m, h)
           /\ Closed(m, h) => Closed(n, h)
<1>2. h + HDR <= lo \/ hi <= h
  BY Constants
<1>3. h \in DOMAIN n.header /\ n.header[h] = m.header[h] /\ Length(n, h) = Length(m, h)
  BY <1>2 DEF Keeps, Length
<1>4. ASSUME Closed(m, h) PROVE Closed(n, h)
  <2> DEFINE f == h + Length(m, h) - FTR
  <2>1. f + FTR <= lo \/ hi <= f
    BY Constants
  <2>2. f \in DOMAIN m.footer /\ m.footer[f] = h
    BY <1>4 DEF Closed
  <2> HIDE DEF f
  <2>3. f \in DOMAIN n.footer /\ n.footer[f] = h
    BY <2>1, <2>2 DEF Keeps
  <2> QED
    BY <1>3, <2>3 DEF Closed, f
<1> QED
  BY <1>3, <1>4

LEMMA TileKept ==
    ASSUME NEW m, NEW B, NEW H, NEW e, Whole(m, B, H, e),
           NEW n, NEW lo \in Nat, NEW hi \in Nat, Keeps(m, n, lo, hi),
           NEW h \in B \cup H, h + Length(m, h) <= lo \/ hi <= h
    PROVE  /\ h \in DOMAIN n.header /\ n.header[h] = m.header[h] /\ Length(n, h) = Length(m, h)
           /\ Closed(m, h) => Closed(n, h)
<1>1. h \in Nat /\ Length(m, h) \in Nat /\ Length(m, h) >= OVERHEAD /\ h \in DOMAIN m.header
  BY WholeTiles
<1> QED
  BY <1>1, TagKept

\* The tiles other than the one at h, when only that one is written.
LEMMA OthersKept ==
    ASSUME NEW m, NEW B, NEW H, NEW e, Whole(m, B, H, e),
           NEW n, NEW h \in B \cup H, Keeps(m, n, h, h + Length(m, h))
    PROVE  \A x \in (B \cup H) \ {h} :
             /\ x \in DOMAIN n.header /\ n.header[x] = m.header[x] /\ Length(n, x) = Length(m, x)
             /\ x \in B \/ x + Length(m, x) < e => Closed(n, x)
             /\ n.header[x].is_hole <=> x \in H
<1> TAKE x \in (B \cup H) \ {h}
<1>1. /\ h \in Nat /\ Length(m, h) \in Nat /\ x \in Nat
      /\ x < h => x + Length(m, x) <= h
      /\ h < x => h + Length(m, h) <= x
  BY WholeTiles
<1>2. x + Length(m, x) <= h \/ h + Length(m, h) <= x
  BY <1>1
<1>3. h + Length(m, h) \in Nat
  BY <1>1
<1>4. /\ x \in DOMAIN n.header /\ n.header[x] = m.header[x] /\ Length(n, x) = Length(m, x)
      /\ Closed(m, x) => Closed(n, x)
  BY <1>1, <1>2, <1>3, TileKept
<1>5. x \in B \/ x + Length(m, x) < e => Closed(m, x)
  BY DEF Whole, Footed
<1>6. m.header[x].is_hole <=> x \in H
  BY DEF Whole, Marked
<1> QED
  BY <1>4, <1>5, <1>6

\* A hole becomes a block.
LEMMA FillTile ==
    ASSUME NEW m, NEW B, NEW H, NEW e, Whole(m, B, H, e), NEW h \in H,
           NEW n, Memory(n), Keeps(m, n, h, h + Length(m, h)),
           BlockAt(n, h, Length(m, h)), Closed(n, h),
           NEW B2, \A x : x \in B2 <=> x \in B \/ x = h,
           NEW H2, \A x : x \in H2 <=> x \in H /\ x # h
    PROVE  Whole(n, B2, H2, e) /\ \A x \in B : Length(n, x) = Length(m, x)
<1>0. /\ h \in DOMAIN n.header /\ ~n.header[h].is_hole /\ Length(n, h) = Length(m, h)
  BY DEF HoleAt, BlockAt
<1> USE <1>0
<1>1. B \cap H = {} /\ h \notin B
  BY DEF Whole
<1>2. B2 \cup H2 = B \cup H /\ B2 \cap H2 = {}
  BY <1>1
<1>3. \A x \in (B \cup H) \ {h} :
             /\ x \in DOMAIN n.header /\ n.header[x] = m.header[x] /\ Length(n, x) = Length(m, x)
             /\ x \in B \/ x + Length(m, x) < e => Closed(n, x)
             /\ n.header[x].is_hole <=> x \in H
  BY OthersKept
<1>4. Sizes(n, B2 \cup H2) = Sizes(m, B \cup H)
  BY <1>2, <1>3 DEF Sizes
<1>5. Tiling(Sizes(n, B2 \cup H2), e)
  BY <1>4, WholeTiles
<1>6. Marked(n, B2, H2)
  BY <1>2, <1>3 DEF Marked
<1>7. Footed(n, B2, H2, e)
  BY <1>2, <1>3 DEF Footed
<1>8. \A x \in B : Length(n, x) = Length(m, x)
  BY <1>1, <1>3
<1> QED
  BY <1>2, <1>5, <1>6, <1>7, <1>8 DEF Whole, Sizes

\* A hole becomes a block with a hole behind it.
LEMMA CarveTile ==
    ASSUME NEW m, NEW B, NEW H, NEW e, Whole(m, B, H, e), NEW h \in H,
           NEW n, Memory(n), Keeps(m, n, h, h + Length(m, h)),
           NEW want \in Nat, want >= OVERHEAD, Length(m, h) - want >= OVERHEAD,
           BlockAt(n, h, want), Closed(n, h),
           NEW r, r = h + want,
           HoleAt(n, r, Length(m, h) - want), Closed(n, r),
           NEW B2, \A x : x \in B2 <=> x \in B \/ x = h,
           NEW H2, \A x : x \in H2 <=> (x \in H /\ x # h) \/ x = r
    PROVE  Whole(n, B2, H2, e) /\ r \notin B \cup H /\ \A x \in B : Length(n, x) = Length(m, x)
<1>0. /\ h \in DOMAIN n.header /\ ~n.header[h].is_hole /\ Length(n, h) = want
      /\ r \in DOMAIN n.header /\ n.header[r].is_hole /\ Length(n, r) = Length(m, h) - want
  BY DEF HoleAt, BlockAt
<1> USE <1>0
<1>1. B \cap H = {} /\ h \notin B
  BY DEF Whole
<1>a. /\ h \in Nat /\ Length(m, h) \in Nat /\ OVERHEAD \in Nat \ {0}
      /\ \A x \in B \cup H : x \in Nat /\ (h < x => h + Length(m, h) <= x)
  <2>1. h \in B \cup H
    OBVIOUS
  <2>2. /\ \A x \in B \cup H : x \in Nat /\ Length(m, x) \in Nat
        /\ \A g, x \in B \cup H : g < x => g + Length(m, g) <= x
    BY WholeTiles
  <2> QED
    BY <2>1, <2>2, Constants
<1>b. r \notin B \cup H
  BY <1>a
<1>2. B2 \cup H2 = (B \cup H) \cup {r} /\ B2 \cap H2 = {} /\ r # h
  BY <1>1, <1>b
<1>3. \A x \in (B \cup H) \ {h} :
             /\ x \in DOMAIN n.header /\ n.header[x] = m.header[x] /\ Length(n, x) = Length(m, x)
             /\ x \in B \/ x + Length(m, x) < e => Closed(n, x)
             /\ n.header[x].is_hole <=> x \in H
  BY OthersKept
<1>5. Tiling(Sizes(n, B2 \cup H2), e)
  <2> DEFINE s == Sizes(m, B \cup H)
             t == Sizes(n, B2 \cup H2)
  <2>1. Tiling(s, e)
    BY WholeTiles
  <2>2. DOMAIN s = B \cup H /\ \A x \in B \cup H : s[x] = Length(m, x)
    BY DEF Sizes
  <2>3. DOMAIN t = (B \cup H) \cup {r} /\ \A x \in DOMAIN t : t[x] = Length(n, x)
    BY <1>2 DEF Sizes
  <2> HIDE DEF s, t
  <2>4. h \in DOMAIN s /\ \A x : x \in DOMAIN t <=> x \in DOMAIN s \/ x = h + want
    BY <2>2, <2>3
  <2>5. t[h] = want /\ t[h + want] = s[h] - want
    BY <2>2, <2>3
  <2>6. \A x \in DOMAIN s : x # h => t[x] = s[x]
    BY <1>3, <2>2, <2>3
  <2>7. s[h] - want >= OVERHEAD
    BY <2>2
  <2>8. Tiling(t, e)
    BY <2>1, <2>4, <2>5, <2>6, <2>7, CutTile
  <2> QED
    BY <2>8 DEF t
<1>6. Marked(n, B2, H2)
  BY <1>2, <1>3, <1>b DEF Marked
<1>7. Footed(n, B2, H2, e)
  BY <1>2, <1>3 DEF Footed
<1>8. \A x \in B : Length(n, x) = Length(m, x)
  BY <1>1, <1>3
<1> QED
  BY <1>b, <1>2, <1>5, <1>6, <1>7, <1>8 DEF Whole, Sizes

\* A hole becomes a smaller one, a block, and another hole.
LEMMA CarveMiddle ==
    ASSUME NEW m, NEW B, NEW H, NEW e, Whole(m, B, H, e), NEW h \in H,
           NEW n, Memory(n), Keeps(m, n, h, h + Length(m, h)),
           NEW front \in Nat, front >= OVERHEAD, NEW want \in Nat, want >= OVERHEAD,
           Length(m, h) - front - want >= OVERHEAD,
           HoleAt(n, h, front), Closed(n, h),
           NEW p, p = h + front,
           BlockAt(n, p, want), Closed(n, p),
           NEW r, r = p + want,
           HoleAt(n, r, Length(m, h) - front - want), Closed(n, r),
           NEW B2, \A x : x \in B2 <=> x \in B \/ x = p,
           NEW H2, \A x : x \in H2 <=> x \in H \/ x = r
    PROVE  /\ Whole(n, B2, H2, e) /\ r \notin B \cup H /\ p \notin B \cup H
           /\ \A x \in B : Length(n, x) = Length(m, x)
<1>0. /\ h \in DOMAIN n.header /\ n.header[h].is_hole /\ Length(n, h) = front
      /\ p \in DOMAIN n.header /\ ~n.header[p].is_hole /\ Length(n, p) = want
      /\ r \in DOMAIN n.header /\ n.header[r].is_hole /\ Length(n, r) = Length(m, h) - front - want
  BY DEF HoleAt, BlockAt
<1> USE <1>0
<1>1. B \cap H = {} /\ h \notin B
  BY DEF Whole
<1>a. /\ h \in Nat /\ Length(m, h) \in Nat /\ OVERHEAD \in Nat \ {0}
      /\ \A x \in B \cup H : x \in Nat /\ (h < x => h + Length(m, h) <= x)
  <2>1. h \in B \cup H
    OBVIOUS
  <2>2. /\ \A x \in B \cup H : x \in Nat /\ Length(m, x) \in Nat
        /\ \A g, x \in B \cup H : g < x => g + Length(m, g) <= x
    BY WholeTiles
  <2> QED
    BY <2>1, <2>2, Constants
<1>b. /\ p \notin B \cup H /\ r \notin B \cup H /\ p # r
      /\ p \in Nat /\ h < p /\ p < r /\ r < h + Length(m, h) /\ Length(m, h) - front \in Nat
      /\ (Length(m, h) - front) - want = Length(m, h) - front - want
      /\ Length(m, h) - front >= OVERHEAD
  BY <1>a
<1>2. B2 \cup H2 = (B \cup H) \cup {p, r} /\ B2 \cap H2 = {} /\ r # h /\ p # h
  BY <1>1, <1>b
<1>3. \A x \in (B \cup H) \ {h} :
             /\ x \in DOMAIN n.header /\ n.header[x] = m.header[x] /\ Length(n, x) = Length(m, x)
             /\ x \in B \/ x + Length(m, x) < e => Closed(n, x)
             /\ n.header[x].is_hole <=> x \in H
  BY OthersKept
<1>5. Tiling(Sizes(n, B2 \cup H2), e)
  <2> DEFINE s == Sizes(m, B \cup H)
             u == [x \in (B \cup H) \cup {p} |-> IF x = h THEN front ELSE
                                                IF x = p THEN Length(m, h) - front ELSE Length(m, x)]
             t == Sizes(n, B2 \cup H2)
  <2>1. Tiling(s, e)
    BY WholeTiles
  <2>2. DOMAIN s = B \cup H /\ \A x \in B \cup H : s[x] = Length(m, x)
    BY DEF Sizes
  <2>3. DOMAIN t = (B \cup H) \cup {p, r} /\ \A x \in DOMAIN t : t[x] = Length(n, x)
    BY <1>2 DEF Sizes
  <2>4. /\ DOMAIN u = (B \cup H) \cup {p} /\ u[h] = front /\ u[p] = Length(m, h) - front
        /\ \A x \in B \cup H : x # h => u[x] = Length(m, x)
    BY <1>b, <1>2
  <2> HIDE DEF s, t, u
  <2>5. Tiling(u, e)
    <3>1. h \in DOMAIN s /\ \A x : x \in DOMAIN u <=> x \in DOMAIN s \/ x = h + front
      BY <2>2, <2>4
    <3>2. u[h] = front /\ u[h + front] = s[h] - front /\ s[h] - front >= OVERHEAD
      BY <1>b, <2>2, <2>4
    <3>3. \A x \in DOMAIN s : x # h => u[x] = s[x]
      BY <2>2, <2>4
    <3> QED
      BY <2>1, <3>1, <3>2, <3>3, CutTile
  <2>6. p \in DOMAIN u /\ \A x : x \in DOMAIN t <=> x \in DOMAIN u \/ x = p + want
    BY <2>3, <2>4
  <2>7. t[p] = want /\ t[p + want] = u[p] - want /\ u[p] - want >= OVERHEAD
    BY <1>b, <2>3, <2>4
  <2>8. \A x \in DOMAIN u : x # p => t[x] = u[x]
    BY <1>3, <2>3, <2>4
  <2>9. Tiling(t, e)
    BY <2>5, <2>6, <2>7, <2>8, CutTile
  <2> QED
    BY <2>9 DEF t
<1>6. Marked(n, B2, H2)
  BY <1>2, <1>3, <1>b DEF Marked
<1>7. Footed(n, B2, H2, e)
  BY <1>2, <1>3 DEF Footed
<1>8. \A x \in B : Length(n, x) = Length(m, x)
  BY <1>1, <1>3
<1> QED
  BY <1>b, <1>2, <1>5, <1>6, <1>7, <1>8 DEF Whole, Sizes

\* A block becomes a hole.
LEMMA EmptyTile ==
    ASSUME NEW m, NEW B, NEW H, NEW e, Whole(m, B, H, e), NEW h \in B,
           NEW n, Memory(n), Keeps(m, n, h, h + Length(m, h)),
           HoleAt(n, h, Length(m, h)), Closed(n, h),
           NEW B2, \A x : x \in B2 <=> x \in B /\ x # h,
           NEW H2, \A x : x \in H2 <=> x \in H \/ x = h
    PROVE  Whole(n, B2, H2, e) /\ \A x \in B2 : Length(n, x) = Length(m, x)
<1>0. /\ h \in DOMAIN n.header /\ n.header[h].is_hole /\ Length(n, h) = Length(m, h)
  BY DEF HoleAt, BlockAt
<1> USE <1>0
<1>1. B \cap H = {} /\ h \notin H
  BY DEF Whole
<1>2. B2 \cup H2 = B \cup H /\ B2 \cap H2 = {}
  BY <1>1
<1>3. \A x \in (B \cup H) \ {h} :
             /\ x \in DOMAIN n.header /\ n.header[x] = m.header[x] /\ Length(n, x) = Length(m, x)
             /\ x \in B \/ x + Length(m, x) < e => Closed(n, x)
             /\ n.header[x].is_hole <=> x \in H
  BY OthersKept
<1>4. Sizes(n, B2 \cup H2) = Sizes(m, B \cup H)
  BY <1>2, <1>3 DEF Sizes
<1>5. Tiling(Sizes(n, B2 \cup H2), e)
  BY <1>4, WholeTiles
<1>6. Marked(n, B2, H2)
  BY <1>2, <1>3 DEF Marked
<1>7. Footed(n, B2, H2, e)
  BY <1>2, <1>3 DEF Footed
<1>8. \A x \in B2 : Length(n, x) = Length(m, x)
  BY <1>1, <1>3
<1> QED
  BY <1>2, <1>5, <1>6, <1>7, <1>8 DEF Whole, Sizes

\* Outside two neighbours nothing changes.
LEMMA OutsidersKept ==
    ASSUME NEW m, NEW B, NEW H, NEW e, Whole(m, B, H, e),
           NEW g \in B \cup H, NEW h \in B \cup H, g + Length(m, g) = h,
           NEW n, Keeps(m, n, g, h + Length(m, h))
    PROVE  \A x \in (B \cup H) \ {g, h} :
             /\ x \in DOMAIN n.header /\ n.header[x] = m.header[x] /\ Length(n, x) = Length(m, x)
             /\ x \in B \/ x + Length(m, x) < e => Closed(n, x)
             /\ n.header[x].is_hole <=> x \in H
<1> TAKE x \in (B \cup H) \ {g, h}
<1>1. /\ \A y \in B \cup H : y \in Nat /\ Length(m, y) \in Nat
      /\ \A y, z \in B \cup H : y < z => y + Length(m, y) <= z
  BY WholeTiles
<1>2. x + Length(m, x) <= g \/ h + Length(m, h) <= x
  <2>1. /\ g \in Nat /\ h \in Nat /\ x \in Nat
        /\ Length(m, g) \in Nat /\ Length(m, h) \in Nat /\ Length(m, x) \in Nat
    BY <1>1
  <2>2. x < g => x + Length(m, x) <= g
    BY <1>1
  <2>3. h < x => h + Length(m, h) <= x
    BY <1>1
  <2>4. g < x => g + Length(m, g) <= x
    BY <1>1
  <2> QED
    BY <2>1, <2>2, <2>3, <2>4
<1>3. h + Length(m, h) \in Nat /\ g \in Nat
  BY <1>1
<1>4. /\ x \in DOMAIN n.header /\ n.header[x] = m.header[x] /\ Length(n, x) = Length(m, x)
      /\ Closed(m, x) => Closed(n, x)
  BY <1>2, <1>3, TileKept
<1>5. x \in B \/ x + Length(m, x) < e => Closed(m, x)
  BY DEF Whole, Footed
<1>6. m.header[x].is_hole <=> x \in H
  BY DEF Whole, Marked
<1> QED
  BY <1>4, <1>5, <1>6

\* A block becomes part of the hole before it.
LEMMA JoinTile ==
    ASSUME NEW m, NEW B, NEW H, NEW e, Whole(m, B, H, e),
           NEW g \in H, NEW h \in B, g + Length(m, g) = h,
           NEW n, Memory(n), Keeps(m, n, g, h + Length(m, h)),
           HoleAt(n, g, Length(m, g) + Length(m, h)), Closed(n, g),
           NEW B2, \A x : x \in B2 <=> x \in B /\ x # h
    PROVE  Whole(n, B2, H, e) /\ \A x \in B2 : Length(n, x) = Length(m, x)
<1>0. /\ g \in DOMAIN n.header /\ n.header[g].is_hole /\ Length(n, g) = Length(m, g) + Length(m, h)
  BY DEF HoleAt, BlockAt
<1> USE <1>0
<1>1. B \cap H = {} /\ h \notin H /\ g # h
  BY DEF Whole
<1>2. B2 \cup H = (B \cup H) \ {h} /\ B2 \cap H = {}
  BY <1>1
<1>3. \A x \in (B \cup H) \ {g, h} :
             /\ x \in DOMAIN n.header /\ n.header[x] = m.header[x] /\ Length(n, x) = Length(m, x)
             /\ x \in B \/ x + Length(m, x) < e => Closed(n, x)
             /\ n.header[x].is_hole <=> x \in H
  BY OutsidersKept
<1>5. Tiling(Sizes(n, B2 \cup H), e)
  <2> DEFINE s == Sizes(m, B \cup H)
             t == Sizes(n, B2 \cup H)
  <2>1. Tiling(s, e)
    BY WholeTiles
  <2>2. DOMAIN s = B \cup H /\ \A x \in B \cup H : s[x] = Length(m, x)
    BY DEF Sizes
  <2>3. DOMAIN t = (B \cup H) \ {h} /\ \A x \in DOMAIN t : t[x] = Length(n, x)
    BY <1>2 DEF Sizes
  <2> HIDE DEF s, t
  <2>4. g \in DOMAIN s /\ h \in DOMAIN s /\ g + s[g] = h /\ \A x : x \in DOMAIN t <=> x \in DOMAIN s /\ x # h
    BY <2>2, <2>3
  <2>5. t[g] = s[g] + s[h]
    BY <1>1, <2>2, <2>3
  <2>6. \A x \in DOMAIN s : x # g /\ x # h => t[x] = s[x]
    BY <1>3, <2>2, <2>3
  <2>8. Tiling(t, e)
    BY <2>1, <2>4, <2>5, <2>6, JoinTiles
  <2> QED
    BY <2>8 DEF t
<1>6. Marked(n, B2, H)
  BY <1>1, <1>2, <1>3 DEF Marked
<1>7. Footed(n, B2, H, e)
  BY <1>1, <1>2, <1>3 DEF Footed
<1>8. \A x \in B2 : Length(n, x) = Length(m, x)
  BY <1>1, <1>3
<1> QED
  BY <1>2, <1>5, <1>6, <1>7, <1>8 DEF Whole, Sizes

\* Everything from c on becomes one hole, up to a new end.
LEMMA CutHeap ==
    ASSUME NEW m, NEW B, NEW H, NEW e, Whole(m, B, H, e),
           NEW c, c \in B \cup H \/ c = e, c = e => \A h \in H : h + Length(m, h) < e,
           NEW f \in Nat, f - c >= OVERHEAD,
           NEW n, Memory(n), NEW hi \in Nat, Keeps(m, n, c, hi),
           HoleAt(n, c, f - c), Closed(n, c),
           NEW B2, \A x : x \in B2 <=> x \in B /\ x < c,
           NEW H2, \A x : x \in H2 <=> (x \in H /\ x < c) \/ x = c
    PROVE  Whole(n, B2, H2, f) /\ \A x \in B2 : Length(n, x) = Length(m, x)
<1>0. /\ c \in DOMAIN n.header /\ n.header[c].is_hole /\ Length(n, c) = f - c
  BY DEF HoleAt, BlockAt
<1> USE <1>0
<1>1. B \cap H = {}
  BY DEF Whole
<1>a. /\ \A x \in B \cup H : x \in Nat /\ Length(m, x) \in Nat /\ Length(m, x) >= OVERHEAD /\ x + Length(m, x) <= e
      /\ \A x, y \in B \cup H : x < y => x + Length(m, x) <= y
      /\ e \in Nat /\ OVERHEAD \in Nat \ {0}
  BY WholeTiles, Constants
<1>b. c \in Nat /\ c <= e /\ \A x \in B \cup H : x < c => x + Length(m, x) <= c
  <2>1. CASE c = e
    BY <1>a, <2>1
  <2>2. CASE c \in B \cup H
    <3>1. c \in Nat /\ Length(m, c) \in Nat /\ c + Length(m, c) <= e
      BY <1>a, <2>2
    <3>2. c <= e
      BY <1>a, <3>1
    <3>3. \A x \in B \cup H : x < c => x + Length(m, x) <= c
      BY <1>a, <2>2
    <3> QED
      BY <3>1, <3>2, <3>3
  <2> QED
    BY <2>1, <2>2
<1>2. B2 \cap H2 = {} /\ \A x : x \in B2 \cup H2 <=> (x \in B \cup H /\ x < c) \/ x = c
  BY <1>1, <1>b
<1>3. \A x \in B \cup H : x < c =>
             /\ x \in DOMAIN n.header /\ n.header[x] = m.header[x] /\ Length(n, x) = Length(m, x)
             /\ n.header[x].is_hole <=> x \in H
             /\ Closed(n, x)
  <2> TAKE x \in B \cup H
  <2> HAVE x < c
  <2>1. x + Length(m, x) <= c
    BY <1>b
  <2>2. /\ x \in DOMAIN n.header /\ n.header[x] = m.header[x] /\ Length(n, x) = Length(m, x)
        /\ Closed(m, x) => Closed(n, x)
    BY <1>b, <2>1, TileKept
  <2>3. m.header[x].is_hole <=> x \in H
    BY DEF Whole, Marked
  <2>4. x \in B \/ x + Length(m, x) < e
    <3>1. CASE c = e
      BY <3>1
    <3>2. CASE c \in B \cup H
      <4>1. Length(m, c) \in Nat /\ Length(m, c) > 0 /\ c + Length(m, c) <= e
        BY <1>a, <3>2
      <4>2. x \in Nat /\ Length(m, x) \in Nat
        BY <1>a
      <4> QED
        BY <1>a, <1>b, <2>1, <4>1, <4>2
    <3> QED
      BY <3>1, <3>2
  <2>5. Closed(m, x)
    BY <2>4 DEF Whole, Footed
  <2> QED
    BY <2>2, <2>3, <2>5
<1>5. Tiling(Sizes(n, B2 \cup H2), f)
  <2> DEFINE s == Sizes(m, B \cup H)
             t == Sizes(n, B2 \cup H2)
  <2>1. Tiling(s, e)
    BY WholeTiles
  <2>2. DOMAIN s = B \cup H /\ \A x \in B \cup H : s[x] = Length(m, x)
    BY DEF Sizes
  <2>3. DOMAIN t = B2 \cup H2 /\ \A x \in DOMAIN t : t[x] = Length(n, x)
    BY DEF Sizes
  <2> HIDE DEF s, t
  <2>4. \A x : x \in DOMAIN t <=> (x \in DOMAIN s /\ x < c) \/ x = c
    BY <1>2, <2>2, <2>3
  <2>5. t[c] = f - c
    BY <2>3, <2>4
  <2>6. \A x \in DOMAIN s : x < c => t[x] = s[x]
    BY <1>3, <2>2, <2>3, <2>4
  <2>7. c \in DOMAIN s \/ c = e
    BY <2>2
  <2>8. Tiling(t, f)
    BY <2>1, <2>4, <2>5, <2>6, <2>7, CutTiling
  <2> QED
    BY <2>8 DEF t
<1>6. Marked(n, B2, H2)
  <2> SUFFICES ASSUME NEW x \in B2 \cup H2 PROVE x \in DOMAIN n.header /\ (n.header[x].is_hole <=> x \in H2)
    BY DEF Marked
  <2>1. CASE x = c
    BY <2>1
  <2>2. CASE x \in B \cup H /\ x < c
    <3>1. x # c
      BY <1>b, <1>a, <2>2
    <3> QED
      BY <1>3, <2>2, <3>1
  <2> QED
    BY <1>2, <2>1, <2>2
<1>7. Footed(n, B2, H2, f)
  BY <1>2, <1>3 DEF Footed
<1>8. \A x \in B2 : Length(n, x) = Length(m, x)
  BY <1>1, <1>3
<1> QED
  BY <1>2, <1>5, <1>6, <1>7, <1>8 DEF Whole, Sizes

(***************************************************************************)
(* What alloc and free write.                                               *)
(***************************************************************************)
LEMMA BlockPut ==
    ASSUME NEW m, Memory(m), NEW a \in Nat, NEW len \in Nat, len >= OVERHEAD,
           NEW n, n = PutBlock(m, a, len)
    PROVE  Memory(n) /\ Keeps(m, n, a, a + len) /\ BlockAt(n, a, len) /\ Closed(n, a)
  BY PutBlockIs DEF Length, BlockAt

LEMMA HolePut ==
    ASSUME NEW m, Memory(m), NEW a \in Nat, NEW len \in Nat, len >= OVERHEAD,
           START + a + len <= WORD, NEW n, n = PutHole(m, a, len)
    PROVE  Memory(n) /\ Keeps(m, n, a, a + len) /\ HoleAt(n, a, len) /\ Closed(n, a)
  BY PutHoleIs DEF Length, HoleAt

LEMMA HeaderPut ==
    ASSUME NEW m, Memory(m), NEW a \in Nat, NEW len \in Nat,
           NEW n, n = PutHeader(m, a, TRUE, len)
    PROVE  Memory(n) /\ Keeps(m, n, a, a + HDR) /\ HoleAt(n, a, len)
<1>1. PICK b \in BOOLEAN : b = TRUE
  OBVIOUS
<1> DEFINE o == PutHeader(m, a, b, len)
<1>2. n = o
  BY <1>1
<1>3. /\ Memory(o) /\ Keeps(m, o, a, a + HDR)
      /\ a \in DOMAIN o.header /\ (o.header[a].is_hole <=> b) /\ o.header[a].size = len
  BY PutHeaderIs
<1> HIDE DEF o
<1>4. HoleAt(o, a, len)
  BY <1>1, <1>3, Zenon DEF HoleAt, Length
<1>5. Memory(o) /\ Keeps(m, o, a, a + HDR)
  BY <1>3
<1> QED
  BY <1>2, <1>4, <1>5, Zenon

\* The footer at f leads to h.
FooterAt(m, f, h) == f \in DOMAIN m.footer /\ m.footer[f] = h

LEMMA FooterPut ==
    ASSUME NEW m, Memory(m), NEW a \in Nat, NEW h \in Nat, NEW n, n = PutFooter(m, a, h)
    PROVE  Memory(n) /\ Keeps(m, n, a, a + FTR) /\ FooterAt(n, a, h)
  BY PutFooterIs DEF FooterAt

\* A block or a hole below or above what is written stays.
LEMMA BlockStays ==
    ASSUME NEW m, NEW n, NEW lo \in Nat, NEW hi \in Nat, Keeps(m, n, lo, hi),
           NEW h \in Nat, NEW len \in Nat, len >= OVERHEAD, BlockAt(m, h, len), Closed(m, h),
           h + len <= lo \/ hi <= h
    PROVE  BlockAt(n, h, len) /\ Closed(n, h)
<1>1. h \in DOMAIN m.header /\ Length(m, h) = len
  BY DEF BlockAt
<1>2. h + HDR <= lo \/ hi <= h
  BY Constants
<1>3. h \in DOMAIN n.header /\ n.header[h] = m.header[h]
  BY <1>1, <1>2 DEF Keeps
<1>4. BlockAt(n, h, len)
  BY <1>3 DEF BlockAt, Length
<1>5. Length(n, h) = len
  BY <1>4 DEF BlockAt
<1>6. PICK f : f = h + len - FTR
  OBVIOUS
<1>7. f + FTR <= lo \/ hi <= f
  BY <1>6, Constants
<1>8. f \in DOMAIN m.footer /\ m.footer[f] = h
  BY <1>1, <1>6 DEF Closed
<1>9. f \in DOMAIN n.footer /\ n.footer[f] = h
  BY <1>7, <1>8 DEF Keeps
<1>10. Closed(n, h)
  BY <1>5, <1>6, <1>9 DEF Closed
<1> QED
  BY <1>4, <1>10

LEMMA HoleStays ==
    ASSUME NEW m, NEW n, NEW lo \in Nat, NEW hi \in Nat, Keeps(m, n, lo, hi),
           NEW h \in Nat, NEW len \in Nat, len >= OVERHEAD, HoleAt(m, h, len), Closed(m, h),
           h + len <= lo \/ hi <= h
    PROVE  HoleAt(n, h, len) /\ Closed(n, h)
<1>1. h \in DOMAIN m.header /\ Length(m, h) = len
  BY DEF HoleAt
<1>2. h + HDR <= lo \/ hi <= h
  BY Constants
<1>3. h \in DOMAIN n.header /\ n.header[h] = m.header[h]
  BY <1>1, <1>2 DEF Keeps
<1>4. HoleAt(n, h, len)
  BY <1>3 DEF HoleAt, Length
<1>5. Length(n, h) = len
  BY <1>4 DEF HoleAt
<1>6. PICK f : f = h + len - FTR
  OBVIOUS
<1>7. f + FTR <= lo \/ hi <= f
  BY <1>6, Constants
<1>8. f \in DOMAIN m.footer /\ m.footer[f] = h
  BY <1>1, <1>6 DEF Closed
<1>9. f \in DOMAIN n.footer /\ n.footer[f] = h
  BY <1>7, <1>8 DEF Keeps
<1>10. Closed(n, h)
  BY <1>5, <1>6, <1>9 DEF Closed
<1> QED
  BY <1>4, <1>10

\* The hole at h becomes a block of all of it.
LEMMA FillHole ==
    ASSUME NEW m, NEW B, NEW H, NEW e, Whole(m, B, H, e), NEW h \in H,
           NEW n, n = PutBlock(m, h, Length(m, h)),
           NEW B2, \A x : x \in B2 <=> x \in B \/ x = h,
           NEW H2, \A x : x \in H2 <=> x \in H /\ x # h
    PROVE  /\ Whole(n, B2, H2, e)
           /\ \A x \in B : Length(n, x) = Length(m, x)
           /\ Length(n, h) = Length(m, h)
<1>1. Memory(m) /\ h \in Nat /\ Length(m, h) \in Nat /\ Length(m, h) >= OVERHEAD
  BY WholeTiles DEF Whole
<1>2. /\ Memory(n) /\ Keeps(m, n, h, h + Length(m, h))
      /\ BlockAt(n, h, Length(m, h)) /\ Closed(n, h)
  BY <1>1, BlockPut
<1>3. Length(n, h) = Length(m, h)
  BY <1>2 DEF BlockAt
<1>4. Whole(n, B2, H2, e) /\ \A x \in B : Length(n, x) = Length(m, x)
  BY <1>2, FillTile
<1> QED
  BY <1>3, <1>4

\* A block is put at p, and a hole behind it, up to hi.
LEMMA BlockAndHole ==
    ASSUME NEW m, Memory(m), NEW p \in Nat, NEW want \in Nat, want >= OVERHEAD,
           NEW len \in Nat, len >= OVERHEAD, NEW r, r = p + want, NEW hi, hi = r + len,
           START + hi <= WORD,
           NEW o, o = PutBlock(m, p, want), NEW n, n = PutHole(o, r, len)
    PROVE  /\ Memory(n) /\ Keeps(m, n, p, hi)
           /\ BlockAt(n, p, want) /\ Closed(n, p)
           /\ HoleAt(n, r, len) /\ Closed(n, r)
<1>0. /\ r \in Nat /\ hi \in Nat /\ p <= r /\ r <= hi /\ p <= p /\ hi <= hi /\ START + r + len <= WORD
  BY Constants
<1>1. Memory(o) /\ Keeps(m, o, p, p + want) /\ BlockAt(o, p, want) /\ Closed(o, p)
  BY BlockPut
<1>2. Keeps(m, o, p, r)
  BY <1>1
<1>3. Memory(o)
  BY <1>1
<1>4. Memory(n) /\ Keeps(o, n, r, r + len) /\ HoleAt(n, r, len) /\ Closed(n, r)
  BY <1>0, <1>3, HolePut
<1>5. Keeps(o, n, r, hi)
  BY <1>4
<1>6. Keeps(m, n, p, hi)
  <2>1. Keeps(m, o, p, hi)
    BY <1>0, <1>2, KeepsMore
  <2>2. Keeps(o, n, p, hi)
    BY <1>0, <1>3, <1>5, KeepsMore
  <2> QED
    BY <2>1, <2>2, KeepsBoth
<1>7. p + want <= r
  BY <1>0
<1>8. BlockAt(n, p, want) /\ Closed(n, p)
  BY <1>0, <1>1, <1>5, <1>7, BlockStays
<1> QED
  BY <1>4, <1>6, <1>8

\* The hole at h becomes a block and a hole behind it.
LEMMA SplitHole ==
    ASSUME NEW m, NEW B, NEW H, NEW e, Whole(m, B, H, e), START + e <= WORD, NEW h \in H,
           NEW want \in Nat, want >= OVERHEAD, NEW len \in Nat, len >= OVERHEAD,
           Length(m, h) = want + len, NEW r, r = h + want,
           NEW o, o = PutBlock(m, h, want), NEW n, n = PutHole(o, r, len),
           NEW B2, \A x : x \in B2 <=> x \in B \/ x = h,
           NEW H2, \A x : x \in H2 <=> (x \in H /\ x # h) \/ x = r
    PROVE  /\ Whole(n, B2, H2, e) /\ r \notin B \cup H
           /\ \A x \in B : Length(n, x) = Length(m, x)
           /\ Length(n, h) = want
<1>1. Memory(m) /\ h \in Nat /\ Length(m, h) \in Nat /\ h + Length(m, h) <= e /\ e \in Nat
  BY WholeTiles DEF Whole
<1>2. PICK hi : hi = r + len
  OBVIOUS
<1>3. START + hi <= WORD /\ hi = h + Length(m, h) /\ Length(m, h) - want = len
  BY <1>1, <1>2, Constants
<1>4. /\ Memory(n) /\ Keeps(m, n, h, hi)
      /\ BlockAt(n, h, want) /\ Closed(n, h)
      /\ HoleAt(n, r, len) /\ Closed(n, r)
  BY <1>1, <1>2, <1>3, BlockAndHole
<1>5. Keeps(m, n, h, h + Length(m, h)) /\ Length(m, h) - want >= OVERHEAD
  BY <1>3, <1>4
<1>6. HoleAt(n, r, Length(m, h) - want)
  BY <1>3, <1>4
<1>7. Length(n, h) = want
  BY <1>4 DEF BlockAt
<1>8. Whole(n, B2, H2, e) /\ r \notin B \cup H /\ \A x \in B : Length(n, x) = Length(m, x)
  BY <1>4, <1>5, <1>6, CarveTile
<1> QED
  BY <1>7, <1>8

\* The hole at h becomes a hole in front, a block, and a hole behind it.
\* T is S with x.
Adds(S, x, T) == \A y : y \in T <=> y \in S \/ y = x

\* n is m once the hole at h is cut into a hole, a block at p and a hole at r.
Middled(m, h, front, p, want, r, behind, n) ==
    /\ p = h + front /\ r = p + want /\ Length(m, h) = front + want + behind
    /\ n = PutHole(PutBlock(PutFooter(PutHeader(m, h, TRUE, front), p - FTR, h), p, want), r, behind)

LEMMA MiddleHole ==
    ASSUME NEW m, NEW B, NEW H, NEW e, Whole(m, B, H, e), START + e <= WORD, NEW h \in Nat, h \in H,
           NEW front \in Nat, front >= OVERHEAD, NEW want \in Nat, want >= OVERHEAD,
           NEW behind \in Nat, behind >= OVERHEAD,
           NEW p \in Nat, NEW r \in Nat, NEW n, Middled(m, h, front, p, want, r, behind, n),
           NEW B2, Adds(B, p, B2), NEW H2, Adds(H, r, H2)
    PROVE  /\ Whole(n, B2, H2, e) /\ p \notin B \cup H /\ r \notin B \cup H
           /\ \A x \in B : Length(n, x) = Length(m, x)
           /\ Length(n, p) = want
<1>1. Memory(m) /\ h \in Nat /\ Length(m, h) \in Nat /\ h + Length(m, h) <= e /\ e \in Nat
  BY WholeTiles DEF Whole
<1>2. PICK hi : hi = r + behind
  OBVIOUS
<1>3. PICK f, m0, m1, m2 :
         /\ p = h + front /\ r = p + want /\ Length(m, h) = front + want + behind
         /\ f = p - FTR /\ m0 = PutHeader(m, h, TRUE, front) /\ m1 = PutFooter(m0, f, h)
         /\ m2 = PutBlock(m1, p, want) /\ n = PutHole(m2, r, behind)
  BY Zenon DEF Middled
<1>4. /\ p \in Nat /\ r \in Nat /\ hi \in Nat /\ h <= p /\ p <= hi /\ hi <= hi /\ h <= h
      /\ f \in Nat /\ h <= f /\ h + HDR <= f /\ f + FTR = p /\ h + front <= p /\ h + front - FTR = f
      /\ START + hi <= WORD /\ h + HDR <= hi /\ h + HDR \in Nat
      /\ Length(m, h) - front - want = behind /\ hi = h + Length(m, h)
  BY <1>3, <1>1, <1>2, Constants
<1>5. Memory(m0) /\ Keeps(m, m0, h, h + HDR) /\ HoleAt(m0, h, front)
  BY <1>3, <1>1, HeaderPut
<1>6. Memory(m0)
  BY <1>5
<1>7. Memory(m1) /\ Keeps(m0, m1, f, f + FTR) /\ FooterAt(m1, f, h)
  BY <1>3, <1>1, <1>4, <1>6, FooterPut
<1>8. h \in DOMAIN m1.header /\ m1.header[h] = m0.header[h]
  BY <1>4, <1>5, <1>7 DEF Keeps, HoleAt
<1>9. HoleAt(m1, h, front)
  BY <1>5, <1>8 DEF HoleAt, Length
<1>10. h + Length(m1, h) - FTR = f
  BY <1>4, <1>9 DEF HoleAt
<1>11. Closed(m1, h)
  BY <1>7, <1>10 DEF Closed, FooterAt
<1>12. Memory(m1)
  BY <1>7
<1>13. /\ Memory(n) /\ Keeps(m1, n, p, hi)
       /\ BlockAt(n, p, want) /\ Closed(n, p)
       /\ HoleAt(n, r, behind) /\ Closed(n, r)
  <2>1. p \in Nat /\ START + hi <= WORD
    BY <1>4
  <2> QED
    BY <1>3, <1>2, <1>12, <2>1, BlockAndHole
<1>14. Keeps(m1, n, p, hi)
  BY <1>13
<1>15. HoleAt(n, h, front) /\ Closed(n, h)
  BY <1>1, <1>4, <1>9, <1>11, <1>14, HoleStays
<1>16. Keeps(m, n, h, hi)
  <2>1. Keeps(m, m0, h, hi)
    BY <1>1, <1>4, <1>5, KeepsMore
  <2>2. Keeps(m0, m1, f, p)
    BY <1>4, <1>7
  <2>3. Keeps(m0, m1, h, hi)
    BY <1>1, <1>4, <1>6, <2>2, KeepsMore
  <2>4. Keeps(m1, n, h, hi)
    BY <1>1, <1>4, <1>12, <1>14, KeepsMore
  <2> QED
    BY <2>1, <2>3, <2>4, KeepsBoth
<1>17. Keeps(m, n, h, h + Length(m, h))
  BY <1>4, <1>16
<1>18. HoleAt(n, r, Length(m, h) - front - want) /\ Length(m, h) - front - want >= OVERHEAD
  BY <1>4, <1>13
<1>19. Length(n, p) = want
  BY <1>13 DEF BlockAt
<1>20. Whole(n, B2, H2, e) /\ r \notin B \cup H /\ p \notin B \cup H /\ \A x \in B : Length(n, x) = Length(m, x)
  <2>1. Memory(n) /\ BlockAt(n, p, want) /\ Closed(n, p) /\ Closed(n, r)
    BY <1>13
  <2>2. p = h + front
    BY <1>3
  <2>3. r = p + want
    BY <1>3
  <2>4. \A x : x \in B2 <=> x \in B \/ x = p
    BY DEF Adds
  <2>5. \A x : x \in H2 <=> x \in H \/ x = r
    BY DEF Adds
  <2> QED
    BY <1>15, <1>17, <1>18, <2>1, <2>2, <2>3, <2>4, <2>5, CarveMiddle
<1> QED
  BY <1>19, <1>20

LEMMA TileIs ==
    ASSUME NEW m, NEW B, NEW H, NEW e, Whole(m, B, H, e), NEW h \in B \cup H
    PROVE  /\ h \in Nat /\ Length(m, h) \in Nat /\ Length(m, h) >= OVERHEAD /\ Length(m, h) > 0
           /\ h + Length(m, h) <= e /\ e \in Nat /\ h \in DOMAIN m.header
<1>1. /\ h \in Nat /\ Length(m, h) \in Nat /\ Length(m, h) >= OVERHEAD
      /\ h + Length(m, h) <= e /\ e \in Nat /\ h \in DOMAIN m.header
  BY WholeTiles
<1>2. Length(m, h) > 0
  BY <1>1, Constants
<1> QED
  BY <1>1, <1>2

LEMMA TilesApart ==
    ASSUME NEW m, NEW B, NEW H, NEW e, Whole(m, B, H, e),
           NEW g \in B \cup H, NEW h \in B \cup H, g < h
    PROVE  g + Length(m, g) <= h
  BY WholeTiles

\* From c up to the new end f is a hole: a last one made longer, or a new one.
Grown(m, H, e, c, f, len, n) ==
    /\ (c = e /\ H = {}) \/ (c \in H /\ c + Length(m, c) = e)
    /\ f >= e /\ f - c >= OVERHEAD /\ START + f <= WORD /\ len = f - c
    /\ n = PutHole(m, c, len)

\* The heap is extended to f: its last hole grows, or there is a new one at its end.
LEMMA Grow ==
    ASSUME NEW m, NEW B, NEW H, NEW e, Whole(m, B, H, e),
           NEW c, NEW f \in Nat, NEW len \in Nat, NEW n, Grown(m, H, e, c, f, len, n),
           NEW H2, Adds(H, c, H2)
    PROVE  /\ Whole(n, B, H2, f) /\ Length(n, c) = len /\ c \notin B
           /\ \A x \in B \cup H : x # c => Length(n, x) = Length(m, x)
<1>1. /\ (c = e /\ H = {}) \/ (c \in H /\ c + Length(m, c) = e)
      /\ f >= e /\ f - c >= OVERHEAD /\ START + f <= WORD /\ len = f - c
      /\ n = PutHole(m, c, len)
      /\ \A x : x \in H2 <=> x \in H \/ x = c
  BY DEF Grown, Adds
<1>2. Memory(m) /\ B \cap H = {}
  BY DEF Whole
<1>3. /\ \A x \in B \cup H : x \in Nat /\ Length(m, x) \in Nat /\ Length(m, x) >= OVERHEAD /\ x + Length(m, x) <= e
      /\ \A x, y \in B \cup H : x < y => x + Length(m, x) <= y
      /\ e \in Nat /\ OVERHEAD \in Nat \ {0} /\ START \in Nat
  BY WholeTiles, Constants
<1>4. c \in Nat /\ c <= e
  BY <1>1, <1>3
<1>5. START + c + len <= WORD /\ len >= OVERHEAD
  BY <1>1, <1>3, <1>4
<1>6. Memory(n) /\ Keeps(m, n, c, c + len) /\ HoleAt(n, c, len) /\ Closed(n, c)
  BY <1>1, <1>2, <1>4, <1>5, HolePut
<1>7. Keeps(m, n, c, f)
  BY <1>1, <1>4, <1>6
<1>8. HoleAt(n, c, f - c)
  BY <1>1, <1>6
<1>9. \A x \in B \cup H : x # c => x < c
  <2> TAKE x \in B \cup H
  <2> HAVE x # c
  <2>1. x \in Nat /\ Length(m, x) \in Nat /\ Length(m, x) > 0 /\ x + Length(m, x) <= e
    BY <1>3
  <2>2. CASE c = e
    BY <1>3, <2>1, <2>2
  <2>3. CASE c \in H /\ c + Length(m, c) = e
    <3>1. c \in B \cup H /\ Length(m, c) \in Nat /\ c + Length(m, c) = e
      BY <1>3, <2>3
    <3>2. c < x => e <= x
      BY <1>3, <3>1
    <3>3. ~(c < x)
      BY <1>3, <2>1, <3>2
    <3> QED
      BY <1>4, <2>1, <3>3
  <2> QED
    BY <1>1, <2>2, <2>3
<1>10. c \notin B
  <2>1. CASE c = e
    BY <1>3, <2>1
  <2>2. CASE c \in H
    BY <1>2, <2>2
  <2> QED
    BY <1>1, <2>1, <2>2
<1>11. \A x : x \in B <=> x \in B /\ x < c
  BY <1>9, <1>10
<1>12. \A x : x \in H2 <=> (x \in H /\ x < c) \/ x = c
  BY <1>1, <1>9, <1>11
<1>13. c \in B \cup H \/ c = e
  BY <1>1
<1>14. c = e => \A h \in H : h + Length(m, h) < e
  <2>1. c = e => c \notin H
    BY <1>1, <1>3
  <2> QED
    BY <1>1, <2>1
<1>15. Memory(n) /\ Closed(n, c)
  BY <1>6
<1>16. Length(n, c) = len
  BY <1>6 DEF HoleAt
<1>17. Whole(n, B, H2, f) /\ \A x \in B : Length(n, x) = Length(m, x)
  <2>1. PICK k : k = n
    OBVIOUS
  <2>2. Memory(k) /\ Closed(k, c)
    BY <1>15, <2>1
  <2>3. Keeps(m, k, c, f)
    BY <1>7, <2>1
  <2>4. HoleAt(k, c, f - c)
    BY <1>8, <2>1
  <2>5. PICK hi \in Nat : hi = f
    OBVIOUS
  <2>6. Keeps(m, k, c, hi)
    BY <2>3, <2>5
  <2>7. f - c >= OVERHEAD
    BY <1>1
  <2>8. Whole(k, B, H2, f) /\ \A x \in B : Length(k, x) = Length(m, x)
    BY <1>11, <1>12, <1>13, <1>14, <2>2, <2>4, <2>6, <2>7, CutHeap
  <2> QED
    BY <2>1, <2>8
<1>18. ASSUME NEW x \in B \cup H, x # c
       PROVE  Length(n, x) = Length(m, x)
  <2>1. x \in Nat /\ Length(m, x) \in Nat /\ x < c /\ x + Length(m, x) <= c /\ c + len \in Nat
    <3>1. x \in Nat /\ Length(m, x) \in Nat /\ x < c /\ x + Length(m, x) <= e
      BY <1>3, <1>9, <1>18
    <3>2. c \in H => x + Length(m, x) <= c
      BY <1>3, <3>1
    <3> QED
      BY <1>1, <1>4, <3>1, <3>2
  <2>2. PICK hi \in Nat : hi = c + len
    BY <2>1
  <2>3. Keeps(m, n, c, hi)
    BY <1>6, <2>2
  <2>4. x \in B \cup H /\ x + Length(m, x) <= c
    BY <1>18, <2>1
  <2> QED
    <3>1. \A h \in B \cup H : h + Length(m, h) <= c \/ hi <= h => Length(n, h) = Length(m, h)
      BY <1>4, <2>3, TileKept
    <3> QED
      BY <2>4, <3>1
<1> QED
  BY <1>16, <1>17, <1>10, <1>18

LEMMA SizeSet ==
    ASSUME NEW m, Memory(m), NEW a \in DOMAIN m.header, NEW len \in Nat, NEW n, n = SetSize(m, a, len)
    PROVE  /\ Memory(n) /\ Keeps(m, n, a, a + HDR) /\ HoleAt(n, a, len)
           /\ DOMAIN n.header = DOMAIN m.header /\ n.footer = m.footer
  BY SetSizeIs DEF HoleAt, Length

\* The block at h becomes a hole of its own.
LEMMA FreeAlone ==
    ASSUME NEW m, NEW B, NEW H, NEW e, Whole(m, B, H, e), NEW h \in B,
           NEW o, o = SetSize(m, h, Length(m, h)), NEW n, n = SetSize(o, h, Length(m, h)),
           NEW B2, \A x : x \in B2 <=> x \in B /\ x # h,
           NEW H2, \A x : x \in H2 <=> x \in H \/ x = h
    PROVE  Whole(n, B2, H2, e) /\ \A x \in B2 : Length(n, x) = Length(m, x)
<1>1. /\ Memory(m) /\ h \in Nat /\ Length(m, h) \in Nat /\ Length(m, h) >= OVERHEAD
      /\ h \in DOMAIN m.header /\ Closed(m, h)
  <2>1. h \in Nat /\ Length(m, h) \in Nat /\ Length(m, h) >= OVERHEAD /\ h \in DOMAIN m.header
    BY WholeTiles
  <2>2. Memory(m) /\ Closed(m, h)
    BY DEF Whole, Footed
  <2> QED
    BY <2>1, <2>2
<1>2. /\ Memory(o) /\ Keeps(m, o, h, h + HDR) /\ HoleAt(o, h, Length(m, h))
      /\ DOMAIN o.header = DOMAIN m.header /\ o.footer = m.footer
  BY <1>1, SizeSet
<1>3. Memory(o) /\ h \in DOMAIN o.header
  BY <1>1, <1>2
<1>4. /\ Memory(n) /\ Keeps(o, n, h, h + HDR) /\ HoleAt(n, h, Length(m, h))
      /\ n.footer = o.footer
  BY <1>1, <1>3, SizeSet
<1>5. Length(n, h) = Length(m, h)
  BY <1>4 DEF HoleAt
<1>6. Closed(n, h)
  BY <1>1, <1>2, <1>4, <1>5 DEF Closed
<1>7. Keeps(m, n, h, h + HDR)
  BY <1>2, <1>4, KeepsBoth
<1>8. h + HDR \in Nat /\ h + Length(m, h) \in Nat /\ h <= h /\ h + HDR <= h + Length(m, h)
  BY <1>1, Constants
<1>9. Keeps(m, n, h, h + Length(m, h))
  BY <1>1, <1>7, <1>8, KeepsMore
<1>10. Memory(n) /\ HoleAt(n, h, Length(m, h))
  BY <1>4
<1> QED
  BY <1>6, <1>9, <1>10, EmptyTile

\* The block at h joins the hole at g before it.
LEMMA FreeBehind ==
    ASSUME NEW m, NEW B, NEW H, NEW e, Whole(m, B, H, e),
           NEW g \in H, NEW h \in B, g + Length(m, g) = h,
           NEW o, o = SetSize(m, h, Length(m, h)),
           NEW f, f = h + Length(m, h) - FTR, NEW q, q = PutFooter(o, f, g),
           NEW len \in Nat, NEW n, n = SetSize(q, g, len)
    PROVE  /\ Memory(n) /\ Keeps(m, n, g, h + Length(m, h)) /\ HoleAt(n, g, len)
           /\ FooterAt(n, f, g)
<1>1. /\ h \in Nat /\ Length(m, h) \in Nat /\ Length(m, h) >= OVERHEAD /\ h \in DOMAIN m.header
      /\ g \in Nat /\ Length(m, g) \in Nat /\ Length(m, g) >= OVERHEAD /\ g \in DOMAIN m.header
  <2>1. h \in B \cup H /\ g \in B \cup H
    OBVIOUS
  <2>2. h \in Nat /\ Length(m, h) \in Nat /\ Length(m, h) >= OVERHEAD /\ h \in DOMAIN m.header
    BY <2>1, TileIs
  <2>3. g \in Nat /\ Length(m, g) \in Nat /\ Length(m, g) >= OVERHEAD /\ g \in DOMAIN m.header
    BY <2>1, TileIs
  <2> QED
    BY <2>2, <2>3
<1>2. Memory(m)
  BY DEF Whole
<1>3. PICK hi \in Nat : hi = h + Length(m, h)
  BY <1>1
<1>4. /\ g <= h /\ h + HDR <= hi /\ h + HDR \in Nat /\ f \in Nat /\ g <= f /\ f + FTR = hi
      /\ g + HDR <= h /\ g + HDR <= f /\ g <= g /\ hi <= hi /\ g + HDR \in Nat /\ g + HDR <= hi
  BY <1>1, <1>3, Constants
<1>5. /\ Memory(o) /\ Keeps(m, o, h, h + HDR)
  BY <1>1, <1>2, SizeSet
<1>6. Memory(o)
  BY <1>5
<1>7. Memory(q) /\ Keeps(o, q, f, f + FTR) /\ FooterAt(q, f, g)
  BY <1>1, <1>4, <1>6, FooterPut
<1>8. g \in DOMAIN o.header
  BY <1>1, <1>4, <1>5 DEF Keeps
<1>9. g \in DOMAIN q.header /\ Memory(q)
  BY <1>4, <1>7, <1>8 DEF Keeps
<1>10. /\ Memory(n) /\ Keeps(q, n, g, g + HDR) /\ HoleAt(n, g, len) /\ n.footer = q.footer
  BY <1>9, SizeSet
<1>11. FooterAt(n, f, g)
  BY <1>7, <1>10 DEF FooterAt
<1>12. Keeps(m, n, g, hi)
  <2>1. Keeps(m, o, g, hi)
    BY <1>1, <1>2, <1>3, <1>4, <1>5, KeepsMore
  <2>2. Keeps(o, q, f, hi)
    BY <1>4, <1>7
  <2>3. Keeps(o, q, g, hi)
    BY <1>1, <1>3, <1>4, <1>6, <2>2, KeepsMore
  <2>4. Keeps(q, n, g, hi)
    BY <1>1, <1>3, <1>4, <1>9, <1>10, KeepsMore
  <2> QED
    BY <2>1, <2>3, <2>4, KeepsBoth
<1> QED
  BY <1>3, <1>10, <1>11, <1>12

LEMMA FreeJoined ==
    ASSUME NEW m, NEW B, NEW H, NEW e, Whole(m, B, H, e),
           NEW g \in H, NEW h \in B, g + Length(m, g) = h,
           NEW o, o = SetSize(m, h, Length(m, h)),
           NEW f, f = h + Length(m, h) - FTR, NEW q, q = PutFooter(o, f, g),
           NEW len, len = Length(m, g) + Length(m, h), NEW n, n = SetSize(q, g, len),
           NEW B2, \A x : x \in B2 <=> x \in B /\ x # h
    PROVE  Whole(n, B2, H, e) /\ \A x \in B2 : Length(n, x) = Length(m, x)
<1>1. /\ h \in Nat /\ Length(m, h) \in Nat /\ g \in Nat /\ Length(m, g) \in Nat
  <2>1. h \in B \cup H /\ g \in B \cup H
    OBVIOUS
  <2>2. h \in Nat /\ Length(m, h) \in Nat
    BY <2>1, TileIs
  <2>3. g \in Nat /\ Length(m, g) \in Nat
    BY <2>1, TileIs
  <2> QED
    BY <2>2, <2>3
<1>2. len \in Nat
  BY <1>1
<1>3. Memory(n) /\ Keeps(m, n, g, h + Length(m, h)) /\ HoleAt(n, g, len) /\ FooterAt(n, f, g)
  BY <1>2, FreeBehind
<1>4. g + len - FTR = f /\ Length(n, g) = len
  BY <1>1, <1>3, Constants DEF HoleAt
<1>5. Closed(n, g)
  BY <1>3, <1>4 DEF Closed, FooterAt
<1>6. HoleAt(n, g, Length(m, g) + Length(m, h))
  BY <1>3
<1>7. Memory(n) /\ Keeps(m, n, g, h + Length(m, h))
  BY <1>3
<1>8. PICK k : k = n
  OBVIOUS
<1>9. Closed(k, g) /\ HoleAt(k, g, Length(m, g) + Length(m, h))
  BY <1>5, <1>6, <1>8
<1>10. Memory(k) /\ Keeps(m, k, g, h + Length(m, h))
  BY <1>7, <1>8
<1>11. Whole(k, B2, H, e) /\ \A x \in B2 : Length(k, x) = Length(m, x)
  BY <1>9, <1>10, JoinTile
<1> QED
  BY <1>8, <1>11

\* The heap's last tiles, from the one at c, become one hole up to f.
LEMMA Shrink ==
    ASSUME NEW m, NEW B, NEW H, NEW e, Whole(m, B, H, e), NEW c \in B \cup H,
           NEW o, Memory(o), Keeps(m, o, c, e),
           NEW f \in Nat, f <= e, f - c >= OVERHEAD, START + f <= WORD,
           NEW len \in Nat, len = f - c, NEW n, n = PutHole(o, c, len),
           NEW B2, \A x : x \in B2 <=> x \in B /\ x < c,
           NEW H2, \A x : x \in H2 <=> (x \in H /\ x < c) \/ x = c
    PROVE  Whole(n, B2, H2, f) /\ \A x \in B2 : Length(n, x) = Length(m, x)
<1>1. Memory(m)
  BY DEF Whole
<1>2. c \in Nat /\ e \in Nat /\ c + Length(m, c) <= e /\ Length(m, c) \in Nat /\ Length(m, c) > 0
  BY TileIs
<1>3. START + c + len <= WORD /\ len >= OVERHEAD /\ c + len \in Nat /\ c + len <= e /\ c <= c /\ c + len = f /\ c < e
  BY <1>2, Constants
<1>4. Memory(n) /\ Keeps(o, n, c, c + len) /\ HoleAt(n, c, len) /\ Closed(n, c)
  BY <1>2, <1>3, HolePut
<1>5. Keeps(o, n, c, e)
  BY <1>2, <1>3, <1>4, KeepsMore
<1>6. Keeps(m, n, c, e)
  BY <1>5, KeepsBoth
<1>7. HoleAt(n, c, f - c)
  BY <1>4
<1>8. Memory(n) /\ Closed(n, c)
  BY <1>4
<1>9. ~(c = e) /\ e \in Nat
  BY <1>2, <1>3
<1>10. c \in B \cup H \/ c = e
  OBVIOUS
<1>11. c = e => \A h \in H : h + Length(m, h) < e
  BY <1>9
<1>12. PICK k : k = n
  OBVIOUS
<1>13. PICK hi \in Nat : hi = e
  BY <1>9
<1>14. Keeps(m, k, c, hi) /\ HoleAt(k, c, f - c)
  BY <1>6, <1>7, <1>12, <1>13
<1>15. Memory(k) /\ Closed(k, c)
  BY <1>8, <1>12
<1>16. Whole(k, B2, H2, f) /\ \A x \in B2 : Length(k, x) = Length(m, x)
  BY <1>10, <1>11, <1>14, <1>15, CutHeap
<1> QED
  BY <1>12, <1>16

\* The block at h, followed by the last hole only, becomes the last hole, up to f.
LEMMA FreeLast ==
    ASSUME NEW m, NEW B, NEW H, NEW e, Whole(m, B, H, e), START + e <= WORD,
           NEW h \in B, NEW z \in H, h + Length(m, h) = z, z + Length(m, z) = e,
           NEW o, o = SetSize(m, h, Length(m, h)),
           NEW len, len = Length(m, h) + Length(m, z), NEW q, q = SetSize(o, h, len),
           NEW f \in Nat, f <= e, f - h >= OVERHEAD,
           NEW len2 \in Nat, len2 = f - h, NEW n, n = PutHole(q, h, len2),
           NEW B2, \A x : x \in B2 <=> x \in B /\ x # h,
           NEW H2, \A x : x \in H2 <=> (x \in H /\ x # z) \/ x = h
    PROVE  /\ Whole(n, B2, H2, f) /\ \A x \in B2 : Length(n, x) = Length(m, x)
           /\ Length(q, h) = e - h
<1>1. /\ h \in Nat /\ Length(m, h) \in Nat /\ Length(m, h) >= OVERHEAD /\ h \in DOMAIN m.header
      /\ z \in Nat /\ Length(m, z) \in Nat /\ Length(m, z) >= OVERHEAD /\ e \in Nat
  <2>1. h \in B \cup H /\ z \in B \cup H
    OBVIOUS
  <2>2. h \in Nat /\ Length(m, h) \in Nat /\ Length(m, h) >= OVERHEAD /\ h \in DOMAIN m.header /\ e \in Nat
    BY <2>1, TileIs
  <2>3. z \in Nat /\ Length(m, z) \in Nat /\ Length(m, z) >= OVERHEAD /\ z \in DOMAIN m.header /\ e \in Nat
    BY <2>1, TileIs
  <2> QED
    BY <2>2, <2>3
<1>2. Memory(m) /\ B \cap H = {}
  BY DEF Whole
<1>3. len \in Nat /\ len = e - h /\ h + HDR \in Nat /\ h + HDR <= e /\ h <= h /\ START + f <= WORD /\ h < z
  BY <1>1, Constants
<1>4. Memory(o) /\ Keeps(m, o, h, h + HDR) /\ DOMAIN o.header = DOMAIN m.header
  BY <1>1, <1>2, SizeSet
<1>5. Memory(o) /\ h \in DOMAIN o.header
  BY <1>1, <1>4
<1>6. Memory(q) /\ Keeps(o, q, h, h + HDR) /\ HoleAt(q, h, len)
  BY <1>3, <1>5, SizeSet
<1>7. Keeps(m, q, h, h + HDR)
  BY <1>4, <1>6, KeepsBoth
<1>8. Keeps(m, q, h, e)
  BY <1>1, <1>2, <1>3, <1>7, KeepsMore
<1>9. Length(q, h) = e - h
  BY <1>3, <1>6 DEF HoleAt
<1>10. \A x \in B \cup H : x # h /\ x # z => x < h
  <2> TAKE x \in B \cup H
  <2> HAVE x # h /\ x # z
  <2>1. \A y \in B \cup H : y < x => y + Length(m, y) <= x
    BY TilesApart
  <2>2. x \in Nat /\ x + Length(m, x) <= e /\ Length(m, x) \in Nat /\ Length(m, x) > 0
    BY TileIs
  <2>3. h < x => z <= x
    BY <2>1
  <2>4. z < x => e <= x
    BY <2>1
  <2> QED
    BY <1>1, <2>2, <2>3, <2>4
<1>a. h \notin H /\ z \notin B
  BY <1>2
<1>b. ~(h < h) /\ ~(z < h)
  BY <1>1, <1>3
<1>11. \A x : x \in B2 <=> x \in B /\ x < h
  BY <1>10, <1>a, <1>b
<1>12. \A x : x \in H2 <=> (x \in H /\ x < h) \/ x = h
  BY <1>10, <1>a, <1>b
<1>13. Memory(q)
  BY <1>6
<1>14. START + f <= WORD /\ h \in B \cup H
  BY <1>3
<1>15. Whole(n, B2, H2, f) /\ \A x \in B2 : Length(n, x) = Length(m, x)
  <2>1. PICK k : k = q
    OBVIOUS
  <2>2. Memory(k) /\ Keeps(m, k, h, e) /\ n = PutHole(k, h, len2)
    BY <1>8, <1>13, <2>1
  <2> QED
    BY <1>11, <1>12, <1>14, <2>2, Shrink
<1> QED
  BY <1>9, <1>15

\* The same, with a hole before the block.
LEMMA FreeBeforeLast ==
    ASSUME NEW m, NEW B, NEW H, NEW e, Whole(m, B, H, e), START + e <= WORD,
           NEW g \in H, NEW h \in B, g + Length(m, g) = h,
           NEW z \in H, h + Length(m, h) = z, z + Length(m, z) = e,
           NEW o, o = SetSize(m, h, Length(m, h)),
           NEW u, u = h + Length(m, h) - FTR, NEW q, q = PutFooter(o, u, g),
           NEW len, len = Length(m, h) + Length(m, g) + Length(m, z), NEW s, s = SetSize(q, g, len),
           NEW f \in Nat, f <= e, f - g >= OVERHEAD,
           NEW len2 \in Nat, len2 = f - g, NEW n, n = PutHole(s, g, len2),
           NEW B2, \A x : x \in B2 <=> x \in B /\ x # h,
           NEW H2, \A x : x \in H2 <=> x \in H /\ x # z
    PROVE  /\ Whole(n, B2, H2, f) /\ \A x \in B2 : Length(n, x) = Length(m, x)
           /\ Length(s, g) = e - g
<1>1. /\ h \in Nat /\ Length(m, h) \in Nat /\ Length(m, h) >= OVERHEAD
      /\ g \in Nat /\ Length(m, g) \in Nat /\ Length(m, g) >= OVERHEAD
      /\ z \in Nat /\ Length(m, z) \in Nat /\ Length(m, z) >= OVERHEAD /\ e \in Nat
  <2>1. h \in B \cup H /\ g \in B \cup H /\ z \in B \cup H
    OBVIOUS
  <2>2. h \in Nat /\ Length(m, h) \in Nat /\ Length(m, h) >= OVERHEAD /\ h \in DOMAIN m.header /\ e \in Nat
    BY <2>1, TileIs
  <2>3. g \in Nat /\ Length(m, g) \in Nat /\ Length(m, g) >= OVERHEAD /\ g \in DOMAIN m.header /\ e \in Nat
    BY <2>1, TileIs
  <2>4. z \in Nat /\ Length(m, z) \in Nat /\ Length(m, z) >= OVERHEAD /\ z \in DOMAIN m.header /\ e \in Nat
    BY <2>1, TileIs
  <2> QED
    BY <2>2, <2>3, <2>4
<1>2. Memory(m) /\ B \cap H = {}
  BY DEF Whole
<1>3. /\ len \in Nat /\ len = e - g /\ START + f <= WORD /\ g < h /\ h < z /\ z <= e /\ g <= g
      /\ h + Length(m, h) \in Nat /\ h + Length(m, h) <= e
  BY <1>1, Constants
<1>4. len \in Nat
  BY <1>3
<1>5. Memory(s) /\ Keeps(m, s, g, h + Length(m, h)) /\ HoleAt(s, g, len)
  BY <1>4, FreeBehind
<1>8. Keeps(m, s, g, e)
  BY <1>1, <1>2, <1>3, <1>5, KeepsMore
<1>9. Length(s, g) = e - g
  BY <1>3, <1>5 DEF HoleAt
<1>10. \A x \in B \cup H : x # g /\ x # h /\ x # z => x < g
  <2> TAKE x \in B \cup H
  <2> HAVE x # g /\ x # h /\ x # z
  <2>1. \A y \in B \cup H : y < x => y + Length(m, y) <= x
    BY TilesApart
  <2>2. x \in Nat /\ x + Length(m, x) <= e /\ Length(m, x) \in Nat /\ Length(m, x) > 0
    BY TileIs
  <2>3. h < x => z <= x
    BY <2>1
  <2>4. z < x => e <= x
    BY <2>1
  <2>5. g < x => h <= x
    BY <2>1
  <2> QED
    BY <1>1, <2>2, <2>3, <2>4, <2>5
<1>a. h \notin H /\ z \notin B /\ g \notin B
  BY <1>2
<1>b. ~(h < g) /\ ~(z < g) /\ ~(g < g) /\ g # z
  BY <1>1, <1>3
<1>11. \A x : x \in B2 <=> x \in B /\ x < g
  BY <1>10, <1>a, <1>b
<1>12. \A x : x \in H2 <=> (x \in H /\ x < g) \/ x = g
  BY <1>10, <1>a, <1>b
<1>13. Memory(s)
  BY <1>5
<1>14. START + f <= WORD /\ g \in B \cup H
  BY <1>3
<1>15. Whole(n, B2, H2, f) /\ \A x \in B2 : Length(n, x) = Length(m, x)
  <2>1. PICK k : k = s
    OBVIOUS
  <2>2. Memory(k) /\ Keeps(m, k, g, e) /\ n = PutHole(k, g, len2)
    BY <1>8, <1>13, <2>1
  <2> QED
    BY <1>11, <1>12, <1>14, <2>2, Shrink
<1> QED
  BY <1>9, <1>15

(***************************************************************************)
(* Pages.                                                                   *)
(***************************************************************************)
LEMMA PageIs ==
    ASSUME NEW a \in Nat
    PROVE  /\ Page(a) \in Nat /\ PAGE * Page(a) <= a /\ a < (PAGE * Page(a)) + PAGE
           /\ PAGE * Page(a) \in Nat
<1>1. PAGE \in Nat /\ PAGE > 0
  BY Constants
<1>2. \A n \in Nat \ {0} : a \div n \in Nat /\ n * (a \div n) <= a /\ a < (n * (a \div n)) + n /\ n * (a \div n) \in Nat
  OBVIOUS
<1> QED
  BY <1>1, <1>2 DEF Page

\* The page of an address is the only one around it.
LEMMA PageBetween ==
    ASSUME NEW a \in Nat, NEW k \in Nat, PAGE * k <= a, a < (PAGE * k) + PAGE
    PROVE  Page(a) = k
<1>1. /\ Page(a) \in Nat /\ PAGE * Page(a) <= a /\ a < (PAGE * Page(a)) + PAGE
  BY PageIs
<1>2. PAGE \in Nat \ {0}
  BY Constants
<1>3. \A n \in Nat \ {0}, j, l \in Nat : j < l => (n * j) + n <= n * l
  OBVIOUS
<1>4. PAGE * Page(a) \in Nat /\ PAGE * k \in Nat
  BY <1>1, <1>2
<1>5. Page(a) < k => (PAGE * Page(a)) + PAGE <= PAGE * k
  BY <1>1, <1>2, <1>3
<1>6. k < Page(a) => (PAGE * k) + PAGE <= PAGE * Page(a)
  BY <1>1, <1>2, <1>3
<1> QED
  BY <1>1, <1>2, <1>4, <1>5, <1>6

LEMMA PageOrder ==
    ASSUME NEW a \in Nat, NEW b \in Nat, a <= b
    PROVE  Page(a) <= Page(b)
<1>1. /\ Page(a) \in Nat /\ PAGE * Page(a) <= a
      /\ Page(b) \in Nat /\ b < (PAGE * Page(b)) + PAGE
  BY PageIs
<1>2. PAGE \in Nat \ {0} /\ PAGE * Page(a) \in Nat /\ PAGE * Page(b) \in Nat
  BY <1>1, Constants, PageIs
<1>3. \A n \in Nat \ {0}, j, l \in Nat : j < l => (n * j) + n <= n * l
  OBVIOUS
<1>4. Page(b) < Page(a) => (PAGE * Page(b)) + PAGE <= PAGE * Page(a)
  BY <1>1, <1>2, <1>3
<1> QED
  BY <1>1, <1>2, <1>4

LEMMA WholePages ==
    ASSUME NEW a \in Nat, a % PAGE = 0
    PROVE  a = PAGE * Page(a)
<1>1. \A n \in Nat \ {0} : a % n = 0 => a = n * (a \div n)
  OBVIOUS
<1> QED
  BY <1>1, Constants DEF Page

LEMMA PagesBelow ==
    ASSUME NEW e \in Nat, e > 0
    PROVE  PagesOf(0, e) = 0..Page(e - 1) /\ \A a \in Nat : a < e => Page(a) \in PagesOf(0, e)
<1>1. Page(0) = 0
  BY PageBetween, Constants
<1>2. \A a \in Nat : a < e => Page(a) \in Nat /\ Page(a) <= Page(e - 1)
  BY PageOrder, PageIs
<1>3. Page(e - 1) \in Nat
  BY PageIs
<1> QED
  BY <1>1, <1>2, <1>3 DEF PagesOf

\* expand gives every page from the old end to the new one a frame, but perhaps
\* not the last one.
LEMMA ExpansionCovers ==
    ASSUME end \in Nat, end > 0, NEW n \in Nat, end <= n, NEW F, PagesOf(0, end) \subseteq F
    PROVE  PagesOf(0, n) \ (F \cup ExpansionPages(n)) \subseteq {Page(n - 1)}
<1>0. PagesOf(0, n) = 0..Page(n - 1) /\ PagesOf(0, end) = 0..Page(end - 1)
  <2>1. n > 0
    OBVIOUS
  <2> QED
    BY <2>1, PagesBelow
<1>1. /\ Page(end) \in Nat /\ PAGE * Page(end) <= end /\ end < (PAGE * Page(end)) + PAGE
      /\ Page(end - 1) \in Nat /\ end - 1 < (PAGE * Page(end - 1)) + PAGE
      /\ PAGE * Page(end) \in Nat /\ PAGE * Page(end - 1) \in Nat
  BY PageIs
<1>2. PAGE \in Nat \ {0} /\ n - 1 \in Nat
  BY Constants
<1>3. PAGE * Page(n - 1) <= n - 1 /\ Page(n - 1) \in Nat /\ PAGE * Page(n - 1) \in Nat
  BY <1>2, PageIs
<1> SUFFICES ASSUME NEW k \in 0..Page(n - 1), k # Page(n - 1), k \notin 0..Page(end - 1)
             PROVE  k \in ExpansionPages(n)
  BY <1>0
<1>4. k \in Nat /\ k < Page(n - 1) /\ Page(end - 1) < k
  BY <1>1, <1>3
<1>5. \A p \in Nat \ {0}, j, l \in Nat : j < l => (p * j) + p <= p * l
  OBVIOUS
<1>6. PAGE * k \in Nat /\ (PAGE * k) + PAGE <= n - 1
  <2>1. (PAGE * k) + PAGE <= PAGE * Page(n - 1)
    BY <1>2, <1>3, <1>4, <1>5
  <2>2. PAGE * k \in Nat
    BY <1>2, <1>4
  <2> QED
    BY <1>2, <1>3, <2>1, <2>2
<1>7. Page(end) <= k
  <2>1. (PAGE * Page(end - 1)) + PAGE <= PAGE * k
    BY <1>1, <1>2, <1>4, <1>5
  <2>2. end <= PAGE * k
    BY <1>1, <1>2, <1>6, <2>1
  <2>3. k < Page(end) => (PAGE * k) + PAGE <= PAGE * Page(end)
    BY <1>1, <1>2, <1>4, <1>5
  <2> QED
    BY <1>1, <1>2, <1>4, <1>6, <2>2, <2>3
<1>8. PICK j \in Nat : k = Page(end) + j
  <2>1. k - Page(end) \in Nat /\ k = Page(end) + (k - Page(end))
    BY <1>1, <1>4, <1>7
  <2> QED
    BY <2>1
<1>9. PICK a \in Nat : a = end + (j * PAGE) /\ PAGE * k <= a /\ a < (PAGE * k) + PAGE
  <2>1. \A p, l, i \in Nat : (p * l) + (i * p) = p * (l + i) /\ i * p \in Nat
    OBVIOUS
  <2>2. (PAGE * Page(end)) + (j * PAGE) = PAGE * k /\ j * PAGE \in Nat
    BY <1>1, <1>2, <1>8, <2>1
  <2>3. end + (j * PAGE) \in Nat /\ PAGE * k <= end + (j * PAGE) /\ end + (j * PAGE) < (PAGE * k) + PAGE
    BY <1>1, <1>2, <1>6, <2>2
  <2> QED
    BY <2>3
<1>10. Page(a) = k
  BY <1>4, <1>9, PageBetween
<1>11. j \in 0..Page(n) /\ end + (j * PAGE) < n
  <2>1. n - 1 <= n
    OBVIOUS
  <2>2. Page(n - 1) <= Page(n)
    BY <1>2, <2>1, PageOrder
  <2>3. Page(n) \in Nat
    BY PageIs
  <2>4. a < n
    BY <1>2, <1>6, <1>9
  <2> QED
    BY <1>1, <1>3, <1>4, <1>8, <1>9, <2>2, <2>3, <2>4
<1> QED
  BY <1>9, <1>10, <1>11 DEF ExpansionPages

LEMMA ExpansionIsPages ==
    ASSUME end \in Nat, NEW n
    PROVE  ExpansionPages(n) \subseteq Nat
<1> SUFFICES ASSUME NEW j \in 0..Page(n) PROVE Page(end + (j * PAGE)) \in Nat
  BY DEF ExpansionPages
<1>1. j \in Nat
  OBVIOUS
<1>2. j * PAGE \in Nat
  BY <1>1, Constants
<1> QED
  BY <1>2, PageIs

\* contract takes no frame from a page below the new end.
LEMMA ContractionSpares ==
    ASSUME end \in Nat, NEW n \in Nat, n % PAGE = 0, n > 0, NEW k \in PagesOf(0, n)
    PROVE  k \notin ContractionPages(n)
<1> SUFFICES ASSUME NEW j \in 1..Page(end), n < end - (j * PAGE), k = Page(end - (j * PAGE)) PROVE FALSE
  BY DEF ContractionPages
<1>1. j \in Nat /\ PAGE \in Nat
  BY Constants
<1>2. j * PAGE \in Nat
  BY <1>1
<1>3. PICK a \in Nat : a = end - (j * PAGE) /\ n <= a
  BY <1>2
<1>4. Page(n) <= k
  BY <1>3, PageOrder
<1>5. k \in 0..Page(n - 1)
  BY PagesBelow
<1>6. n = PAGE * Page(n) /\ Page(n) \in Nat
  BY WholePages, PageIs
<1>7. n - 1 \in Nat /\ PAGE * Page(n - 1) <= n - 1 /\ Page(n - 1) \in Nat /\ PAGE * Page(n - 1) \in Nat
  BY PageIs
<1>8. \A p, i, l \in Nat : l <= i => p * l <= p * i
  OBVIOUS
<1>9. Page(n) <= Page(n - 1)
  BY <1>4, <1>5, <1>6, <1>7
<1>10. PAGE * Page(n) <= PAGE * Page(n - 1)
  BY <1>1, <1>6, <1>7, <1>8, <1>9
<1> QED
  BY <1>6, <1>7, <1>10

(***************************************************************************)
(* The blocks handed out.                                                   *)
(***************************************************************************)
LEMMA RequestIs ==
    ASSUME NEW r \in Request
    PROVE  r.size \in Nat /\ r.page_align \in BOOLEAN
  BY RequestAssumption

LEMMA AnswersKept ==
    ASSUME NEW l, NEW m, Answers(l, m), NEW n,
           \A x \in Headers(l) : Length(n, x) = Length(m, x)
    PROVE  Answers(l, n)
<1>1. \A p \in DOMAIN l : p - HDR \in Headers(l)
  BY DEF Headers
<1>2. \A p \in DOMAIN l : Length(n, p - HDR) = Length(m, p - HDR)
  BY <1>1
<1> QED
  BY <1>2 DEF Answers

LEMMA AnswersMore ==
    ASSUME NEW l, NEW m, Answers(l, m), NEW n,
           \A x \in Headers(l) : Length(n, x) = Length(m, x),
           NEW p \in Nat, NEW r \in Request, r.size + OVERHEAD <= Length(n, p - HDR),
           r.page_align => p % PAGE = 0
    PROVE  /\ Answers(With(l, p, r), n)
           /\ \A x : x \in Headers(With(l, p, r)) <=> x \in Headers(l) \/ x = p - HDR
<1> DEFINE k == With(l, p, r)
<1>1. DOMAIN k = DOMAIN l \cup {p} /\ k[p] = r /\ \A q \in DOMAIN l : q # p => k[q] = l[q]
  BY DEF With
<1> HIDE DEF k
<1>2. Answers(l, n)
  BY AnswersKept
<1>3. Answers(k, n)
  <2> SUFFICES ASSUME NEW q \in DOMAIN k
               PROVE  /\ q \in Nat /\ k[q] \in Request /\ k[q].size + OVERHEAD <= Length(n, q - HDR)
                      /\ k[q].page_align => q % PAGE = 0
    BY Zenon DEF Answers
  <2>1. CASE q = p
    BY <1>1, <2>1
  <2>2. CASE q \in DOMAIN l /\ q # p
    BY <1>1, <1>2, <2>2, Zenon DEF Answers
  <2> QED
    BY <1>1, <2>1, <2>2
<1>4. \A x : x \in Headers(k) <=> x \in Headers(l) \/ x = p - HDR
  BY <1>1 DEF Headers
<1> QED
  BY <1>3, <1>4 DEF k

LEMMA AnswersLess ==
    ASSUME NEW l, NEW m, Answers(l, m), NEW p \in DOMAIN l,
           NEW k, k = [q \in DOMAIN l \ {p} |-> l[q]], NEW n,
           \A x \in Headers(k) : Length(n, x) = Length(m, x)
    PROVE  /\ Answers(k, n)
           /\ \A x : x \in Headers(k) <=> x \in Headers(l) /\ x # p - HDR
<1>1. DOMAIN k = DOMAIN l \ {p} /\ \A q \in DOMAIN k : k[q] = l[q]
  OBVIOUS
<1>2. Answers(k, m)
  BY <1>1, Zenon DEF Answers
<1>3. Answers(k, n)
  BY <1>2, AnswersKept
<1>4. \A q \in DOMAIN l : q \in Nat
  BY DEF Answers
<1>5. \A q \in DOMAIN l : q - HDR = p - HDR <=> q = p
  BY <1>4, Constants
<1>6. \A x : x \in Headers(k) <=> x \in Headers(l) /\ x # p - HDR
  BY <1>1, <1>5 DEF Headers
<1> QED
  BY <1>3, <1>6

LEMMA BlocksAre == Blocks = Headers(live)
  BY DEF Blocks, Headers

LEMMA HolesAre ==
    ASSUME Sound
    PROVE  /\ \A i \in DOMAIN index : index[i] \in Holes
           /\ \A x \in Holes : \E i \in DOMAIN index : index[i] = x
           /\ index = <<>> <=> Holes = {}
           /\ Holes \subseteq Nat
<1>1. index \in Seq(Nat)
  BY DEF Sound, Listed
<1>2. \A x : x \in Holes <=> \E i \in DOMAIN index : index[i] = x
  BY DEF Holes, Range
<1>3. Len(index) \in Nat /\ DOMAIN index = 1..Len(index) /\ \A i \in 1..Len(index) : index[i] \in Nat
  BY <1>1, LenProperties, ElementOfSeq
<1>4. index = <<>> <=> Len(index) = 0
  BY <1>1, EmptySeq
<1>5. Len(index) = 0 <=> Holes = {}
  <2>1. ASSUME Len(index) # 0 PROVE Holes # {}
    <3>1. 1 \in DOMAIN index
      BY <1>3, <2>1
    <3> QED
      BY <1>2, <3>1
  <2>2. ASSUME Len(index) = 0 PROVE Holes = {}
    <3>1. DOMAIN index = {}
      BY <1>3, <2>2
    <3> QED
      BY <1>2, <3>1
  <2> QED
    BY <2>1, <2>2
<1>6. Holes \subseteq Nat
  BY <1>2, <1>3
<1> QED
  BY <1>2, <1>4, <1>5, <1>6

(***************************************************************************)
(* The steps.                                                               *)
(***************************************************************************)
LEMMA InitHolds == Init => Sound
<1> SUFFICES ASSUME Init PROVE Sound
  OBVIOUS
<1>1. /\ mem = [header |-> [h \in {0} |-> [is_hole |-> TRUE, size |-> InitialSize]], footer |-> <<>>]
      /\ index = <<0>> /\ end = InitialSize /\ live = <<>>
  BY DEF Init, create_heap
<1>2. mem.header = [h \in {0} |-> [is_hole |-> TRUE, size |-> InitialSize]] /\ mem.footer = <<>>
  BY <1>1
<1>3. DOMAIN mem.header = {0} /\ DOMAIN mem.footer = {} /\ mem.header[0].is_hole /\ mem.header[0].size = InitialSize
      /\ mem.header[0] \in [is_hole : BOOLEAN, size : Nat]
  BY <1>2, Constants
<1>4. Memory(mem)
  BY <1>1, <1>3 DEF Memory
<1>5. Blocks = {} /\ Holes = {0}
  BY <1>1 DEF Blocks, Holes, Range
<1>6. InitialSize \in Nat /\ InitialSize > 0 /\ OVERHEAD <= InitialSize /\ HEAP_MIN_SIZE <= InitialSize
      /\ START + InitialSize <= WORD /\ InitialSize % PAGE = 0
  BY SizeAssumption, MinimumAssumption, Constants
<1>7. Tiling([h \in Blocks \cup Holes |-> Length(mem, h)], end)
  <2> DEFINE s == [h \in Blocks \cup Holes |-> Length(mem, h)]
  <2>1. DOMAIN s = {0} /\ s[0] = InitialSize
    BY <1>3, <1>5 DEF Length
  <2> HIDE DEF s
  <2>2. Tiling(s, end)
    BY <1>1, <1>6, <2>1 DEF Tiling
  <2> QED
    BY <2>2 DEF s
<1>8. Marked(mem, Blocks, Holes)
  BY <1>3, <1>5 DEF Marked
<1>9. Footed(mem, Blocks, Holes, end)
  BY <1>1, <1>3, <1>5, <1>6 DEF Footed, Length
<1>10. Whole(mem, Blocks, Holes, end)
  BY <1>4, <1>5, <1>7, <1>8, <1>9 DEF Whole
<1>11. Listed
  BY <1>1 DEF Listed, Once
<1>12. Backed
  <2>1. framed = present /\ present = PagesOf(0, end)
    BY <1>1 DEF Init
  <2>2. PagesOf(0, end) \subseteq Nat
    <3>1. end \in Nat /\ end > 0
      BY <1>1, <1>6
    <3>2. PagesOf(0, end) = 0..Page(end - 1)
      BY <3>1, PagesBelow
    <3>3. Page(end - 1) \in Nat
      BY <3>1, PageIs
    <3> QED
      BY <3>2, <3>3
  <2> QED
    BY <1>1, <1>6, <2>1, <2>2 DEF Backed
<1>13. Answers(live, mem)
  BY <1>1 DEF Answers
<1>14. Serving
  BY RequestAssumption DEF Serving, Init
<1> QED
  BY <1>10, <1>11, <1>12, <1>13, <1>14 DEF Sound

\* What is serviceable depends on the tags, the index and the heap's end.
LEMMA ServiceableStays ==
    ASSUME NEW r \in Request, mem' = mem, index' = index, end' = end
    PROVE  Serviceable(r)' = Serviceable(r)
<1>1. Fitting(r)' = Fitting(r) /\ find_smallest_hole(r)' = find_smallest_hole(r)
  BY Zenon DEF Fitting, Fits, Size, find_smallest_hole
<1>2. Endmost' = Endmost /\ LastHole' = LastHole
  BY Zenon DEF Endmost, LastHole, Holes, Size
<1>3. \A h : Size(h)' = Size(h)
  BY DEF Size
<1> QED
  BY <1>1, <1>2, <1>3, Zenon DEF Serviceable

LEMMA AllocHolds ==
    ASSUME Sound, NEW r \in Request, Serviceable(r), Alloc(r)
    PROVE  Sound'
<1>1. /\ mem' = mem /\ index' = index /\ end' = end /\ present' = present /\ framed' = framed
      /\ live' = live /\ req' = r /\ pc' = "alloc" /\ allocs < MaxAllocs /\ allocs' = allocs + 1
  BY DEF Alloc, heapVars
<1>2. Blocks' = Blocks /\ Holes' = Holes
  BY <1>1 DEF Blocks, Holes
<1>3. Whole(mem, Blocks, Holes, end)'
  BY <1>1, <1>2 DEF Sound
<1>4. Listed' /\ Backed' /\ Answers(live, mem)'
  BY <1>1 DEF Sound, Listed, Backed
<1>5. Serviceable(req)'
  BY <1>1, ServiceableStays
<1>6. allocs' \in 0..MaxAllocs
  BY <1>1, RequestAssumption DEF Sound, Serving
<1>7. Serving'
  BY <1>1, <1>5, <1>6 DEF Serving
<1> QED
  BY <1>3, <1>4, <1>7 DEF Sound

\* An index that lists the holes it listed and one more.
LEMMA IndexWithIs ==
    ASSUME NEW x \in Nat, NEW idx \in Seq(Nat), Once(idx), x \notin Range(idx), NEW m
    PROVE  /\ IndexWith(x, idx, m) \in Seq(Nat) /\ Once(IndexWith(x, idx, m))
           /\ \A y : y \in Range(IndexWith(x, idx, m)) <=> y \in Range(idx) \/ y = x
<1> DEFINE less_than == [a, b \in Range(idx) \cup {x} |-> m.header[a].size < m.header[b].size]
           t == insert_ordered_array(x, idx, less_than)
<1>1. IndexWith(x, idx, m) = t
  BY DEF IndexWith
<1> HIDE DEF less_than
<1>2. t \in Seq(Nat) /\ Once(t) /\ \A y : y \in Range(t) <=> y \in Range(idx) \/ y = x
  BY InsertedOnce
<1> HIDE DEF t
<1> QED
  BY <1>1, <1>2

LEMMA EndmostIs ==
    ASSUME Sound, NEW z \in LastHole
    PROVE  Endmost = z
<1>1. z \in Holes /\ z + Length(mem, z) = end
  BY DEF LastHole, Size, Length
<1>2. Whole(mem, Blocks, Holes, end)
  BY DEF Sound
<1>3. \A g \in Holes : g \in Nat /\ g <= z
  <2> TAKE g \in Holes
  <2>0. g \in Blocks \cup Holes /\ z \in Blocks \cup Holes
    BY <1>1
  <2>1. g \in Nat /\ g + Length(mem, g) <= end /\ Length(mem, g) \in Nat /\ Length(mem, g) > 0
    BY <1>2, <2>0, TileIs
  <2>2. z < g => z + Length(mem, z) <= g
    BY <1>2, <2>0, TilesApart
  <2>3. z \in Nat /\ end \in Nat
    BY <1>2, <2>0, TileIs
  <2> QED
    BY <1>1, <2>1, <2>2, <2>3
<1>4. Endmost \in Holes /\ \A g \in Holes : g <= Endmost
  <2>1. Endmost = CHOOSE h \in Holes : \A g \in Holes : g <= h
    BY Zenon DEF Endmost, Holes
  <2> QED
    BY <1>1, <1>3, <2>1
<1>5. Endmost <= z /\ z <= Endmost /\ z \in Nat /\ Endmost \in Nat
  BY <1>1, <1>3, <1>4
<1> QED
  BY <1>5

LEMMA ExpandedToIs ==
    ASSUME NEW n \in Nat
    PROVE  ExpandedTo(n) \in Nat /\ n <= ExpandedTo(n)
<1>1. Page(n) \in Nat /\ n < (PAGE * Page(n)) + PAGE /\ PAGE * Page(n) \in Nat
  BY PageIs
<1>2. PAGE \in Nat /\ \A p, l \in Nat : p * l = l * p
  BY Constants
<1>3. (Page(n) * PAGE) + PAGE \in Nat /\ n < (Page(n) * PAGE) + PAGE
  BY <1>1, <1>2
<1> QED
  BY <1>3 DEF ExpandedTo

\* A call does not come back: only the heap's pages and its end have changed.
Left ==
    /\ mem' = mem /\ index' = index /\ live' = live /\ req' = req /\ allocs' = allocs
    /\ end' \in Nat /\ end <= end' /\ framed' \subseteq present' /\ present' \subseteq Nat
    /\ pc = "alloc" /\ pc' \in Stop /\ HeapIsBacked'

\* The heap grows to e2, at the hole at c or at its end; there is room for req.
Room(c, len, e2) ==
    /\ (index = <<>> /\ c = end) \/ (index # <<>> /\ c \in LastHole)
    /\ end + req.size + OVERHEAD <= e2 /\ START + e2 <= WORD /\ len = e2 - c
    /\ req.page_align => AlignedRoom(c, len, req)

\* What expand does when alloc is serviceable.
LEMMA ExpandIs ==
    ASSUME Sound, AllocExpand
    PROVE  \E c, len, e2 \in Nat :
              /\ Room(c, len, e2)
              /\ end' = e2
              /\ framed' = framed \cup ExpansionPages(e2)
              /\ present' = present \cup ExpansionPages(e2)
              /\ pc = "alloc" /\ Fitting(req) = {} /\ req' = req /\ live' = live /\ allocs' = allocs
              /\ \/ /\ pc' = "alloc" /\ Page(e2 - 1) \in framed'
                    /\ mem' = PutHole(mem, c, len)
                    /\ index' = IF index = <<>> THEN IndexWith(c, index, mem') ELSE index
                 \/ pc' \in {"fault", "astray"} /\ mem' = mem /\ index' = index
<1> DEFINE new_length == ExpandedTo(end + req.size + OVERHEAD)
           more == new_length - end
           hole == IF index = <<>> THEN end ELSE Endmost
           size == IF index = <<>> THEN more ELSE Size(Endmost) + more
           footer == FooterOf(hole, size)
           pages == PagesOf(hole, hole + HDR) \cup PagesOf(footer, footer + FTR)
<1>1. /\ pc = "alloc" /\ Fitting(req) = {}
      /\ framed' = framed \cup ExpansionPages(new_length)
      /\ present' = present \cup ExpansionPages(new_length)
      /\ end' = new_length
      /\ req' = req /\ live' = live /\ allocs' = allocs
  BY Zenon DEF AllocExpand
<1>2. IF pages \subseteq framed'
      THEN /\ mem' = PutHole(mem, hole, size)
           /\ index' = IF index = <<>> THEN IndexWith(hole, index, mem') ELSE index
           /\ UNCHANGED pc
      ELSE StopAt(pages) /\ UNCHANGED <<mem, index>>
  BY Zenon DEF AllocExpand
<1>3. req \in Request /\ Serviceable(req)
  BY <1>1 DEF Sound, Serving
<1>4. /\ START + new_length <= WORD
      /\ index # <<>> => Endmost \in LastHole
      /\ req.page_align => AlignedRoom(hole, new_length - hole, req)
  BY <1>1, <1>3, Zenon DEF Serviceable
<1>5. req.size \in Nat /\ OVERHEAD \in Nat \ {0} /\ START \in Nat /\ FTR \in Nat \ {0} /\ FTR <= OVERHEAD
  BY <1>3, RequestIs, Constants
<1>6. end \in Nat /\ Whole(mem, Blocks, Holes, end)
  <2>1. Whole(mem, Blocks, Holes, end)
    BY DEF Sound
  <2> QED
    BY <2>1, WholeTiles
<1>7. PICK e2 \in Nat : e2 = new_length /\ end + req.size + OVERHEAD <= e2
  <2>1. end + req.size + OVERHEAD \in Nat
    BY <1>5, <1>6
  <2> QED
    BY <2>1, ExpandedToIs
<1> HIDE DEF new_length
<1>8. PICK c \in Nat : c = hole /\ ((index = <<>> /\ c = end) \/ (index # <<>> /\ c \in LastHole)) /\ c <= end
                       /\ size = e2 - c /\ new_length - hole = e2 - c
  <2>1. CASE index = <<>>
    <3>1. hole = end /\ size = e2 - end
      BY <1>7, <2>1
    <3> QED
      BY <1>6, <1>7, <2>1, <3>1
  <2>2. CASE index # <<>>
    <3>1. PICK z \in LastHole : Endmost = z
      BY <1>4, <2>2
    <3>2. z \in Holes /\ z + Size(z) = end
      BY <3>1 DEF LastHole
    <3>3. z \in Nat /\ Size(z) \in Nat
      <4>1. z \in Blocks \cup Holes
        BY <3>2
      <4>2. z \in Nat /\ Length(mem, z) \in Nat
        BY <1>6, <4>1, TileIs
      <4> QED
        BY <4>2 DEF Length, Size
    <3>4. hole = z /\ size = Size(z) + (e2 - end)
      BY <1>7, <2>2, <3>1
    <3>5. Size(z) + (e2 - end) = e2 - z /\ z <= end
      BY <1>6, <3>2, <3>3
    <3> QED
      BY <1>7, <2>2, <3>1, <3>3, <3>4, <3>5
  <2> QED
    BY <2>1, <2>2
<1>9. PICK len \in Nat : len = e2 - c /\ len >= OVERHEAD
  <2>1. e2 - c \in Nat /\ e2 - c >= OVERHEAD
    BY <1>5, <1>6, <1>7, <1>8
  <2> QED
    BY <2>1
<1> HIDE DEF hole, size
<1>10. Room(c, len, e2)
  <2>1. req.page_align => AlignedRoom(c, len, req)
    BY <1>4, <1>8, <1>9
  <2> QED
    BY <1>4, <1>7, <1>8, <1>9, <2>1 DEF Room
<1>11. PICK f \in Nat : f = footer /\ f + FTR = e2
  <2>1. START + c + len <= WORD /\ len >= FTR
    BY <1>4, <1>5, <1>7, <1>8, <1>9
  <2>2. FooterOf(c, len) = c + len - FTR
    BY <2>1, FooterOfIs
  <2>3. c + len - FTR \in Nat /\ (c + len - FTR) + FTR = e2
    BY <1>5, <1>8, <1>9
  <2>4. footer = FooterOf(c, len)
    BY <1>8, <1>9
  <2> QED
    BY <2>2, <2>3, <2>4
<1> HIDE DEF footer
<1>12. Page(e2 - 1) \in pages
  <2>1. f \in Nat /\ e2 - 1 \in Nat /\ f <= e2 - 1
    BY <1>5, <1>11
  <2>2. Page(f) <= Page(e2 - 1) /\ Page(f) \in Nat /\ Page(e2 - 1) \in Nat
    BY <2>1, PageOrder, PageIs
  <2>3. Page(e2 - 1) \in PagesOf(f, f + FTR)
    BY <1>11, <2>2 DEF PagesOf
  <2> QED
    BY <1>11, <2>3
<1> HIDE DEF pages
<1>13. CASE pages \subseteq framed'
  <2>1. mem' = PutHole(mem, c, len)
    BY <1>2, <1>8, <1>9, <1>13
  <2>2. index' = IF index = <<>> THEN IndexWith(c, index, mem') ELSE index
    BY <1>2, <1>8, <1>13
  <2>3. pc' = "alloc" /\ Page(e2 - 1) \in framed'
    BY <1>1, <1>2, <1>12, <1>13
  <2> QED
    BY <1>1, <1>7, <1>10, <2>1, <2>2, <2>3
<1>14. CASE ~(pages \subseteq framed')
  <2>1. pc' \in {"fault", "astray"} /\ mem' = mem /\ index' = index
    BY <1>2, <1>14 DEF StopAt
  <2> QED
    BY <1>1, <1>7, <1>10, <2>1
<1> QED
  BY <1>13, <1>14

\* A hole with room for a page-aligned block and one on either side fits.
LEMMA AlignedFits ==
    ASSUME NEW h \in Nat, NEW len \in Nat, NEW r \in Request, AlignedRoom(h, len, r)
    PROVE  len - AlignGap(h) >= r.size + OVERHEAD
<1>1. /\ PAGE \in Nat \ {0} /\ HDR \in Nat \ {0} /\ FTR \in Nat \ {0} /\ OVERHEAD = HDR + FTR
      /\ r.size \in Nat
  BY Constants, RequestIs
<1>2. PICK q \in Nat : q = h % PAGE
  BY <1>1
<1>3. PAGE - q - HDR >= OVERHEAD /\ len - (PAGE - q - HDR) - r.size - OVERHEAD >= OVERHEAD
  BY <1>2, Zenon DEF AlignedRoom
<1>4. q + HDR < PAGE
  BY <1>1, <1>3
<1>5. \A n \in Nat \ {0}, x, y \in Nat : (x % n) + y < n => (x + y) % n = (x % n) + y
  <2> TAKE n \in Nat \ {0}, x, y \in Nat
  <2> HAVE (x % n) + y < n
  <2>1. PICK d, m \in Nat : d = x \div n /\ m = x % n /\ x = (n * d) + m /\ n * d \in Nat
    <3>1. x \div n \in Nat /\ x % n \in Nat /\ x = (n * (x \div n)) + (x % n) /\ n * (x \div n) \in Nat
      OBVIOUS
    <3> QED
      BY <3>1
  <2>2. PICK k \in 0..(n - 1) : k = m + y
    BY <2>1
  <2>3. x + y = (n * d) + k
    BY <2>1, <2>2
  <2>4. PICK b, l \in Nat : /\ b = (x + y) \div n /\ l = (x + y) % n /\ l < n
                           /\ x + y = (n * b) + l /\ n * b \in Nat
    <3>1. \A z \in Nat : /\ z \div n \in Nat /\ z % n \in Nat /\ z % n < n
                        /\ z = (n * (z \div n)) + (z % n) /\ n * (z \div n) \in Nat
      OBVIOUS
    <3> QED
      BY <3>1
  <2>5. \A i, j \in Nat : i < j => (n * i) + n <= n * j
    OBVIOUS
  <2>6. b < d => (n * b) + n <= n * d
    BY <2>1, <2>4, <2>5
  <2>7. d < b => (n * d) + n <= n * b
    BY <2>1, <2>4, <2>5
  <2>8. b = d
    BY <2>1, <2>2, <2>3, <2>4, <2>6, <2>7
  <2> QED
    BY <2>1, <2>2, <2>3, <2>4, <2>8
<1>6. (h + HDR) % PAGE = q + HDR
  BY <1>1, <1>2, <1>4, <1>5
<1>7. AlignGap(h) = PAGE - (q + HDR) \/ AlignGap(h) = 0
  BY <1>6, Zenon DEF AlignGap
<1> QED
  BY <1>1, <1>3, <1>7

LEMMA ExpandHolds ==
    ASSUME Sound, AllocExpand
    PROVE  /\ live' = live
           /\ Left \/ (Sound' /\ (Fitting(req) # {})')
<1>1. PICK c, len, e2 \in Nat :
         /\ Room(c, len, e2)
         /\ end' = e2
         /\ framed' = framed \cup ExpansionPages(e2)
         /\ present' = present \cup ExpansionPages(e2)
         /\ pc = "alloc" /\ Fitting(req) = {} /\ req' = req /\ live' = live /\ allocs' = allocs
         /\ \/ /\ pc' = "alloc" /\ Page(e2 - 1) \in framed'
               /\ mem' = PutHole(mem, c, len)
               /\ index' = IF index = <<>> THEN IndexWith(c, index, mem') ELSE index
            \/ pc' \in {"fault", "astray"} /\ mem' = mem /\ index' = index
  BY ExpandIs
<1>2. /\ c \in Nat /\ len \in Nat /\ e2 \in Nat
      /\ (index = <<>> /\ c = end) \/ (index # <<>> /\ c \in LastHole)
      /\ end + req.size + OVERHEAD <= e2 /\ START + e2 <= WORD /\ len = e2 - c
      /\ req.page_align => AlignedRoom(c, len, req)
  BY <1>1 DEF Room
<1>3. Whole(mem, Blocks, Holes, end) /\ Listed /\ Backed /\ Answers(live, mem) /\ Serving
  BY DEF Sound
<1>4. end \in Nat /\ end > 0 /\ OVERHEAD \in Nat \ {0} /\ req \in Request /\ req.size \in Nat
  <2>1. end \in Nat
    BY <1>3, WholeTiles
  <2>2. end > 0
    BY <1>3, <2>1, Constants DEF Backed
  <2>3. req \in Request
    BY <1>3 DEF Serving
  <2> QED
    BY <2>1, <2>2, <2>3, RequestIs, Constants
<1>5. (c = end /\ Holes = {}) \/ (c \in Holes /\ c + Length(mem, c) = end)
  <2>1. CASE index = <<>>
    BY <1>2, <2>1, HolesAre
  <2>2. CASE index # <<>>
    BY <1>2, <2>2 DEF LastHole, Size, Length
  <2> QED
    BY <2>1, <2>2
<1>6. c <= end /\ c + len = e2 /\ e2 - c >= OVERHEAD /\ e2 >= end /\ len >= req.size + OVERHEAD
  <2>1. c <= end
    <3>1. CASE c = end
      BY <1>4, <3>1
    <3>2. CASE c \in Holes /\ c + Length(mem, c) = end
      <4>1. c \in Blocks \cup Holes
        BY <3>2
      <4>2. c + Length(mem, c) = end /\ Length(mem, c) \in Nat
        BY <1>3, <3>2, <4>1, TileIs
      <4> QED
        BY <1>2, <1>4, <4>2
    <3> QED
      BY <1>5, <3>1, <3>2
  <2> QED
    BY <1>2, <1>4, <2>1
<1>7. /\ HEAP_MIN_SIZE <= end /\ PagesOf(0, end) \subseteq framed
       /\ framed \subseteq present /\ present \subseteq Nat
  BY <1>3 DEF Backed
<1>8. PagesOf(0, e2) \ framed' \subseteq {Page(e2 - 1)}
  BY <1>1, <1>4, <1>6, <1>7, ExpansionCovers
<1>9. framed' \subseteq present' /\ present' \subseteq Nat
  <2>1. ExpansionPages(e2) \subseteq Nat
    BY <1>4, ExpansionIsPages
  <2> QED
    BY <1>1, <1>7, <2>1
<1>a. CASE pc' \in {"fault", "astray"} /\ mem' = mem /\ index' = index
  <2>1. HeapIsBacked'
    BY <1>1, <1>8, <1>a DEF HeapIsBacked
  <2>2. Left
    BY <1>2, <1>1, <1>6, <1>9, <1>a, <2>1 DEF Left, Stop
  <2> QED
    BY <1>1, <2>2
<1>b. CASE /\ pc' = "alloc" /\ Page(e2 - 1) \in framed'
           /\ mem' = PutHole(mem, c, len)
           /\ index' = IF index = <<>> THEN IndexWith(c, index, mem') ELSE index
  <2>5. /\ index' \in Seq(Nat) /\ Once(index')
        /\ \A x : x \in Holes' <=> x \in Holes \/ x = c
    <3>1. CASE index = <<>>
      <4>1. index' = IndexWith(c, index, mem') /\ c \notin Range(index)
        BY <1>b, <3>1, HolesAre DEF Holes
      <4>2. index \in Seq(Nat) /\ Once(index)
        BY <1>3 DEF Listed
      <4>3. /\ index' \in Seq(Nat) /\ Once(index')
            /\ \A x : x \in Range(index') <=> x \in Range(index) \/ x = c
        BY <1>2, <4>1, <4>2, IndexWithIs
      <4> QED
        BY <4>3 DEF Holes
    <3>2. CASE index # <<>>
      <4>1. index' = index /\ c \in Holes
        BY <1>2, <1>b, <3>2 DEF LastHole
      <4>2. Holes' = Holes
        BY <4>1 DEF Holes
      <4> QED
        BY <1>3, <4>1, <4>2 DEF Listed
    <3> QED
      BY <3>1, <3>2
  <2>7. /\ Whole(mem', Blocks, Holes', e2) /\ Length(mem', c) = len
        /\ \A x \in Blocks \cup Holes : x # c => Length(mem', x) = Length(mem, x)
        /\ c \notin Blocks
    <3>2. Whole(mem, Blocks, Holes, end)
      BY <1>3
    <3>4. PICK H2 : H2 = Holes'
      OBVIOUS
    <3>5. PICK n : n = PutHole(mem, c, len)
      OBVIOUS
    <3>6. Adds(Holes, c, H2)
      BY <2>5, <3>4 DEF Adds
    <3>7. Grown(mem, Holes, end, c, e2, len, n)
      BY <1>2, <1>5, <1>6, <3>5 DEF Grown
    <3>8. e2 \in Nat /\ len \in Nat
      BY <1>2
    <3>9. /\ Whole(n, Blocks, H2, e2) /\ Length(n, c) = len /\ c \notin Blocks
          /\ \A x \in Blocks \cup Holes : x # c => Length(n, x) = Length(mem, x)
      BY <3>2, <3>6, <3>7, <3>8, Grow
    <3> QED
      BY <1>b, <3>4, <3>5, <3>9
  <2>8. Blocks' = Blocks
    BY <1>1 DEF Blocks
  <2>9. Whole(mem, Blocks, Holes, end)'
    BY <1>1, <2>7, <2>8
  <2>10. Listed'
    BY <2>5 DEF Listed
  <2>11. Backed'
    <3>1. PagesOf(0, e2) \subseteq framed'
      BY <1>8, <1>b
    <3>2. HEAP_MIN_SIZE <= e2
      BY <1>2, <1>4, <1>6, <1>7, Constants
    <3> QED
      BY <1>2, <1>1, <1>9, <3>1, <3>2 DEF Backed
  <2>12. Answers(live, mem)'
    <3>1. \A x \in Headers(live) : Length(mem', x) = Length(mem, x)
      BY <2>7, BlocksAre
    <3>2. Answers(live, mem')
      BY <1>3, <3>1, AnswersKept
    <3> QED
      BY <1>1, <3>2
  <2>13. PICK i \in DOMAIN index' : index'[i] = c
    <3>1. c \in Holes'
      BY <2>5
    <3> QED
      BY <3>1 DEF Holes, Range
  <2>14. Size(c)' = len
    BY <2>7 DEF Size, Length
  <2>15. Fits(c, req)'
    <3>1. CASE ~req.page_align
      <4>1. ~req'.page_align /\ req'.size = req.size /\ Size(c)' - 0 >= req'.size + OVERHEAD
        BY <1>2, <1>1, <1>4, <1>6, <2>14, <3>1
      <4> QED
        BY <4>1, Zenon DEF Fits
    <3>2. CASE req.page_align
      <4>1. len - AlignGap(c) >= req.size + OVERHEAD
        BY <1>2, <1>4, <3>2, AlignedFits
      <4>2. req'.page_align /\ Size(c)' - AlignGap(c) >= req'.size + OVERHEAD
        BY <1>1, <2>14, <3>2, <4>1
      <4> QED
        BY <4>2, Zenon DEF Fits
    <3> QED
      BY <3>1, <3>2
  <2>16. i \in Fitting(req)'
    BY <2>13, <2>15 DEF Fitting
  <2>17. Serviceable(req)'
    <3>1. SUFFICES ASSUME req.page_align
                   PROVE  AlignedRoom(index[find_smallest_hole(req)], Size(index[find_smallest_hole(req)]), req)'
      BY <1>1, <2>16, Zenon DEF Serviceable
    <3>2. ASSUME NEW j \in Fitting(req)' PROVE index'[j] = c
      <4>1. PICK x : x = index'[j]
        OBVIOUS
      <4>2. j \in DOMAIN index' /\ Fits(x, req)'
        BY <3>2, <4>1, Zenon DEF Fitting
      <4>3. x \in Holes'
        BY <4>1, <4>2 DEF Holes, Range
      <4>4. SUFFICES ASSUME x # c PROVE FALSE
        BY <4>1
      <4>5. x \in Holes
        BY <2>5, <4>3, <4>4
      <4>6. PICK k \in DOMAIN index : index[k] = x
        BY <4>5 DEF Holes, Range
      <4>7. Size(x)' = Size(x)
        BY <2>7, <4>4, <4>5 DEF Size, Length
      <4>8. Fits(x, req)
        BY <1>1, <4>2, <4>7, Zenon DEF Fits
      <4>9. k \in Fitting(req)
        BY <4>6, <4>8 DEF Fitting
      <4> QED
        BY <1>1, <4>9
    <3>3. find_smallest_hole(req)' \in Fitting(req)'
      <4>1. PICK F : F = Fitting(req)'
        OBVIOUS
      <4>2. F \subseteq DOMAIN index' /\ i \in F
        BY <2>16, <4>1 DEF Fitting
      <4>3. DOMAIN index' \subseteq Nat
        BY <2>5, LenProperties
      <4>4. \E k \in F : \A j \in F : k <= j
        BY <4>2, <4>3, LeastOf
      <4>5. find_smallest_hole(req)' = CHOOSE k \in F : \A j \in F : k <= j
        BY <4>1, Zenon DEF find_smallest_hole
      <4> QED
        BY <4>1, <4>4, <4>5
    <3>4. index'[find_smallest_hole(req)'] = c
      BY <3>2, <3>3
    <3>5. AlignedRoom(c, len, req)
      BY <1>2, <3>1
    <3> QED
      BY <1>1, <2>14, <3>4, <3>5, Zenon DEF AlignedRoom
  <2>18. Serving'
    BY <1>1, <1>3, <1>b, <2>17 DEF Serving
  <2>19. Sound'
    BY <2>9, <2>10, <2>11, <2>12, <2>18 DEF Sound
  <2> QED
    BY <1>1, <2>16, <2>19
<1> QED
  BY <1>1, <1>a, <1>b

\* expand does not come back.
LEMMA ExpandLeaves ==
    ASSUME Sound, ExpandStops
    PROVE  Left
<1> DEFINE pages == ExpansionPages(ExpandedTo(end + req.size + OVERHEAD))
<1>1. PICK q \in pages : /\ framed' = framed \cup {p \in pages : p < q}
                         /\ present' = present \cup {p \in pages : p < q}
                         /\ pc' = IF q * PAGE < TABLE_END THEN "panic" ELSE "nested"
  BY Zenon DEF ExpandStops
<1>2. /\ mem' = mem /\ index' = index /\ end' = end /\ live' = live /\ req' = req /\ allocs' = allocs
      /\ pc = "alloc"
  BY DEF ExpandStops
<1>3. Whole(mem, Blocks, Holes, end) /\ Backed
  BY DEF Sound
<1>4. end \in Nat /\ end > 0
  <2>1. end \in Nat
    BY <1>3, WholeTiles
  <2> QED
    BY <1>3, <2>1, Constants DEF Backed
<1>5. pages \subseteq Nat
  BY <1>4, ExpansionIsPages
<1> HIDE DEF pages
<1>6. PagesOf(0, end) \subseteq framed /\ framed \subseteq present /\ present \subseteq Nat
  BY <1>3 DEF Backed
<1>7. framed' \subseteq present' /\ present' \subseteq Nat
  BY <1>1, <1>5, <1>6
<1>8. PagesOf(0, end') \subseteq framed' /\ Page(end' - 1) \in framed'
  <2>1. Page(end - 1) \in PagesOf(0, end)
    <3>1. end - 1 \in Nat /\ end - 1 < end
      BY <1>4
    <3> QED
      BY <1>4, <3>1, PagesBelow
  <2> QED
    BY <1>1, <1>2, <1>6, <2>1
<1>9. HeapIsBacked'
  BY <1>8 DEF HeapIsBacked
<1>10. pc' \in Stop
  BY <1>1 DEF Stop
<1> QED
  BY <1>2, <1>4, <1>7, <1>9, <1>10 DEF Left

(***************************************************************************)
(* AllocCarve in its three cases: the hole is used up, or cut behind the    *)
(* block, or cut on both sides of a page-aligned block.                     *)
(***************************************************************************)
\* The hole at h, the i-th of the index, is all of it the block.
Filled(i, h) ==
    /\ i \in DOMAIN index /\ h = index[i] /\ ~req.page_align
    /\ req.size + OVERHEAD <= Length(mem, h)
    /\ mem' = PutBlock(mem, h, Length(mem, h))
    /\ index' = remove_ordered_array(i, index)
    /\ live' = With(live, h + HDR, req)

\* What the block at h leaves of it is a hole.
CutBehind(i, h, want, len) ==
    /\ i \in DOMAIN index /\ h = index[i] /\ ~req.page_align
    /\ want = req.size + OVERHEAD /\ len >= OVERHEAD /\ Length(mem, h) = want + len
    /\ mem' = PutHole(PutBlock(mem, h, want), h + want, len)
    /\ index' = IndexWith(h + want, remove_ordered_array(i, index), mem')
    /\ live' = With(live, h + HDR, req)

\* The hole at h keeps its front, then comes the block at p, then a hole.
CutAround(h, front, p, want, len) ==
    /\ h \in Holes /\ p = h + front /\ (p + HDR) % PAGE = 0
    /\ want = req.size + OVERHEAD /\ front >= OVERHEAD /\ len >= OVERHEAD
    /\ Length(mem, h) = front + want + len
    /\ mem' = PutHole(PutBlock(PutFooter(PutHeader(mem, h, TRUE, front), p - FTR, h), p, want), p + want, len)
    /\ index' = IndexWith(p + want, index, mem')
    /\ live' = With(live, p + HDR, req)

LEMMA SmallestIs ==
    ASSUME Sound, Fitting(req) # {}
    PROVE  /\ find_smallest_hole(req) \in DOMAIN index
           /\ Fits(index[find_smallest_hole(req)], req)
<1>1. index \in Seq(Nat)
  BY DEF Sound, Listed
<1>2. DOMAIN index \subseteq Nat
  BY <1>1, LenProperties
<1>3. Fitting(req) \subseteq Nat
  BY <1>2 DEF Fitting
<1>4. \E i \in Fitting(req) : \A j \in Fitting(req) : i <= j
  BY <1>3, LeastOf
<1>5. find_smallest_hole(req) \in Fitting(req)
  BY <1>4, Zenon DEF find_smallest_hole
<1> QED
  BY <1>5 DEF Fitting

\* What lies below the end is in pages that have frames.
LEMMA BelowIsFramed ==
    ASSUME Sound, NEW lo \in Nat, NEW hi \in Nat, lo < hi, hi <= end
    PROVE  PagesOf(lo, hi) \subseteq framed /\ Page(lo) \in framed
<1>1. Whole(mem, Blocks, Holes, end) /\ Backed
  BY DEF Sound
<1>2. end \in Nat /\ end > 0
  <2>1. end \in Nat
    BY <1>1, WholeTiles
  <2> QED
    BY <2>1
<1>3. PagesOf(0, end) = 0..Page(end - 1) /\ PagesOf(0, end) \subseteq framed
  BY <1>1, <1>2, PagesBelow DEF Backed
<1>4. /\ hi - 1 \in Nat /\ end - 1 \in Nat /\ hi - 1 <= end - 1 /\ lo <= hi - 1
  BY <1>2
<1>5. Page(hi - 1) <= Page(end - 1) /\ Page(lo) <= Page(hi - 1)
  BY <1>4, PageOrder
<1>6. Page(lo) \in Nat /\ Page(hi - 1) \in Nat /\ Page(end - 1) \in Nat
  BY <1>4, PageIs
<1>7. 0..Page(end - 1) \subseteq framed
  BY <1>3
<1> QED
  BY <1>5, <1>6, <1>7 DEF PagesOf

LEMMA CarveIs ==
    ASSUME Sound, AllocCarve
    PROVE  /\ pc = "alloc" /\ pc' = "idle" /\ end' = end /\ present' = present /\ framed' = framed
           /\ req' = req /\ allocs' = allocs
           /\ \/ \E i, h \in Nat : Filled(i, h)
              \/ \E i, h, want, len \in Nat : CutBehind(i, h, want, len)
              \/ \E h, front, p, want, len \in Nat : CutAround(h, front, p, want, len)
<1> DEFINE i == find_smallest_hole(req)
           pos0 == index[i]
           want == req.size + OVERHEAD
           spare == Size(pos0) - want
           whole == spare < OVERHEAD
           new_size == IF whole THEN Size(pos0) ELSE want
           front == IF req.page_align THEN U(PAGE - (pos0 % PAGE) - HDR) ELSE 0
           pos == pos0 + (IF req.page_align THEN PAGE - (pos0 % PAGE) - HDR ELSE 0)
           behind == U(Size(pos0) - front - new_size)
           rest == pos + new_size
           m1 == IF req.page_align
                 THEN PutFooter(PutHeader(mem, pos0, TRUE, front), pos - FTR, pos0)
                 ELSE mem
           m2 == PutBlock(m1, pos, new_size)
           m3 == IF FooterOf(rest, behind) < end
                 THEN PutHole(m2, rest, behind)
                 ELSE PutHeader(m2, rest, TRUE, behind)
           kept == IF req.page_align THEN index ELSE remove_ordered_array(i, index)
           pages == PagesOf(pos0, rest) \cup (IF behind > 0 THEN PagesOf(rest, rest + HDR) ELSE {})
<1>1. /\ pc = "alloc" /\ Fitting(req) # {}
      /\ end' = end /\ present' = present /\ framed' = framed /\ req' = req /\ allocs' = allocs
  BY Zenon DEF AllocCarve
<1>2. IF pages \subseteq framed
      THEN /\ mem' = IF behind > 0 THEN m3 ELSE m2
           /\ index' = IF behind > 0 THEN IndexWith(rest, kept, m3) ELSE kept
           /\ live' = With(live, pos + HDR, req)
           /\ pc' = "idle"
      ELSE StopAt(pages) /\ UNCHANGED <<mem, index, live>>
  BY Zenon DEF AllocCarve
<1>3. i \in DOMAIN index /\ Fits(pos0, req)
  BY <1>1, SmallestIs
<1>4. pos0 \in Holes
  BY <1>3, HolesAre
<1>5. Whole(mem, Blocks, Holes, end) /\ Backed /\ Listed
  BY DEF Sound
<1> HIDE DEF i
<1>6. i \in Nat
  BY <1>3, <1>5, LenProperties DEF Listed
<1> HIDE DEF pos0
<1>7. PICK S \in Nat : S = Length(mem, pos0) /\ S = Size(pos0)
  <2>1. pos0 \in Blocks \cup Holes
    BY <1>4
  <2>2. Length(mem, pos0) \in Nat
    BY <1>5, <2>1, TileIs
  <2> QED
    BY <2>2 DEF Length, Size
<1>8. pos0 \in Nat /\ S >= OVERHEAD /\ pos0 + S <= end /\ end \in Nat
  <2>1. pos0 \in Blocks \cup Holes
    BY <1>4
  <2> QED
    BY <1>5, <1>7, <2>1, TileIs
<1>9. /\ PAGE \in Nat \ {0} /\ HDR \in Nat \ {0} /\ FTR \in Nat \ {0} /\ WORD \in Nat \ {0} /\ START \in Nat \ {0}
      /\ OVERHEAD = HDR + FTR /\ OVERHEAD \in Nat /\ START + end <= WORD
  BY <1>5, Constants DEF Backed
<1>10. req \in Request /\ req.size \in Nat /\ req.page_align \in BOOLEAN /\ Serviceable(req)
  <2>1. req \in Request /\ Serviceable(req)
    BY <1>1 DEF Sound, Serving
  <2> QED
    BY <2>1, RequestIs
<1>11. want \in Nat /\ want >= OVERHEAD /\ want = req.size + OVERHEAD
  BY <1>9, <1>10
<1>c. CASE ~req.page_align
  <2>1. front = 0 /\ pos = pos0 /\ m1 = mem /\ kept = remove_ordered_array(i, index)
    <3>1. pos = pos0 + 0
      BY <1>c
    <3> QED
      BY <1>8, <1>c, <3>1
  <2>2. S >= want
    <3>1. S - 0 >= want
      BY <1>3, <1>7, <1>c, Zenon DEF Fits
    <3> QED
      BY <1>11, <3>1
  <2>3. spare = S - want
    BY <1>7
  <2>4. CASE spare < OVERHEAD
    <3>1. new_size = S
      BY <1>7, <2>4
    <3>2. behind = 0
      <4>1. behind = U(S - 0 - S)
        BY <1>7, <2>1, <3>1
      <4>2. S - 0 - S = 0
        OBVIOUS
      <4> QED
        BY <1>9, <4>1, <4>2, UnwrappedIs
    <3> HIDE DEF behind, new_size, front, want, whole
    <3>3. PICK r \in Nat : r = rest /\ pos0 < r /\ r <= end
      <4>1. rest = pos0 + S
        BY <2>1, <3>1
      <4>2. rest \in Nat /\ pos0 < rest /\ rest <= end
        BY <1>8, <1>9, <4>1
      <4> QED
        BY <4>2
    <3> HIDE DEF rest
    <3>4. PagesOf(pos0, r) \subseteq framed
      BY <1>8, <3>3, BelowIsFramed
    <3>5. ~(behind > 0)
      BY <3>2
    <3>6. pages \subseteq framed
      <4>1. pages = PagesOf(pos0, rest)
        BY <3>5, Zenon
      <4> QED
        BY <3>3, <3>4, <4>1, Zenon
    <3>7. mem' = m2 /\ index' = kept /\ live' = With(live, pos + HDR, req) /\ pc' = "idle"
      <4> HIDE DEF m2, m3, kept, pages
      <4> QED
        BY <1>2, <3>6, <3>5, Zenon
    <3>8. m2 = PutBlock(mem, pos0, S)
      BY <2>1, <3>1
    <3>9. Filled(i, pos0)
      BY <1>3, <1>7, <1>11, <1>c, <2>1, <2>2, <3>7, <3>8 DEF Filled, pos0
    <3> QED
      BY <1>1, <1>6, <1>8, <3>7, <3>9
  <2>5. CASE ~(spare < OVERHEAD)
    <3>1. new_size = want
      BY <1>7, <2>5
    <3>2. PICK len \in Nat : len = S - want /\ len >= OVERHEAD /\ S = want + len
      <4>1. S - want \in Nat /\ S - want >= OVERHEAD /\ S = want + (S - want)
        BY <1>9, <1>11, <2>3, <2>5
      <4> QED
        BY <4>1
    <3>3. behind = len
      <4>1. behind = U(S - 0 - want)
        BY <1>7, <2>1, <3>1
      <4>2. S - 0 - want = len /\ len < WORD
        BY <1>8, <1>9, <1>11, <3>2
      <4> QED
        BY <4>1, <4>2, UnwrappedIs
    <3> HIDE DEF behind, new_size, front, whole
    <3>4. PICK r \in Nat : r = pos0 + want /\ r = rest
      <4>1. pos0 + want \in Nat
        BY <1>8, <1>11
      <4> QED
        BY <2>1, <3>1, <4>1
    <3> HIDE DEF rest
    <3>5. PICK t \in Nat : t = r + HDR /\ r < t /\ t <= end
      <4>1. r + HDR \in Nat /\ r < r + HDR /\ r + HDR <= end
        BY <1>8, <1>9, <1>11, <3>2, <3>4
      <4> QED
        BY <4>1
    <3>6. pos0 < r /\ r <= end
      BY <1>8, <1>9, <1>11, <3>2, <3>4
    <3>7. PagesOf(pos0, r) \subseteq framed /\ PagesOf(r, t) \subseteq framed
      BY <1>8, <3>4, <3>5, <3>6, BelowIsFramed
    <3>8. pages \subseteq framed
      BY <3>4, <3>5, <3>7
    <3>9. behind > 0
      <4>1. len > 0
        BY <1>9, <3>2
      <4> QED
        BY <3>3, <4>1
    <3>10. mem' = m3 /\ index' = IndexWith(rest, kept, m3) /\ live' = With(live, pos + HDR, req) /\ pc' = "idle"
      BY <1>2, <3>8, <3>9
    <3>11. m2 = PutBlock(mem, pos0, want)
      BY <2>1, <3>1
    <3>12. FooterOf(rest, behind) < end
      <4>1. START + r + len <= WORD /\ len >= FTR
        BY <1>8, <1>9, <1>11, <3>2, <3>4
      <4>2. FooterOf(r, len) = r + len - FTR
        BY <4>1, FooterOfIs
      <4>3. r + len - FTR < end
        BY <1>8, <1>9, <1>11, <3>2, <3>4
      <4> QED
        BY <3>3, <3>4, <4>2, <4>3
    <3> HIDE DEF m2
    <3>13. m3 = PutHole(m2, r, len)
      BY <3>3, <3>4, <3>12
    <3>14. CutBehind(i, pos0, want, len)
      <4>1. mem' = PutHole(PutBlock(mem, pos0, want), pos0 + want, len)
        BY <3>4, <3>10, <3>11, <3>13
      <4>2. index' = IndexWith(pos0 + want, remove_ordered_array(i, index), mem')
        BY <2>1, <3>4, <3>10
      <4>3. live' = With(live, pos0 + HDR, req)
        BY <2>1, <3>10
      <4>4. Length(mem, pos0) = want + len /\ len >= OVERHEAD
        BY <1>7, <3>2
      <4> QED
        BY <1>3, <1>11, <1>c, <4>1, <4>2, <4>3, <4>4 DEF CutBehind, pos0
    <3> QED
      BY <1>1, <1>6, <1>8, <1>11, <3>10, <3>14
  <2> QED
    BY <2>4, <2>5
<1>d. CASE req.page_align
  <2>1. PICK g \in Int : g = PAGE - (pos0 % PAGE) - HDR /\ g >= OVERHEAD /\ S - g - req.size - OVERHEAD >= OVERHEAD
    <3>1. AlignedRoom(pos0, Size(pos0), req)
      BY <1>1, <1>10, <1>d, Zenon DEF Serviceable, pos0, i
    <3>2. /\ PAGE - (pos0 % PAGE) - HDR >= OVERHEAD
          /\ Size(pos0) - (PAGE - (pos0 % PAGE) - HDR) - req.size - OVERHEAD >= OVERHEAD
      BY <3>1, Zenon DEF AlignedRoom
    <3>3. PAGE - (pos0 % PAGE) - HDR \in Int
      BY <1>8, <1>9
    <3> QED
      BY <1>7, <3>2, <3>3
  <2>2. g \in Nat /\ g < WORD /\ S - want >= OVERHEAD
    BY <1>8, <1>9, <1>10, <1>11, <2>1
  <2>3. PICK len \in Nat : len = S - g - want /\ len >= OVERHEAD /\ S = g + want + len
    <3>1. S - g - want \in Nat /\ S - g - want >= OVERHEAD /\ S = g + want + (S - g - want)
      BY <1>8, <1>9, <1>10, <1>11, <2>1, <2>2
    <3> QED
      BY <3>1
  <2>4. front = g
    <3>1. front = U(g)
      BY <1>d, <2>1
    <3> QED
      BY <2>2, <3>1, UnwrappedIs
  <2>5. PICK p \in Nat : p = pos0 + g /\ p = pos
    <3>1. pos0 + g \in Nat
      BY <1>8, <2>2
    <3>2. pos = pos0 + g
      BY <1>d, <2>1
    <3> QED
      BY <3>1, <3>2
  <2>6. kept = index /\ m1 = PutFooter(PutHeader(mem, pos0, TRUE, front), pos - FTR, pos0)
    BY <1>d
  <2>7. new_size = want
    <3>1. ~(spare < OVERHEAD)
      BY <1>7, <1>9, <1>11, <2>2
    <3> QED
      BY <3>1
  <2> HIDE DEF front, pos, new_size
  <2>8. behind = len
    <3>1. behind = U(S - g - want)
      BY <1>7, <2>4, <2>7
    <3>2. len < WORD
      BY <1>8, <1>9, <1>11, <2>2, <2>3
    <3> QED
      BY <2>3, <3>1, <3>2, UnwrappedIs
  <2> HIDE DEF behind
  <2>9. PICK r \in Nat : r = p + want /\ r = rest
    <3>1. p + want \in Nat
      BY <1>11, <2>5
    <3> QED
      BY <2>5, <2>7, <3>1
  <2> HIDE DEF rest
  <2>10. p < end /\ r < end /\ r + len <= end
    BY <1>8, <1>9, <1>11, <2>2, <2>3, <2>5, <2>9
  <2>11. PICK t \in Nat : t = r + HDR /\ r < t /\ t <= end /\ pos0 < r /\ r <= end
    <3>1. r + HDR \in Nat /\ r < r + HDR /\ r + HDR <= end /\ pos0 < r /\ r <= end
      BY <1>8, <1>9, <1>11, <2>2, <2>3, <2>5, <2>9, <2>10
    <3> QED
      BY <3>1
  <2>12. PagesOf(pos0, r) \subseteq framed /\ PagesOf(r, t) \subseteq framed
    BY <1>8, <2>9, <2>11, BelowIsFramed
  <2>13. pages \subseteq framed
    BY <2>9, <2>11, <2>12
  <2>14. behind > 0
    <3>1. len > 0
      BY <1>9, <2>3
    <3> QED
      BY <2>8, <3>1
  <2>15. mem' = m3 /\ index' = IndexWith(rest, kept, m3) /\ live' = With(live, pos + HDR, req) /\ pc' = "idle"
    BY <1>2, <2>13, <2>14
  <2>16. FooterOf(rest, behind) < end
    <3>1. START + r + len <= WORD /\ len >= FTR
      BY <1>8, <1>9, <2>3, <2>9, <2>10
    <3>2. FooterOf(r, len) = r + len - FTR
      BY <3>1, FooterOfIs
    <3>3. r + len - FTR < end
      BY <1>8, <1>9, <2>3, <2>9, <2>10
    <3> QED
      BY <2>8, <2>9, <3>2, <3>3
  <2>17. m2 = PutBlock(m1, p, want)
    BY <2>5, <2>7
  <2> HIDE DEF m2
  <2>18. m3 = PutHole(m2, r, len)
    BY <2>8, <2>9, <2>16
  <2> HIDE DEF m1, m3, kept
  <2>19. m1 = PutFooter(PutHeader(mem, pos0, TRUE, g), p - FTR, pos0)
    BY <2>4, <2>5, <2>6, Zenon
  <2>20. (p + HDR) % PAGE = 0
    <3>1. p + HDR = pos0 - (pos0 % PAGE) + PAGE
      BY <1>8, <1>9, <2>1, <2>5
    <3>2. \A n \in Nat \ {0}, x \in Nat : (x - (x % n) + n) % n = 0
      <4> TAKE n \in Nat \ {0}, x \in Nat
      <4>1. PICK q \in Nat : x - (x % n) + n = n * q
        <5>1. x = (n * (x \div n)) + (x % n) /\ x \div n \in Nat /\ n * (x \div n) \in Nat
          OBVIOUS
        <5>2. n * ((x \div n) + 1) = (n * (x \div n)) + n /\ (x \div n) + 1 \in Nat
          BY <5>1
        <5>3. x % n \in Nat
          OBVIOUS
        <5>4. x - (x % n) + n = n * ((x \div n) + 1)
          BY <5>1, <5>2, <5>3
        <5> QED
          BY <5>2, <5>4
      <4>2. (n * q) % n = 0
        OBVIOUS
      <4> QED
        BY <4>1, <4>2
    <3> QED
      BY <1>8, <1>9, <3>1, <3>2
  <2>21. CutAround(pos0, g, p, want, len)
    <3>1. mem' = PutHole(PutBlock(PutFooter(PutHeader(mem, pos0, TRUE, g), p - FTR, pos0), p, want), p + want, len)
      BY <2>9, <2>15, <2>17, <2>18, <2>19, Zenon
    <3>2. index' = IndexWith(p + want, index, mem')
      BY <2>6, <2>9, <2>15, Zenon
    <3>3. live' = With(live, p + HDR, req)
      BY <2>5, <2>15, Zenon
    <3>4. Length(mem, pos0) = g + want + len /\ len >= OVERHEAD /\ g >= OVERHEAD
      BY <1>7, <2>1, <2>3
    <3>5. pos0 \in Holes /\ p = pos0 + g /\ want = req.size + OVERHEAD
      BY <1>4, <2>5
    <3> QED
      BY <2>20, <3>1, <3>2, <3>3, <3>4, <3>5, Zenon DEF CutAround
  <2> QED
    BY <1>1, <1>8, <1>11, <2>2, <2>5, <2>15, <2>21
<1> QED
  BY <1>10, <1>c, <1>d

LEMMA BlocksMore ==
    ASSUME Sound, NEW b \in Nat, live' = With(live, b + HDR, req)
    PROVE  \A x : x \in Blocks' <=> x \in Blocks \/ x = b
<1>1. Blocks' = {q - HDR : q \in DOMAIN live'} /\ Blocks = {q - HDR : q \in DOMAIN live}
  BY DEF Blocks
<1>2. DOMAIN live' = DOMAIN live \cup {b + HDR}
  BY DEF With
<1>3. (b + HDR) - HDR = b
  BY Constants
<1> QED
  BY <1>1, <1>2, <1>3

\* What is left to see once the tags and the index are known to be right.
LEMMA CarveEnds ==
    ASSUME Sound, pc = "alloc", pc' = "idle", end' = end, present' = present, framed' = framed,
           req' = req, allocs' = allocs,
           NEW b \in Nat, b \notin Blocks, live' = With(live, b + HDR, req),
           Whole(mem', Blocks', Holes', end), index' \in Seq(Nat), Once(index'),
           \A x \in Blocks : Length(mem', x) = Length(mem, x),
           req.size + OVERHEAD <= Length(mem', b), req.page_align => (b + HDR) % PAGE = 0
    PROVE  Sound' /\ \E p : p \notin DOMAIN live /\ live' = With(live, p, req)
<1>1. Answers(live, mem) /\ Backed /\ Serving
  BY DEF Sound
<1>2. req \in Request
  BY <1>1 DEF Serving
<1>3. PICK p \in Nat : p = b + HDR /\ p - HDR = b
  <2>1. b + HDR \in Nat /\ (b + HDR) - HDR = b
    BY Constants
  <2> QED
    BY <2>1
<1>4. \A x \in Headers(live) : Length(mem', x) = Length(mem, x)
  BY BlocksAre
<1>5. req.size + OVERHEAD <= Length(mem', p - HDR) /\ (req.page_align => p % PAGE = 0)
  BY <1>3
<1>6. Answers(With(live, p, req), mem')
  BY <1>1, <1>2, <1>4, <1>5, AnswersMore
<1>7. Answers(live, mem)'
  BY <1>3, <1>6
<1>8. p \notin DOMAIN live
  BY <1>3 DEF Blocks
<1>9. Whole(mem, Blocks, Holes, end)'
  OBVIOUS
<1>10. Listed'
  BY DEF Listed
<1>11. Backed'
  BY <1>1 DEF Backed
<1>12. Serving'
  BY <1>1 DEF Serving
<1> QED
  BY <1>3, <1>7, <1>8, <1>9, <1>10, <1>11, <1>12 DEF Sound

LEMMA FilledHolds ==
    ASSUME Sound, pc = "alloc", pc' = "idle", end' = end, present' = present, framed' = framed,
           req' = req, allocs' = allocs,
           NEW i \in Nat, NEW h \in Nat, Filled(i, h)
    PROVE  Sound' /\ \E p : p \notin DOMAIN live /\ live' = With(live, p, req)
<1>1. /\ i \in DOMAIN index /\ h = index[i] /\ ~req.page_align
      /\ req.size + OVERHEAD <= Length(mem, h)
      /\ mem' = PutBlock(mem, h, Length(mem, h))
      /\ index' = remove_ordered_array(i, index)
      /\ live' = With(live, h + HDR, req)
  BY Zenon DEF Filled
<1>2. Whole(mem, Blocks, Holes, end) /\ index \in Seq(Nat) /\ Once(index)
  BY DEF Sound, Listed
<1>3. h \in Holes
  BY <1>1, HolesAre
<1>4. index' \in Seq(Nat) /\ Once(index') /\ \A x : x \in Holes' <=> x \in Holes /\ x # h
  BY <1>1, <1>2, RemovedOnce DEF Holes
<1>5. \A x : x \in Blocks' <=> x \in Blocks \/ x = h
  BY <1>1, BlocksMore
<1>6. PICK n, B2, H2 : n = mem' /\ B2 = Blocks' /\ H2 = Holes'
  OBVIOUS
<1>7. n = PutBlock(mem, h, Length(mem, h))
  BY <1>1, <1>6
<1>8. \A x : x \in B2 <=> x \in Blocks \/ x = h
  BY <1>5, <1>6
<1>9. \A x : x \in H2 <=> x \in Holes /\ x # h
  BY <1>4, <1>6
<1>10. Whole(mem, Blocks, Holes, end)
  BY <1>2
<1>11. /\ Whole(n, B2, H2, end) /\ \A x \in Blocks : Length(n, x) = Length(mem, x)
       /\ Length(n, h) = Length(mem, h)
  BY <1>3, <1>7, <1>8, <1>9, <1>10, FillHole
<1>12. h \notin Blocks
  BY <1>3, <1>10 DEF Whole
<1>13. /\ Whole(mem', Blocks', Holes', end) /\ \A x \in Blocks : Length(mem', x) = Length(mem, x)
       /\ req.size + OVERHEAD <= Length(mem', h)
  BY <1>1, <1>6, <1>11
<1>14. live' = With(live, h + HDR, req) /\ ~req.page_align
  BY <1>1
<1>15. index' \in Seq(Nat) /\ Once(index')
  BY <1>4
<1> QED
  BY <1>12, <1>13, <1>14, <1>15, CarveEnds

LEMMA CutBehindHolds ==
    ASSUME Sound, pc = "alloc", pc' = "idle", end' = end, present' = present, framed' = framed,
           req' = req, allocs' = allocs,
           NEW i \in Nat, NEW h \in Nat, NEW want \in Nat, NEW len \in Nat, CutBehind(i, h, want, len)
    PROVE  Sound' /\ \E p : p \notin DOMAIN live /\ live' = With(live, p, req)
<1>1. /\ i \in DOMAIN index /\ h = index[i] /\ ~req.page_align
      /\ want = req.size + OVERHEAD /\ len >= OVERHEAD /\ Length(mem, h) = want + len
      /\ mem' = PutHole(PutBlock(mem, h, want), h + want, len)
      /\ index' = IndexWith(h + want, remove_ordered_array(i, index), mem')
      /\ live' = With(live, h + HDR, req)
  BY Zenon DEF CutBehind
<1>2. Whole(mem, Blocks, Holes, end) /\ index \in Seq(Nat) /\ Once(index)
  BY DEF Sound, Listed
<1>3. h \in Holes /\ h \notin Blocks
  <2>1. h \in Holes
    BY <1>1, HolesAre
  <2> QED
    BY <1>2, <2>1 DEF Whole
<1>4. want >= OVERHEAD
  <2>1. req \in Request
    BY DEF Sound, Serving
  <2> QED
    BY <1>1, <2>1, RequestIs, Constants
<1>5. PICK r \in Nat : r = h + want
  OBVIOUS
<1>6. \A x : x \in Blocks' <=> x \in Blocks \/ x = h
  BY <1>1, BlocksMore
<1>7. PICK n, B2, o : n = mem' /\ B2 = Blocks' /\ o = PutBlock(mem, h, want)
  OBVIOUS
<1>8. n = PutHole(o, r, len)
  BY <1>1, <1>5, <1>7
<1>9. \A x : x \in B2 <=> x \in Blocks \/ x = h
  BY <1>6, <1>7
<1>10. PICK H2 : \A x : x \in H2 <=> (x \in Holes /\ x # h) \/ x = r
  <2>1. \A x : x \in (Holes \ {h}) \cup {r} <=> (x \in Holes /\ x # h) \/ x = r
    OBVIOUS
  <2> QED
    BY <2>1
<1>11. Whole(mem, Blocks, Holes, end) /\ START + end <= WORD
  BY <1>2 DEF Sound, Backed
<1>12. len >= OVERHEAD /\ Length(mem, h) = want + len /\ o = PutBlock(mem, h, want)
  BY <1>1, <1>7
<1>13. /\ Whole(n, B2, H2, end) /\ r \notin Blocks \cup Holes
       /\ \A x \in Blocks : Length(n, x) = Length(mem, x)
       /\ Length(n, h) = want
  <2>1. want \in Nat /\ len \in Nat /\ h \in Holes
    BY <1>3
  <2>2. r = h + want
    BY <1>5
  <2>3. Whole(mem, Blocks, Holes, end)
    BY <1>11
  <2>4. START + end <= WORD
    BY <1>11
  <2>5. len >= OVERHEAD
    BY <1>12
  <2>6. Length(mem, h) = want + len
    BY <1>12
  <2>7. o = PutBlock(mem, h, want)
    BY <1>12
  <2> QED
    BY <1>4, <1>8, <1>9, <1>10, <2>1, <2>2, <2>3, <2>4, <2>5, <2>6, <2>7, SplitHole
<1>14. index' \in Seq(Nat) /\ Once(index') /\ \A x : x \in Holes' <=> (x \in Holes /\ x # h) \/ x = r
  <2>1. PICK kept : kept = remove_ordered_array(i, index)
    OBVIOUS
  <2>2. kept \in Seq(Nat) /\ Once(kept) /\ \A x : x \in Range(kept) <=> x \in Range(index) /\ x # h
    BY <1>1, <1>2, <2>1, RemovedOnce
  <2>3. r \notin Range(kept)
    BY <1>13, <2>2 DEF Holes
  <2>4. index' = IndexWith(r, kept, mem')
    BY <1>1, <1>5, <2>1
  <2>5. kept \in Seq(Nat) /\ Once(kept)
    BY <2>2
  <2>6. /\ index' \in Seq(Nat) /\ Once(index')
        /\ \A x : x \in Range(index') <=> x \in Range(kept) \/ x = r
    BY <2>3, <2>4, <2>5, IndexWithIs
  <2> QED
    BY <2>2, <2>6 DEF Holes
<1>15. Holes' = H2
  BY <1>10, <1>14
<1>16. /\ Whole(mem', Blocks', Holes', end) /\ \A x \in Blocks : Length(mem', x) = Length(mem, x)
       /\ req.size + OVERHEAD <= Length(mem', h)
  <2>1. req.size + OVERHEAD <= want
    BY <1>1
  <2> QED
    BY <1>7, <1>13, <1>15, <2>1
<1>17. live' = With(live, h + HDR, req) /\ ~req.page_align /\ h \notin Blocks
  BY <1>1, <1>3
<1>18. index' \in Seq(Nat) /\ Once(index')
  BY <1>14
<1> QED
  BY <1>16, <1>17, <1>18, CarveEnds

LEMMA CutAroundHolds ==
    ASSUME Sound, pc = "alloc", pc' = "idle", end' = end, present' = present, framed' = framed,
           req' = req, allocs' = allocs,
           NEW h \in Nat, NEW front \in Nat, NEW p \in Nat, NEW want \in Nat, NEW len \in Nat,
           CutAround(h, front, p, want, len)
    PROVE  Sound' /\ \E q : q \notin DOMAIN live /\ live' = With(live, q, req)
<1>1. /\ h \in Holes /\ p = h + front /\ (p + HDR) % PAGE = 0
      /\ want = req.size + OVERHEAD /\ front >= OVERHEAD /\ len >= OVERHEAD
      /\ Length(mem, h) = front + want + len
      /\ mem' = PutHole(PutBlock(PutFooter(PutHeader(mem, h, TRUE, front), p - FTR, h), p, want), p + want, len)
      /\ index' = IndexWith(p + want, index, mem')
      /\ live' = With(live, p + HDR, req)
  BY Zenon DEF CutAround
<1>2. Whole(mem, Blocks, Holes, end) /\ index \in Seq(Nat) /\ Once(index)
  BY DEF Sound, Listed
<1>4. want >= OVERHEAD
  <2>1. req \in Request
    BY DEF Sound, Serving
  <2> QED
    BY <1>1, <2>1, RequestIs, Constants
<1>5. PICK r \in Nat : r = p + want
  OBVIOUS
<1>6. \A x : x \in Blocks' <=> x \in Blocks \/ x = p
  BY <1>1, BlocksMore
<1>7. PICK n, B2 : n = mem' /\ B2 = Blocks'
  OBVIOUS
<1>8. Middled(mem, h, front, p, want, r, len, n)
  BY <1>1, <1>5, <1>7 DEF Middled
<1>9. \A x : x \in B2 <=> x \in Blocks \/ x = p
  BY <1>6, <1>7
<1>10. PICK H2 : \A x : x \in H2 <=> x \in Holes \/ x = r
  <2>1. \A x : x \in Holes \cup {r} <=> x \in Holes \/ x = r
    OBVIOUS
  <2> QED
    BY <2>1
<1>11. Whole(mem, Blocks, Holes, end) /\ START + end <= WORD
  BY <1>2 DEF Sound, Backed
<1>12. /\ h \in Holes /\ p = h + front /\ front >= OVERHEAD /\ len >= OVERHEAD
       /\ Length(mem, h) = front + want + len
  BY <1>1
<1>13. /\ Whole(n, B2, H2, end) /\ p \notin Blocks \cup Holes /\ r \notin Blocks \cup Holes
       /\ \A x \in Blocks : Length(n, x) = Length(mem, x)
       /\ Length(n, p) = want
  <2>1. front >= OVERHEAD
    BY <1>12
  <2>2. h \in Holes
    BY <1>12
  <2>3. front \in Nat /\ want \in Nat /\ len \in Nat
    OBVIOUS
  <2>4. Whole(mem, Blocks, Holes, end)
    BY <1>11
  <2>5. START + end <= WORD
    BY <1>11
  <2>6. len >= OVERHEAD
    BY <1>12
  <2>7. Adds(Blocks, p, B2) /\ Adds(Holes, r, H2)
    BY <1>9, <1>10 DEF Adds
  <2> QED
    BY <1>4, <1>8, <2>7, <2>3, <2>4, <2>5, <2>6, <2>1, <2>2, MiddleHole
<1>14. index' \in Seq(Nat) /\ Once(index') /\ \A x : x \in Holes' <=> x \in Holes \/ x = r
  <2>1. r \notin Range(index)
    BY <1>13 DEF Holes
  <2>2. index' = IndexWith(r, index, mem')
    BY <1>1, <1>5
  <2>3. /\ index' \in Seq(Nat) /\ Once(index')
        /\ \A x : x \in Range(index') <=> x \in Range(index) \/ x = r
    BY <1>2, <2>1, <2>2, IndexWithIs
  <2> QED
    BY <2>3 DEF Holes
<1>15. Holes' = H2
  BY <1>10, <1>14
<1>16. /\ Whole(mem', Blocks', Holes', end) /\ \A x \in Blocks : Length(mem', x) = Length(mem, x)
       /\ req.size + OVERHEAD <= Length(mem', p)
  <2>1. req.size + OVERHEAD <= want
    BY <1>1
  <2> QED
    BY <1>7, <1>13, <1>15, <2>1
<1>17. live' = With(live, p + HDR, req) /\ (p + HDR) % PAGE = 0 /\ p \notin Blocks
  BY <1>1, <1>13
<1>18. index' \in Seq(Nat) /\ Once(index')
  BY <1>14
<1> QED
  BY <1>16, <1>17, <1>18, CarveEnds

LEMMA CarveHolds ==
    ASSUME Sound, AllocCarve
    PROVE  Sound' /\ end' = end /\ req' = req /\ pc' = "idle"
           /\ \E p : p \notin DOMAIN live /\ live' = With(live, p, req)
<1>1. /\ pc = "alloc" /\ pc' = "idle" /\ end' = end /\ present' = present /\ framed' = framed
      /\ req' = req /\ allocs' = allocs
  BY CarveIs
<1>2. \/ \E i, h \in Nat : Filled(i, h)
      \/ \E i, h, want, len \in Nat : CutBehind(i, h, want, len)
      \/ \E h, front, p, want, len \in Nat : CutAround(h, front, p, want, len)
  BY CarveIs
<1>3. CASE \E i, h \in Nat : Filled(i, h)
  <2>1. PICK i \in Nat, h \in Nat : Filled(i, h)
    BY <1>3
  <2> QED
    BY <1>1, <2>1, FilledHolds
<1>4. CASE \E i, h, want, len \in Nat : CutBehind(i, h, want, len)
  <2>1. PICK i \in Nat, h \in Nat, want \in Nat, len \in Nat : CutBehind(i, h, want, len)
    BY <1>4
  <2> QED
    BY <1>1, <2>1, CutBehindHolds
<1>5. CASE \E h, front, p, want, len \in Nat : CutAround(h, front, p, want, len)
  <2>1. PICK h \in Nat, front \in Nat, p \in Nat, want \in Nat, len \in Nat : CutAround(h, front, p, want, len)
    BY <1>5
  <2> QED
    BY <1>1, <2>1, CutAroundHolds
<1> QED
  BY <1>2, <1>3, <1>4, <1>5

(***************************************************************************)
(* free in its four cases: with or without a hole before the block, and     *)
(* with the last hole behind it, or none.                                    *)
(***************************************************************************)
\* The block at h becomes a hole.
FreedAlone(h) ==
    /\ h \in Blocks
    /\ mem' = SetSize(SetSize(mem, h, Length(mem, h)), h, Length(mem, h))
    /\ index' = IndexWith(h, index, mem')
    /\ end' = end /\ framed' = framed

\* The block at h joins the hole at g, which ends where it starts.
FreedJoined(g, h) ==
    /\ h \in Blocks /\ g \in Holes /\ g + Length(mem, g) = h
    /\ mem' = SetSize(PutFooter(SetSize(mem, h, Length(mem, h)), h + Length(mem, h) - FTR, g),
                      g, Length(mem, h) + Length(mem, g))
    /\ index' = index
    /\ end' = end /\ framed' = framed

\* The last hole, at z, is joined too, and the heap is cut to its least size.
Contracted(header, z) ==
    /\ z \in Holes /\ z + Length(mem, z) = end /\ header + OVERHEAD <= HEAP_MIN_SIZE
    /\ end' = HEAP_MIN_SIZE /\ framed' = framed \ ContractionPages(HEAP_MIN_SIZE)

\* The block at h and the last hole become one.
FreedLast(h, z) ==
    /\ h \in Blocks /\ h + Length(mem, h) = z /\ Contracted(h, z)
    /\ mem' = PutHole(SetSize(SetSize(mem, h, Length(mem, h)), h, Length(mem, h) + Length(mem, z)),
                      h, HEAP_MIN_SIZE - h)
    /\ index' = IndexWith(h, remove_ordered_array(PositionOf(z, index), index), mem')

\* So do a hole at g, the block at h and the last hole.
FreedBeforeLast(g, h, z) ==
    /\ h \in Blocks /\ g \in Holes /\ g + Length(mem, g) = h /\ h + Length(mem, h) = z /\ Contracted(g, z)
    /\ mem' = PutHole(SetSize(PutFooter(SetSize(mem, h, Length(mem, h)), h + Length(mem, h) - FTR, g),
                              g, Length(mem, h) + Length(mem, g) + Length(mem, z)),
                      g, HEAP_MIN_SIZE - g)
    /\ index' = remove_ordered_array(PositionOf(z, index), index)

\* A footer before a block is that of the tile before it.
LEMMA HoleBeforeIs ==
    ASSUME Whole(mem, Blocks, Holes, end), NEW h \in Blocks
    PROVE  HoleBefore(h) = {} \/ \E g \in Holes : HoleBefore(h) = {g} /\ g + Length(mem, g) = h
<1>1. /\ h \in Nat /\ Length(mem, h) \in Nat /\ Length(mem, h) > 0 /\ h + Length(mem, h) <= end /\ end \in Nat
  BY TileIs
<1>2. Memory(mem) /\ Marked(mem, Blocks, Holes) /\ Footed(mem, Blocks, Holes, end)
  BY DEF Whole
<1>3. CASE h = 0
  <2>1. h - FTR \notin Nat
    BY <1>3, Constants
  <2>2. h - FTR \notin DOMAIN mem.footer
    BY <1>2, <2>1 DEF Memory
  <2> QED
    BY <2>2 DEF HoleBefore
<1>4. CASE h # 0
  <2> DEFINE s == Sizes(mem, Blocks \cup Holes)
  <2>1. Tiling(s, end) /\ DOMAIN s = Blocks \cup Holes /\ \A g \in DOMAIN s : s[g] = Length(mem, g)
    BY WholeTiles DEF Sizes
  <2> HIDE DEF s
  <2>2. h \in DOMAIN s
    BY <2>1
  <2>3. PICK g \in DOMAIN s : g + s[g] = h
    BY <1>4, <2>1, <2>2, TileBefore
  <2>4. g \in Blocks \cup Holes /\ g + Length(mem, g) = h
    BY <2>1, <2>3
  <2>5. h < end
    BY <1>1
  <2>6. Closed(mem, g)
    BY <1>2, <2>4, <2>5 DEF Footed
  <2>7. h - FTR \in DOMAIN mem.footer /\ mem.footer[h - FTR] = g
    <3>1. g + Length(mem, g) - FTR \in DOMAIN mem.footer /\ mem.footer[g + Length(mem, g) - FTR] = g
      BY <2>6, Zenon DEF Closed
    <3>2. g + Length(mem, g) - FTR = h - FTR
      <4>1. g \in Nat /\ Length(mem, g) \in Nat
        BY <2>4, TileIs
      <4> QED
        BY <1>1, <2>4, <4>1, Constants
    <3> QED
      BY <3>1, <3>2, Zenon
  <2>8. g \in DOMAIN mem.header /\ (mem.header[g].is_hole <=> g \in Holes)
    BY <1>2, <2>4 DEF Marked
  <2>9. {mem.footer[f] : f \in {h - FTR} \cap DOMAIN mem.footer} \cap DOMAIN mem.header = {g}
    BY <2>7, <2>8
  <2>10. HoleBefore(h) = {x \in {g} : mem.header[x].is_hole}
    BY <2>9, Zenon DEF HoleBefore
  <2>11. CASE g \in Holes
    <3>1. HoleBefore(h) = {g}
      BY <2>8, <2>10, <2>11
    <3> QED
      BY <2>4, <2>11, <3>1
  <2>12. CASE g \notin Holes
    BY <2>8, <2>10, <2>12
  <2> QED
    BY <2>11, <2>12
<1> QED
  BY <1>3, <1>4

LEMMA HoleAfterIs ==
    ASSUME Whole(mem, Blocks, Holes, end), NEW h \in Blocks, h + Length(mem, h) < end
    PROVE  HoleAfter(h) = {} \/ (h + Length(mem, h) \in Holes /\ HoleAfter(h) = {h + Length(mem, h)})
<1>1. PICK z : z = h + Length(mem, h)
  OBVIOUS
<1>2. z \in Blocks \cup Holes
  <2>1. h + Length(mem, h) = end \/ h + Length(mem, h) \in Blocks \cup Holes
    BY WholeTiles
  <2>2. end \in Nat
    BY WholeTiles
  <2> QED
    BY <1>1, <2>1, <2>2
<1>3. z \in DOMAIN mem.header /\ (mem.header[z].is_hole <=> z \in Holes)
  BY <1>2 DEF Whole, Marked
<1>4. HoleAfter(h) = {x \in {z} \cap DOMAIN mem.header : mem.header[x].is_hole}
  BY <1>1, Zenon DEF HoleAfter, Size, Length
<1>5. HoleAfter(h) = {x \in {z} : mem.header[x].is_hole}
  BY <1>3, <1>4
<1> QED
  BY <1>1, <1>3, <1>5

LEMMA ContractedIs ==
    ASSUME NEW a \in Nat, a + OVERHEAD <= HEAP_MIN_SIZE
    PROVE  ContractedTo(a) = HEAP_MIN_SIZE
<1>1. PICK r \in Nat : r = (IF Page(a) % 2 = 1 THEN 2 * PAGE ELSE a) /\ r <= HEAP_MIN_SIZE
  <2>1. 2 * PAGE <= HEAP_MIN_SIZE /\ 2 * PAGE \in Nat /\ a <= HEAP_MIN_SIZE
    BY MinimumAssumption, Constants
  <2> QED
    BY <2>1
<1>2. ContractedTo(a) = IF r < HEAP_MIN_SIZE THEN HEAP_MIN_SIZE ELSE r
  BY <1>1, Zenon DEF ContractedTo
<1> QED
  BY <1>1, <1>2, Constants

LEMMA PositionIs ==
    ASSUME NEW idx \in Seq(Nat), NEW z \in Range(idx)
    PROVE  PositionOf(z, idx) \in DOMAIN idx /\ idx[PositionOf(z, idx)] = z
<1>1. DOMAIN idx \subseteq Nat
  BY LenProperties
<1>2. {i \in DOMAIN idx : idx[i] = z} # {}
  BY DEF Range
<1>3. PICK i \in {j \in DOMAIN idx : idx[j] = z} : \A j \in {k \in DOMAIN idx : idx[k] = z} : i <= j
  BY <1>1, <1>2, LeastOf
<1>4. i \in DOMAIN idx /\ idx[i] = z /\ \A j \in 1..(i - 1) : idx[j] # z
  <2> SUFFICES ASSUME NEW j \in 1..(i - 1), idx[j] = z PROVE FALSE
    BY <1>3
  <2>1. i \in 1..Len(idx) /\ Len(idx) \in Nat /\ DOMAIN idx = 1..Len(idx)
    BY <1>3, LenProperties
  <2>2. j \in DOMAIN idx
    BY <2>1
  <2>3. i <= j
    BY <1>3, <2>2
  <2> QED
    BY <2>1, <2>3
<1>5. PositionOf(z, idx) = CHOOSE k \in DOMAIN idx : idx[k] = z /\ \A j \in 1..(k - 1) : idx[j] # z
  BY <1>4, Zenon DEF PositionOf
<1> QED
  BY <1>4, <1>5, Zenon

LEMMA FreeIs ==
    ASSUME Sound, NEW p \in DOMAIN live, Releasable(p), free(p)
    PROVE  /\ pc = "idle" /\ pc' = pc /\ present' = present /\ req' = req /\ allocs' = allocs
           /\ live' = [q \in DOMAIN live \ {p} |-> live[q]]
           /\ \/ FreedAlone(p - HDR)
              \/ \E g \in Holes : FreedJoined(g, p - HDR)
              \/ \E z \in Holes : FreedLast(p - HDR, z)
              \/ \E g, z \in Holes : FreedBeforeLast(g, p - HDR, z)
<1> DEFINE h == p - HDR
           before == HoleBefore(h)
           after == HoleAfter(h)
           test_header == h + Size(h)
           header == IF before # {} THEN CHOOSE g \in before : TRUE ELSE h
           m1 == Joined(h, before, after)
           idx1 == IF after # {}
                   THEN remove_ordered_array(PositionOf(test_header, index), index)
                   ELSE index
           atEnd == test_header + (IF after # {} THEN Size(test_header) ELSE 0) = end
           new_length == ContractedTo(header)
           size == U(m1.header[header].size - (end - new_length))
           m2 == IF atEnd /\ size > 0 THEN PutHole(m1, header, size) ELSE m1
           idx2 == IF atEnd /\ size = 0 /\ PositionOf(test_header, idx1) \in DOMAIN idx1
                   THEN remove_ordered_array(PositionOf(test_header, idx1), idx1)
                   ELSE idx1
<1>1. /\ pc = "idle"
      /\ IF Page(test_header) \in framed
         THEN /\ mem' = m2
              /\ index' = IF before = {} THEN IndexWith(header, idx2, m2) ELSE idx2
              /\ end' = IF atEnd THEN new_length ELSE end
              /\ framed' = IF atEnd THEN framed \ ContractionPages(new_length) ELSE framed
              /\ live' = [q \in DOMAIN live \ {p} |-> live[q]]
              /\ UNCHANGED <<present, pc, req, allocs>>
         ELSE StopAt({Page(test_header)}) /\ UNCHANGED <<heapVars, req, live, allocs>>
  BY Zenon DEF free
<1>2. /\ h + Size(h) < end
      /\ after \subseteq LastHole
      /\ after # {} => header + OVERHEAD <= HEAP_MIN_SIZE
  BY Zenon DEF Releasable
<1>3. Whole(mem, Blocks, Holes, end) /\ Backed /\ Listed
  BY DEF Sound
<1>4. h \in Blocks
  BY DEF Blocks
<1> HIDE DEF h
<1>5. PICK L \in Nat : L = Length(mem, h) /\ L > 0
  <2>1. h \in Blocks \cup Holes
    BY <1>4
  <2> QED
    BY <1>3, <2>1, TileIs
<1>6. h \in Nat /\ end \in Nat
  <2>1. h \in Blocks \cup Holes
    BY <1>4
  <2> QED
    BY <1>3, <2>1, TileIs
<1>7. Size(h) = L
  BY <1>5 DEF Size, Length
<1>8. PICK z \in Nat : z = h + L /\ z = test_header /\ z < end
  <2>1. h + L \in Nat /\ h + L < end
    BY <1>2, <1>6, <1>7
  <2> QED
    BY <1>7, <2>1
<1> HIDE DEF test_header
<1>9. Page(test_header) \in framed
  <2>1. PICK z1 \in Nat : z1 = z + 1 /\ z < z1 /\ z1 <= end
    <3>1. z + 1 \in Nat /\ z < z + 1 /\ z + 1 <= end
      BY <1>6, <1>8
    <3> QED
      BY <3>1
  <2> QED
    BY <1>8, <2>1, BelowIsFramed
<1>10. /\ mem' = m2
       /\ index' = IF before = {} THEN IndexWith(header, idx2, m2) ELSE idx2
       /\ end' = IF atEnd THEN new_length ELSE end
       /\ framed' = IF atEnd THEN framed \ ContractionPages(new_length) ELSE framed
       /\ live' = [q \in DOMAIN live \ {p} |-> live[q]]
       /\ present' = present /\ pc' = pc /\ req' = req /\ allocs' = allocs
  BY <1>1, <1>9
<1>11. before = {} \/ \E g \in Holes : before = {g} /\ g + Length(mem, g) = h
  BY <1>3, <1>4, HoleBeforeIs
<1>12. after = {} \/ (z \in Holes /\ after = {z})
  <2>1. h + Length(mem, h) < end
    BY <1>5, <1>8
  <2>2. HoleAfter(h) = {} \/ (h + Length(mem, h) \in Holes /\ HoleAfter(h) = {h + Length(mem, h)})
    BY <1>3, <1>4, <2>1, HoleAfterIs
  <2> QED
    BY <1>5, <1>8, <2>2
<1> HIDE DEF before, after
<1>13. PICK T : T = Size(test_header) /\ T = Length(mem, z)
  BY <1>8 DEF Size, Length
<1>a. CASE before = {} /\ after = {}
  <2>1. header = h
    BY <1>a
  <2>2. ~atEnd
    <3>1. atEnd <=> z + 0 = end
      BY <1>8, <1>a
    <3> QED
      BY <1>6, <1>8, <3>1
  <2>3. m1 = SetSize(SetSize(mem, h, L), h, L)
    <3>1. m1 = SetSize(SetSize(mem, h, Size(h)), h, Size(h) + 0 + 0)
      BY <1>a, Zenon DEF Joined
    <3> QED
      BY <1>7, <3>1
  <2>4. idx1 = index /\ idx2 = idx1 /\ m2 = m1
    BY <1>a, <2>2, Zenon
  <2> HIDE DEF header, m1, idx1, idx2, m2, atEnd
  <2>5. mem' = m1 /\ index' = IndexWith(h, index, m1) /\ end' = end /\ framed' = framed
    BY <1>10, <1>a, <2>1, <2>2, <2>4
  <2>6. FreedAlone(h)
    BY <1>4, <1>5, <2>3, <2>5 DEF FreedAlone
  <2> QED
    BY <1>1, <1>10, <2>6 DEF h
<1>b. CASE before # {} /\ after = {}
  <2>1. PICK g \in Holes : before = {g} /\ g + Length(mem, g) = h
    BY <1>11, <1>b
  <2>2. header = g
    BY <1>b, <2>1
  <2>3. ~atEnd
    <3>1. atEnd <=> z + 0 = end
      BY <1>8, <1>b
    <3> QED
      BY <1>6, <1>8, <3>1
  <2>4. m1 = SetSize(PutFooter(SetSize(mem, h, L), h + L - FTR, g), g, L + Length(mem, g))
    <3>1. m1 = SetSize(PutFooter(SetSize(mem, h, Size(h)), h + Size(h) - FTR, header), header, Size(h) + Size(header) + 0)
      BY <1>b, Zenon DEF Joined
    <3>2. Size(g) = Length(mem, g) /\ Length(mem, g) \in Nat
      <4>1. g \in Blocks \cup Holes
        BY <2>1
      <4>2. Length(mem, g) \in Nat
        BY <1>3, <4>1, TileIs
      <4> QED
        BY <4>2 DEF Size, Length
    <3>3. L + Length(mem, g) + 0 = L + Length(mem, g)
      BY <3>2
    <3> QED
      BY <1>7, <2>2, <3>1, <3>2, <3>3, Zenon
  <2>5. idx1 = index /\ idx2 = idx1 /\ m2 = m1
    BY <1>b, <2>3, Zenon
  <2> HIDE DEF header, m1, idx1, idx2, m2, atEnd
  <2>6. mem' = m1 /\ index' = index /\ end' = end /\ framed' = framed
    BY <1>10, <1>b, <2>3, <2>5
  <2>7. FreedJoined(g, h)
    BY <1>4, <1>5, <2>1, <2>4, <2>6 DEF FreedJoined
  <2> QED
    BY <1>1, <1>10, <2>1, <2>7 DEF h
<1>c. ASSUME after # {} PROVE /\ z \in Holes /\ z + T = end /\ T \in Nat /\ atEnd
                              /\ header + OVERHEAD <= HEAP_MIN_SIZE
                              /\ idx1 = remove_ordered_array(PositionOf(z, index), index)
  <2>1. z \in Holes /\ after = {z}
    BY <1>12, <1>c
  <2>2. z \in LastHole
    BY <1>2, <2>1
  <2>3. z + T = end
    <3>1. z + Size(z) = end
      BY <2>2 DEF LastHole
    <3> QED
      BY <1>8, <1>13, <3>1
  <2>4. T \in Nat
    <3>1. z \in Blocks \cup Holes
      BY <2>1
    <3> QED
      BY <1>3, <1>13, <3>1, TileIs
  <2>5. atEnd
    BY <1>8, <1>13, <1>c, <2>3
  <2> QED
    BY <1>2, <1>8, <1>c, <2>1, <2>3, <2>4, <2>5
<1>14. HEAP_MIN_SIZE \in Nat /\ HEAP_MIN_SIZE <= end /\ HEAP_MIN_SIZE < WORD /\ OVERHEAD \in Nat \ {0}
  BY <1>3, <1>6, Constants DEF Backed
<1>15. ASSUME after # {}, header \in Nat, m1.header[header].size = end - header
       PROVE  /\ Contracted(header, z) /\ HEAP_MIN_SIZE - header \in Nat
              /\ mem' = PutHole(m1, header, HEAP_MIN_SIZE - header)
              /\ index' = IF before = {} THEN IndexWith(header, idx1, mem') ELSE idx1
  <2>1. /\ z \in Holes /\ z + T = end /\ atEnd /\ header + OVERHEAD <= HEAP_MIN_SIZE
    BY <1>c, <1>15
  <2>2. new_length = HEAP_MIN_SIZE
    BY <1>15, <2>1, ContractedIs
  <2>3. /\ HEAP_MIN_SIZE - header \in Nat /\ HEAP_MIN_SIZE - header > 0 /\ HEAP_MIN_SIZE - header < WORD
        /\ (end - header) - (end - HEAP_MIN_SIZE) = HEAP_MIN_SIZE - header
    <3>1. PICK a \in Nat : a = header
      BY <1>15
    <3>2. a + OVERHEAD <= HEAP_MIN_SIZE
      BY <2>1, <3>1
    <3>3. /\ HEAP_MIN_SIZE - a \in Nat /\ HEAP_MIN_SIZE - a > 0 /\ HEAP_MIN_SIZE - a < WORD
          /\ (end - a) - (end - HEAP_MIN_SIZE) = HEAP_MIN_SIZE - a
      BY <1>6, <1>14, <3>2, Constants
    <3> QED
      BY <3>1, <3>3
  <2>4. size = HEAP_MIN_SIZE - header
    <3>1. size = U((end - header) - (end - HEAP_MIN_SIZE))
      BY <1>15, <2>2, Zenon
    <3> QED
      BY <2>3, <3>1, UnwrappedIs
  <2> HIDE DEF new_length, m1, header, idx1, atEnd
  <2>5. size > 0 /\ size # 0
    BY <2>3, <2>4
  <2> HIDE DEF size
  <2>6. m2 = PutHole(m1, header, HEAP_MIN_SIZE - header) /\ idx2 = idx1
    BY <2>1, <2>4, <2>5
  <2> HIDE DEF m2, idx2
  <2>7. end' = HEAP_MIN_SIZE /\ framed' = framed \ ContractionPages(HEAP_MIN_SIZE)
    BY <1>10, <2>1, <2>2
  <2>8. Contracted(header, z)
    BY <1>13, <2>1, <2>7 DEF Contracted
  <2> QED
    BY <1>10, <2>3, <2>6, <2>8
<1>d. CASE before = {} /\ after # {}
  <2>1. header = h
    BY <1>d
  <2>2. m1 = SetSize(SetSize(mem, h, L), h, L + T)
    <3>1. m1 = SetSize(SetSize(mem, h, Size(h)), h, Size(h) + 0 + Size(h + Size(h)))
      BY <1>d, Zenon DEF Joined
    <3>2. Size(h + Size(h)) = T /\ L + 0 + T = L + T
      BY <1>7, <1>8, <1>13, <1>c, <1>d DEF test_header
    <3> QED
      BY <1>7, <3>1, <3>2
  <2>3. z \in Holes /\ z + T = end /\ header + OVERHEAD <= HEAP_MIN_SIZE /\ T \in Nat
        /\ idx1 = remove_ordered_array(PositionOf(z, index), index)
    BY <1>c, <1>d
  <2> HIDE DEF m1, header, idx1
  <2>4. m1.header[header].size = end - header
    <3>1. Memory(mem) /\ h \in DOMAIN mem.header
      BY <1>3, <1>4 DEF Whole, Marked
    <3>2. PICK o : o = SetSize(mem, h, L)
      OBVIOUS
    <3>3. Memory(o) /\ DOMAIN o.header = DOMAIN mem.header
      BY <3>1, <3>2, SizeSet
    <3>4. PICK len \in Nat : len = L + T
      BY <2>3
    <3>5. m1 = SetSize(o, h, len)
      BY <2>2, <3>2, <3>4
    <3>6. h \in DOMAIN o.header
      BY <3>1, <3>3
    <3>7. HoleAt(m1, h, len)
      BY <3>3, <3>5, <3>6, SizeSet
    <3>8. Length(m1, h) = len
      BY <3>7 DEF HoleAt
    <3>9. m1.header[h].size = len
      BY <3>8 DEF Length
    <3>10. len = end - h
      BY <1>6, <1>8, <2>3, <3>4
    <3> QED
      BY <2>1, <3>9, <3>10
  <2>5. header \in Nat
    BY <1>6, <2>1
  <2>6. /\ Contracted(h, z) /\ mem' = PutHole(m1, h, HEAP_MIN_SIZE - h)
        /\ index' = IndexWith(h, idx1, mem')
    BY <1>15, <1>d, <2>1, <2>4, <2>5
  <2>7. FreedLast(h, z)
    BY <1>4, <1>5, <1>8, <1>13, <2>2, <2>3, <2>6 DEF FreedLast
  <2> QED
    BY <1>1, <1>10, <2>3, <2>7 DEF h
<1>e. CASE before # {} /\ after # {}
  <2>1. PICK g \in Holes : before = {g} /\ g + Length(mem, g) = h
    BY <1>11, <1>e
  <2>2. header = g
    BY <1>e, <2>1
  <2>3. PICK G \in Nat : G = Length(mem, g) /\ G = Size(g) /\ g \in Nat
    <3>1. g \in Blocks \cup Holes
      BY <2>1
    <3>2. Length(mem, g) \in Nat /\ g \in Nat
      BY <1>3, <3>1, TileIs
    <3> QED
      BY <3>2 DEF Size, Length
  <2>4. z \in Holes /\ z + T = end /\ header + OVERHEAD <= HEAP_MIN_SIZE /\ T \in Nat
        /\ idx1 = remove_ordered_array(PositionOf(z, index), index)
    BY <1>c, <1>e
  <2>5. m1 = SetSize(PutFooter(SetSize(mem, h, L), h + L - FTR, g), g, L + G + T)
    <3>1. m1 = SetSize(PutFooter(SetSize(mem, h, Size(h)), h + Size(h) - FTR, header), header,
                       Size(h) + Size(header) + Size(h + Size(h)))
      BY <1>e, Zenon DEF Joined
    <3>2. Size(h + Size(h)) = T
      BY <1>7, <1>8, <1>13 DEF test_header
    <3> QED
      BY <1>7, <2>2, <2>3, <3>1, <3>2, Zenon
  <2> HIDE DEF m1, header, idx1
  <2>6. m1.header[header].size = end - header
    <3>1. PICK o, f, q : o = SetSize(mem, h, L) /\ f = h + L - FTR /\ q = PutFooter(o, f, g)
      OBVIOUS
    <3>2. PICK len \in Nat : len = L + G + T
      BY <2>4
    <3>3. m1 = SetSize(q, g, len)
      BY <2>5, <3>1, <3>2
    <3>4. HoleAt(m1, g, len)
      <4>1. o = SetSize(mem, h, Length(mem, h)) /\ f = h + Length(mem, h) - FTR /\ q = PutFooter(o, f, g)
        BY <1>5, <3>1
      <4> QED
        BY <1>3, <1>4, <2>1, <3>2, <3>3, <4>1, FreeBehind
    <3>5. Length(m1, g) = len
      BY <3>4 DEF HoleAt
    <3>6. m1.header[g].size = len
      BY <3>5 DEF Length
    <3>7. len = end - g
      <4>1. g + G = h
        BY <2>1, <2>3
      <4> QED
        BY <1>6, <1>8, <2>3, <2>4, <3>2, <4>1
    <3> QED
      BY <2>2, <3>6, <3>7
  <2>7. header \in Nat
    BY <2>2, <2>3
  <2>8. /\ Contracted(g, z) /\ mem' = PutHole(m1, g, HEAP_MIN_SIZE - g) /\ index' = idx1
    BY <1>15, <1>e, <2>2, <2>6, <2>7
  <2>9. FreedBeforeLast(g, h, z)
    <3>1. m1 = SetSize(PutFooter(SetSize(mem, h, Length(mem, h)), h + Length(mem, h) - FTR, g),
                       g, Length(mem, h) + Length(mem, g) + Length(mem, z))
      BY <1>5, <1>13, <2>3, <2>5
    <3>2. h + Length(mem, h) = z
      BY <1>5, <1>8
    <3> QED
      BY <1>4, <2>1, <2>4, <2>8, <3>1, <3>2, Zenon DEF FreedBeforeLast
  <2> QED
    BY <1>1, <1>10, <2>1, <2>4, <2>9 DEF h
<1> QED
  BY <1>a, <1>b, <1>d, <1>e

LEMMA BlocksLess ==
    ASSUME Sound, NEW p \in DOMAIN live, live' = [q \in DOMAIN live \ {p} |-> live[q]]
    PROVE  \A x : x \in Blocks' <=> x \in Blocks /\ x # p - HDR
<1>1. PICK k : k = [q \in DOMAIN live \ {p} |-> live[q]]
  OBVIOUS
<1>2. Answers(live, mem)
  BY DEF Sound
<1>3. \A x \in Headers(k) : Length(mem, x) = Length(mem, x)
  OBVIOUS
<1>4. \A x : x \in Headers(k) <=> x \in Headers(live) /\ x # p - HDR
  BY <1>1, <1>2, <1>3, AnswersLess
<1>5. live' = k
  BY <1>1
<1>6. Blocks' = Headers(k) /\ Blocks = Headers(live)
  BY <1>5 DEF Blocks, Headers
<1> QED
  BY <1>4, <1>6

\* What is left to see once the tags, the index and the end are known to be right.
LEMMA FreeEnds ==
    ASSUME Sound, NEW p \in DOMAIN live, live' = [q \in DOMAIN live \ {p} |-> live[q]],
           pc = "idle", pc' = pc, req' = req, allocs' = allocs,
           Whole(mem', Blocks', Holes', end'), index' \in Seq(Nat), Once(index'), Backed',
           \A x \in Blocks' : Length(mem', x) = Length(mem, x)
    PROVE  Sound' /\ end' \in Nat
<1>1. Whole(mem, Blocks, Holes, end)' /\ end' \in Nat
  BY WholeTiles
<1>2. Listed'
  BY DEF Listed
<1>3. PICK k, n : k = live' /\ n = mem'
  OBVIOUS
<1>4. \A q \in DOMAIN k : q \in DOMAIN live /\ k[q] = live[q]
  BY <1>3
<1>5. \A x \in Headers(k) : Length(n, x) = Length(mem, x)
  BY <1>3 DEF Blocks, Headers
<1>6. Answers(live, mem)
  BY DEF Sound
<1>7. Answers(k, n)
  <2>1. Answers(k, mem)
    BY <1>4, <1>6, Zenon DEF Answers
  <2> QED
    BY <1>5, <2>1, AnswersKept
<1>8. Answers(live, mem)'
  BY <1>3, <1>7
<1>9. Serving'
  BY DEF Sound, Serving
<1> QED
  BY <1>1, <1>2, <1>8, <1>9 DEF Sound

\* contract leaves frames to all the pages that it leaves to the heap.
LEMMA ContractedBacked ==
    ASSUME Sound, NEW header, NEW z, Contracted(header, z), present' = present
    PROVE  Backed' /\ HEAP_MIN_SIZE <= end
<1>1. /\ HEAP_MIN_SIZE <= end /\ START + end <= WORD
      /\ PagesOf(0, end) \subseteq framed /\ framed \subseteq present /\ present \subseteq Nat
  BY DEF Sound, Backed
<1>2. end \in Nat
  BY WholeTiles DEF Sound
<1>3. HEAP_MIN_SIZE % PAGE = 0
  BY MinimumAssumption
<1>4. end' = HEAP_MIN_SIZE /\ framed' = framed \ ContractionPages(HEAP_MIN_SIZE)
  BY DEF Contracted
<1>5. PICK n \in Nat : n = HEAP_MIN_SIZE /\ n > 0 /\ n <= end
  BY <1>1, Constants
<1>6. START + n <= WORD
  BY <1>1, <1>2, <1>5, Constants
<1>7. PagesOf(0, n) \subseteq PagesOf(0, end)
  <2>1. PagesOf(0, n) = 0..Page(n - 1) /\ PagesOf(0, end) = 0..Page(end - 1)
    <3>1. end > 0
      BY <1>2, <1>5
    <3> QED
      BY <1>2, <1>5, <3>1, PagesBelow
  <2>2. n - 1 \in Nat /\ end - 1 \in Nat /\ n - 1 <= end - 1
    BY <1>2, <1>5
  <2>3. Page(n - 1) <= Page(end - 1)
    BY <2>2, PageOrder
  <2>4. Page(n - 1) \in Nat /\ Page(end - 1) \in Nat
    BY <2>2, PageIs
  <2> QED
    BY <2>1, <2>3, <2>4
<1>8. \A k \in PagesOf(0, n) : k \notin ContractionPages(n)
  <2>1. n % PAGE = 0
    BY <1>3, <1>5
  <2> QED
    BY <1>2, <1>5, <2>1, ContractionSpares
<1>9. PagesOf(0, n) \subseteq framed'
  BY <1>1, <1>4, <1>5, <1>7, <1>8
<1>10. end' = n /\ PagesOf(0, end') = PagesOf(0, n)
  BY <1>4, <1>5
<1>11. HEAP_MIN_SIZE <= end' /\ START + end' <= WORD
  BY <1>3, <1>5, <1>6, <1>10
<1>12. framed' \subseteq present' /\ present' \subseteq Nat
  BY <1>1, <1>4
<1>13. PagesOf(0, end') \subseteq framed'
  BY <1>9, <1>10
<1> QED
  BY <1>1, <1>11, <1>12, <1>13 DEF Backed

LEMMA FreedAloneHolds ==
    ASSUME Sound, NEW p \in DOMAIN live, live' = [q \in DOMAIN live \ {p} |-> live[q]],
           pc = "idle", pc' = pc, present' = present, req' = req, allocs' = allocs,
           NEW h \in Nat, h = p - HDR, FreedAlone(h)
    PROVE  Sound' /\ end' \in Nat
<1>1. /\ h \in Blocks
      /\ mem' = SetSize(SetSize(mem, h, Length(mem, h)), h, Length(mem, h))
      /\ index' = IndexWith(h, index, mem')
      /\ end' = end /\ framed' = framed
  BY Zenon DEF FreedAlone
<1>2. Whole(mem, Blocks, Holes, end) /\ index \in Seq(Nat) /\ Once(index)
  BY DEF Sound, Listed
<1>3. h \notin Holes
  BY <1>1, <1>2 DEF Whole
<1>4. index' \in Seq(Nat) /\ Once(index') /\ \A x : x \in Holes' <=> x \in Holes \/ x = h
  <2>1. h \notin Range(index)
    BY <1>3 DEF Holes
  <2>2. index' = IndexWith(h, index, mem')
    BY <1>1
  <2>3. /\ index' \in Seq(Nat) /\ Once(index')
        /\ \A x : x \in Range(index') <=> x \in Range(index) \/ x = h
    BY <1>2, <2>1, <2>2, IndexWithIs
  <2> QED
    BY <2>3 DEF Holes
<1>5. \A x : x \in Blocks' <=> x \in Blocks /\ x # h
  BY BlocksLess
<1>6. PICK o, n, B2, H2 : o = SetSize(mem, h, Length(mem, h)) /\ n = mem' /\ B2 = Blocks' /\ H2 = Holes'
  OBVIOUS
<1>7. n = SetSize(o, h, Length(mem, h))
  BY <1>1, <1>6
<1>8. o = SetSize(mem, h, Length(mem, h))
  BY <1>6
<1>9. \A x : x \in B2 <=> x \in Blocks /\ x # h
  BY <1>5, <1>6
<1>10. \A x : x \in H2 <=> x \in Holes \/ x = h
  BY <1>4, <1>6
<1>11. Whole(mem, Blocks, Holes, end) /\ h \in Blocks
  BY <1>1, <1>2
<1>12. Whole(n, B2, H2, end) /\ \A x \in B2 : Length(n, x) = Length(mem, x)
  BY <1>7, <1>8, <1>9, <1>10, <1>11, FreeAlone
<1>13. Whole(mem', Blocks', Holes', end') /\ \A x \in Blocks' : Length(mem', x) = Length(mem, x)
  BY <1>1, <1>6, <1>12
<1>14. Backed'
  BY <1>1 DEF Sound, Backed
<1>15. index' \in Seq(Nat) /\ Once(index')
  BY <1>4
<1> QED
  BY <1>13, <1>14, <1>15, FreeEnds

LEMMA FreedJoinedHolds ==
    ASSUME Sound, NEW p \in DOMAIN live, live' = [q \in DOMAIN live \ {p} |-> live[q]],
           pc = "idle", pc' = pc, present' = present, req' = req, allocs' = allocs,
           NEW g, NEW h \in Nat, h = p - HDR, FreedJoined(g, h)
    PROVE  Sound' /\ end' \in Nat
<1>1. /\ h \in Blocks /\ g \in Holes /\ g + Length(mem, g) = h
      /\ mem' = SetSize(PutFooter(SetSize(mem, h, Length(mem, h)), h + Length(mem, h) - FTR, g),
                        g, Length(mem, h) + Length(mem, g))
      /\ index' = index
      /\ end' = end /\ framed' = framed
  BY Zenon DEF FreedJoined
<1>2. Whole(mem, Blocks, Holes, end) /\ index \in Seq(Nat) /\ Once(index)
  BY DEF Sound, Listed
<1>3. Holes' = Holes
  BY <1>1 DEF Holes
<1>4. \A x : x \in Blocks' <=> x \in Blocks /\ x # h
  BY BlocksLess
<1>5. PICK o, f, q, len, n, B2 :
        /\ o = SetSize(mem, h, Length(mem, h)) /\ f = h + Length(mem, h) - FTR /\ q = PutFooter(o, f, g)
        /\ len = Length(mem, g) + Length(mem, h) /\ n = mem' /\ B2 = Blocks'
  OBVIOUS
<1>6. len = Length(mem, h) + Length(mem, g)
  <2>1. h \in Blocks \cup Holes /\ g \in Blocks \cup Holes
    BY <1>1
  <2>2. Length(mem, h) \in Nat /\ Length(mem, g) \in Nat
    BY <1>2, <2>1, TileIs
  <2> QED
    BY <1>5, <2>2
<1>7. n = SetSize(q, g, len)
  BY <1>1, <1>5, <1>6
<1>8. \A x : x \in B2 <=> x \in Blocks /\ x # h
  BY <1>4, <1>5
<1>9. Whole(n, B2, Holes, end) /\ \A x \in B2 : Length(n, x) = Length(mem, x)
  <2>1. o = SetSize(mem, h, Length(mem, h))
    BY <1>5
  <2>2. f = h + Length(mem, h) - FTR
    BY <1>5
  <2>3. q = PutFooter(o, f, g)
    BY <1>5
  <2>4. len = Length(mem, g) + Length(mem, h)
    BY <1>5
  <2>5. Whole(mem, Blocks, Holes, end) /\ h \in Blocks /\ g \in Holes
    BY <1>1, <1>2
  <2>6. g + Length(mem, g) = h
    BY <1>1
  <2> QED
    BY <1>7, <1>8, <2>1, <2>2, <2>3, <2>4, <2>5, <2>6, FreeJoined
<1>10. Whole(mem', Blocks', Holes', end') /\ \A x \in Blocks' : Length(mem', x) = Length(mem, x)
  BY <1>1, <1>3, <1>5, <1>9
<1>11. Backed'
  BY <1>1 DEF Sound, Backed
<1>12. index' \in Seq(Nat) /\ Once(index')
  BY <1>1, <1>2
<1> QED
  BY <1>10, <1>11, <1>12, FreeEnds

LEMMA IndexLess ==
    ASSUME index \in Seq(Nat), Once(index), NEW z \in Holes,
           NEW idx, idx = remove_ordered_array(PositionOf(z, index), index)
    PROVE  idx \in Seq(Nat) /\ Once(idx) /\ \A x : x \in Range(idx) <=> x \in Holes /\ x # z
<1>1. z \in Range(index)
  BY DEF Holes
<1>2. PICK i : i = PositionOf(z, index)
  OBVIOUS
<1>3. i \in DOMAIN index /\ index[i] = z
  BY <1>1, <1>2, PositionIs
<1>4. idx = remove_ordered_array(i, index)
  BY <1>2
<1>5. idx \in Seq(Nat) /\ Once(idx) /\ \A x : x \in Range(idx) <=> x \in Range(index) /\ x # index[i]
  BY <1>3, <1>4, RemovedOnce
<1> QED
  BY <1>3, <1>5 DEF Holes

LEMMA FreedLastHolds ==
    ASSUME Sound, NEW p \in DOMAIN live, live' = [q \in DOMAIN live \ {p} |-> live[q]],
           pc = "idle", pc' = pc, present' = present, req' = req, allocs' = allocs,
           NEW h \in Nat, h = p - HDR, NEW z, FreedLast(h, z)
    PROVE  Sound' /\ end' \in Nat
<1>1. /\ h \in Blocks /\ h + Length(mem, h) = z /\ Contracted(h, z)
      /\ mem' = PutHole(SetSize(SetSize(mem, h, Length(mem, h)), h, Length(mem, h) + Length(mem, z)),
                        h, HEAP_MIN_SIZE - h)
      /\ index' = IndexWith(h, remove_ordered_array(PositionOf(z, index), index), mem')
  BY Zenon DEF FreedLast
<1>2. z \in Holes /\ z + Length(mem, z) = end /\ h + OVERHEAD <= HEAP_MIN_SIZE /\ end' = HEAP_MIN_SIZE
  BY <1>1 DEF Contracted
<1>3. Whole(mem, Blocks, Holes, end) /\ index \in Seq(Nat) /\ Once(index)
  BY DEF Sound, Listed
<1>4. Backed' /\ HEAP_MIN_SIZE <= end
  BY <1>1, ContractedBacked
<1>5. START + end <= WORD
  BY DEF Sound, Backed
<1>6. h \notin Holes
  BY <1>1, <1>3 DEF Whole
<1>7. index' \in Seq(Nat) /\ Once(index') /\ \A x : x \in Holes' <=> (x \in Holes /\ x # z) \/ x = h
  <2>1. PICK idx : idx = remove_ordered_array(PositionOf(z, index), index)
    OBVIOUS
  <2>2. idx \in Seq(Nat) /\ Once(idx) /\ \A x : x \in Range(idx) <=> x \in Holes /\ x # z
    BY <1>2, <1>3, <2>1, IndexLess
  <2>3. index' = IndexWith(h, idx, mem') /\ h \notin Range(idx)
    BY <1>1, <1>6, <2>1, <2>2
  <2>4. idx \in Seq(Nat) /\ Once(idx)
    BY <2>2
  <2>5. /\ index' \in Seq(Nat) /\ Once(index')
        /\ \A x : x \in Range(index') <=> x \in Range(idx) \/ x = h
    BY <2>3, <2>4, IndexWithIs
  <2> QED
    BY <2>2, <2>5 DEF Holes
<1>8. \A x : x \in Blocks' <=> x \in Blocks /\ x # h
  BY BlocksLess
<1>9. PICK o, len, q, n, B2, H2 :
        /\ o = SetSize(mem, h, Length(mem, h)) /\ len = Length(mem, h) + Length(mem, z)
        /\ q = SetSize(o, h, len) /\ n = mem' /\ B2 = Blocks' /\ H2 = Holes'
  OBVIOUS
<1>10. PICK f \in Nat : f = HEAP_MIN_SIZE /\ f <= end
  BY <1>4, Constants
<1>11. PICK len2 \in Nat : len2 = f - h /\ len2 >= OVERHEAD
  <2>1. f - h \in Nat /\ f - h >= OVERHEAD
    BY <1>2, <1>10, Constants
  <2> QED
    BY <2>1
<1>12. Whole(n, B2, H2, f) /\ \A x \in B2 : Length(n, x) = Length(mem, x)
  <2>1. o = SetSize(mem, h, Length(mem, h))
    BY <1>9
  <2>2. len = Length(mem, h) + Length(mem, z)
    BY <1>9
  <2>3. q = SetSize(o, h, len)
    BY <1>9
  <2>4. n = PutHole(q, h, len2)
    BY <1>1, <1>9, <1>10, <1>11
  <2>5. \A x : x \in B2 <=> x \in Blocks /\ x # h
    BY <1>8, <1>9
  <2>6. \A x : x \in H2 <=> (x \in Holes /\ x # z) \/ x = h
    BY <1>7, <1>9
  <2>7. h + Length(mem, h) = z
    BY <1>1
  <2>8. z + Length(mem, z) = end
    BY <1>2
  <2>9. Whole(mem, Blocks, Holes, end) /\ h \in Blocks /\ z \in Holes
    BY <1>1, <1>2, <1>3
  <2>10. len2 = f - h /\ f - h >= OVERHEAD /\ f <= end /\ f \in Nat /\ len2 \in Nat
    BY <1>10, <1>11
  <2> QED
    BY <1>5, <2>1, <2>2, <2>3, <2>4, <2>5, <2>6, <2>7, <2>8, <2>9, <2>10, FreeLast
<1>13. Whole(mem', Blocks', Holes', end') /\ \A x \in Blocks' : Length(mem', x) = Length(mem, x)
  BY <1>2, <1>9, <1>10, <1>12
<1>14. index' \in Seq(Nat) /\ Once(index') /\ Backed'
  BY <1>4, <1>7
<1> QED
  BY <1>13, <1>14, FreeEnds

LEMMA FreedBeforeLastHolds ==
    ASSUME Sound, NEW p \in DOMAIN live, live' = [q \in DOMAIN live \ {p} |-> live[q]],
           pc = "idle", pc' = pc, present' = present, req' = req, allocs' = allocs,
           NEW g, NEW h \in Nat, h = p - HDR, NEW z, FreedBeforeLast(g, h, z)
    PROVE  Sound' /\ end' \in Nat
<1>1. /\ h \in Blocks /\ g \in Holes /\ g + Length(mem, g) = h /\ h + Length(mem, h) = z /\ Contracted(g, z)
      /\ mem' = PutHole(SetSize(PutFooter(SetSize(mem, h, Length(mem, h)), h + Length(mem, h) - FTR, g),
                                g, Length(mem, h) + Length(mem, g) + Length(mem, z)),
                        g, HEAP_MIN_SIZE - g)
      /\ index' = remove_ordered_array(PositionOf(z, index), index)
  BY Zenon DEF FreedBeforeLast
<1>2. z \in Holes /\ z + Length(mem, z) = end /\ g + OVERHEAD <= HEAP_MIN_SIZE /\ end' = HEAP_MIN_SIZE
  BY <1>1 DEF Contracted
<1>3. Whole(mem, Blocks, Holes, end) /\ index \in Seq(Nat) /\ Once(index)
  BY DEF Sound, Listed
<1>4. Backed' /\ HEAP_MIN_SIZE <= end
  BY <1>1, ContractedBacked
<1>5. START + end <= WORD
  BY DEF Sound, Backed
<1>6. g \in Nat
  <2>1. g \in Blocks \cup Holes
    BY <1>1
  <2> QED
    BY <1>3, <2>1, TileIs
<1>7. index' \in Seq(Nat) /\ Once(index') /\ \A x : x \in Holes' <=> x \in Holes /\ x # z
  <2>1. PICK idx : idx = remove_ordered_array(PositionOf(z, index), index)
    OBVIOUS
  <2>2. idx \in Seq(Nat) /\ Once(idx) /\ \A x : x \in Range(idx) <=> x \in Holes /\ x # z
    BY <1>2, <1>3, <2>1, IndexLess
  <2>3. index' = idx
    BY <1>1, <2>1
  <2> QED
    BY <2>2, <2>3 DEF Holes
<1>8. \A x : x \in Blocks' <=> x \in Blocks /\ x # h
  BY BlocksLess
<1>9. PICK o, u, q, len, s, n, B2, H2 :
        /\ o = SetSize(mem, h, Length(mem, h)) /\ u = h + Length(mem, h) - FTR /\ q = PutFooter(o, u, g)
        /\ len = Length(mem, h) + Length(mem, g) + Length(mem, z)
        /\ s = SetSize(q, g, len) /\ n = mem' /\ B2 = Blocks' /\ H2 = Holes'
  OBVIOUS
<1>10. PICK f \in Nat : f = HEAP_MIN_SIZE /\ f <= end
  BY <1>4, Constants
<1>11. PICK len2 \in Nat : len2 = f - g /\ len2 >= OVERHEAD
  <2>1. f - g \in Nat /\ f - g >= OVERHEAD
    BY <1>2, <1>6, <1>10, Constants
  <2> QED
    BY <2>1
<1>12. Whole(n, B2, H2, f) /\ \A x \in B2 : Length(n, x) = Length(mem, x)
  <2>1. o = SetSize(mem, h, Length(mem, h))
    BY <1>9
  <2>2. len = Length(mem, h) + Length(mem, g) + Length(mem, z)
    BY <1>9
  <2>3. u = h + Length(mem, h) - FTR
    BY <1>9
  <2>4. n = PutHole(s, g, len2)
    BY <1>1, <1>9, <1>10, <1>11
  <2>5. \A x : x \in B2 <=> x \in Blocks /\ x # h
    BY <1>8, <1>9
  <2>6. \A x : x \in H2 <=> x \in Holes /\ x # z
    BY <1>7, <1>9
  <2>7. h + Length(mem, h) = z
    BY <1>1
  <2>8. z + Length(mem, z) = end
    BY <1>2
  <2>9. Whole(mem, Blocks, Holes, end) /\ h \in Blocks /\ z \in Holes
    BY <1>1, <1>2, <1>3
  <2>10. len2 = f - g /\ f - g >= OVERHEAD /\ f <= end /\ f \in Nat /\ len2 \in Nat
    BY <1>10, <1>11
  <2>11. g \in Holes
    BY <1>1
  <2>12. g + Length(mem, g) = h
    BY <1>1
  <2>13. q = PutFooter(o, u, g)
    BY <1>9
  <2>14. s = SetSize(q, g, len)
    BY <1>9
  <2> QED
    BY <1>5, <2>1, <2>2, <2>3, <2>4, <2>5, <2>6, <2>7, <2>8, <2>9, <2>10, <2>11, <2>12, <2>13, <2>14,
       FreeBeforeLast
<1>13. Whole(mem', Blocks', Holes', end') /\ \A x \in Blocks' : Length(mem', x) = Length(mem, x)
  BY <1>2, <1>9, <1>10, <1>12
<1>14. index' \in Seq(Nat) /\ Once(index') /\ Backed'
  BY <1>4, <1>7
<1> QED
  BY <1>13, <1>14, FreeEnds

LEMMA FreeHolds ==
    ASSUME Sound, NEW p \in DOMAIN live, Releasable(p), free(p)
    PROVE  Sound' /\ end' \in Nat /\ live' = [q \in DOMAIN live \ {p} |-> live[q]]
<1>1. /\ pc = "idle" /\ pc' = pc /\ present' = present /\ req' = req /\ allocs' = allocs
      /\ live' = [q \in DOMAIN live \ {p} |-> live[q]]
  BY FreeIs
<1>2. \/ FreedAlone(p - HDR)
      \/ \E g \in Holes : FreedJoined(g, p - HDR)
      \/ \E z \in Holes : FreedLast(p - HDR, z)
      \/ \E g, z \in Holes : FreedBeforeLast(g, p - HDR, z)
  BY FreeIs
<1>3. PICK h \in Nat : h = p - HDR
  <2>1. p - HDR \in Blocks \cup Holes
    BY DEF Blocks
  <2>2. p - HDR \in Nat
    BY <2>1, TileIs DEF Sound
  <2> QED
    BY <2>2
<1>4. CASE FreedAlone(h)
  BY <1>1, <1>3, <1>4, FreedAloneHolds
<1>5. CASE \E g \in Holes : FreedJoined(g, h)
  BY <1>1, <1>3, <1>5, FreedJoinedHolds
<1>6. CASE \E z \in Holes : FreedLast(h, z)
  BY <1>1, <1>3, <1>6, FreedLastHolds
<1>7. CASE \E g, z \in Holes : FreedBeforeLast(g, h, z)
  BY <1>1, <1>3, <1>7, FreedBeforeLastHolds
<1> QED
  BY <1>2, <1>3, <1>4, <1>5, <1>6, <1>7

(***************************************************************************)
(* What the invariant says to callers.                                      *)
(***************************************************************************)

\* Blocks that lie apart below the end keep the callers' memory apart and below it.
LEMMA Promises ==
    ASSUME NEW l, NEW m, NEW B, NEW H, NEW e, Whole(m, B, H, e), Answers(l, m), B = Headers(l)
    PROVE  /\ Requests!Below(l, e)
           /\ \A p, q \in DOMAIN l : p # q => p + l[p].size <= q \/ q + l[q].size <= p
<1>1. ASSUME NEW p \in DOMAIN l
      PROVE  \E b \in B, s \in Nat, n \in Nat :
                /\ b \in Nat /\ p \in Nat /\ p = b + HDR
                /\ s = l[p].size /\ n = Length(m, b) /\ s + OVERHEAD <= n /\ b + n <= e
  <2>1. PICK b : b = p - HDR
    OBVIOUS
  <2>2. b \in B
    BY <2>1 DEF Headers
  <2>3. b \in B \cup H
    BY <2>2
  <2>4. b \in Nat /\ Length(m, b) \in Nat /\ b + Length(m, b) <= e
    BY <2>3, TileIs
  <2>5. p \in Nat /\ l[p] \in Request /\ l[p].size + OVERHEAD <= Length(m, p - HDR)
    BY Zenon DEF Answers
  <2>6. l[p].size \in Nat
    BY <2>5, RequestIs
  <2>7. p = b + HDR
    BY <2>1, <2>4, <2>5, Constants
  <2>8. l[p].size + OVERHEAD <= Length(m, b)
    BY <2>1, <2>5
  <2> QED
    BY <2>2, <2>4, <2>5, <2>6, <2>7, <2>8
<1>2. Requests!Below(l, e)
  <2>1. ASSUME NEW p \in DOMAIN l PROVE 0 <= p /\ p + l[p].size <= e
    <3>1. PICK b \in B, s \in Nat, n \in Nat :
                /\ b \in Nat /\ p \in Nat /\ p = b + HDR
                /\ s = l[p].size /\ n = Length(m, b) /\ s + OVERHEAD <= n /\ b + n <= e
      BY <1>1
    <3>2. e \in Nat
      BY WholeTiles
    <3>3. 0 <= p /\ p + s <= e
      BY <3>1, <3>2, Constants
    <3> QED
      BY <3>1, <3>3
  <2> QED
    BY <2>1 DEF Requests!Below
<1>3. ASSUME NEW p \in DOMAIN l, NEW q \in DOMAIN l, p # q
      PROVE  p + l[p].size <= q \/ q + l[q].size <= p
  <2>1. PICK b \in B, s \in Nat, n \in Nat :
              /\ b \in Nat /\ p \in Nat /\ p = b + HDR
              /\ s = l[p].size /\ n = Length(m, b) /\ s + OVERHEAD <= n /\ b + n <= e
    BY <1>1
  <2>2. PICK c \in B, t \in Nat, k \in Nat :
              /\ c \in Nat /\ q \in Nat /\ q = c + HDR
              /\ t = l[q].size /\ k = Length(m, c) /\ t + OVERHEAD <= k /\ c + k <= e
    BY <1>1
  <2>3. b # c
    BY <1>3, <2>1, <2>2
  <2>4. b \in B \cup H /\ c \in B \cup H
    BY <2>1, <2>2
  <2>5. CASE b < c
    <3>1. b + Length(m, b) <= c
      BY <2>4, <2>5, TilesApart
    <3>2. p + s <= q
      BY <2>1, <2>2, <3>1, Constants
    <3> QED
      BY <2>1, <3>2
  <2>6. CASE c < b
    <3>1. c + Length(m, c) <= b
      BY <2>4, <2>6, TilesApart
    <3>2. q + t <= p
      BY <2>1, <2>2, <3>1, Constants
    <3> QED
      BY <2>2, <3>2
  <2> QED
    BY <2>1, <2>2, <2>3, <2>5, <2>6
<1> QED
  BY <1>2, <1>3

LEMMA Retyped ==
    ASSUME NEW s \in Seq(Nat), NEW S, \A i \in DOMAIN s : s[i] \in S
    PROVE  s \in Seq(S)
<1>1. Len(s) \in Nat /\ s = [i \in 1..Len(s) |-> s[i]] /\ DOMAIN s = 1..Len(s)
  BY LenProperties
<1>2. \A i \in 1..Len(s) : s[i] \in S
  BY <1>1
<1> QED
  BY <1>1, <1>2

LEMMA Tiled == Sound => HeapTiles
<1> SUFFICES ASSUME Sound PROVE HeapTiles
  OBVIOUS
<1>1. Whole(mem, Blocks, Holes, end) /\ Once(index)
  BY DEF Sound, Listed
<1>2. Blocks \cap Holes = {} /\ Marked(mem, Blocks, Holes) /\ Footed(mem, Blocks, Holes, end)
  BY <1>1 DEF Whole
<1>3. \A i, j \in DOMAIN index : index[i] = index[j] => i = j
  BY <1>1 DEF Once
<1>4. 0 \in Blocks \cup Holes
  BY <1>1, WholeTiles
<1>5. ASSUME NEW h \in Blocks \cup Holes
      PROVE  /\ h \in DOMAIN mem.header
             /\ mem.header[h].is_hole <=> h \in Holes
             /\ Size(h) >= OVERHEAD
             /\ h + Size(h) \in Blocks \cup Holes \cup {end}
             /\ h + Size(h) < end =>
                   /\ h + Size(h) - FTR \in DOMAIN mem.footer
                   /\ mem.footer[h + Size(h) - FTR] = h
             /\ \A g \in Blocks \cup Holes : g > h => g >= h + Size(h)
  <2>1. Size(h) = Length(mem, h)
    BY DEF Size, Length
  <2>2. h \in DOMAIN mem.header /\ (mem.header[h].is_hole <=> h \in Holes)
    BY <1>2 DEF Marked
  <2>3. /\ h \in Nat /\ Length(mem, h) \in Nat /\ Length(mem, h) >= OVERHEAD
        /\ h + Length(mem, h) = end \/ h + Length(mem, h) \in Blocks \cup Holes
        /\ \A g \in Blocks \cup Holes : g \in Nat /\ (h < g => h + Length(mem, h) <= g)
    BY <1>1, WholeTiles
  <2>4. h + Length(mem, h) < end => Closed(mem, h)
    BY <1>2 DEF Footed
  <2>5. h + Size(h) < end => /\ h + Size(h) - FTR \in DOMAIN mem.footer
                             /\ mem.footer[h + Size(h) - FTR] = h
    BY <2>1, <2>4, Zenon DEF Closed
  <2>6. Size(h) >= OVERHEAD /\ h + Size(h) \in Blocks \cup Holes \cup {end}
    BY <2>1, <2>3
  <2>7. ASSUME NEW g \in Blocks \cup Holes, g > h PROVE g >= h + Size(h)
    BY <2>1, <2>3, <2>7
  <2> QED
    BY <2>2, <2>5, <2>6, <2>7
<1> QED
  BY <1>2, <1>3, <1>4, <1>5, Zenon DEF HeapTiles

LEMMA Typed == Sound => TypeOK
<1> SUFFICES ASSUME Sound PROVE TypeOK
  OBVIOUS
<1>1. Whole(mem, Blocks, Holes, end) /\ Listed /\ Backed /\ Answers(live, mem) /\ Serving
  BY DEF Sound
<1>2. Memory(mem)
  BY <1>1 DEF Whole
<1>3. DOMAIN mem = {"header", "footer"}
  BY <1>2 DEF Memory
<1>4. \A h \in DOMAIN mem.header : mem.header[h] \in [is_hole : BOOLEAN, size : Nat]
  BY <1>2 DEF Memory
<1>5. \A f \in DOMAIN mem.footer : mem.footer[f] \in Nat
  BY <1>2 DEF Memory
<1>6. index \in Seq(DOMAIN mem.header)
  <2>1. \A x \in Blocks \cup Holes : x \in DOMAIN mem.header
    BY <1>1, WholeTiles
  <2>2. \A i \in DOMAIN index : index[i] \in DOMAIN mem.header
    BY <2>1, HolesAre
  <2>3. index \in Seq(Nat)
    BY <1>1 DEF Listed
  <2> QED
    BY <2>2, <2>3, Retyped
<1>7. end \in Nat
  BY <1>1, WholeTiles
<1>8. framed \subseteq present /\ present \subseteq Nat
  BY <1>1 DEF Backed
<1>9. pc \in {"idle", "alloc"} \cup Stop /\ req \in Request /\ allocs \in 0..MaxAllocs
  BY <1>1 DEF Serving
<1>10. \A p \in DOMAIN live : live[p] \in Request
  BY <1>1 DEF Answers
<1> QED
  BY <1>3, <1>4, <1>5, <1>6, <1>7, <1>8, <1>9, <1>10, Zenon DEF TypeOK

LEMMA Stays == Sound => HeapIsBacked
<1> SUFFICES ASSUME Sound PROVE HeapIsBacked
  OBVIOUS
<1>1. /\ Whole(mem, Blocks, Holes, end)
      /\ PagesOf(0, end) \subseteq framed /\ HEAP_MIN_SIZE <= end
  BY DEF Sound, Backed
<1>2. end \in Nat /\ end > 0
  <2>1. end \in Nat
    BY <1>1, WholeTiles
  <2> QED
    BY <1>1, <2>1, Constants
<1>3. end - 1 \in Nat /\ end - 1 < end
  BY <1>2
<1>4. Page(end - 1) \in PagesOf(0, end)
  BY <1>2, <1>3, PagesBelow
<1> QED
  BY <1>1, <1>4 DEF HeapIsBacked

\* When a call does not come back, the callers have what they had.
LEMMA LeftEnds ==
    ASSUME Sound, Left
    PROVE  Ended'
<1>1. TypeOK
  BY Typed
<1>2. /\ mem' = mem /\ index' = index /\ live' = live /\ req' = req /\ allocs' = allocs
      /\ end' \in Nat /\ framed' \subseteq present' /\ present' \subseteq Nat
      /\ pc' \in Stop /\ HeapIsBacked'
  BY DEF Left
<1>3. TypeOK'
  BY <1>1, <1>2 DEF TypeOK
<1> QED
  BY <1>2, <1>3 DEF Ended

LEMMA SoundStays ==
    ASSUME Sound, UNCHANGED vars
    PROVE  Sound'
<1>1. /\ mem' = mem /\ index' = index /\ end' = end /\ present' = present /\ framed' = framed
      /\ pc' = pc /\ req' = req /\ live' = live /\ allocs' = allocs
  BY DEF vars, heapVars
<1>2. Blocks' = Blocks /\ Holes' = Holes
  BY <1>1 DEF Blocks, Holes
<1>3. Whole(mem, Blocks, Holes, end)' /\ Answers(live, mem)'
  BY <1>1, <1>2 DEF Sound
<1>4. Listed' /\ Backed'
  BY <1>1 DEF Sound, Listed, Backed
<1>5. Serviceable(req)' = Serviceable(req)
  <2>1. req \in Request
    BY DEF Sound, Serving
  <2> QED
    BY <1>1, <2>1, ServiceableStays
<1>6. Serving'
  BY <1>1, <1>5 DEF Sound, Serving
<1> QED
  BY <1>3, <1>4, <1>6 DEF Sound

LEMMA EndedStays ==
    ASSUME Ended, [DesignNext]_vars
    PROVE  Ended' /\ UNCHANGED vars
<1>1. pc # "idle" /\ pc # "alloc"
  BY DEF Ended, Stop
<1>2. ~DesignNext
  BY <1>1, Zenon DEF DesignNext, Alloc, ExpandStops, AllocExpand, AllocCarve, free
<1>3. UNCHANGED vars
  BY <1>2
<1>4. /\ mem' = mem /\ index' = index /\ end' = end /\ present' = present /\ framed' = framed
      /\ pc' = pc /\ req' = req /\ live' = live /\ allocs' = allocs
  BY <1>3 DEF vars, heapVars
<1>5. TypeOK' /\ HeapIsBacked'
  BY <1>4 DEF Ended, TypeOK, HeapIsBacked
<1> QED
  BY <1>3, <1>4, <1>5 DEF Ended

\* The steps of the design, as the callers see them.
LEMMA StepHolds ==
    ASSUME Sound, [DesignNext]_vars
    PROVE  \/ Left
           \/ /\ Sound'
              /\ pc = "alloc" /\ pc' = "alloc" /\ ~UNCHANGED vars => (Fitting(req) # {})'
              /\ \/ live' = live
                 \/ \E p : p \notin DOMAIN live /\ live' = With(live, p, req)
                 \/ \E p \in DOMAIN live : live' = [q \in DOMAIN live \ {p} |-> live[q]]
<1>1. CASE \E r \in Request : Serviceable(r) /\ Alloc(r)
  <2>1. PICK r \in Request : Serviceable(r) /\ Alloc(r)
    BY <1>1
  <2>2. Sound'
    BY <2>1, AllocHolds
  <2>3. live' = live /\ pc # "alloc"
    BY <2>1 DEF Alloc
  <2> QED
    BY <2>2, <2>3
<1>2. CASE ExpandStops
  BY <1>2, ExpandLeaves
<1>3. CASE AllocExpand
  BY <1>3, ExpandHolds
<1>4. CASE AllocCarve
  <2>1. /\ Sound' /\ pc' = "idle"
        /\ \E p : p \notin DOMAIN live /\ live' = With(live, p, req)
    BY <1>4, CarveHolds
  <2> QED
    BY <2>1
<1>5. CASE \E p \in DOMAIN live : Releasable(p) /\ free(p)
  <2>1. PICK p \in DOMAIN live : Releasable(p) /\ free(p)
    BY <1>5
  <2>2. Sound' /\ live' = [q \in DOMAIN live \ {p} |-> live[q]]
    BY <2>1, FreeHolds
  <2>3. pc # "alloc"
    BY <2>1, Zenon DEF free
  <2> QED
    BY <2>1, <2>2, <2>3
<1>6. CASE UNCHANGED vars
  <2>1. live' = live
    BY <1>6 DEF vars
  <2> QED
    BY <1>6, <2>1, SoundStays
<1> QED
  BY <1>1, <1>2, <1>3, <1>4, <1>5, <1>6 DEF DesignNext

LEMMA LeftAnswers ==
    ASSUME Sound, Left
    PROVE  [Requests!AllocatorNext]_Requests!allocatorVars
<1>1. live' = live /\ end' \in Nat /\ end <= end'
  BY DEF Left
<1>2. Whole(mem, Blocks, Holes, end) /\ Answers(live, mem)
  BY DEF Sound
<1>3. Requests!Below(live, end) /\ end \in Nat
  BY <1>2, BlocksAre, Promises, WholeTiles
<1>4. ASSUME NEW p \in DOMAIN live PROVE 0 <= p /\ p + live[p].size <= end'
  <2>1. live[p] \in Request /\ p \in Nat
    BY <1>2, Zenon DEF Answers
  <2>2. PICK n \in Nat : n = live[p].size
    BY <2>1, RequestIs
  <2>3. p + live[p].size <= end
    BY <1>3 DEF Requests!Below
  <2>4. p + n <= end'
    BY <1>1, <1>3, <2>1, <2>2, <2>3
  <2> QED
    BY <2>1, <2>2, <2>4
<1>5. Requests!Below(live', end')
  BY <1>1, <1>4 DEF Requests!Below
<1> QED
  BY <1>1, <1>5 DEF Requests!AllocatorNext

LEMMA StepAnswers ==
    ASSUME Sound, [DesignNext]_vars, ~Left
    PROVE  [Requests!AllocatorNext]_Requests!allocatorVars
<1>1. Sound' /\ \/ live' = live
                \/ \E p : p \notin DOMAIN live /\ live' = With(live, p, req)
                \/ \E p \in DOMAIN live : live' = [q \in DOMAIN live \ {p} |-> live[q]]
  BY StepHolds
<1>2. PICK l, m, B, H, e : l = live' /\ m = mem' /\ B = Blocks' /\ H = Holes' /\ e = end'
  OBVIOUS
<1>3. Whole(m, B, H, e) /\ Answers(l, m)
  <2>1. Whole(mem', Blocks', Holes', end') /\ Answers(live', mem')
    BY <1>1 DEF Sound
  <2> QED
    BY <1>2, <2>1
<1>4. B = Headers(l)
  BY <1>2 DEF Blocks, Headers
<1>5. e \in Nat
  BY <1>3, WholeTiles
<1>6. /\ Requests!Below(l, e)
      /\ \A p, q \in DOMAIN l : p # q => p + l[p].size <= q \/ q + l[q].size <= p
  BY <1>3, <1>4, Promises
<1>7. end' \in Nat /\ Requests!Below(live', end')
  BY <1>2, <1>5, <1>6
<1>8. Requests!Allocate \/ Requests!Release \/ UNCHANGED live
  <2>1. CASE live' = live
    BY <2>1
  <2>2. CASE \E p : p \notin DOMAIN live /\ live' = With(live, p, req)
    <3>1. PICK p : p \notin DOMAIN live /\ live' = With(live, p, req)
      BY <2>2
    <3>2. /\ DOMAIN live' = DOMAIN live \cup {p} /\ live'[p] = req
          /\ \A q \in DOMAIN live : live'[q] = live[q]
      BY <3>1 DEF With
    <3>3. Requests!Fresh(p, live'[p], live)
      <4>1. l[p] \in Request /\ (l[p].page_align => p % PAGE = 0)
        <5>1. p \in DOMAIN l
          BY <1>2, <3>2
        <5> QED
          BY <1>3, <5>1, Zenon DEF Answers
      <4>2. ASSUME NEW q \in DOMAIN live
            PROVE  p + l[p].size <= q \/ q + live[q].size <= p
        <5>1. p \in DOMAIN l /\ q \in DOMAIN l /\ p # q /\ l[q] = live[q]
          BY <1>2, <3>1, <3>2
        <5>2. p + l[p].size <= q \/ q + l[q].size <= p
          BY <1>6, <5>1
        <5> QED
          BY <5>1, <5>2
      <4>3. live'[p] = l[p]
        BY <1>2
      <4> QED
        BY <4>1, <4>2, <4>3, Zenon DEF Requests!Fresh
    <3>4. p \in DOMAIN live' \ DOMAIN live
      BY <3>1, <3>2
    <3>5. Requests!Allocate
      BY <3>2, <3>3, <3>4 DEF Requests!Allocate
    <3> QED
      BY <3>5
  <2>3. CASE \E p \in DOMAIN live : live' = [q \in DOMAIN live \ {p} |-> live[q]]
    BY <2>3 DEF Requests!Release
  <2> QED
    BY <1>1, <2>1, <2>2, <2>3
<1> QED
  BY <1>7, <1>8 DEF Requests!AllocatorNext

(***************************************************************************)
(* The theorems.                                                            *)
(***************************************************************************)

\* What the heap between two calls looks like: IInv holds of every state that
\* alloc, expand and free reach from what create_heap leaves, used as designed.
THEOREM HeapInvariant == DesignSpec => []IInv
<1>1. Init => IInv
  BY InitHolds DEF IInv
<1>2. IInv /\ [DesignNext]_vars => IInv'
  <2> SUFFICES ASSUME IInv, [DesignNext]_vars PROVE Sound' \/ Ended'
    BY DEF IInv
  <2>1. CASE Sound
    BY <2>1, StepHolds, LeftEnds
  <2>2. CASE Ended
    BY <2>2, EndedStays
  <2> QED
    BY <2>1, <2>2 DEF IInv
<1> QED
  BY <1>1, <1>2, PTL DEF DesignSpec

\* The variables keep their types: every tag and every listed hole is one that
\* alloc, expand, contract or free can read.
THEOREM HeapTyped == DesignSpec => []TypeOK
<1>1. IInv => TypeOK
  BY Typed DEF IInv, Ended
<1> QED
  BY <1>1, HeapInvariant, PTL

\* Carving, expanding, contracting and merging with the hole on the left or with
\* the last one leave blocks and listed holes that tile the heap, each hole listed
\* once, each tile's footer leading to it.
THEOREM TheHeapTiles == DesignSpec => []HeapTiles
<1>1. Ended => HeapTiles
  BY DEF Ended, Stop, HeapTiles
<1>2. IInv => HeapTiles
  BY <1>1, Tiled DEF IInv
<1> QED
  BY <1>2, HeapInvariant, PTL

\* expand gives a frame to every page it adds but perhaps the last, and then alloc
\* does not come back; contract takes none from a page that the heap still has.
THEOREM TheHeapIsBacked == DesignSpec => []HeapIsBacked
<1>1. IInv => HeapIsBacked
  BY Stays DEF IInv, Ended
<1> QED
  BY <1>1, HeapInvariant, PTL

\* alloc and free answer as an allocator must: blocks are disjoint, aligned,
\* below the end, and stay as they are until they are freed.
THEOREM TheHeapServes == DesignSpec => ServesRequests
<1>1. Init => Requests!AllocatorInit
  BY Constants DEF Init, create_heap, Requests!AllocatorInit
<1>2. IInv /\ [DesignNext]_vars => [Requests!AllocatorNext]_Requests!allocatorVars
  <2> SUFFICES ASSUME IInv, [DesignNext]_vars
               PROVE  [Requests!AllocatorNext]_Requests!allocatorVars
    OBVIOUS
  <2>1. CASE Sound
    BY <2>1, LeftAnswers, StepAnswers
  <2>2. CASE Ended
    <3>1. UNCHANGED vars
      BY <2>2, EndedStays
    <3>2. live' = live /\ end' = end
      BY <3>1 DEF vars, heapVars
    <3> QED
      BY <3>2 DEF Requests!allocatorVars
  <2> QED
    BY <2>1, <2>2 DEF IInv
<1> QED
  BY <1>1, <1>2, HeapInvariant, PTL DEF DesignSpec, ServesRequests, Requests!AllocatorSpec

\* The alloc that expand returns to finds a hole that fits: alloc calls itself
\* at most once.
THEOREM ExpandingIsEnough == DesignSpec => ExpandsEnough
<1>1. IInv /\ [DesignNext]_vars => [pc = "alloc" /\ pc' = "alloc" => Fitting(req)' # {}]_vars
  <2> SUFFICES ASSUME IInv, [DesignNext]_vars, pc = "alloc", pc' = "alloc", ~UNCHANGED vars
               PROVE  Fitting(req)' # {}
    OBVIOUS
  <2>1. Sound
    BY DEF IInv, Ended, Stop
  <2>2. ~Left
    BY DEF Left, Stop
  <2>3. (Fitting(req) # {})'
    BY <2>1, <2>2, StepHolds
  <2> QED
    BY <2>3
<1> QED
  BY <1>1, HeapInvariant, PTL DEF DesignSpec, ExpandsEnough
=============================================================================
