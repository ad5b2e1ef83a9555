------------------------------ MODULE VfsProofs ------------------------------
(***************************************************************************)
(* Theorems about Vfs, for any number of programs and slots, any paths and   *)
(* any ramdisk: the open table, the tar image under the writes of its files, *)
(* and the device tree.                                                     *)
(***************************************************************************)
EXTENDS Vfs, WellFoundedInduction, SequenceTheorems, FiniteSetTheorems, TLAPS

(***************************************************************************)
(* Induction: the least counterexample, and functions built step by step.   *)
(***************************************************************************)

\* A set of naturals has a least element.
LEMMA LeastOf ==
    ASSUME NEW S, S \subseteq Nat, S # {}
    PROVE  \E e \in S : \A x \in S : e <= x
<1>1. PICK e \in S : \A x \in S : ~(<<x, e>> \in OpToRel(<, Nat))
  BY NatLessThanWellFounded, WFMin
<1>2. \A x \in S : ~(x < e)
  BY <1>1, Zenon DEF OpToRel
<1> QED
  BY <1>2

\* Min of the community modules.
LEMMA LeastIs ==
    ASSUME NEW S, S \subseteq Nat, S # {}
    PROVE  Min(S) \in S
<1>1. \E e \in S : \A x \in S : e <= x
  BY LeastOf
<1> QED
  BY <1>1 DEF Min

\* Induction up to N, with the set of those for which it holds.
LEMMA UpTo ==
    ASSUME NEW N \in Nat, NEW P, 0 \in P, \A n \in 1..N : n - 1 \in P => n \in P
    PROVE  \A n \in 0..N : n \in P
<1> DEFINE Bad == {m \in 0..N : m \notin P}
<1>1. ASSUME Bad # {} PROVE FALSE
  <2>1. Bad \subseteq Nat
    OBVIOUS
  <2>2. PICK b \in Bad : \A x \in Bad : b <= x
    BY <1>1, <2>1, LeastOf
  <2>3. b \in 1..N /\ b - 1 \in 0..N /\ ~(b <= b - 1)
    BY <2>2
  <2>4. b - 1 \in P
    BY <2>2, <2>3
  <2> QED
    BY <2>2, <2>3, <2>4
<1> QED
  BY <1>1

\* h has z, and N times what the next step makes of the value before.
Iterates(h, S, z, N, step) ==
    h \in [0..N -> S] /\ h[0] = z /\ \A n \in 1..N : h[n] = step[n][h[n - 1]]

\* There is such an h: what a recursive function needs to be one.
LEMMA Iterated ==
    ASSUME NEW S, NEW z \in S, NEW N \in Nat, NEW step \in [1..N -> [S -> S]]
    PROVE  \E h : Iterates(h, S, z, N, step)
<1> DEFINE Good(m, h) == h \in [0..m -> S] /\ h[0] = z /\ \A n \in 1..m : h[n] = step[n][h[n - 1]]
           P == {m \in 0..N : \E h : Good(m, h)}
<1>1. 0 \in P
  <2>1. Good(0, [n \in 0..0 |-> z])
    OBVIOUS
  <2>2. PICK h : Good(0, h)
    BY <2>1
  <2>3. 0 \in 0..N
    OBVIOUS
  <2> QED
    BY <2>2, <2>3
<1>2. ASSUME NEW b \in 1..N, b - 1 \in P PROVE b \in P
  <2>4. PICK g : Good(b - 1, g)
    BY <1>2
  <2>5. PICK h : h = [n \in 0..b |-> IF n = b THEN step[b][g[b - 1]] ELSE g[n]]
    OBVIOUS
  <2>6. Good(b, h)
    <3>1. g[b - 1] \in S /\ step[b] \in [S -> S]
      BY <2>4
    <3>2. h \in [0..b -> S]
      BY <2>4, <2>5, <3>1
    <3>3. h[0] = z
      BY <2>4, <2>5
    <3>4. ASSUME NEW n \in 1..b PROVE h[n] = step[n][h[n - 1]]
      <4>1. CASE n = b
        BY <2>5, <4>1
      <4>2. CASE n # b
        BY <2>4, <2>5, <4>2
      <4> QED
        BY <4>1, <4>2
    <3> QED
      BY <3>2, <3>3, <3>4
  <2> QED
    BY <2>6
<1>3. N \in P
  <2> HIDE DEF P
  <2>1. \A n \in 1..N : n - 1 \in P => n \in P
    BY <1>2
  <2>2. \A n \in 0..N : n \in P
    BY <1>1, <2>1, UpTo
  <2> QED
    BY <2>2
<1> QED
  BY <1>3 DEF Iterates

(***************************************************************************)
(* The open table.  HandlesAreKept says nothing of a slot outside the table, *)
(* so it is strengthened by where slots are.                                *)
(***************************************************************************)
InUse ==
    /\ DOMAIN openTable \subseteq Slot
    /\ DOMAIN held = Client
    /\ \A c \in Client : \A h \in held[c] :
          h.slot \in DOMAIN openTable /\ openTable[h.slot] = h.node

Exclusive ==
    \A c, d \in Client : \A h \in held[c], g \in held[d] :
        h.slot = g.slot => c = d /\ h = g

Owned == \A s \in DOMAIN openTable : \E c \in Client : \E h \in held[c] : h.slot = s

IInv == InUse /\ Exclusive /\ Owned

(* vfs_open's loop ends at the first free slot, if there is one. *)
LEMMA FirstFreeSlot ==
    ASSUME Free # {}
    PROVE  OpenSlot \in Free /\ OpenSlot \in Nat
<1>1. Free \subseteq Nat
    BY FileAssumption DEF Free, Slot
<1>2. PICK s \in Free : \A t \in Free : s <= t
    BY <1>1, LeastOf
<1> QED
    BY <1>1, <1>2 DEF OpenSlot

(* The invariant implies the property that the run checks. *)
LEMMA KeptFromInvariant == IInv => HandlesAreKept
BY DEF IInv, InUse, Exclusive, Owned, HandlesAreKept, vfs_get

(* A step that leaves table and handles alone keeps the invariant. *)
LEMMA UntouchedKeeps == IInv /\ UNCHANGED <<openTable, held>> => IInv'
BY DEF IInv, InUse, Exclusive, Owned

(* vfs_open: the new handle's slot was nobody's. *)
LEMMA OpenKeeps ==
    ASSUME IInv, NEW c \in Client, NEW n, Opened(c, n)
    PROVE  IInv'
<1>1. CASE n = None \/ Free = {}
    BY <1>1, UntouchedKeeps DEF Opened
<1>2. CASE ~(n = None \/ Free = {})
    <2> DEFINE slot == OpenSlot
               new == Handle(slot, n)
    <2>1. slot \in Slot /\ slot \notin DOMAIN openTable
        BY <1>2, FirstFreeSlot DEF Free
    <2>2. DOMAIN openTable' = DOMAIN openTable \cup {slot}
        BY <1>2 DEF Opened, TableWith
    <2>3. openTable'[slot] = n /\ \A s \in DOMAIN openTable : openTable'[s] = openTable[s]
        BY <1>2, <2>1 DEF Opened, TableWith
    <2>4. /\ DOMAIN held' = Client
          /\ held'[c] = held[c] \cup {new}
          /\ \A d \in Client \ {c} : held'[d] = held[d]
        BY <1>2 DEF Opened, IInv, InUse
    <2>5. new.slot = slot /\ new.node = n
        BY DEF Handle
    <2>6. InUse'
        <3>1. DOMAIN openTable' \subseteq Slot
            BY <2>1, <2>2 DEF IInv, InUse
        <3>2. ASSUME NEW d \in Client, NEW h \in held'[d]
              PROVE  h.slot \in DOMAIN openTable' /\ openTable'[h.slot] = h.node
            BY <2>2, <2>3, <2>4, <2>5 DEF IInv, InUse
        <3> QED
            BY <2>4, <3>1, <3>2 DEF InUse, Slot
    <2>7. Exclusive'
        <3>1. ASSUME NEW d \in Client, NEW h \in held[d]
              PROVE  h.slot # slot
            BY <2>1 DEF IInv, InUse
        <3> QED
            BY <2>4, <2>5, <3>1 DEF IInv, Exclusive
    <2>8. Owned'
        <3>1. ASSUME NEW s \in DOMAIN openTable'
              PROVE  \E d \in Client : \E h \in held'[d] : h.slot = s
            <4>1. CASE s = slot
                BY <4>1, <2>4, <2>5
            <4>2. CASE s # slot
                BY <4>2, <2>2, <2>4 DEF IInv, Owned
            <4> QED
                BY <4>1, <4>2
        <3> QED
            BY <3>1 DEF Owned
    <2> QED
        BY <2>6, <2>7, <2>8 DEF IInv
<1> QED
    BY <1>1, <1>2

(* vfs_close: by Exclusive, the slot that is cleared has no other handle. *)
LEMMA CloseKeeps ==
    ASSUME IInv, NEW c \in Client, NEW h \in held[c], syscall_close(c, h)
    PROVE  IInv'
<1>1. /\ DOMAIN openTable' = DOMAIN openTable \ {h.slot}
      /\ \A s \in DOMAIN openTable' : openTable'[s] = openTable[s]
    BY DEF syscall_close, vfs_close
<1>2. /\ DOMAIN held' = Client
      /\ held'[c] = held[c] \ {h}
      /\ \A d \in Client \ {c} : held'[d] = held[d]
    BY DEF syscall_close, IInv, InUse
<1>3. ASSUME NEW d \in Client, NEW g \in held'[d]
      PROVE  g \in held[d] /\ g.slot # h.slot
    <2>1. g \in held[d] /\ ~(d = c /\ g = h)
        BY <1>2, <1>3
    <2> QED
        BY <2>1 DEF IInv, Exclusive
<1>4. InUse'
    <2>1. DOMAIN openTable' \subseteq Slot
        BY <1>1 DEF IInv, InUse
    <2>2. ASSUME NEW d \in Client, NEW g \in held'[d]
          PROVE  g.slot \in DOMAIN openTable' /\ openTable'[g.slot] = g.node
        BY <1>1, <1>3 DEF IInv, InUse
    <2> QED
        BY <1>2, <2>1, <2>2 DEF InUse, Slot
<1>5. Exclusive'
    BY <1>3 DEF IInv, Exclusive
<1>6. Owned'
    <2>1. ASSUME NEW s \in DOMAIN openTable'
          PROVE  \E d \in Client : \E g \in held'[d] : g.slot = s
        <3>1. PICK d \in Client : \E g \in held[d] : g.slot = s
            BY <1>1 DEF IInv, Owned
        <3>2. PICK g \in held[d] : g.slot = s
            BY <3>1
        <3>3. g \in held'[d]
            BY <1>1, <1>2, <3>2
        <3> QED
            BY <3>2, <3>3
    <2> QED
        BY <2>1 DEF Owned
<1> QED
    BY <1>4, <1>5, <1>6 DEF IInv

(* No step of any program disturbs another's handles. *)
LEMMA StepKeeps == IInv /\ [Next]_vars => IInv'
<1> SUFFICES ASSUME IInv, [Next]_vars PROVE IInv'
    OBVIOUS
<1>1. CASE initrd_init \/ modules_init \/ DriverInit
    BY <1>1, UntouchedKeeps DEF initrd_init, GoesAstray, modules_init, DriverInit, history
<1>2. ASSUME NEW p \in Path, syscall_info(p) PROVE IInv'
    BY <1>2, UntouchedKeeps DEF syscall_info, GoesAstray, history
<1>3. ASSUME NEW c \in Client, NEW p \in Path, syscall_open(c, p) PROVE IInv'
    <2>1. CASE GoesAstray
        BY <2>1, UntouchedKeeps DEF GoesAstray, history
    <2>2. CASE Opened(c, vfs_find_root(p))
        BY <2>2, OpenKeeps
    <2> QED
        BY <1>3, <2>1, <2>2 DEF syscall_open
<1>4. ASSUME NEW c \in Client, NEW h \in held[c], syscall_close(c, h) PROVE IInv'
    BY <1>4, CloseKeeps
<1>5. ASSUME NEW c \in Client, NEW h \in held[c], NEW n \in Count, syscall_read(h, n)
      PROVE  IInv'
    BY <1>5, UntouchedKeeps DEF syscall_read, history
<1>6. ASSUME NEW c \in Client, NEW h \in held[c], NEW n \in Count, syscall_write(h, n)
      PROVE  IInv'
    BY <1>6, UntouchedKeeps DEF syscall_write, history
<1>7. CASE UNCHANGED vars
    BY <1>7, UntouchedKeeps DEF vars, history
<1> QED
    BY <1>1, <1>2, <1>3, <1>4, <1>5, <1>6, <1>7 DEF Next

LEMMA InitKept == Init => IInv
BY DEF Init, IInv, InUse, Exclusive, Owned

(* For any number of programs and slots, a handle leads to the node it was      *)
(* opened for until its owner closes it, shares its slot with no other, and no   *)
(* slot stays in use without a handle.                                          *)
THEOREM HandlesKept == Spec => []HandlesAreKept
<1>1. Spec => []IInv
    BY InitKept, StepKeeps, PTL DEF Spec
<1> QED
    BY <1>1, KeptFromInvariant, PTL

(* For any number of slots, vfs_open refuses a path that leads to a node only    *)
(* when all of them are in use.                                                 *)
THEOREM OpensServed == Spec => OpenServes
<1>1. IInv /\ [Next]_vars =>
        [opened' = -1 /\ DOMAIN openTable # Slot =>
            \A c \in Client, p \in Path :
                syscall_open(c, p) => vfs_find_root(p) \in {None, Wild}]_vars
    <2> SUFFICES ASSUME IInv, opened' = -1, DOMAIN openTable # Slot,
                        NEW c \in Client, NEW p \in Path, syscall_open(c, p),
                        vfs_find_root(p) \notin {None, Wild}
                 PROVE  FALSE
        OBVIOUS
    <2>1. Free # {}
        BY DEF Free, IInv, InUse
    <2>2. opened' = OpenSlot
        BY <2>1 DEF syscall_open, Opened
    <2> QED
        BY <2>1, <2>2, FirstFreeSlot
<1>2. Spec => []IInv
    BY InitKept, StepKeeps, PTL DEF Spec
<1> QED
    BY <1>1, <1>2, PTL DEF Spec, OpenServes

(***************************************************************************)
(* The tar image: tar's layout, and initrd_parse on it.                     *)
(***************************************************************************)

\* Division by b, at least 1.
LEMMA Quotient ==
    ASSUME NEW a \in Nat, NEW b \in Nat \ {0}
    PROVE  /\ a \div b \in Nat /\ a % b \in Nat /\ a % b < b
           /\ b * (a \div b) \in Nat /\ a = (b * (a \div b)) + (a % b)
<1>1. \A n \in Nat \ {0} : /\ a \div n \in Nat /\ a % n \in Nat /\ a % n < n
                           /\ n * (a \div n) \in Nat /\ a = (n * (a \div n)) + (a % n)
  OBVIOUS
<1> QED
  BY <1>1

\* What it is, from the multiples around a.
LEMMA QuotientIs ==
    ASSUME NEW a \in Nat, NEW b \in Nat \ {0}, NEW q \in Nat, b * q <= a, a < (b * q) + b
    PROVE  a \div b = q
<1>1. \A n \in Nat \ {0}, j, l \in Nat : j < l => (n * j) + n <= n * l
  OBVIOUS
<1>2. /\ a \div b \in Nat /\ b * (a \div b) \in Nat /\ b * (a \div b) <= a
      /\ a < (b * (a \div b)) + b /\ b * q \in Nat
  <2>1. \A n \in Nat \ {0}, j \in Nat : n * j \in Nat
    OBVIOUS
  <2> QED
    BY <2>1, Quotient
<1>3. a \div b < q => (b * (a \div b)) + b <= b * q
  BY <1>1, <1>2
<1>4. q < a \div b => (b * q) + b <= b * (a \div b)
  BY <1>1, <1>2
<1> QED
  BY <1>2, <1>3, <1>4

\* A file's blocks as initrd_parse counts them, and as tar does.
LEMMA BlocksOf ==
    ASSUME NEW n \in Nat, NEW b \in Nat \ {0}
    PROVE  /\ b * (1 + ((n + b - 1) \div b)) \in Nat
           /\ b * (1 + ((n + b - 1) \div b)) >= b + n
           /\ (((n \div b) + 1) * b) + (IF n % b # 0 THEN b ELSE 0) = b * (1 + ((n + b - 1) \div b))
<1>1. PICK q \in Nat, s \in Nat, bq \in Nat :
          q = n \div b /\ s = n % b /\ bq = b * q /\ n = bq + s /\ s < b
  BY Quotient
<1>2. \A x \in Nat, y \in Nat : y * (1 + x) = (y * x) + y /\ (x + 1) * y = (y * x) + y
                                /\ y * (x + 1) = (y * x) + y
  OBVIOUS
<1>3. (q + 1) * b = bq + b /\ b * (1 + q) = bq + b /\ b * (q + 1) = bq + b
  BY <1>1, <1>2
<1>4. CASE s = 0
  <2>1. (n + b - 1) \div b = q
    <3>1. n + b - 1 \in Nat /\ b * q <= n + b - 1 /\ n + b - 1 < (b * q) + b
      BY <1>1, <1>4
    <3> QED
      BY <1>1, <3>1, QuotientIs
  <2> QED
    BY <1>1, <1>3, <1>4, <2>1
<1>5. CASE s # 0
  <2>1. (n + b - 1) \div b = q + 1
    <3>1. n + b - 1 \in Nat /\ q + 1 \in Nat
          /\ b * (q + 1) <= n + b - 1 /\ n + b - 1 < (b * (q + 1)) + b
      BY <1>1, <1>3, <1>5
    <3> QED
      BY <3>1, QuotientIs
  <2>2. b * (1 + (q + 1)) = bq + b + b
    <3>1. b * (1 + (q + 1)) = (b * (q + 1)) + b
      BY <1>1, <1>2
    <3> QED
      BY <1>3, <3>1
  <2> QED
    BY <1>1, <1>3, <1>5, <2>1, <2>2
<1> QED
  BY <1>4, <1>5

\* Start is the recursive function it is meant to be.
LEMMA StartsAre ==
    ASSUME image \in Images
    PROVE  /\ Start(1) = 0
           /\ \A k \in 1..Len(image) : Start(k) \in Nat /\ Start(k + 1) = Start(k) + Span(image[k])
           /\ Start(Len(image) + 1) \in Nat
<1> DEFINE L == Len(image)
           G(h) == [i \in 0..L |-> IF i = 0 THEN 0 ELSE h[i - 1] + Span(image[i])]
           ends == CHOOSE h : h = G(h)
<1>1. L \in Nat /\ \A k \in 1..L : image[k].size \in Nat
  <2>1. image \in Seq([path : Seq(STRING), dir : BOOLEAN, size : Nat])
    BY ImageAssumption
  <2>2. L \in Nat
    BY <2>1, LenProperties
  <2>3. \A k \in 1..L : image[k] \in [path : Seq(STRING), dir : BOOLEAN, size : Nat]
    BY <2>1, ElementOfSeq
  <2> QED
    BY <2>2, <2>3
<1>2. \A k \in 1..L : Span(image[k]) \in Nat
  <2>1. BLOCK \in Nat \ {0}
    BY FileAssumption
  <2>2. ASSUME NEW k \in 1..L PROVE Span(image[k]) \in Nat
    BY <1>1, <2>1, BlocksOf DEF Span
  <2> QED
    BY <2>2
<1>3. \E h : h = G(h)
  <2>1. PICK step : step = [n \in 1..L |-> [a \in Nat |-> a + Span(image[n])]]
    OBVIOUS
  <2>2. step \in [1..L -> [Nat -> Nat]]
    <3>1. ASSUME NEW n \in 1..L PROVE [a \in Nat |-> a + Span(image[n])] \in [Nat -> Nat]
      <4>1. PICK span \in Nat : span = Span(image[n])
        BY <1>2
      <4>2. [a \in Nat |-> a + span] \in [Nat -> Nat]
        OBVIOUS
      <4> QED
        BY <4>1, <4>2
    <3> HIDE DEF L
    <3> QED
      BY <2>1, <3>1
  <2>3. 0 \in Nat /\ L \in Nat
    BY <1>1
  <2> HIDE DEF L
  <2>4. PICK h : Iterates(h, Nat, 0, L, step)
    BY <2>2, <2>3, Iterated
  <2>5. h \in [0..L -> Nat] /\ h[0] = 0 /\ \A n \in 1..L : h[n] = step[n][h[n - 1]]
    BY <2>4 DEF Iterates
  <2>6. ASSUME NEW n \in 1..L PROVE h[n] = h[n - 1] + Span(image[n])
    <3>1. h[n - 1] \in Nat
      BY <1>1, <2>5
    <3> QED
      BY <2>1, <2>5, <3>1
  <2>7. h = G(h)
    BY <2>5, <2>6
  <2> QED
    BY <2>7
<1>4. ends = G(ends)
  BY <1>3
<1>5. \A k : Start(k) = ends[k - 1]
  BY Zenon DEF Start
<1> HIDE DEF ends
<1>6. ends[0] = 0 /\ \A n \in 1..L : ends[n] = ends[n - 1] + Span(image[n])
  BY <1>1, <1>4
<1>7. PICK P : P = {n \in 0..L : ends[n] \in Nat}
  OBVIOUS
<1>8. \A n \in 0..L : n \in P
  <2>1. 0 \in P
    BY <1>1, <1>6, <1>7
  <2>2. \A n \in 1..L : n - 1 \in P => n \in P
    BY <1>1, <1>2, <1>6, <1>7
  <2> QED
    BY <1>1, <2>1, <2>2, UpTo
<1>9. \A n \in 0..L : ends[n] \in Nat
  BY <1>7, <1>8
<1>10. Start(1) = 0
  BY <1>5, <1>6
<1>11. ASSUME NEW k \in 1..L PROVE Start(k) \in Nat /\ Start(k + 1) = Start(k) + Span(image[k])
  <2>1. k - 1 \in 0..L /\ k + 1 - 1 = k
    BY <1>1
  <2> QED
    BY <1>5, <1>6, <1>9, <2>1
<1>12. Start(L + 1) \in Nat
  <2>1. L \in 0..L /\ L + 1 - 1 = L
    BY <1>1
  <2> QED
    BY <1>5, <1>9, <2>1
<1> QED
  BY <1>10, <1>11, <1>12

\* What a member of the tar image is.
Members == [path : Seq(STRING), dir : BOOLEAN, size : Nat]

\* What ImageAssumption says of the members of one image.
LEMMA ImageIs ==
    ASSUME image \in Images
    PROVE  /\ Len(image) \in Nat /\ DOMAIN image = 1..Len(image)
           /\ \A k \in 1..Len(image) :
                 /\ image[k] \in Members /\ image[k].size \in Nat
                 /\ Span(image[k]) \in Nat /\ Span(image[k]) >= BLOCK + image[k].size
<1>1. image \in Seq(Members)
  BY ImageAssumption DEF Members
<1>2. Len(image) \in Nat /\ DOMAIN image = 1..Len(image)
  BY <1>1, LenProperties
<1>3. \A k \in 1..Len(image) : image[k] \in Members
  BY <1>1, ElementOfSeq
<1>4. \A k \in 1..Len(image) : image[k].size \in Nat
  BY <1>3 DEF Members
<1>5. BLOCK \in Nat \ {0}
  BY FileAssumption
<1>6. \A k \in 1..Len(image) : Span(image[k]) \in Nat /\ Span(image[k]) >= BLOCK + image[k].size
  BY <1>4, <1>5, BlocksOf DEF Span
<1> QED
  BY <1>2, <1>3, <1>4, <1>6

\* Every member ends before the next ones start.
LEMMA MembersInOrder ==
    ASSUME image \in Images
    PROVE  /\ \A k \in 1..(Len(image) + 1), j \in 1..Len(image) :
                 j < k => Start(j) + Span(image[j]) <= Start(k)
           /\ \A k \in 1..(Len(image) + 1) : Start(k) \in Nat /\ k - 1 <= Start(k)
<1> PICK L : L = Len(image)
  OBVIOUS
<1>1. L \in Nat /\ BLOCK \in Nat \ {0}
  BY ImageIs, FileAssumption
<1>2. \A k \in 1..L : Span(image[k]) \in Nat /\ Span(image[k]) >= 1
  BY <1>1, ImageIs
<1>3. /\ Start(1) = 0 /\ Start(L + 1) \in Nat
      /\ \A k \in 1..L : Start(k) \in Nat /\ Start(k + 1) = Start(k) + Span(image[k])
  BY StartsAre
<1>4. PICK P : P = {n \in 0..L : /\ n <= Start(n + 1)
                                 /\ \A j \in 1..n : Start(j) + Span(image[j]) <= Start(n + 1)}
  OBVIOUS
<1>5. \A n \in 0..L : n \in P
  <2>1. 0 \in P
    BY <1>1, <1>3, <1>4
  <2>2. ASSUME NEW n \in 1..L, n - 1 \in P PROVE n \in P
    <3>1. n - 1 <= Start(n) /\ \A j \in 1..(n - 1) : Start(j) + Span(image[j]) <= Start(n)
      BY <1>4, <2>2
    <3>2. Start(n) \in Nat /\ Start(n + 1) = Start(n) + Span(image[n])
      BY <1>3
    <3>3. Span(image[n]) \in Nat /\ Span(image[n]) >= 1
      BY <1>2
    <3>4. ASSUME NEW j \in 1..n PROVE Start(j) + Span(image[j]) <= Start(n + 1)
      <4>1. CASE j = n
        BY <3>2, <3>3, <4>1
      <4>2. CASE j # n
        <5>1. Start(j) + Span(image[j]) <= Start(n) /\ Start(j) \in Nat /\ Span(image[j]) \in Nat
          BY <1>2, <1>3, <3>1, <4>2
        <5> QED
          BY <3>2, <3>3, <5>1
      <4> QED
        BY <4>1, <4>2
    <3>5. n <= Start(n + 1)
      BY <3>1, <3>2, <3>3
    <3> QED
      BY <1>4, <3>4, <3>5
  <2> QED
    BY <1>1, <2>1, <2>2, UpTo
<1>6. ASSUME NEW k \in 1..(L + 1) PROVE Start(k) \in Nat /\ k - 1 <= Start(k)
  <2>1. k - 1 \in P /\ k - 1 + 1 = k
    BY <1>1, <1>5
  <2>2. Start(k) \in Nat
    BY <1>1, <1>3
  <2> QED
    BY <1>4, <2>1, <2>2
<1>7. ASSUME NEW k \in 1..(L + 1), NEW j \in 1..L, j < k
      PROVE  Start(j) + Span(image[j]) <= Start(k)
  <2>1. k - 1 \in P /\ k - 1 + 1 = k /\ j \in 1..(k - 1)
    BY <1>1, <1>5, <1>7
  <2> QED
    BY <1>4, <2>1
<1> QED
  BY <1>6, <1>7

\* A member is the only one around an address.
LEMMA MemberAt ==
    ASSUME image \in Images, NEW j \in 1..Len(image), NEW k \in 1..Len(image), NEW a \in Nat,
           Start(j) <= a, a < Start(j) + Span(image[j]), Start(k) <= a, a < Start(k) + Span(image[k])
    PROVE  j = k
<1>1. /\ Start(j) \in Nat /\ Start(k) \in Nat /\ Len(image) \in Nat
      /\ Span(image[j]) \in Nat /\ Span(image[k]) \in Nat
  BY MembersInOrder, ImageIs
<1>2. j \in 1..(Len(image) + 1) /\ k \in 1..(Len(image) + 1)
  BY <1>1
<1>3. j < k => Start(j) + Span(image[j]) <= Start(k)
  BY <1>2, MembersInOrder
<1>4. k < j => Start(k) + Span(image[k]) <= Start(j)
  BY <1>2, MembersInOrder
<1> QED
  BY <1>1, <1>3, <1>4

\* Extents are inside their members, so no two meet.
LEMMA ExtentsApart ==
    ASSUME image \in Images
    PROVE  /\ \A k \in 1..Len(image) : \A a \in Extent(k) :
                 /\ a \in Nat /\ Start(k) + BLOCK <= a /\ a < Start(k) + BLOCK + image[k].size
                 /\ a < Start(k) + Span(image[k]) /\ a < Start(Len(image) + 1)
           /\ \A j, k \in 1..Len(image) : \A a : a \in Extent(j) /\ a \in Extent(k) => j = k
<1>1. ASSUME NEW k \in 1..Len(image), NEW a \in Extent(k)
      PROVE  /\ a \in Nat /\ Start(k) + BLOCK <= a /\ a < Start(k) + BLOCK + image[k].size
             /\ a < Start(k) + Span(image[k]) /\ a < Start(Len(image) + 1)
  <2>1. /\ Start(k) \in Nat /\ BLOCK \in Nat \ {0} /\ image[k].size \in Nat /\ Len(image) \in Nat
        /\ Span(image[k]) \in Nat /\ Span(image[k]) >= BLOCK + image[k].size
    BY MembersInOrder, ImageIs, FileAssumption
  <2>2. a \in Nat /\ Start(k) + BLOCK <= a /\ a < Start(k) + BLOCK + image[k].size
    BY <2>1 DEF Extent
  <2>3. Start(k) + Span(image[k]) <= Start(Len(image) + 1) /\ Start(Len(image) + 1) \in Nat
    BY <2>1, MembersInOrder
  <2> QED
    BY <2>1, <2>2, <2>3
<1>2. ASSUME NEW j \in 1..Len(image), NEW k \in 1..Len(image), NEW a, a \in Extent(j), a \in Extent(k)
      PROVE  j = k
  <2>1. /\ a \in Nat /\ Start(j) + BLOCK <= a /\ a < Start(j) + Span(image[j])
        /\ Start(k) + BLOCK <= a /\ a < Start(k) + Span(image[k])
    BY <1>1, <1>2
  <2>2. BLOCK \in Nat /\ Start(j) \in Nat /\ Start(k) \in Nat
    BY FileAssumption, MembersInOrder, ImageIs
  <2>3. Start(j) <= a /\ Start(k) <= a
    BY <2>1, <2>2
  <2> QED
    BY <2>1, <2>3, MemberAt
<1> QED
  BY <1>1, <1>2

\* Members leave no gap.
LEMMA MembersCover ==
    ASSUME image \in Images, NEW a \in Nat, a < Start(Len(image) + 1)
    PROVE  \E j \in 1..Len(image) : Start(j) <= a /\ a < Start(j) + Span(image[j])
<1> PICK L : L = Len(image)
  OBVIOUS
<1>1. L \in Nat
  BY ImageIs
<1>2. /\ Start(1) = 0
      /\ \A k \in 1..L : Start(k) \in Nat /\ Start(k + 1) = Start(k) + Span(image[k])
  BY StartsAre
<1>3. PICK P : P = {n \in 0..L : a < Start(n + 1) =>
                                   \E j \in 1..n : Start(j) <= a /\ a < Start(j) + Span(image[j])}
  OBVIOUS
<1>4. 0 \in P
  BY <1>1, <1>2, <1>3
<1>5. ASSUME NEW n \in 1..L, n - 1 \in P PROVE n \in P
  <2>1. a < Start(n) => \E j \in 1..(n - 1) : Start(j) <= a /\ a < Start(j) + Span(image[j])
    BY <1>3, <1>5
  <2>2. ASSUME a < Start(n + 1) PROVE \E j \in 1..n : Start(j) <= a /\ a < Start(j) + Span(image[j])
    <3>1. CASE a < Start(n)
      BY <2>1, <3>1
    <3>2. CASE ~(a < Start(n))
      <4>1. Start(n) \in Nat /\ Start(n + 1) = Start(n) + Span(image[n])
        BY <1>2
      <4>2. Start(n) <= a /\ a < Start(n) + Span(image[n])
        BY <2>2, <3>2, <4>1
      <4>3. n \in 1..n
        OBVIOUS
      <4> QED
        BY <4>2, <4>3
    <3> QED
      BY <3>1, <3>2
  <2> QED
    BY <1>3, <2>2
<1>6. L \in P
  <2>1. L \in 0..L
    BY <1>1
  <2> QED
    BY <1>1, <1>4, <1>5, <2>1, UpTo
<1> QED
  BY <1>3, <1>6

\* What tar puts at a header, in a file and behind the last member.
LEMMA OriginalIs ==
    ASSUME image \in Images
    PROVE  /\ \A k \in 1..Len(image) :
                 /\ Original(Start(k)) = <<"header", k>>
                 /\ \A a \in Extent(k) : Original(a) = <<"data", k>>
           /\ Original(Start(Len(image) + 1)) = Zero
           /\ \A a \in Nat : Original(a)[1] = "header" => Original(a)[2] \in 1..Len(image)
<1> DEFINE At(a) == CHOOSE j \in DOMAIN image : Start(j) <= a /\ a < Start(j) + Span(image[j])
<1>1. \A a : Original(a) = IF a >= Start(Len(image) + 1) THEN Zero
                           ELSE IF a = Start(At(a)) THEN <<"header", At(a)>>
                           ELSE IF a < Start(At(a)) + BLOCK THEN <<"fields", At(a)>>
                           ELSE IF a \in Extent(At(a)) THEN <<"data", At(a)>>
                           ELSE Zero
  BY Zenon DEF Original
<1>2. Len(image) \in Nat /\ DOMAIN image = 1..Len(image) /\ BLOCK \in Nat \ {0}
      /\ Start(Len(image) + 1) \in Nat
  BY ImageIs, MembersInOrder, FileAssumption
<1>3. ASSUME NEW k \in 1..Len(image), NEW a \in Nat, Start(k) <= a, a < Start(k) + Span(image[k])
      PROVE  At(a) = k /\ ~(a >= Start(Len(image) + 1))
  <2>1. \A j \in DOMAIN image : Start(j) <= a /\ a < Start(j) + Span(image[j]) => j = k
    BY <1>2, <1>3, MemberAt
  <2>2. k \in DOMAIN image /\ Start(k) <= a /\ a < Start(k) + Span(image[k])
    BY <1>2, <1>3
  <2>3. At(a) = k
    BY <2>1, <2>2
  <2>4. Len(image) + 1 \in 1..(Len(image) + 1) /\ k < Len(image) + 1 /\ k \in 1..(Len(image) + 1)
    BY <1>2
  <2>5. /\ Start(k) + Span(image[k]) <= Start(Len(image) + 1)
        /\ Start(k) \in Nat /\ Span(image[k]) \in Nat
    BY <2>4, MembersInOrder, ImageIs
  <2> QED
    BY <1>2, <1>3, <2>3, <2>5
<1>4. ASSUME NEW a \in Nat, a < Start(Len(image) + 1) PROVE At(a) \in 1..Len(image)
  <2>1. \E j \in DOMAIN image : Start(j) <= a /\ a < Start(j) + Span(image[j])
    BY <1>2, <1>4, MembersCover
  <2> QED
    BY <1>2, <2>1
<1> HIDE DEF At
<1>5. ASSUME NEW k \in 1..Len(image)
      PROVE  Original(Start(k)) = <<"header", k>> /\ \A a \in Extent(k) : Original(a) = <<"data", k>>
  <2>1. /\ Start(k) \in Nat /\ Span(image[k]) \in Nat /\ Span(image[k]) >= BLOCK + image[k].size
        /\ image[k].size \in Nat
    BY <1>2, ImageIs, MembersInOrder
  <2>2. At(Start(k)) = k /\ ~(Start(k) >= Start(Len(image) + 1))
    BY <1>2, <1>3, <2>1
  <2>3. Original(Start(k)) = <<"header", k>>
    BY <1>1, <2>2
  <2>4. ASSUME NEW a \in Extent(k) PROVE Original(a) = <<"data", k>>
    <3>1. a \in Nat /\ Start(k) + BLOCK <= a /\ a < Start(k) + Span(image[k])
      BY ExtentsApart
    <3>2. At(a) = k /\ ~(a >= Start(Len(image) + 1))
      BY <1>2, <1>3, <2>1, <3>1
    <3>3. a # Start(k) /\ ~(a < Start(k) + BLOCK)
      BY <1>2, <2>1, <3>1
    <3> QED
      BY <1>1, <3>2, <3>3
  <2> QED
    BY <2>3, <2>4
<1>6. Original(Start(Len(image) + 1)) = Zero
  BY <1>1, <1>2
<1>7. ASSUME NEW a \in Nat, Original(a)[1] = "header" PROVE Original(a)[2] \in 1..Len(image)
  <2>1. CASE a >= Start(Len(image) + 1)
    BY <1>1, <1>7, <2>1 DEF Zero
  <2>2. CASE ~(a >= Start(Len(image) + 1))
    <3>1. At(a) \in 1..Len(image)
      BY <1>2, <1>4, <2>2
    <3>2. Original(a) \in {<<"header", At(a)>>, <<"fields", At(a)>>, <<"data", At(a)>>, Zero}
      BY <1>1
    <3>3. Original(a) = <<"header", At(a)>>
      BY <1>7, <3>2 DEF Zero
    <3> QED
      BY <3>1, <3>3
  <2> QED
    BY <2>1, <2>2
<1> QED
  BY <1>5, <1>6, <1>7

\* initrd_parse on what tar wrote: a header for each member, and no other.
Loaded == [a \in 0..(Start(Len(image) + 1) + BLOCK - 1) |-> Original(a)]

\* initrd_parse finds the headers that tar wrote, for every image.
LEMMA ParseFinds ==
    ASSUME image \in Images, memory = Loaded
    PROVE  initrd_parse = [i \in 1..Len(image) |-> Start(i)]
<1> PICK L : L = Len(image)
  OBVIOUS
<1> DEFINE most == Cardinality(DOMAIN memory)
           G(h) == [i \in 0..most |-> IF i = 0 THEN 0 ELSE NextHeader(h[i - 1])]
           address == CHOOSE h : h = G(h)
           Empty(i) == address[i] \notin DOMAIN memory \/ memory[address[i]] = Zero
           count == CHOOSE n \in 0..most : Empty(n) /\ \A i \in 0..(n - 1) : ~Empty(i)
<1>1. L \in Nat /\ DOMAIN image = 1..L /\ BLOCK \in Nat \ {0} /\ Start(L + 1) \in Nat /\ L <= Start(L + 1)
  <2>1. L \in Nat /\ DOMAIN image = 1..L /\ BLOCK \in Nat \ {0}
    BY ImageIs, FileAssumption
  <2>2. L + 1 \in 1..(L + 1) /\ L + 1 - 1 = L
    BY <2>1
  <2> QED
    BY <2>1, <2>2, MembersInOrder
<1>2. /\ DOMAIN memory = 0..(Start(L + 1) + BLOCK - 1)
      /\ \A a \in DOMAIN memory : a \in Nat /\ memory[a] = Original(a)
  BY <1>1 DEF Loaded
<1>3. most \in Nat /\ L <= most
  <2>1. PICK last \in Int : last = Start(L + 1) + BLOCK - 1
    BY <1>1
  <2>2. 0 \in Int
    OBVIOUS
  <2>3. Cardinality(0..last) = IF 0 > last THEN 0 ELSE last - 0 + 1
    BY <2>1, <2>2, FS_Interval
  <2>4. Cardinality(DOMAIN memory) = Start(L + 1) + BLOCK
    BY <1>1, <1>2, <2>1, <2>3
  <2> QED
    BY <1>1, <2>4
<1>4. \A k \in 1..L : /\ Start(k) \in DOMAIN memory /\ memory[Start(k)] = <<"header", k>>
                      /\ NextHeader(Start(k)) = Start(k + 1)
  <2> TAKE k \in 1..L
  <2>1. /\ Start(k) \in Nat /\ Start(k) + Span(image[k]) = Start(k + 1)
        /\ image[k].size \in Nat
    BY ImageIs, StartsAre
  <2>2. Start(k) \in DOMAIN memory
    <3>1. k \in 1..(L + 1) /\ L + 1 \in 1..(L + 1) /\ k < L + 1
      BY <1>1
    <3>2. Start(k) + Span(image[k]) <= Start(L + 1) /\ Span(image[k]) \in Nat
      BY <3>1, MembersInOrder, ImageIs
    <3> QED
      BY <1>1, <1>2, <2>1, <3>2
  <2>3. memory[Start(k)] = <<"header", k>>
    BY <1>2, <2>2, OriginalIs
  <2>4. SizeAt(Start(k)) = image[k].size
    BY <2>2, <2>3 DEF SizeAt
  <2>5. NextHeader(Start(k)) = Start(k) + Span(image[k])
    <3>1. PICK n \in Nat : n = image[k].size
      BY <2>1
    <3>2. PICK x : x = ((n \div BLOCK) + 1) * BLOCK
      OBVIOUS
    <3>3. PICK y : y = IF n % BLOCK # 0 THEN BLOCK ELSE 0
      OBVIOUS
    <3>4. x + y = Span(image[k])
      BY <1>1, <3>1, <3>2, <3>3, BlocksOf DEF Span
    <3>5. x \in Nat /\ y \in Nat
      <4>1. n \div BLOCK \in Nat
        BY <1>1, Quotient
      <4>2. \A i, j \in Nat : (i + 1) * j \in Nat
        OBVIOUS
      <4> QED
        BY <1>1, <3>2, <3>3, <4>1, <4>2
    <3>6. NextHeader(Start(k)) = Start(k) + x + y
      BY <2>4, <3>1, <3>2, <3>3, Zenon DEF NextHeader
    <3> QED
      BY <2>1, <3>4, <3>5, <3>6
  <2> QED
    BY <2>1, <2>2, <2>3, <2>5
<1>5. \A a \in Nat : NextHeader(a) \in Nat
  <2> TAKE a \in Nat
  <2>1. SizeAt(a) \in Nat
    <3>1. CASE a \in DOMAIN memory /\ memory[a][1] = "header"
      <4>1. memory[a][2] \in 1..L
        BY <1>2, <3>1, OriginalIs
      <4> QED
        BY <3>1, <4>1, ImageIs DEF SizeAt
    <3>2. CASE ~(a \in DOMAIN memory /\ memory[a][1] = "header")
      BY <3>2 DEF SizeAt
    <3> QED
      BY <3>1, <3>2
  <2>2. PICK n \in Nat : n = SizeAt(a)
    BY <2>1
  <2>3. PICK x : x = ((n \div BLOCK) + 1) * BLOCK
    OBVIOUS
  <2>4. x \in Nat
    <3>1. n \div BLOCK \in Nat
      BY <1>1, Quotient
    <3>2. \A i, j \in Nat : (i + 1) * j \in Nat
      OBVIOUS
    <3> QED
      BY <1>1, <2>3, <3>1, <3>2
  <2>5. PICK y \in Nat : y = IF n % BLOCK # 0 THEN BLOCK ELSE 0
    BY <1>1
  <2>6. NextHeader(a) = a + x + y
    BY <2>2, <2>3, <2>5, Zenon DEF NextHeader
  <2> QED
    BY <2>4, <2>6
<1>6. \E h : h = G(h)
  <2> HIDE DEF most
  <2>1. PICK step : step = [n \in 1..most |-> [a \in Nat |-> NextHeader(a)]]
    OBVIOUS
  <2>2. step \in [1..most -> [Nat -> Nat]]
    BY <1>5, <2>1
  <2>3. 0 \in Nat /\ most \in Nat
    BY <1>3
  <2>4. PICK h : Iterates(h, Nat, 0, most, step)
    BY <2>2, <2>3, Iterated
  <2>5. h \in [0..most -> Nat] /\ h[0] = 0 /\ \A n \in 1..most : h[n] = step[n][h[n - 1]]
    BY <2>4 DEF Iterates
  <2>6. ASSUME NEW n \in 1..most PROVE h[n] = NextHeader(h[n - 1])
    <3>1. h[n - 1] \in Nat
      BY <1>3, <2>5
    <3> QED
      BY <2>1, <2>5, <3>1
  <2>7. h = G(h)
    BY <2>5, <2>6
  <2> QED
    BY <2>7
<1>7. address = G(address)
  BY <1>6
<1>8. initrd_parse = [i \in 1..count |-> address[i - 1]]
  BY Zenon DEF initrd_parse
<1> HIDE DEF address, most
<1>9. address[0] = 0 /\ \A n \in 1..most : address[n] = NextHeader(address[n - 1])
  BY <1>3, <1>7
<1>10. \A n \in 0..L : address[n] = Start(n + 1)
  <2>1. PICK P : P = {n \in 0..L : address[n] = Start(n + 1)}
    OBVIOUS
  <2>2. 0 \in P
    BY <1>1, <1>9, <2>1, StartsAre
  <2>3. ASSUME NEW n \in 1..L, n - 1 \in P PROVE n \in P
    <3>1. address[n - 1] = Start(n) /\ n \in 1..most
      BY <1>1, <1>3, <2>1, <2>3
    <3>2. address[n] = Start(n + 1)
      BY <1>4, <1>9, <3>1
    <3> QED
      BY <2>1, <3>2
  <2>4. \A n \in 0..L : n \in P
    BY <1>1, <2>2, <2>3, UpTo
  <2> QED
    BY <2>1, <2>4
<1>11. Empty(L)
  <2>1. L \in 0..L
    BY <1>1
  <2>2. address[L] = Start(L + 1)
    BY <1>10, <2>1
  <2>3. Start(L + 1) \in DOMAIN memory
    BY <1>1, <1>2
  <2> QED
    BY <1>2, <2>2, <2>3, OriginalIs
<1>12. \A i \in 0..(L - 1) : ~Empty(i)
  <2> TAKE i \in 0..(L - 1)
  <2>1. address[i] = Start(i + 1) /\ i + 1 \in 1..L
    BY <1>1, <1>10
  <2>2. address[i] \in DOMAIN memory /\ memory[address[i]] = <<"header", i + 1>>
    BY <1>4, <2>1
  <2> QED
    BY <2>2 DEF Zero
<1> HIDE DEF Empty
<1>13. \A n \in 0..most : Empty(n) /\ (\A i \in 0..(n - 1) : ~Empty(i)) => n = L
  BY <1>1, <1>3, <1>11, <1>12
<1>14. L \in 0..most
  BY <1>1, <1>3
<1>15. count = L
  BY <1>11, <1>12, <1>13, <1>14
<1> HIDE DEF count
<1>16. \A i \in 1..L : address[i - 1] = Start(i)
  BY <1>1, <1>10
<1> QED
  BY <1>8, <1>15, <1>16

(***************************************************************************)
(* Paths.                                                                   *)
(***************************************************************************)
\* The nodes of the drivers.
DeviceNodes == {"vga_fb", "vga_fb_color", "vga_fb_cursor", "tty", "cwd", "io", "kbd", "rtc"} \X {0}

\* What the tree's directories list.
TreeInv ==
    /\ rootEntries \in Seq({Initrd, Dev})
    /\ modulesLength \in Nat /\ DOMAIN modulesEntries = 0..(modulesLength - 1)
    /\ \A i \in DOMAIN modulesEntries : modulesEntries[i] \in DeviceNodes
    /\ Len(initrdNodes) \in Nat

\* Where a path can lead.
Known == {None, Wild} \cup Directories \cup DeviceNodes \cup {File(i) : i \in 1..Len(initrdNodes)}

\* A lookup in a node that may be there ends at one that may.
LEMMA ChildKnown ==
    ASSUME TreeInv, NEW n \in Known, NEW component
    PROVE  Child(n, component) \in Known
<1>1. CASE n \in {None, Wild}
  BY <1>1 DEF Child
<1>2. CASE n \notin {None, Wild} /\ n \notin Directories
  BY <1>2 DEF Child, Known
<1>3. CASE n \notin {None, Wild} /\ n \in Directories
  <2> DEFINE entries == Walk(n)
             I == {i \in 1..Len(entries) : entries[i] # None /\ SameName(component, NameOf(entries[i]))}
             i == IF I # {} THEN Min(I) ELSE 0
  <2>1. Child(n, component) = IF i = 0 THEN None ELSE entries[i]
    BY <1>3 DEF Child, SelectInSeq
  <2>2. Len(entries) \in Nat /\ \A k \in 1..Len(entries) : entries[k] \in Known
    <3>1. CASE n = Root
      <4>1. Walk(n) = rootEntries
        BY <3>1 DEF Walk, Root, Dev, Initrd
      <4>2. Len(rootEntries) \in Nat
        BY LenProperties DEF TreeInv
      <4>3. \A k \in 1..Len(rootEntries) : rootEntries[k] \in {Initrd, Dev}
        BY ElementOfSeq DEF TreeInv
      <4> QED
        BY <4>1, <4>2, <4>3 DEF Known, Directories
    <3>2. CASE n = Dev
      <4>1. Walk(n) = [j \in 1..modulesLength |->
                          IF j - 1 \in DOMAIN modulesEntries THEN modulesEntries[j - 1] ELSE None]
        BY <3>2 DEF Walk, Root, Dev, Initrd
      <4>2. Len(Walk(n)) = modulesLength
        BY <4>1 DEF TreeInv
      <4>3. \A k \in 1..modulesLength : Walk(n)[k] \in DeviceNodes \cup {None}
        BY <4>1 DEF TreeInv
      <4> QED
        BY <4>2, <4>3 DEF Known, TreeInv
    <3>3. CASE n = Initrd
      <4>1. Walk(n) = [j \in 1..Len(initrdNodes) |-> File(j)]
        BY <3>3 DEF Walk, Root, Dev, Initrd
      <4>2. Len(Walk(n)) = Len(initrdNodes)
        BY <4>1 DEF TreeInv
      <4> QED
        BY <4>1, <4>2 DEF Known, TreeInv
    <3> QED
      BY <1>3, <3>1, <3>2, <3>3 DEF Directories
  <2> HIDE DEF entries
  <2>3. CASE I = {}
    BY <2>1, <2>3 DEF Known
  <2>4. CASE I # {}
    <3>1. I \subseteq Nat
      BY <2>2
    <3>2. Min(I) \in I
      BY <2>4, <3>1, LeastIs
    <3>3. i \in 1..Len(entries)
      BY <2>4, <3>2
    <3> QED
      BY <2>1, <2>2, <3>3
  <2> QED
    BY <2>3, <2>4
<1> QED
  BY <1>1, <1>2, <1>3

\* Components is cut from the path.
LEMMA ComponentsAre ==
    ASSUME NEW path \in Seq(STRING)
    PROVE  Len(Components(path)) \in Nat
<1> DEFINE I == {k \in 1..Len(path) : path[k] = ""}
           i == IF I # {} THEN Min(I) ELSE 0
<1>1. Components(path) = IF i = 0 THEN path ELSE SubSeq(path, 1, i - 1)
  BY DEF Components, SelectInSeq
<1>2. Len(path) \in Nat /\ \A k \in 1..Len(path) : path[k] \in STRING
  BY LenProperties, ElementOfSeq
<1>3. CASE I = {}
  BY <1>1, <1>2, <1>3
<1>4. CASE I # {}
  <2>1. I \subseteq Nat
    <3>1. 1..Len(path) \subseteq Nat
      BY <1>2
    <3> QED
      BY <3>1, Zenon
  <2>2. Min(I) \in I
    BY <1>4, <2>1, LeastIs
  <2>3. i \in 1..Len(path)
    BY <1>4, <2>2
  <2> HIDE DEF I
  <2>4. PICK k \in 1..Len(path) : k = i
    BY <2>3
  <2>5. SubSeq(path, 1, k - 1) \in Seq(STRING)
    <3>1. k - 1 \in Int /\ 1 \in Int /\ \A j \in 1..(k - 1) : path[j] \in STRING
      BY <1>2, <2>4
    <3> QED
      BY <3>1, SubSeqProperties
  <2> QED
    BY <1>1, <2>3, <2>4, <2>5, LenProperties
<1> QED
  BY <1>3, <1>4

\* vfs_find_root ends at a node that exists, at none, or in a null call.
LEMMA FindsKnown ==
    ASSUME TreeInv, NEW path \in Seq(STRING)
    PROVE  vfs_find_root(path) \in Known
<1> DEFINE c == Components(path)
           N == Len(c)
           G(h) == [i \in 0..N |-> IF i = 0 THEN Root ELSE Child(h[i - 1], c[i])]
           reached == CHOOSE h : h = G(h)
<1>1. vfs_find_root(path) = reached[N]
  BY Zenon DEF vfs_find_root
<1>2. N \in Nat
  BY ComponentsAre
<1> HIDE DEF N, c
<1>3. Root \in Known
  BY DEF Known, Directories
<1>4. \E h : h = G(h)
  <2>1. PICK step : step = [n \in 1..N |-> [a \in Known |-> Child(a, c[n])]]
    OBVIOUS
  <2>2. step \in [1..N -> [Known -> Known]]
    BY <2>1, ChildKnown
  <2>3. PICK h : Iterates(h, Known, Root, N, step)
    BY <1>2, <1>3, <2>2, Iterated
  <2>4. h \in [0..N -> Known] /\ h[0] = Root /\ \A n \in 1..N : h[n] = step[n][h[n - 1]]
    BY <2>3 DEF Iterates
  <2>5. ASSUME NEW n \in 1..N PROVE h[n] = Child(h[n - 1], c[n])
    <3>1. h[n - 1] \in Known
      BY <1>2, <2>4
    <3> QED
      BY <2>1, <2>4, <3>1
  <2>6. h = G(h)
    BY <2>4, <2>5
  <2> QED
    BY <2>6
<1>5. reached = G(reached)
  BY <1>4
<1> HIDE DEF reached
<1>6. reached[0] = Root /\ \A n \in 1..N : reached[n] = Child(reached[n - 1], c[n])
  BY <1>2, <1>5
<1>7. PICK P : P = {n \in 0..N : reached[n] \in Known}
  OBVIOUS
<1>8. N \in P
  <2>1. 0 \in P
    BY <1>2, <1>3, <1>6, <1>7
  <2>2. \A n \in 1..N : n - 1 \in P => n \in P
    BY <1>2, <1>6, <1>7, ChildKnown
  <2>3. N \in 0..N
    BY <1>2
  <2> QED
    BY <1>2, <2>1, <2>2, <2>3, UpTo
<1> QED
  BY <1>1, <1>7, <1>8

(***************************************************************************)
(* The files of the ramdisk.  FilesAreApart and ReadsOwnFile need to know    *)
(* where initrd_parse found the headers and what is in the open table.      *)
(***************************************************************************)
Parsed ==
    IF rootEntries = <<>>
    THEN /\ memory = loaded /\ openTable = <<>> /\ headers = <<>> /\ initrdNodes = <<>>
         /\ pc = "initrd" \/ (pc = "wild" /\ Len(image) > INITRD_HEADER_SIZE)
    ELSE /\ pc # "initrd"
         /\ Len(image) <= INITRD_HEADER_SIZE
         /\ headers = [i \in 1..Len(image) |-> Start(i)]
         /\ Len(initrdNodes) = Len(image) /\ DOMAIN initrdNodes = 1..Len(image)
         /\ \A i \in 1..Len(image) : initrdNodes[i].length = image[i].size

\* The open table has no null node and no file that the image has not.
OpenFiles == \A s \in DOMAIN openTable :
                 openTable[s] # None /\ (openTable[s][1] = "file" => openTable[s][2] \in 1..Len(image))

\* The image stays where the loader put it.
Tarred == image \in Images /\ loaded = Loaded /\ DOMAIN memory = DOMAIN loaded

\* The inductive invariant of the files.
FilesInv == Tarred /\ FilesAreApart /\ ReadsOwnFile /\ TreeInv /\ Parsed /\ OpenFiles

\* Layout and contents are the image's alone.
LEMMA ImageKept ==
    ASSUME image' = image
    PROVE  Loaded' = Loaded /\ \A k : Extent(k)' = Extent(k) /\ Start(k)' = Start(k)
<1>1. Loaded' = Loaded
  BY DEF Loaded, Original, Extent, Start
<1>2. \A k : Extent(k)' = Extent(k) /\ Start(k)' = Start(k)
  BY DEF Extent, Start
<1> QED
  BY <1>1, <1>2

\* Only files are named "file".
LEMMA DirectoriesAre == \A n \in Directories \cup DeviceNodes \cup {None, Wild} : n[1] # "file"
  BY DEF Directories, DeviceNodes, Root, Dev, Initrd, None, Wild

\* The bytes that a call on a file of the ramdisk moves are the file's.
LEMMA CellsInside ==
    ASSUME FilesInv, pc = "run", NEW i \in 1..Len(image), NEW count \in Count
    PROVE  Cells(i, 0, count) \subseteq Extent(i)
<1>1. headers[i] = Start(i) /\ initrdNodes[i].length = image[i].size /\ image \in Images
  BY DEF FilesInv, Parsed, Tarred
<1>2. image[i].size \in Nat /\ Start(i) \in Nat /\ BLOCK \in Nat
  BY <1>1, ImageIs, MembersInOrder, FileAssumption
<1>3. count \in Nat /\ count < WORD /\ WORD \in Nat \ {0}
  BY FileAssumption
<1>4. count % WORD = count
  BY <1>3
<1>5. Moved(i, 0, count) = IF 0 > image[i].size THEN 0
                           ELSE IF (0 + count) % WORD > image[i].size THEN image[i].size - 0 ELSE count
  BY <1>1 DEF Moved
<1>6. Moved(i, 0, count) \in Nat /\ Moved(i, 0, count) <= image[i].size
  BY <1>2, <1>3, <1>4, <1>5
<1>7. Cells(i, 0, count) = (Start(i) + BLOCK + 0)..(Start(i) + BLOCK + 0 + Moved(i, 0, count) - 1)
  BY <1>1 DEF Cells
<1> QED
  BY <1>2, <1>6, <1>7 DEF Extent

\* What stands in a file is its own.
LEMMA OwnBytes ==
    ASSUME FilesInv, NEW i \in 1..Len(image), NEW a \in Extent(i)
    PROVE  a \in DOMAIN memory /\ memory[a] \in {"data", "written"} \X {i}
<1>1. image \in Images /\ loaded = Loaded /\ DOMAIN memory = DOMAIN loaded
  BY DEF FilesInv, Tarred
<1>2. a \in Nat /\ a < Start(Len(image) + 1)
  BY <1>1, ExtentsApart
<1>3. Start(Len(image) + 1) \in Nat /\ BLOCK \in Nat \ {0}
  BY <1>1, StartsAre, FileAssumption
<1>4. a \in DOMAIN memory /\ loaded[a] = Original(a)
  BY <1>1, <1>2, <1>3 DEF Loaded
<1>5. Original(a) = <<"data", i>>
  BY <1>1, OriginalIs
<1>6. CASE memory[a] = loaded[a]
  BY <1>4, <1>5, <1>6
<1>7. CASE memory[a] # loaded[a]
  <2>1. DOMAIN image = 1..Len(image)
    BY <1>1, ImageIs
  <2>2. PICK k \in 1..Len(image) : a \in Extent(k) /\ memory[a] = <<"written", k>>
    BY <1>4, <1>7, <2>1 DEF FilesInv, FilesAreApart
  <2>3. k = i
    BY <1>1, <2>2, ExtentsApart
  <2> QED
    BY <1>4, <2>2, <2>3
<1> QED
  BY <1>6, <1>7

\* The invariant at the start, and step by step.
LEMMA FilesInit == Init => FilesInv
<1> SUFFICES ASSUME Init PROVE FilesInv
  OBVIOUS
<1>1. Tarred
  BY DEF Init, Tarred, Loaded
<1>2. FilesAreApart /\ ReadsOwnFile
  BY DEF Init, FilesAreApart, ReadsOwnFile, None
<1>3. TreeInv
  BY DEF Init, TreeInv
<1>4. Parsed /\ OpenFiles
  BY DEF Init, Parsed, OpenFiles
<1> QED
  BY <1>1, <1>2, <1>3, <1>4 DEF FilesInv

\* A step that leaves the ramdisk and what was read of it alone.
LEMMA RamdiskAlone ==
    ASSUME FilesInv, UNCHANGED <<memory, image, loaded, buffer>>
    PROVE  Tarred' /\ FilesAreApart' /\ ReadsOwnFile'
<1>1. Tarred'
  BY ImageKept DEF FilesInv, Tarred
<1>2. FilesAreApart'
  BY ImageKept DEF FilesInv, FilesAreApart
<1>3. ReadsOwnFile'
  BY DEF FilesInv, ReadsOwnFile
<1> QED
  BY <1>1, <1>2, <1>3

\* A step that leaves the tree alone.
LEMMA TreeAlone ==
    ASSUME FilesInv, UNCHANGED <<treeVars, image>>, pc = "run", pc' \in {"run", "wild"}
    PROVE  TreeInv' /\ Parsed'
<1>1. UNCHANGED <<rootEntries, modulesEntries, modulesLength, headers, initrdNodes>>
  BY DEF treeVars
<1>2. TreeInv'
  BY <1>1 DEF FilesInv, TreeInv
<1>3. Parsed'
  BY <1>1, ImageKept DEF FilesInv, Parsed
<1> QED
  BY <1>2, <1>3

\* The loader left each member's header at its start.
LEMMA HeaderAt ==
    ASSUME image \in Images, memory = Loaded, NEW i \in 1..Len(image)
    PROVE  memory[Start(i)] = <<"header", i>>
<1>1. Len(image) \in Nat
  BY ImageIs
<1>2. Start(i) \in Nat /\ i \in 1..(Len(image) + 1) /\ Len(image) + 1 \in 1..(Len(image) + 1) /\ i < Len(image) + 1
  BY <1>1, MembersInOrder
<1>3. /\ Start(i) + Span(image[i]) <= Start(Len(image) + 1) /\ Span(image[i]) \in Nat
      /\ Start(Len(image) + 1) \in Nat /\ BLOCK \in Nat \ {0}
  BY <1>2, MembersInOrder, ImageIs, FileAssumption
<1>4. Start(i) \in 0..(Start(Len(image) + 1) + BLOCK - 1)
  BY <1>2, <1>3
<1> QED
  BY <1>4, OriginalIs DEF Loaded

\* initrd_init.
LEMMA InitrdFiles ==
    ASSUME FilesInv, initrd_init, ~GoesAstray
    PROVE  FilesInv'
<1>1. UNCHANGED <<memory, image, loaded, buffer>> /\ openTable' = openTable
      /\ UNCHANGED <<modulesEntries, modulesLength>>
  BY DEF initrd_init, history, results
<1>2. pc = "initrd" /\ pc' = "modules"
  BY DEF initrd_init
<1>3. image \in Images /\ memory = Loaded /\ openTable = <<>>
  BY <1>2 DEF FilesInv, Parsed, Tarred
<1>4. initrd_parse = [i \in 1..Len(image) |-> Start(i)] /\ Len(image) <= INITRD_HEADER_SIZE
  <2>1. initrd_parse = [i \in 1..Len(image) |-> Start(i)] /\ Len(image) \in Nat
    BY <1>3, ParseFinds, ImageIs
  <2>2. Len(initrd_parse) = Len(image)
    BY <2>1
  <2> QED
    BY <2>1, <2>2 DEF initrd_init
<1>5. headers' = [i \in 1..Len(image) |-> Start(i)]
  BY <1>4 DEF initrd_init
<1>6. initrdNodes' = [i \in 1..Len(image) |-> NodeFor(Start(i))]
  <2>1. initrdNodes' = [i \in DOMAIN initrd_parse |-> NodeFor(initrd_parse[i])]
    BY DEF initrd_init
  <2> QED
    BY <1>4, <2>1
<1>7. Len(image) \in Nat
  BY <1>3, ImageIs
<1>8. Len(initrdNodes') = Len(image) /\ DOMAIN initrdNodes' = 1..Len(image)
  BY <1>6, <1>7
<1>9. \A i \in 1..Len(image) : initrdNodes'[i].length = image[i].size
  <2> TAKE i \in 1..Len(image)
  <2>1. memory[Start(i)] = <<"header", i>>
    BY <1>3, HeaderAt
  <2>2. NodeFor(Start(i)).length = image[i].size
    BY <2>1 DEF NodeFor
  <2> QED
    BY <1>6, <2>2
<1>10. Parsed'
  <2>1. rootEntries' = Append(rootEntries, Initrd) /\ rootEntries \in Seq({Initrd, Dev})
    BY DEF initrd_init, file_node_write, FilesInv, TreeInv
  <2>2. rootEntries' # <<>>
    BY <2>1
  <2> QED
    BY <1>1, <1>2, <1>4, <1>5, <1>8, <1>9, <2>2, ImageKept DEF Parsed
<1>11. TreeInv'
  <2>1. rootEntries' = Append(rootEntries, Initrd)
    BY DEF initrd_init, file_node_write
  <2>2. rootEntries' \in Seq({Initrd, Dev})
    BY <2>1 DEF FilesInv, TreeInv
  <2> QED
    BY <1>1, <1>7, <1>8, <2>2 DEF FilesInv, TreeInv
<1>12. OpenFiles'
  BY <1>1, <1>3 DEF OpenFiles
<1> QED
  BY <1>1, <1>10, <1>11, <1>12, RamdiskAlone DEF FilesInv

\* A ramdisk too large for its tables.
LEMMA InitrdOverruns ==
    ASSUME FilesInv, initrd_init, GoesAstray
    PROVE  FilesInv'
<1>1. pc = "initrd" /\ pc' = "wild" /\ UNCHANGED <<memory, image, loaded, buffer, openTable, treeVars>>
  BY DEF initrd_init, GoesAstray, history, results
<1>2. UNCHANGED <<rootEntries, modulesEntries, modulesLength, headers, initrdNodes>>
  BY <1>1 DEF treeVars
<1>3. rootEntries = <<>> /\ memory = loaded /\ openTable = <<>> /\ headers = <<>> /\ initrdNodes = <<>>
  BY <1>1 DEF FilesInv, Parsed
<1>4. Len(image) > INITRD_HEADER_SIZE
  <2>1. initrd_parse = [i \in 1..Len(image) |-> Start(i)] /\ Len(image) \in Nat
    BY <1>3, ParseFinds, ImageIs DEF FilesInv, Tarred
  <2>2. Len(initrd_parse) = Len(image)
    BY <2>1
  <2>3. Len(initrd_parse) > INITRD_HEADER_SIZE
    BY <1>1 DEF initrd_init
  <2> QED
    BY <2>2, <2>3
<1>5. Parsed'
  BY <1>1, <1>2, <1>3, <1>4 DEF Parsed
<1>6. TreeInv' /\ OpenFiles'
  BY <1>1, <1>2, <1>3 DEF FilesInv, TreeInv, OpenFiles
<1> QED
  BY <1>1, <1>5, <1>6, RamdiskAlone DEF FilesInv

\* modules_init.
LEMMA BootModules ==
    ASSUME FilesInv, modules_init
    PROVE  FilesInv'
<1>1. /\ UNCHANGED <<memory, image, loaded, buffer, openTable, headers, initrdNodes>>
      /\ UNCHANGED <<modulesEntries, modulesLength>>
  BY DEF modules_init, history, results
<1>2. pc = "modules" /\ pc' = "io"
  BY DEF modules_init, DriverOrder
<1>3. Parsed'
  <2>1. rootEntries' = Append(rootEntries, Dev) /\ rootEntries \in Seq({Initrd, Dev})
    BY DEF modules_init, file_node_write, FilesInv, TreeInv
  <2>2. rootEntries' # <<>>
    BY <2>1
  <2> QED
    BY <1>1, <1>2, <2>2, ImageKept DEF FilesInv, Parsed
<1>4. TreeInv'
  <2>1. rootEntries' = Append(rootEntries, Dev)
    BY DEF modules_init, file_node_write
  <2>2. rootEntries' \in Seq({Initrd, Dev})
    BY <2>1 DEF FilesInv, TreeInv
  <2> QED
    BY <1>1, <2>2 DEF FilesInv, TreeInv
<1>5. OpenFiles'
  BY <1>1 DEF FilesInv, OpenFiles
<1> QED
  BY <1>1, <1>3, <1>4, <1>5, RamdiskAlone DEF FilesInv

\* The drivers' names.
Drivers == {"io", "vga", "pit", "kbd", "rtc", "ata", "serial", "tty", "elf"}

\* Nine drivers, by number and by name.
LEMMA OneToNine == \A i \in 1..9 : i \in {1, 2, 3, 4, 5, 6, 7, 8, 9}
OBVIOUS

LEMMA OrderIs ==
    /\ DOMAIN DriverOrder = 1..9 /\ Len(DriverOrder) = 9
    /\ DriverOrder[1] = "io" /\ DriverOrder[2] = "vga" /\ DriverOrder[3] = "pit"
    /\ DriverOrder[4] = "kbd" /\ DriverOrder[5] = "rtc" /\ DriverOrder[6] = "ata"
    /\ DriverOrder[7] = "serial" /\ DriverOrder[8] = "tty" /\ DriverOrder[9] = "elf"
BY DEF DriverOrder

LEMMA DriversAre == Len(DriverOrder) = 9 /\ \A i \in 1..9 : DriverOrder[i] \in Drivers
BY OneToNine, OrderIs DEF Drivers

\* After a driver comes another or the first program.
LEMMA AfterIs ==
    ASSUME NEW step
    PROVE  After(step) \in Drivers \cup {"run"}
<1> DEFINE I == {k \in 1..Len(DriverOrder) : DriverOrder[k] = step}
           i == IF I # {} THEN Min(I) ELSE 0
<1>1. After(step) = IF i = Len(DriverOrder) THEN "run" ELSE DriverOrder[i + 1]
  BY DEF After, SelectInSeq
<1>2. i \in 0..9
  <2>1. CASE I = {}
    BY <2>1
  <2>2. CASE I # {}
    <3>1. I \subseteq 1..9 /\ I \subseteq Nat
      BY DriversAre
    <3>2. Min(I) \in I
      BY <2>2, <3>1, LeastIs
    <3> QED
      BY <2>2, <3>1, <3>2
  <2> QED
    BY <2>1, <2>2
<1> HIDE DEF i
<1>3. CASE i = 9
  BY <1>1, <1>3, DriversAre
<1>4. CASE i # 9
  <2>1. i + 1 \in 1..9
    BY <1>2, <1>4
  <2> QED
    BY <1>1, <1>4, <2>1, DriversAre
<1> QED
  BY <1>3, <1>4

\* Drivers put device nodes into /dev.
LEMMA NodesOfAre ==
    ASSUME NEW driver
    PROVE  /\ Len(NodesOf(driver)) \in Nat
           /\ \A i \in 1..Len(NodesOf(driver)) : NodesOf(driver)[i] \in DeviceNodes
<1>1. CASE driver = "vga"
  <2>1. NodesOf(driver) = <<<<"vga_fb", 0>>, <<"vga_fb_color", 0>>, <<"vga_fb_cursor", 0>>>>
    BY <1>1 DEF NodesOf
  <2>2. \A i \in 1..3 : i = 1 \/ i = 2 \/ i = 3
    OBVIOUS
  <2>3. Len(NodesOf(driver)) = 3
    BY <2>1
  <2> QED
    BY <2>1, <2>2, <2>3 DEF DeviceNodes
<1>2. CASE driver = "tty"
  <2>1. NodesOf(driver) = <<<<"tty", 0>>, <<"cwd", 0>>>>
    BY <1>2 DEF NodesOf
  <2>2. \A i \in 1..2 : i = 1 \/ i = 2
    OBVIOUS
  <2>3. Len(NodesOf(driver)) = 2
    BY <2>1
  <2> QED
    BY <2>1, <2>2, <2>3 DEF DeviceNodes
<1>3. CASE driver \in {"io", "kbd", "rtc"}
  <2>1. NodesOf(driver) = <<<<driver, 0>>>>
    BY <1>3 DEF NodesOf
  <2>2. \A i \in 1..1 : i = 1
    OBVIOUS
  <2>3. Len(NodesOf(driver)) = 1
    BY <2>1
  <2> QED
    BY <1>3, <2>1, <2>2, <2>3 DEF DeviceNodes
<1>4. CASE driver \notin {"vga", "tty", "io", "kbd", "rtc"}
  <2>1. NodesOf(driver) = <<>>
    BY <1>4 DEF NodesOf
  <2> QED
    BY <2>1
<1> QED
  BY <1>1, <1>2, <1>3, <1>4

\* The drivers.
LEMMA BootDriver ==
    ASSUME FilesInv, DriverInit
    PROVE  FilesInv'
<1>1. /\ UNCHANGED <<memory, image, loaded, buffer, openTable, headers, initrdNodes, rootEntries>>
  BY DEF DriverInit, history, results
<1>2. pc \notin {"initrd", "wild"}
  <2>1. DOMAIN DriverOrder = 1..9
    BY DEF DriverOrder
  <2>2. pc \in Drivers
    BY <2>1, DriversAre DEF DriverInit
  <2> QED
    BY <2>2 DEF Drivers
<1>3. pc' # "initrd"
  <2>1. pc' = "fault" \/ pc' = After(pc)
    BY DEF DriverInit
  <2> QED
    BY <2>1, AfterIs DEF Drivers
<1>4. Parsed'
  BY <1>1, <1>2, <1>3, ImageKept DEF FilesInv, Parsed
<1>5. TreeInv'
  <2>1. CASE NodeMissing
    <3>1. UNCHANGED <<modulesEntries, modulesLength>>
      BY <2>1 DEF DriverInit
    <3> QED
      BY <1>1, <3>1 DEF FilesInv, TreeInv
  <2>2. CASE ~NodeMissing
    <3>1. PICK nodes : nodes = NodesOf(pc)
      OBVIOUS
    <3>2. /\ modulesEntries' = [i \in 0..(modulesLength + Len(nodes) - 1) |->
                  IF i < modulesLength THEN modulesEntries[i] ELSE nodes[i - modulesLength + 1]]
          /\ modulesLength' = modulesLength + Len(nodes)
      BY <2>2, <3>1 DEF DriverInit, modules_node_write
    <3>3. Len(nodes) \in Nat /\ \A i \in 1..Len(nodes) : nodes[i] \in DeviceNodes
      BY <3>1, NodesOfAre
    <3>4. modulesLength \in Nat /\ \A i \in 0..(modulesLength - 1) : modulesEntries[i] \in DeviceNodes
      BY DEF FilesInv, TreeInv
    <3>5. ASSUME NEW i \in DOMAIN modulesEntries' PROVE modulesEntries'[i] \in DeviceNodes
      <4>1. i \in 0..(modulesLength + Len(nodes) - 1)
        BY <3>2
      <4>2. CASE i < modulesLength
        BY <3>2, <3>4, <4>1, <4>2
      <4>3. CASE ~(i < modulesLength)
        <5>1. i - modulesLength + 1 \in 1..Len(nodes)
          BY <3>3, <3>4, <4>1, <4>3
        <5> QED
          BY <3>2, <3>3, <4>1, <4>3, <5>1
      <4> QED
        BY <4>2, <4>3
    <3>6. modulesLength' \in Nat /\ DOMAIN modulesEntries' = 0..(modulesLength' - 1)
      BY <3>2, <3>3, <3>4
    <3> QED
      BY <1>1, <3>5, <3>6 DEF FilesInv, TreeInv
  <2> QED
    BY <2>1, <2>2
<1>6. OpenFiles'
  BY <1>1 DEF FilesInv, OpenFiles
<1> QED
  BY <1>1, <1>4, <1>5, <1>6, RamdiskAlone DEF FilesInv

\* A system call that went through a null pointer.
LEMMA Lost ==
    ASSUME FilesInv, pc = "run", GoesAstray
    PROVE  FilesInv'
<1>1. UNCHANGED <<memory, image, loaded, buffer, openTable, treeVars>> /\ pc' = "wild"
  BY DEF GoesAstray, history, results
<1>2. OpenFiles'
  BY <1>1 DEF FilesInv, OpenFiles
<1> QED
  BY <1>1, <1>2, RamdiskAlone, TreeAlone DEF FilesInv

\* vfs_open: by FindsKnown the node is one of the tree's.
LEMMA OpenFile ==
    ASSUME FilesInv, NEW c \in Client, NEW p \in Path, syscall_open(c, p)
    PROVE  FilesInv'
<1> DEFINE n == vfs_find_root(p)
<1>1. CASE GoesAstray
  BY <1>1, Lost DEF syscall_open
<1>2. CASE Opened(c, n) /\ UNCHANGED <<memory, treeVars, pc, buffer, image, loaded>>
  <2>1. pc = "run" /\ pc' = "run"
    BY <1>2 DEF syscall_open
  <2>2. n \in Known
    BY FindsKnown, FileAssumption DEF FilesInv
  <2>3. n[1] = "file" => n[2] \in 1..Len(image)
    <3>1. Len(initrdNodes) = Len(image)
      BY <2>1 DEF FilesInv, Parsed
    <3> QED
      BY <2>2, <3>1, DirectoriesAre DEF Known, File
  <2> HIDE DEF n
  <2>4. OpenFiles'
    <3>1. CASE n = None \/ Free = {}
      BY <1>2, <3>1 DEF Opened, FilesInv, OpenFiles
    <3>2. CASE ~(n = None \/ Free = {})
      <4>1. \A s \in DOMAIN openTable' : openTable'[s] = n \/ (s \in DOMAIN openTable /\ openTable'[s] = openTable[s])
        BY <1>2, <3>2 DEF Opened, TableWith
      <4> QED
        BY <1>2, <2>3, <3>2, <4>1 DEF FilesInv, OpenFiles
    <3> QED
      BY <3>1, <3>2
  <2> QED
    BY <1>2, <2>1, <2>4, RamdiskAlone, TreeAlone DEF FilesInv
<1> QED
  BY <1>1, <1>2 DEF syscall_open

\* vfs_close.
LEMMA CloseFile ==
    ASSUME FilesInv, NEW c, NEW h, syscall_close(c, h)
    PROVE  FilesInv'
<1>1. UNCHANGED <<memory, treeVars, pc, buffer, image, loaded>> /\ pc = "run"
  BY DEF syscall_close, results
<1>2. OpenFiles'
  BY <1>1 DEF syscall_close, vfs_close, FilesInv, OpenFiles
<1> QED
  BY <1>1, <1>2, RamdiskAlone, TreeAlone DEF FilesInv

\* A handle of a file is one of the image's.
LEMMA HandleIs ==
    ASSUME FilesInv, NEW slot, vfs_get(slot)[1] = "file"
    PROVE  vfs_get(slot)[2] \in 1..Len(image)
  BY DEF vfs_get, FilesInv, OpenFiles, None

\* initrd_file_read: the cells are inside the file, whose bytes are its own.
LEMMA ReadFile ==
    ASSUME FilesInv, NEW h, NEW count \in Count, syscall_read(h, count)
    PROVE  FilesInv'
<1> DEFINE n == vfs_get(h.slot)
<1>1. UNCHANGED <<memory, treeVars, openTable, pc, image, loaded>> /\ pc = "run"
  BY DEF syscall_read, history
<1>2. ReadsOwnFile'
  <2>1. CASE n[1] = "file" /\ buffer' = [node |-> n, cells |-> {memory[a] : a \in Cells(n[2], 0, count)}]
    <3>1. n[2] \in 1..Len(image)
      BY <2>1, HandleIs
    <3> HIDE DEF n
    <3>2. PICK i \in 1..Len(image) : i = n[2]
      BY <3>1
    <3>3. \A a \in Cells(i, 0, count) : memory[a] \in {"data", "written"} \X {i}
      BY <1>1, CellsInside, OwnBytes
    <3> QED
      BY <2>1, <3>2, <3>3 DEF ReadsOwnFile
  <2>2. CASE n \in Directories /\ buffer' = [node |-> n, cells |-> {<<"name", i>> : i \in 1..Len(Walk(n))}]
    <3>1. buffer'.node = n
      BY <2>2
    <3> QED
      BY <2>2, <3>1, DirectoriesAre DEF ReadsOwnFile
  <2>3. CASE n[1] # "file" /\ buffer' = [node |-> n, cells |-> {}]
    BY <2>3 DEF ReadsOwnFile
  <2> QED
    BY <2>1, <2>2, <2>3 DEF syscall_read
<1>3. Tarred' /\ FilesAreApart' /\ OpenFiles'
  BY <1>1, ImageKept DEF FilesInv, Tarred, FilesAreApart, OpenFiles
<1> QED
  BY <1>1, <1>2, <1>3, TreeAlone DEF FilesInv

\* initrd_file_write: the cells are inside the file.
LEMMA WriteFile ==
    ASSUME FilesInv, NEW h, NEW count \in Count, syscall_write(h, count)
    PROVE  FilesInv'
<1> DEFINE n == vfs_get(h.slot)
<1>1. UNCHANGED <<treeVars, openTable, buffer, image, loaded>> /\ pc = "run" /\ pc' \in {"run", "wild"}
  BY DEF syscall_write, history, results
<1>2. OpenFiles' /\ ReadsOwnFile' /\ TreeInv' /\ Parsed'
  BY <1>1, TreeAlone DEF FilesInv, OpenFiles, ReadsOwnFile
<1>3. CASE UNCHANGED memory
  BY <1>1, <1>2, <1>3, RamdiskAlone DEF FilesInv
<1>4. CASE /\ n[1] = "file"
           /\ memory' = [a \in DOMAIN memory \cup Cells(n[2], 0, count) |->
                           IF a \in Cells(n[2], 0, count) THEN <<"written", n[2]>> ELSE memory[a]]
  <2>1. n[2] \in 1..Len(image)
    BY <1>4, HandleIs
  <2> HIDE DEF n
  <2>2. PICK i \in 1..Len(image) : i = n[2]
    BY <2>1
  <2>3. PICK C : C = Cells(i, 0, count)
    OBVIOUS
  <2>4. C \subseteq Extent(i) /\ C \subseteq DOMAIN memory
    BY <1>1, <2>3, CellsInside, OwnBytes
  <2>5. memory' = [a \in DOMAIN memory \cup C |-> IF a \in C THEN <<"written", i>> ELSE memory[a]]
    BY <1>4, <2>2, <2>3
  <2>6. DOMAIN memory' = DOMAIN memory
    BY <2>4, <2>5
  <2>7. Tarred'
    BY <1>1, <2>6, ImageKept DEF FilesInv, Tarred
  <2>8. DOMAIN image = 1..Len(image)
    BY ImageIs DEF FilesInv, Tarred
  <2>9. FilesAreApart'
    <3>1. ASSUME NEW a \in DOMAIN memory', memory'[a] # loaded'[a]
          PROVE  \E k \in DOMAIN image : a \in Extent(k) /\ memory'[a] = <<"written", k>>
      <4>1. CASE a \in C
        BY <2>4, <2>5, <2>8, <4>1
      <4>2. CASE a \notin C
        BY <1>1, <2>5, <2>6, <3>1, <4>2 DEF FilesInv, FilesAreApart
      <4> QED
        BY <4>1, <4>2
    <3> QED
      BY <1>1, <3>1, ImageKept DEF FilesAreApart
  <2> QED
    BY <1>2, <2>7, <2>9 DEF FilesInv
<1> QED
  BY <1>3, <1>4 DEF syscall_write

LEMMA FilesStep == FilesInv /\ [Next]_vars => FilesInv'
<1> SUFFICES ASSUME FilesInv, [Next]_vars PROVE FilesInv'
  OBVIOUS
<1>1. CASE initrd_init \/ modules_init \/ DriverInit
  BY <1>1, InitrdFiles, InitrdOverruns, BootModules, BootDriver
<1>2. ASSUME NEW p \in Path, syscall_info(p) PROVE FilesInv'
  BY <1>2, Lost DEF syscall_info
<1>3. ASSUME NEW c \in Client, NEW p \in Path, syscall_open(c, p) PROVE FilesInv'
  BY <1>3, OpenFile
<1>4. ASSUME NEW c \in Client, NEW h \in held[c], syscall_close(c, h) PROVE FilesInv'
  BY <1>4, CloseFile
<1>5. ASSUME NEW c \in Client, NEW h \in held[c], NEW n \in Count, syscall_read(h, n)
      PROVE  FilesInv'
  BY <1>5, ReadFile
<1>6. ASSUME NEW c \in Client, NEW h \in held[c], NEW n \in Count, syscall_write(h, n)
      PROVE  FilesInv'
  BY <1>6, WriteFile
<1>7. CASE UNCHANGED vars
  <2>1. UNCHANGED <<memory, image, loaded, buffer, openTable, pc, headers, initrdNodes,
                    rootEntries, modulesEntries, modulesLength>>
    BY <1>7 DEF vars, treeVars, results, history
  <2>2. TreeInv' /\ Parsed' /\ OpenFiles'
    BY <2>1, ImageKept DEF FilesInv, TreeInv, Parsed, OpenFiles
  <2> QED
    BY <2>1, <2>2, RamdiskAlone DEF FilesInv
<1> QED
  BY <1>1, <1>2, <1>3, <1>4, <1>5, <1>6, <1>7 DEF Next

(* For any ramdisk the boot mounts (of at most INITRD_HEADER_SIZE members: with more  *)
(* it goes astray, and nothing is promised of what follows), any lengths of its       *)
(* members and any counts, writing to its files changes nothing of the tar image but  *)
(* the contents of the file it went to: the headers that initrd_parse finds are those *)
(* that tar wrote (initrd_file_write).                                                *)
THEOREM FilesApart == Spec => []FilesAreApart
<1>1. FilesInv => FilesAreApart
  BY DEF FilesInv
<1> QED
  BY <1>1, FilesInit, FilesStep, PTL DEF Spec

(* For any ramdisk the boot mounts (of at most INITRD_HEADER_SIZE members) and any    *)
(* counts, a read of a file returns bytes of that file alone, as tar packed them or   *)
(* as programs wrote them there (initrd_file_read).                                   *)
THEOREM ReadersSeeOwn == Spec => []ReadsOwnFile
<1>1. FilesInv => ReadsOwnFile
  BY DEF FilesInv
<1> QED
  BY <1>1, FilesInit, FilesStep, PTL DEF Spec

(***************************************************************************)
(* Types.                                                                   *)
(***************************************************************************)
TypesInv ==
    /\ pc \in {"initrd", "modules", "run", "fault", "wild"} \cup Drivers
    /\ opened \in {-1} \cup Slot
    /\ held = [c \in Client |-> held[c]]
    /\ \A c \in Client : \A h \in held[c] : h = [slot |-> h.slot, node |-> h.node]

\* Their names are boot steps.
LEMMA DriversBoot == Drivers \subseteq Boot
<1>1. \A i \in 1..9 : DriverOrder[i] \in Boot
  BY OrderIs DEF Boot
<1>2. \A i \in {1, 2, 3, 4, 5, 6, 7, 8, 9} : i \in 1..9
  OBVIOUS
<1>3. ASSUME NEW d \in Drivers PROVE \E i \in {1, 2, 3, 4, 5, 6, 7, 8, 9} : DriverOrder[i] = d
  BY OrderIs DEF Drivers
<1> QED
  BY <1>1, <1>2, <1>3

\* The invariants imply the property that the run checks.
LEMMA TypesFollow ==
    ASSUME TypesInv, FilesInv, IInv
    PROVE  TypeOK
<1>1. pc \in Boot \cup {"run", "fault", "wild"}
  BY DriversBoot DEF TypesInv, Boot
<1>2. DOMAIN openTable \subseteq Slot /\ None \notin {openTable[s] : s \in DOMAIN openTable}
  BY DEF IInv, InUse, FilesInv, OpenFiles
<1>3. DOMAIN modulesEntries = 0..(modulesLength - 1)
  BY DEF FilesInv, TreeInv
<1>4. DOMAIN headers = DOMAIN initrdNodes
  <2>1. CASE rootEntries = <<>>
    BY <2>1 DEF FilesInv, Parsed
  <2>2. CASE rootEntries # <<>>
    BY <2>2 DEF FilesInv, Parsed
  <2> QED
    BY <2>1, <2>2
<1>5. opened \in {-1} \cup Slot
  BY DEF TypesInv
<1>6. held \in [Client -> SUBSET [slot : Slot, node : {openTable[s] : s \in DOMAIN openTable}]]
  <2>1. ASSUME NEW c \in Client, NEW h \in held[c]
        PROVE  h \in [slot : Slot, node : {openTable[s] : s \in DOMAIN openTable}]
    <3>1. h = [slot |-> h.slot, node |-> h.node]
      BY DEF TypesInv
    <3>2. h.slot \in Slot /\ h.node \in {openTable[s] : s \in DOMAIN openTable}
      BY DEF IInv, InUse
    <3> QED
      BY <3>1, <3>2
  <2>2. held = [c \in Client |-> held[c]]
    BY DEF TypesInv
  <2> QED
    BY <2>1, <2>2
<1> QED
  BY <1>1, <1>2, <1>3, <1>4, <1>5, <1>6 DEF TypeOK

\* The types at the start, and step by step.
LEMMA TypesInit == Init => TypesInv
<1> SUFFICES ASSUME Init PROVE TypesInv
  OBVIOUS
<1>1. pc = "initrd" /\ opened = 0 /\ held = [c \in Client |-> {}]
  BY DEF Init
<1>2. 0 \in Slot
  BY FileAssumption DEF Slot
<1> QED
  BY <1>1, <1>2 DEF TypesInv

LEMMA TypesStep ==
    ASSUME TypesInv, IInv, [Next]_vars
    PROVE  TypesInv'
<1>1. CASE initrd_init \/ modules_init \/ DriverInit
  <2>1. UNCHANGED <<opened, held>>
    BY <1>1 DEF initrd_init, GoesAstray, modules_init, DriverInit, results, history
  <2>2. pc' \in {"modules", "io", "run", "fault", "wild"} \cup Drivers
    BY <1>1, AfterIs DEF initrd_init, GoesAstray, modules_init, DriverInit, DriverOrder
  <2> QED
    BY <2>1, <2>2 DEF TypesInv, Drivers, Slot
<1>2. CASE GoesAstray
  BY <1>2 DEF GoesAstray, results, history, TypesInv, Slot
<1>3. ASSUME NEW c \in Client, NEW n, Opened(c, n), pc' = pc PROVE TypesInv'
  <2>1. CASE n = None \/ Free = {}
    BY <1>3, <2>1 DEF Opened, TypesInv, Slot
  <2>2. CASE ~(n = None \/ Free = {})
    <3>1. OpenSlot \in Slot /\ opened' = OpenSlot
      BY <1>3, <2>2, FirstFreeSlot DEF Opened, Free
    <3>2. held' = [held EXCEPT ![c] = @ \cup {Handle(OpenSlot, n)}]
      BY <1>3, <2>2 DEF Opened
    <3>3. DOMAIN held = Client
      BY DEF IInv, InUse
    <3>4. held' = [d \in Client |-> held'[d]]
      BY <3>2, <3>3
    <3>5. ASSUME NEW d \in Client, NEW h \in held'[d] PROVE h = [slot |-> h.slot, node |-> h.node]
      <4>1. h \in held[d] \/ h = Handle(OpenSlot, n)
        BY <3>2, <3>3
      <4> QED
        BY <4>1 DEF TypesInv, Handle
    <3> QED
      BY <1>3, <3>1, <3>4, <3>5 DEF TypesInv, Slot
  <2> QED
    BY <2>1, <2>2
<1>4. ASSUME NEW c \in Client, NEW h \in held[c], syscall_close(c, h) PROVE TypesInv'
  <2>1. held' = [held EXCEPT ![c] = @ \ {h}] /\ UNCHANGED <<opened, pc>>
    BY <1>4 DEF syscall_close, results
  <2>2. DOMAIN held = Client
    BY DEF IInv, InUse
  <2>3. held' = [d \in Client |-> held'[d]] /\ \A d \in Client : held'[d] \subseteq held[d]
    BY <2>1, <2>2
  <2> QED
    BY <2>1, <2>3 DEF TypesInv, Slot
<1>5. CASE UNCHANGED <<opened, held>> /\ pc' \in {pc, "wild"}
  BY <1>5 DEF TypesInv, Slot
<1>6. ASSUME NEW h, NEW n, syscall_read(h, n) \/ syscall_write(h, n)
      PROVE  UNCHANGED <<opened, held>> /\ pc' \in {pc, "wild"}
  BY <1>6 DEF syscall_read, syscall_write, results, history
<1>7. ASSUME NEW p, syscall_info(p) PROVE GoesAstray
  BY <1>7 DEF syscall_info
<1>8. ASSUME NEW c \in Client, NEW p, syscall_open(c, p) PROVE GoesAstray \/ \E n : Opened(c, n) /\ pc' = pc
  BY <1>8 DEF syscall_open
<1>9. CASE UNCHANGED vars
  BY <1>5, <1>9 DEF vars, results, history
<1> QED
  BY <1>1, <1>2, <1>3, <1>4, <1>5, <1>6, <1>7, <1>8, <1>9 DEF Next

(* For any number of programs and slots and any ramdisk, vfs.c's, modules.c's and     *)
(* initrd.c's state keeps its types: no open slot holds a null node, and each header  *)
(* has its node.                                                                      *)
THEOREM FilesTyped == Spec => []TypeOK
<1>1. Init => IInv /\ FilesInv /\ TypesInv
  BY InitKept, FilesInit, TypesInit
<1>2. IInv /\ FilesInv /\ TypesInv /\ [Next]_vars => (IInv /\ FilesInv /\ TypesInv)'
  BY StepKeeps, FilesStep, TypesStep
<1>3. IInv /\ FilesInv /\ TypesInv => TypeOK
  BY TypesFollow
<1> QED
  BY <1>1, <1>2, <1>3, PTL DEF Spec

(***************************************************************************)
(* The device tree.                                                         *)
(***************************************************************************)
DeviceList == <<<<"io", 0>>, <<"vga_fb", 0>>, <<"vga_fb_color", 0>>, <<"vga_fb_cursor", 0>>,
                <<"kbd", 0>>, <<"rtc", 0>>, <<"tty", 0>>, <<"cwd", 0>>>>

\* How many of them /dev has before step p.
Listed(p) ==
    CASE p \in {"initrd", "modules", "io"} -> 0
      [] p = "vga" -> 1
      [] p \in {"pit", "kbd"} -> 4
      [] p = "rtc" -> 5
      [] p \in {"ata", "serial", "tty"} -> 6
      [] OTHER -> 8

\* What each step of the boot finds, and that none of them faults.
Booting ==
    /\ pc \in {"initrd", "modules", "run"} \cup Drivers
    /\ rootEntries = IF pc = "initrd" THEN <<>>
                     ELSE IF pc = "modules" THEN <<Initrd>> ELSE <<Initrd, Dev>>
    /\ modulesLength = Listed(pc)
    /\ \A i \in 1..Listed(pc) : modulesEntries[i - 1] = DeviceList[i]
    /\ pc # "initrd" => \A i \in 1..Len(image) : initrdNodes[i].name = Last(image[i].path)
    /\ \A f \in DOMAIN ttyNodes : ttyNodes[f] = <<f, 0>>

BootInv == pc = "wild" \/ Booting

\* The devices by number.
LEMMA ListIs ==
    /\ DeviceList[1] = <<"io", 0>> /\ DeviceList[2] = <<"vga_fb", 0>>
    /\ DeviceList[3] = <<"vga_fb_color", 0>> /\ DeviceList[4] = <<"vga_fb_cursor", 0>>
    /\ DeviceList[5] = <<"kbd", 0>> /\ DeviceList[6] = <<"rtc", 0>>
    /\ DeviceList[7] = <<"tty", 0>> /\ DeviceList[8] = <<"cwd", 0>>
BY DEF DeviceList

\* The drivers come one after the other.
LEMMA AfterEach ==
    ASSUME NEW i \in 1..9
    PROVE  After(DriverOrder[i]) = IF i = 9 THEN "run" ELSE DriverOrder[i + 1]
<1> DEFINE I == {k \in 1..Len(DriverOrder) : DriverOrder[k] = DriverOrder[i]}
           j == IF I # {} THEN Min(I) ELSE 0
<1>1. After(DriverOrder[i]) = IF j = Len(DriverOrder) THEN "run" ELSE DriverOrder[j + 1]
  BY DEF After, SelectInSeq
<1>2. \A k \in 1..9 : DriverOrder[k] = DriverOrder[i] => k = i
  BY OrderIs, OneToNine
<1>3. I = {i}
  BY <1>2, DriversAre
<1>4. Min(I) \in I
  BY <1>3, LeastIs
<1>5. j = i
  BY <1>3, <1>4
<1> QED
  BY <1>1, <1>5, DriversAre

\* A directory's lookup finds the first entry of that name.
LEMMA ChildIs ==
    ASSUME NEW d \in Directories, NEW component, Len(Walk(d)) \in Nat,
           NEW j \in 1..Len(Walk(d)), Walk(d)[j] # None, NameOf(Walk(d)[j]) = component,
           \A i \in 1..(j - 1) : NameOf(Walk(d)[i]) # component
    PROVE  Child(d, component) = Walk(d)[j]
<1> DEFINE entries == Walk(d)
           I == {i \in 1..Len(entries) : entries[i] # None /\ SameName(component, NameOf(entries[i]))}
           k == IF I # {} THEN Min(I) ELSE 0
<1>1. d \notin {None, Wild}
  BY DEF Directories, Root, Dev, Initrd, None, Wild
<1>2. Child(d, component) = IF k = 0 THEN None ELSE entries[k]
  BY <1>1 DEF Child, SelectInSeq
<1>3. j \in I /\ I \subseteq 1..Len(entries)
  BY DEF SameName
<1>4. \A i \in I : j <= i
  BY DEF SameName
<1> HIDE DEF I
<1>5. \A e \in I : (\A x \in I : e <= x) => e = j
  BY <1>3, <1>4
<1>6. Min(I) = j
  BY <1>3, <1>4, <1>5 DEF Min
<1> QED
  BY <1>2, <1>3, <1>6

\* A name that does not end a path.
Named(x) == x # ""

\* Without an empty name, nothing of the path is cut off.
LEMMA ComponentsNamed ==
    ASSUME NEW path, \A i \in 1..Len(path) : Named(path[i])
    PROVE  Components(path) = path
<1> DEFINE I == {k \in 1..Len(path) : path[k] = ""}
           i == IF I # {} THEN Min(I) ELSE 0
<1>1. Components(path) = IF i = 0 THEN path ELSE SubSeq(path, 1, i - 1)
  BY DEF Components, SelectInSeq
<1>2. I = {}
  BY DEF Named
<1> QED
  BY <1>1, <1>2

\* Paths of one name and of two.
LEMMA FindsOne ==
    ASSUME NEW x, Named(x)
    PROVE  vfs_find_root(<<x>>) = Child(Root, x)
<1> PICK path : path = <<x>>
  OBVIOUS
<1> DEFINE G(h) == [i \in 0..Len(path) |-> IF i = 0 THEN Root ELSE Child(h[i - 1], path[i])]
           reached == CHOOSE h : h = G(h)
<1>1. Len(path) = 1 /\ path[1] = x
  OBVIOUS
<1>2. \A i \in 1..Len(path) : Named(path[i])
  <2>1. \A i \in 1..Len(path) : path[i] = x
    BY <1>1
  <2> QED
    BY <2>1
<1>3. Components(path) = path
  BY <1>2, ComponentsNamed
<1>4. vfs_find_root(path) = reached[Len(path)]
  BY <1>3, Zenon DEF vfs_find_root
<1>5. PICK h : h = [i \in 0..1 |-> IF i = 0 THEN Root ELSE Child(Root, x)]
  OBVIOUS
<1>6. h = G(h)
  <2>1. ASSUME NEW i \in 0..1 PROVE h[i] = IF i = 0 THEN Root ELSE Child(h[i - 1], path[i])
    <3>1. i = 0 \/ i = 1
      OBVIOUS
    <3>2. h[0] = Root /\ h[1] = Child(Root, x)
      BY <1>5
    <3> QED
      BY <1>1, <3>1, <3>2
  <2>2. h = [i \in 0..1 |-> h[i]]
    BY <1>5
  <2> QED
    BY <1>1, <2>1, <2>2
<1>7. reached = G(reached)
  BY <1>6
<1> HIDE DEF reached
<1>8. reached[0] = Root /\ reached[1] = Child(reached[0], path[1])
  BY <1>1, <1>7
<1> QED
  BY <1>1, <1>4, <1>8

LEMMA FindsTwo ==
    ASSUME NEW x, Named(x), NEW y, Named(y)
    PROVE  vfs_find_root(<<x, y>>) = Child(Child(Root, x), y)
<1> PICK path : path = <<x, y>>
  OBVIOUS
<1> DEFINE G(h) == [i \in 0..Len(path) |-> IF i = 0 THEN Root ELSE Child(h[i - 1], path[i])]
           reached == CHOOSE h : h = G(h)
<1>1. Len(path) = 2 /\ path[1] = x /\ path[2] = y
  OBVIOUS
<1>2. \A i \in 1..Len(path) : Named(path[i])
  <2>1. \A i \in 1..Len(path) : path[i] = x \/ path[i] = y
    BY <1>1
  <2> QED
    BY <2>1
<1>3. Components(path) = path
  BY <1>2, ComponentsNamed
<1>4. vfs_find_root(path) = reached[Len(path)]
  BY <1>3, Zenon DEF vfs_find_root
<1>5. PICK h : h = [i \in 0..2 |-> IF i = 0 THEN Root ELSE IF i = 1 THEN Child(Root, x)
                                   ELSE Child(Child(Root, x), y)]
  OBVIOUS
<1>6. h = G(h)
  <2>1. ASSUME NEW i \in 0..2 PROVE h[i] = IF i = 0 THEN Root ELSE Child(h[i - 1], path[i])
    <3>1. i = 0 \/ i = 1 \/ i = 2
      OBVIOUS
    <3>2. h[0] = Root /\ h[1] = Child(Root, x) /\ h[2] = Child(Child(Root, x), y)
      BY <1>5
    <3> QED
      BY <1>1, <3>1, <3>2
  <2>2. h = [i \in 0..2 |-> h[i]]
    BY <1>5
  <2> QED
    BY <1>1, <2>1, <2>2
<1>7. reached = G(reached)
  BY <1>6
<1> HIDE DEF reached
<1>8. /\ reached[0] = Root /\ reached[1] = Child(reached[0], path[1])
      /\ reached[2] = Child(reached[1], path[2])
  BY <1>1, <1>7
<1> QED
  BY <1>1, <1>4, <1>8

\* / lists the two directories.
LEMMA RootFinds ==
    ASSUME Booting, pc \notin {"initrd", "modules"}
    PROVE  Child(Root, "dev") = Dev /\ Child(Root, "initrd") = Initrd
<1>1. Walk(Root) = <<Initrd, Dev>>
  BY DEF Walk, Booting, Root, Dev, Initrd
<1>2. Root \in Directories
  BY DEF Directories
<1>3. NameOf(Initrd) = "initrd" /\ NameOf(Dev) = "dev" /\ Initrd # None /\ Dev # None
  BY DEF NameOf, Initrd, Dev, None
<1>4. Len(Walk(Root)) = 2 /\ Walk(Root)[1] = Initrd /\ Walk(Root)[2] = Dev
  BY <1>1
<1>5. Child(Root, "initrd") = Initrd
  <2>1. \A i \in 1..(1 - 1) : NameOf(Walk(Root)[i]) # "initrd"
    OBVIOUS
  <2>2. Len(Walk(Root)) \in Nat /\ 1 \in 1..Len(Walk(Root))
    BY <1>4
  <2> QED
    BY <1>2, <1>3, <1>4, <2>1, <2>2, ChildIs
<1>6. Child(Root, "dev") = Dev
  <2>1. \A i \in 1..(2 - 1) : NameOf(Walk(Root)[i]) # "dev"
    BY <1>3, <1>4
  <2>2. Len(Walk(Root)) \in Nat /\ 2 \in 1..Len(Walk(Root))
    BY <1>4
  <2> QED
    BY <1>2, <1>3, <1>4, <2>1, <2>2, ChildIs
<1> QED
  BY <1>5, <1>6

\* No two devices have one name, though some start alike.
LEMMA ListNamed ==
    /\ \A i \in 1..8 : NameOf(DeviceList[i]) # "" /\ DeviceList[i] # None
                       /\ DeviceList[i] = <<NameOf(DeviceList[i]), 0>>
    /\ \A i, j \in 1..8 : NameOf(DeviceList[i]) = NameOf(DeviceList[j]) => i = j
<1>1. \A i \in 1..8 : i \in {1, 2, 3, 4, 5, 6, 7, 8}
  OBVIOUS
<1>2. \A i \in 1..8 : DeviceList[i][1] # "file" /\ NameOf(DeviceList[i]) = DeviceList[i][1]
  BY <1>1, ListIs DEF NameOf
<1>3. \A i \in 1..8 : DeviceList[i][1] # "" /\ DeviceList[i] = <<DeviceList[i][1], 0>>
  <2>1. \A i \in 1..8 : DeviceList[i][1] # ""
    <3>1. \A i \in 1..8 : DeviceList[i][1] \in {"io", "vga_fb", "vga_fb_color", "vga_fb_cursor",
                                              "kbd", "rtc", "tty", "cwd"}
      BY <1>1, ListIs
    <3>2. "" \notin {"io", "vga_fb", "vga_fb_color", "vga_fb_cursor", "kbd", "rtc", "tty", "cwd"}
      BY Zenon
    <3> QED
      BY <3>1, <3>2, Zenon
  <2>2. \A i \in 1..8 : DeviceList[i] = <<DeviceList[i][1], 0>>
    <3>1. \A i \in 1..8 : \E s : DeviceList[i] = <<s, 0>>
      BY <1>1, ListIs, Zenon
    <3> QED
      BY <3>1
  <2> QED
    BY <2>1, <2>2
<1>4. \A i \in 1..8 : DeviceList[i] # None
  BY <1>1, ListIs DEF None
<1>5. \A i, j \in 1..8 : DeviceList[i][1] = DeviceList[j][1] => i = j
  BY <1>1, ListIs
<1>6. \A i \in 1..8 : NameOf(DeviceList[i]) # "" /\ DeviceList[i] # None
  BY <1>2, <1>3, <1>4
<1>7. \A i \in 1..8 : DeviceList[i] = <<NameOf(DeviceList[i]), 0>>
  BY <1>2, <1>3
<1>8. \A i, j \in 1..8 : NameOf(DeviceList[i]) = NameOf(DeviceList[j]) => i = j
  BY <1>2, <1>5
<1> QED
  BY <1>6, <1>7, <1>8

\* /dev never has more than the list.
LEMMA ListedIs == \A p : Listed(p) \in 0..8
BY DEF Listed

\* /dev finds what is in it, at every step of the boot.
LEMMA DevFinds ==
    ASSUME Booting, TreeInv, pc \notin {"initrd", "modules"}, NEW j \in 1..Listed(pc)
    PROVE  vfs_find_root(<<"dev", NameOf(DeviceList[j])>>) = DeviceList[j]
<1> PICK N \in 0..8 : N = Listed(pc)
  BY ListedIs
<1>1. modulesLength = N /\ DOMAIN modulesEntries = 0..(N - 1)
      /\ \A i \in 1..N : modulesEntries[i - 1] = DeviceList[i]
  BY DEF Booting, TreeInv
<1>2. Walk(Dev) = [i \in 1..modulesLength |->
                      IF i - 1 \in DOMAIN modulesEntries THEN modulesEntries[i - 1] ELSE None]
  BY DEF Walk, Root, Dev, Initrd
<1>3. Len(Walk(Dev)) = N /\ \A i \in 1..N : Walk(Dev)[i] = DeviceList[i]
  BY <1>1, <1>2
<1>4. Dev \in Directories
  BY DEF Directories
<1>5. j \in 1..Len(Walk(Dev)) /\ Len(Walk(Dev)) \in Nat /\ j \in 1..8
  BY <1>3
<1>6. Walk(Dev)[j] = DeviceList[j] /\ Walk(Dev)[j] # None
  BY <1>3, <1>5, ListNamed
<1>7. \A i \in 1..(j - 1) : NameOf(Walk(Dev)[i]) # NameOf(DeviceList[j])
  <2> TAKE i \in 1..(j - 1)
  <2>1. i \in 1..N /\ i \in 1..8 /\ i # j
    BY <1>3, <1>5
  <2> QED
    BY <1>3, <1>5, <2>1, ListNamed
<1>8. NameOf(Walk(Dev)[j]) = NameOf(DeviceList[j])
  BY <1>6
<1>9. Child(Dev, NameOf(DeviceList[j])) = Walk(Dev)[j]
  BY <1>4, <1>5, <1>6, <1>7, <1>8, ChildIs
<1>10. Named(NameOf(DeviceList[j])) /\ Named("dev")
  BY <1>5, ListNamed DEF Named
<1> QED
  BY <1>6, <1>9, <1>10, FindsTwo, RootFinds

\* Each driver puts the next nodes of the list into /dev.
LEMMA DriversList ==
    ASSUME NEW i \in 1..9
    PROVE  LET d == DriverOrder[i] IN
           /\ Listed(After(d)) = Listed(d) + Len(NodesOf(d))
           /\ \A k \in 1..Len(NodesOf(d)) : NodesOf(d)[k] = DeviceList[Listed(d) + k]
<1> DEFINE Lists(d, next, n) ==
               /\ \E m \in 0..3 : Len(NodesOf(d)) = m /\ Listed(next) = n + m
               /\ Listed(d) = n
               /\ \A k \in 1..Len(NodesOf(d)) : NodesOf(d)[k] = DeviceList[n + k]
<1>0. /\ Listed("io") = 0 /\ Listed("vga") = 1 /\ Listed("pit") = 4 /\ Listed("kbd") = 4
      /\ Listed("rtc") = 5 /\ Listed("ata") = 6 /\ Listed("serial") = 6 /\ Listed("tty") = 6
      /\ Listed("elf") = 8 /\ Listed("run") = 8
  BY DEF Listed
<1>1. Lists("io", "vga", 0)
  <2>1. NodesOf("io") = <<<<"io", 0>>>>
    BY DEF NodesOf
  <2>2. \A k \in 1..1 : k = 1
    OBVIOUS
  <2> QED
    BY <2>1, <2>2, ListIs DEF Listed
<1>2. Lists("vga", "pit", 1)
  <2>1. NodesOf("vga") = <<<<"vga_fb", 0>>, <<"vga_fb_color", 0>>, <<"vga_fb_cursor", 0>>>>
    BY DEF NodesOf
  <2>2. \A k \in 1..3 : k = 1 \/ k = 2 \/ k = 3
    OBVIOUS
  <2>3. NodesOf("vga")[1] = DeviceList[2] /\ NodesOf("vga")[2] = DeviceList[3] /\ NodesOf("vga")[3] = DeviceList[4]
    BY <2>1, ListIs
  <2>4. Len(NodesOf("vga")) = 3
    BY <2>1
  <2>5. \A k \in 1..3 : NodesOf("vga")[k] = DeviceList[1 + k]
    BY <2>2, <2>3
  <2>6. 1..Len(NodesOf("vga")) = 1..3
    BY <2>4
  <2>7. \A k \in 1..Len(NodesOf("vga")) : NodesOf("vga")[k] = DeviceList[1 + k]
    BY <2>5, <2>6, Zenon
  <2>8. \E m \in 0..3 : Len(NodesOf("vga")) = m /\ Listed("pit") = 1 + m
    BY <1>0, <2>4
  <2> QED
    BY <1>0, <2>7, <2>8, Zenon
<1>3. Lists("pit", "kbd", 4) /\ Lists("ata", "serial", 6) /\ Lists("serial", "tty", 6)
  <2>1. NodesOf("pit") = <<>> /\ NodesOf("ata") = <<>> /\ NodesOf("serial") = <<>>
    BY DEF NodesOf
  <2> QED
    BY <2>1 DEF Listed
<1>4. Lists("kbd", "rtc", 4) /\ Lists("rtc", "ata", 5)
  <2>1. NodesOf("kbd") = <<<<"kbd", 0>>>> /\ NodesOf("rtc") = <<<<"rtc", 0>>>>
    BY DEF NodesOf
  <2>2. \A k \in 1..1 : k = 1
    OBVIOUS
  <2>3. NodesOf("kbd")[1] = DeviceList[5] /\ NodesOf("rtc")[1] = DeviceList[6]
    BY <2>1, ListIs
  <2>4. Len(NodesOf("kbd")) = 1 /\ Len(NodesOf("rtc")) = 1
    BY <2>1
  <2>5. \A k \in 1..1 : NodesOf("kbd")[k] = DeviceList[4 + k] /\ NodesOf("rtc")[k] = DeviceList[5 + k]
    BY <2>2, <2>3
  <2>6. 1..Len(NodesOf("kbd")) = 1..1 /\ 1..Len(NodesOf("rtc")) = 1..1
    BY <2>4
  <2>7. /\ \A k \in 1..Len(NodesOf("kbd")) : NodesOf("kbd")[k] = DeviceList[4 + k]
        /\ \A k \in 1..Len(NodesOf("rtc")) : NodesOf("rtc")[k] = DeviceList[5 + k]
    BY <2>5, <2>6, Zenon
  <2>8. (\E m \in 0..3 : Len(NodesOf("kbd")) = m /\ Listed("rtc") = 4 + m)
        /\ \E m \in 0..3 : Len(NodesOf("rtc")) = m /\ Listed("ata") = 5 + m
    BY <1>0, <2>4
  <2> QED
    BY <1>0, <2>7, <2>8, Zenon
<1>5. Lists("tty", "elf", 6)
  <2>1. NodesOf("tty") = <<<<"tty", 0>>, <<"cwd", 0>>>>
    BY DEF NodesOf
  <2>2. \A k \in 1..2 : k = 1 \/ k = 2
    OBVIOUS
  <2>3. NodesOf("tty")[1] = DeviceList[7] /\ NodesOf("tty")[2] = DeviceList[8]
    BY <2>1, ListIs
  <2>4. Len(NodesOf("tty")) = 2
    BY <2>1
  <2>5. \A k \in 1..2 : NodesOf("tty")[k] = DeviceList[6 + k]
    BY <2>2, <2>3
  <2>6. 1..Len(NodesOf("tty")) = 1..2
    BY <2>4
  <2>7. \A k \in 1..Len(NodesOf("tty")) : NodesOf("tty")[k] = DeviceList[6 + k]
    BY <2>5, <2>6, Zenon
  <2>8. \E m \in 0..3 : Len(NodesOf("tty")) = m /\ Listed("elf") = 6 + m
    BY <1>0, <2>4
  <2> QED
    BY <1>0, <2>7, <2>8, Zenon
<1>6. Lists("elf", "run", 8)
  <2>1. NodesOf("elf") = <<>>
    BY DEF NodesOf
  <2> QED
    BY <2>1 DEF Listed
<1> HIDE DEF Lists
<1>7. \A j \in 1..9 : Lists(DriverOrder[j], After(DriverOrder[j]), Listed(DriverOrder[j]))
  <2> TAKE j \in 1..9
  <2>1. After(DriverOrder[j]) = IF j = 9 THEN "run" ELSE DriverOrder[j + 1]
    BY AfterEach
  <2>2. j \in {1, 2, 3, 4, 5, 6, 7, 8, 9}
    BY OneToNine
  <2> QED
    BY <1>1, <1>2, <1>3, <1>4, <1>5, <1>6, <1>0, <2>1, <2>2, OrderIs
<1> QED
  BY <1>7 DEF Lists

\* The tree at the start.
LEMMA BootInit == Init => Booting
<1> SUFFICES ASSUME Init PROVE Booting
  OBVIOUS
<1>1. pc = "initrd" /\ rootEntries = <<>> /\ modulesLength = 0 /\ ttyNodes = <<>>
  BY DEF Init
<1>2. Listed(pc) = 0
  BY <1>1 DEF Listed
<1> QED
  BY <1>1, <1>2 DEF Booting

\* initrd_init: the nodes get the members' names.
LEMMA InitrdBoots ==
    ASSUME Booting, FilesInv, FilesInv', initrd_init, ~GoesAstray
    PROVE  Booting'
<1>1. pc = "initrd" /\ pc' = "modules" /\ UNCHANGED <<modulesEntries, modulesLength, ttyNodes, image>>
  BY DEF initrd_init, history
<1>2. Listed(pc) = 0 /\ Listed(pc') = 0
  BY <1>1 DEF Listed
<1>3. rootEntries' = <<Initrd>>
  BY <1>1 DEF initrd_init, file_node_write, Booting
<1>4. \A i \in 1..Len(image) : initrdNodes'[i].name = Last(image[i].path)
  <2>1. image \in Images /\ memory = Loaded
    BY <1>1 DEF FilesInv, Parsed, Tarred
  <2>2. initrd_parse = [i \in 1..Len(image) |-> Start(i)]
    BY <2>1, ParseFinds
  <2>3. initrdNodes' = [i \in DOMAIN initrd_parse |-> NodeFor(initrd_parse[i])]
    BY DEF initrd_init
  <2>4. ASSUME NEW i \in 1..Len(image) PROVE initrdNodes'[i].name = Last(image[i].path)
    <3>1. memory[Start(i)] = <<"header", i>>
      BY <2>1, HeaderAt
    <3>2. NodeFor(Start(i)).name = Last(image[i].path)
      BY <3>1 DEF NodeFor
    <3> QED
      BY <2>2, <2>3, <3>2
  <2> QED
    BY <2>4
<1>5. \A i \in 1..Len(image') : initrdNodes'[i].name = Last(image'[i].path)
  BY <1>1, <1>4
<1>6. \A f \in DOMAIN ttyNodes' : ttyNodes'[f] = <<f, 0>>
  BY <1>1 DEF Booting
<1>7. modulesLength' = Listed(pc') /\ \A i \in 1..Listed(pc') : modulesEntries'[i - 1] = DeviceList[i]
  BY <1>1, <1>2 DEF Booting
<1> QED
  BY <1>1, <1>3, <1>5, <1>6, <1>7 DEF Booting

\* modules_init.
LEMMA ModulesBoot ==
    ASSUME Booting, modules_init
    PROVE  Booting'
<1>1. /\ pc = "modules" /\ pc' = "io"
      /\ UNCHANGED <<modulesEntries, modulesLength, ttyNodes, image, initrdNodes>>
  BY DEF modules_init, history, DriverOrder
<1>2. Listed(pc) = 0 /\ Listed(pc') = 0
  BY <1>1 DEF Listed
<1>3. rootEntries = <<Initrd>> /\ rootEntries' = Append(rootEntries, Dev)
  BY <1>1 DEF modules_init, file_node_write, Booting
<1>4. rootEntries' = <<Initrd, Dev>>
  <2>1. <<Initrd>> \in Seq({Initrd, Dev}) /\ <<Initrd, Dev>> \in Seq({Initrd, Dev})
    OBVIOUS
  <2>2. PICK e : e = Append(<<Initrd>>, Dev)
    OBVIOUS
  <2>3. e \in Seq({Initrd, Dev}) /\ Len(e) = 2 /\ e[1] = Initrd /\ e[2] = Dev
    BY <2>1, <2>2, AppendProperties
  <2>4. e = <<Initrd, Dev>>
    BY <2>1, <2>3, SeqEqual
  <2> QED
    BY <1>3, <2>2, <2>4
<1>5. pc' \in Drivers
  BY <1>1 DEF Drivers
<1>6. modulesLength' = Listed(pc') /\ \A i \in 1..Listed(pc') : modulesEntries'[i - 1] = DeviceList[i]
  BY <1>1, <1>2 DEF Booting
<1> QED
  BY <1>1, <1>4, <1>5, <1>6 DEF Booting

\* A driver: the nodes it looks up are there.
LEMMA DriverBoots ==
    ASSUME Booting, FilesInv, DriverInit
    PROVE  Booting'
<1>1. PICK i \in 1..9 : pc = DriverOrder[i]
  BY OrderIs DEF DriverInit
<1>2. pc \in Drivers /\ pc \notin {"initrd", "modules"}
  BY <1>1, DriversAre DEF Drivers
<1>3. TreeInv
  BY DEF FilesInv
<1>4. ASSUME pc = "tty"
      PROVE  \A f \in {"vga_fb", "vga_fb_color", "vga_fb_cursor"} : TtyLooksUp[f] = <<f, 0>>
  <2>1. Listed(pc) = 6
    BY <1>4 DEF Listed
  <2>2. \A j \in {2, 3, 4} : vfs_find_root(<<"dev", NameOf(DeviceList[j])>>) = DeviceList[j]
    <3>1. \A j \in {2, 3, 4} : j \in 1..Listed(pc)
      BY <2>1
    <3> QED
      BY <1>2, <1>3, <3>1, DevFinds
  <2>3. /\ NameOf(DeviceList[2]) = "vga_fb" /\ NameOf(DeviceList[3]) = "vga_fb_color"
        /\ NameOf(DeviceList[4]) = "vga_fb_cursor"
    BY ListIs DEF NameOf
  <2>4. /\ vfs_find_root(<<"dev", "vga_fb">>) = <<"vga_fb", 0>>
        /\ vfs_find_root(<<"dev", "vga_fb_color">>) = <<"vga_fb_color", 0>>
        /\ vfs_find_root(<<"dev", "vga_fb_cursor">>) = <<"vga_fb_cursor", 0>>
    BY <2>2, <2>3, ListIs
  <2>5. \A f \in {"vga_fb", "vga_fb_color", "vga_fb_cursor"} : TtyLooksUp[f] = vfs_find_root(<<"dev", f>>)
    BY DEF TtyLooksUp
  <2> QED
    BY <2>4, <2>5
<1>5. ~NodeMissing
  <2>1. vfs_find_root(<<"dev">>) = Dev
    <3>1. Named("dev")
      BY DEF Named
    <3> QED
      BY <1>2, <3>1, FindsOne, RootFinds
  <2>2. vfs_find_root(<<"dev">>) # None
    BY <2>1 DEF Dev, None
  <2>3. pc = "tty" => TtyLooksUp["vga_fb_color"] = <<"vga_fb_color", 0>>
    BY <1>4
  <2>4. pc = "tty" => TtyLooksUp["vga_fb_color"] # None
    BY <2>3 DEF None
  <2> QED
    BY <2>2, <2>4 DEF NodeMissing
<1>6. /\ pc' = After(pc) /\ modules_node_write(NodesOf(pc))
      /\ UNCHANGED <<rootEntries, initrdNodes, image>>
      /\ ttyNodes' = IF pc = "tty" THEN TtyLooksUp ELSE ttyNodes
  BY <1>5 DEF DriverInit, history
<1>7. pc' \in Drivers \cup {"run"} /\ pc' \notin {"initrd", "modules"}
  <2>1. pc' \in Drivers \cup {"run"}
    BY <1>6, AfterIs
  <2> QED
    BY <2>1 DEF Drivers
<1>8. PICK n \in 0..8 : n = Listed(pc)
  BY ListedIs
<1> PICK nodes : nodes = NodesOf(pc)
  OBVIOUS
<1>9. /\ Listed(pc') = n + Len(nodes) /\ \A k \in 1..Len(nodes) : nodes[k] = DeviceList[n + k]
  BY <1>1, <1>6, <1>8, DriversList
<1>10. Len(nodes) \in Nat
  BY <1>8, NodesOfAre
<1>11. modulesLength = n /\ \A k \in 1..n : modulesEntries[k - 1] = DeviceList[k]
  BY <1>8 DEF Booting
<1>12. /\ modulesEntries' = [k \in 0..(n + Len(nodes) - 1) |->
                                IF k < n THEN modulesEntries[k] ELSE nodes[k - n + 1]]
       /\ modulesLength' = n + Len(nodes)
  BY <1>6, <1>8, <1>11 DEF modules_node_write
<1>13. ASSUME NEW k \in 1..Listed(pc') PROVE modulesEntries'[k - 1] = DeviceList[k]
  <2>1. k - 1 \in 0..(n + Len(nodes) - 1)
    BY <1>9, <1>10
  <2>2. CASE k <= n
    <3>1. modulesEntries'[k - 1] = modulesEntries[k - 1] /\ k \in 1..n
      BY <1>12, <2>1, <2>2
    <3> QED
      BY <1>11, <3>1
  <2>3. CASE ~(k <= n)
    <3>1. modulesEntries'[k - 1] = nodes[k - 1 - n + 1]
      BY <1>12, <2>1, <2>3
    <3>2. k - 1 - n + 1 = k - n /\ k - n \in 1..Len(nodes) /\ n + (k - n) = k
      BY <1>9, <1>10, <2>3
    <3>3. nodes[k - n] = DeviceList[n + (k - n)]
      BY <1>9, <3>2
    <3> QED
      BY <3>1, <3>2, <3>3
  <2> QED
    BY <2>2, <2>3
<1>14. \A f \in DOMAIN ttyNodes' : ttyNodes'[f] = <<f, 0>>
  <2>1. CASE pc = "tty"
    <3>1. DOMAIN ttyNodes' = {"vga_fb", "vga_fb_color", "vga_fb_cursor"}
      BY <1>6, <2>1 DEF TtyLooksUp
    <3> QED
      BY <1>4, <1>6, <2>1, <3>1
  <2>2. CASE pc # "tty"
    BY <1>6, <2>2 DEF Booting
  <2> QED
    BY <2>1, <2>2
<1>15. rootEntries' = <<Initrd, Dev>>
  BY <1>2, <1>6 DEF Booting
<1>16. \A k \in 1..Len(image') : initrdNodes'[k].name = Last(image'[k].path)
  BY <1>2, <1>6 DEF Booting
<1>17. modulesLength' = Listed(pc')
  BY <1>9, <1>12
<1> QED
  BY <1>7, <1>13, <1>14, <1>15, <1>16, <1>17 DEF Booting

\* After the boot, nothing writes to the tree.
LEMMA BootStep ==
    ASSUME BootInv, FilesInv, FilesInv', [Next]_vars
    PROVE  BootInv'
<1>1. CASE initrd_init \/ modules_init \/ DriverInit
  <2>1. pc # "wild"
    <3>1. "wild" \notin Drivers /\ \A i \in DOMAIN DriverOrder : DriverOrder[i] \in Drivers
      BY OrderIs, DriversAre DEF Drivers, DriverOrder
    <3> QED
      BY <1>1, <3>1 DEF initrd_init, modules_init, DriverInit
  <2>2. Booting
    BY <2>1 DEF BootInv
  <2>3. CASE initrd_init /\ GoesAstray
    BY <2>3 DEF GoesAstray, BootInv
  <2>4. CASE ~(initrd_init /\ GoesAstray)
    BY <1>1, <2>2, <2>4, InitrdBoots, ModulesBoot, DriverBoots DEF BootInv
  <2> QED
    BY <2>3, <2>4
<1>2. ASSUME UNCHANGED <<treeVars, image>>, pc' = pc \/ (pc = "run" /\ pc' = "wild")
      PROVE  BootInv'
  <2>1. UNCHANGED <<rootEntries, modulesEntries, modulesLength, initrdNodes, ttyNodes, image>>
    BY <1>2 DEF treeVars
  <2>2. CASE pc' = pc
    BY <2>1, <2>2 DEF BootInv, Booting
  <2>3. CASE pc = "run" /\ pc' = "wild"
    BY <2>3 DEF BootInv
  <2> QED
    BY <1>2, <2>2, <2>3
<1>3. ASSUME NEW p, syscall_info(p) PROVE BootInv'
  BY <1>2, <1>3 DEF syscall_info, GoesAstray, history
<1>4. ASSUME NEW c, NEW p, syscall_open(c, p) PROVE BootInv'
  BY <1>2, <1>4 DEF syscall_open, GoesAstray, history
<1>5. ASSUME NEW c, NEW h, syscall_close(c, h) PROVE BootInv'
  BY <1>2, <1>5 DEF syscall_close
<1>6. ASSUME NEW h, NEW n, syscall_read(h, n) PROVE BootInv'
  BY <1>2, <1>6 DEF syscall_read, history
<1>7. ASSUME NEW h, NEW n, syscall_write(h, n) PROVE BootInv'
  BY <1>2, <1>7 DEF syscall_write, history
<1>8. CASE UNCHANGED vars
  BY <1>2, <1>8 DEF vars, history
<1> QED
  BY <1>1, <1>3, <1>4, <1>5, <1>6, <1>7, <1>8 DEF Next

\* A member of the ramdisk is found by its name, of those of one name the first.
LEMMA MemberFound ==
    ASSUME Booting, FilesInv, pc = "run", NEW k \in DOMAIN image
    PROVE  vfs_find_root(<<"initrd", Last(image[k].path)>>)
               = File(SelectInSeq(image, LAMBDA m : Last(m.path) = Last(image[k].path)))
<1> PICK name : name = Last(image[k].path)
  OBVIOUS
<1> DEFINE I == {i \in 1..Len(image) : Last(image[i].path) = name}
           s == IF I # {} THEN Min(I) ELSE 0
<1>1. image \in Images /\ Len(image) \in Nat /\ DOMAIN image = 1..Len(image)
  BY ImageIs DEF FilesInv, Tarred
<1>2. SelectInSeq(image, LAMBDA m : Last(m.path) = Last(image[k].path)) = s
  BY DEF SelectInSeq
<1>3. I \subseteq Nat /\ k \in I
  BY <1>1
<1>4. PICK j \in I : \A x \in I : j <= x
  BY <1>3, LeastOf
<1>5. \A e \in I : (\A x \in I : e <= x) => e = j
  BY <1>3, <1>4
<1>6. s = j
  BY <1>3, <1>4, <1>5 DEF Min
<1> HIDE DEF s
<1>7. j \in 1..Len(image) /\ \A i \in 1..(j - 1) : Last(image[i].path) # name
  <2>1. \A i \in 1..(j - 1) : i \in 1..Len(image) /\ ~(j <= i)
    BY <1>1, <1>4
  <2> QED
    BY <1>4, <2>1
<1> HIDE DEF I
<1>8. Len(initrdNodes) = Len(image) /\ \A i \in 1..Len(image) : initrdNodes[i].name = Last(image[i].path)
  BY DEF Booting, FilesInv, Parsed
<1>9. Walk(Initrd) = [i \in 1..Len(initrdNodes) |-> File(i)]
  BY DEF Walk, Root, Dev, Initrd
<1>10. Len(Walk(Initrd)) = Len(image) /\ \A i \in 1..Len(image) : Walk(Initrd)[i] = File(i)
  BY <1>1, <1>8, <1>9
<1>11. \A i \in 1..Len(image) : NameOf(File(i)) = Last(image[i].path)
  BY <1>8 DEF NameOf, File
<1>12. File(j) # None
  BY DEF File, None
<1>13. Child(Initrd, name) = File(j)
  <2>1. Len(Walk(Initrd)) \in Nat /\ j \in 1..Len(Walk(Initrd)) /\ Initrd \in Directories
    BY <1>1, <1>7, <1>10 DEF Directories
  <2>2. Walk(Initrd)[j] # None /\ NameOf(Walk(Initrd)[j]) = name
    <3>1. Last(image[j].path) = name
      BY <1>4 DEF I
    <3> QED
      BY <1>7, <1>10, <1>11, <1>12, <3>1
  <2>3. \A i \in 1..(j - 1) : NameOf(Walk(Initrd)[i]) # name
    <3>1. \A i \in 1..(j - 1) : i \in 1..Len(image)
      BY <1>1, <1>7
    <3> QED
      BY <1>7, <1>10, <1>11, <3>1
  <2> QED
    BY <1>7, <1>10, <2>1, <2>2, <2>3, ChildIs
<1>14. Named(name) /\ Named("initrd")
  BY <1>1, ImageAssumption DEF Named
<1> QED
  BY <1>2, <1>6, <1>13, <1>14, FindsTwo, RootFinds

\* The invariants imply the property that the run checks.
LEMMA NodesFollow ==
    ASSUME BootInv, FilesInv
    PROVE  NodesAreFound
<1>1. pc # "fault"
  BY DEF BootInv, Booting, Drivers
<1>0. pc = "run" => Booting
  BY DEF BootInv
<1>2. ASSUME pc = "run", NEW n \in Devices PROVE vfs_find_root(<<"dev", NameOf(n)>>) = n
  <2>1. PICK i \in 1..9 : n \in Range(NodesOf(DriverOrder[i]))
    BY OrderIs DEF Devices
  <2>2. PICK k \in DOMAIN NodesOf(DriverOrder[i]) : n = NodesOf(DriverOrder[i])[k]
    BY <2>1 DEF Range
  <2>3. PICK m \in 0..8 : m = Listed(DriverOrder[i])
    BY ListedIs
  <2> PICK nodes : nodes = NodesOf(DriverOrder[i])
    OBVIOUS
  <2>4. Len(nodes) \in Nat /\ DOMAIN nodes = 1..Len(nodes)
    BY <2>3, NodesOfAre
  <2>5. \A l \in 1..Len(nodes) : nodes[l] = DeviceList[m + l]
    BY <2>3, DriversList
  <2>6. Listed(After(DriverOrder[i])) = m + Len(nodes)
    BY <2>3, DriversList
  <2>7. m + Len(nodes) \in 0..8
    BY <2>6, ListedIs
  <2>8. Listed(pc) = 8
    BY <1>2 DEF Listed
  <2>9. m + k \in 1..Listed(pc) /\ n = DeviceList[m + k]
    <3>1. k \in 1..Len(nodes) /\ n = nodes[k]
      BY <2>2, <2>4
    <3>2. n = DeviceList[m + k]
      BY <2>5, <3>1
    <3>3. m + k \in 1..8
      BY <2>4, <2>7, <3>1
    <3> QED
      BY <2>8, <3>2, <3>3
  <2>10. TreeInv
    BY DEF FilesInv
  <2> QED
    BY <1>0, <1>2, <2>9, <2>10, DevFinds
<1>3. pc = "run" => \A f \in DOMAIN ttyNodes : ttyNodes[f] = <<f, 0>>
  BY <1>0 DEF Booting
<1>4. pc # "initrd" => (rootEntries = <<>> <=> Len(image) > INITRD_HEADER_SIZE)
  <2>1. Len(image) \in Nat /\ INITRD_HEADER_SIZE \in Nat
    BY ImageIs, FileAssumption DEF FilesInv, Tarred
  <2> QED
    BY <2>1 DEF FilesInv, Parsed
<1> QED
  BY <1>0, <1>1, <1>2, <1>3, <1>4, MemberFound DEF NodesAreFound

(* A ramdisk is mounted exactly when it has no more members than initrd.c's tables    *)
(* have entries (with more, the boot goes astray in it); then the boot order of       *)
(* modules.c gets every driver the nodes it looks up, and afterwards each device is   *)
(* found by its path, and so is each member of the ramdisk, of those with one name    *)
(* the first (vfs_find_root, vfs_find).                                               *)
THEOREM NodesFound == Spec => []NodesAreFound
<1>1. Init => FilesInv /\ BootInv
  BY FilesInit, BootInit DEF BootInv
<1>2. FilesInv /\ BootInv /\ [Next]_vars => (FilesInv /\ BootInv)'
  BY FilesStep, BootStep
<1>3. FilesInv /\ BootInv => NodesAreFound
  BY NodesFollow
<1> QED
  BY <1>1, <1>2, <1>3, PTL DEF Spec
=============================================================================
