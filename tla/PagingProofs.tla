---------------------------- MODULE PagingProofs ----------------------------
(***************************************************************************)
(* Every address space has the kernel's tables, whatever the sizes of        *)
(* tables, heap and stacks and however many directories are cloned, until    *)
(* the heap grows out of its table, which stops the kernel.  Behind it:      *)
(* clone_directory walks its source in the order of the tables, the          *)
(* source has the kernel's tables, so all of them lie behind the loop        *)
(* counter or still in front of it; and a directory is a block of the heap   *)
(* that was handed out once, so making one never overwrites another.         *)
(***************************************************************************)
EXTENDS Paging, FiniteSetTheorems, WellFoundedInduction, TLAPS

TablesOf(d) == dirs[d].tables

HasKernelTable(d, e) ==
    e \in DOMAIN TablesOf(d) /\ TablesOf(d)[e] = TablesOf(kernel_directory)[e]

\* Before vmm_init has made it, there is no directory.
Start ==
    pc = "vmm_init" =>
        DOMAIN dirs = {} /\ dir = 0 /\ placement_address \in KernelEnd

\* Until the heap exists, the kernel's is the only one.
Booting ==
    pc \in Boot \ {"vmm_init"} =>
        DOMAIN dirs = {kernel_directory} /\ dir = 0 /\ i \in Nat

KernelBelowHeap ==
    pc # "vmm_init" =>
        /\ kernel_directory \in DOMAIN dirs
        /\ kernel_directory \in 1..((KHEAP_START * PAGE) - 1)
        /\ pc # "fault" => DOMAIN TablesOf(kernel_directory) \subseteq Nat

Indexed == pc # "fault" => \A d \in DOMAIN dirs : DOMAIN TablesOf(d) \subseteq Int

\* A directory made by clone_directory is a block below top.
OnHeap == \A d \in DOMAIN dirs \ {kernel_directory} :
             \E t \in KHEAP_START..(top - 1) : d = t * PAGE

Running ==
    pc \in {"clone", "move_stack", "run"} =>
        /\ top \in Nat /\ top >= KHEAP_START
        /\ OnHeap
        /\ current_directory \in DOMAIN dirs \ {dir}
        /\ dir \in {0} \cup (DOMAIN dirs \ {kernel_directory})
        /\ i \in Int
        /\ pc = "clone" /\ dir # 0 => i \in Nat
        /\ pc = "move_stack" => current_directory # kernel_directory
        /\ pc # "clone" => dir = 0

Linked ==
    \A d \in DOMAIN dirs \ {dir} : \A e \in DOMAIN TablesOf(kernel_directory) :
        \/ HasKernelTable(d, e)
        \/ pc = "fault" /\ TablesOf(kernel_directory)[e] = JustMade

\* The directory being filled has what lies behind the loop counter.
Partial ==
    pc = "clone" /\ dir # 0 =>
        \A e \in DOMAIN TablesOf(kernel_directory) : e < i => HasKernelTable(dir, e)

IInv == Start /\ Booting /\ KernelBelowHeap /\ Indexed /\ Running /\ Linked /\ Partial

Next == KernelNext \/ contract

(***************************************************************************)
(* Arithmetic.                                                              *)
(***************************************************************************)

\* Blocks at different pages have different addresses.
LEMMA ProductGrows ==
    ASSUME NEW t \in Nat, NEW u \in Nat, NEW n \in Nat \ {0}, t < u
    PROVE  t * n < u * n
<1> DEFINE k == u - t
<1>1. k \in Nat /\ k > 0 /\ u = t + k
  OBVIOUS
<1>2. u * n = (t * n) + (k * n)
  BY <1>1
<1>3. k * n > 0 /\ t * n \in Nat /\ k * n \in Nat
  BY <1>1
<1> QED
  BY <1>2, <1>3

\* get_page's index of the page clone_directory computes from an index.
LEMMA IndexOfPage ==
    ASSUME NEW e \in Nat, NEW n \in Nat \ {0}
    PROVE  (e * n) \div n = e
  BY SMT

LEMMA PagePositive == ENTRIES \in Nat \ {0} /\ PAGE \in Nat \ {0}
  BY LayoutAssumption DEF PAGE

\* What vmm_init places lies behind address 0.
LEMMA AlignedPositive ==
    ASSUME NEW a \in Nat
    PROVE  PageAligned(a) \in Nat /\ PageAligned(a) > 0
<1>1. a \div PAGE \in Nat
  BY PagePositive
<1>2. (a \div PAGE) * PAGE \in Nat
  BY <1>1, PagePositive
<1> QED
  BY <1>2, PagePositive DEF PageAligned

\* The next table is the least of those that remain.
LEMMA LeastOf ==
    ASSUME NEW S, S \subseteq Nat, S # {}
    PROVE  \E e \in S : \A x \in S : e <= x
<1>1. PICK e \in S : \A x \in S : ~(<<x, e>> \in OpToRel(<, Nat))
  BY NatLessThanWellFounded, WFMin
<1>2. \A x \in S : ~(x < e)
  BY <1>1, Zenon DEF OpToRel
<1> QED
  BY <1>2

(***************************************************************************)
(* get_page's new table.                                                    *)
(***************************************************************************)
LEMMA AddTableIs ==
    ASSUME NEW d \in DOMAIN dirs, NEW p, NEW t, NEW physical, dirs' = AddTable(d, p, t, physical)
    PROVE  /\ DOMAIN dirs' = DOMAIN dirs
           /\ DOMAIN dirs'[d].tables = DOMAIN TablesOf(d) \cup {p \div ENTRIES}
           /\ dirs'[d].tables[p \div ENTRIES] = t
           /\ \A e \in DOMAIN TablesOf(d) \ {p \div ENTRIES} :
                 dirs'[d].tables[e] = TablesOf(d)[e]
           /\ \A c \in DOMAIN dirs \ {d} : dirs'[c] = dirs[c]
<1> DEFINE f == TablesOf(d)
           x == p \div ENTRIES
           g == dirs'[d].tables
<1>1. /\ DOMAIN dirs' = DOMAIN dirs
      /\ g = With(f, x, t)
      /\ \A c \in DOMAIN dirs \ {d} : dirs'[c] = dirs[c]
  BY DEF AddTable, TablesOf
<1> SUFFICES /\ DOMAIN g = DOMAIN f \cup {x}
             /\ g[x] = t
             /\ \A e \in DOMAIN f \ {x} : g[e] = f[e]
  BY <1>1
<1> HIDE DEF f, g, x
<1> QED
  BY <1>1 DEF With

(***************************************************************************)
(* Steps of vmm_init.                                                       *)
(***************************************************************************)
LEMMA InitIsStart == Init => IInv
<1> SUFFICES ASSUME Init PROVE IInv
  OBVIOUS
<1>1. DOMAIN dirs = {}
  BY DEF Init
<1> QED
  BY <1>1 DEF Init, IInv, Start, Booting, KernelBelowHeap, Indexed, Running, Linked, Partial, Boot

LEMMA VmmInitKeeps == IInv /\ VmmInit => IInv'
<1> SUFFICES ASSUME IInv, VmmInit PROVE IInv'
  OBVIOUS
<1> DEFINE a == placement_address + (NFRAMES \div 32)
           k == PageAligned(a)
<1>1. placement_address \in KernelEnd /\ DOMAIN dirs = {} /\ dir = 0
  BY DEF IInv, Start, VmmInit
<1>2. NFRAMES \div 32 \in Nat
  BY PagePositive DEF NFRAMES
<1>3. a \in Nat
  BY <1>1, <1>2, LayoutAssumption
<1>4. k \in Nat /\ k > 0
  BY <1>3, AlignedPositive
<1>5. k < KHEAP_START * PAGE
  BY <1>1, HeapAboveKernel
<1>6. KHEAP_START * PAGE \in Nat
  BY LayoutAssumption, PagePositive
<1>7. k \in 1..((KHEAP_START * PAGE) - 1)
  BY <1>4, <1>5, <1>6
<1> DEFINE new == [tables |-> <<>>, tablesPhysical |-> <<>>, physicalAddr |-> k + PAGE]
<1>8. dirs' = With(dirs, k, new) /\ kernel_directory' = k /\ pc' = "tables"
      /\ dir' = 0 /\ i' = KHEAP_START
  BY <1>1 DEF VmmInit
<1>9. new.tables = <<>>
  OBVIOUS
<1> HIDE DEF k, a, new
<1>10. DOMAIN dirs' = {k} /\ dirs'[k] = new
  BY <1>1, <1>8 DEF With
<1>11. DOMAIN dirs'[k].tables = {}
  BY <1>9, <1>10
<1> QED
  BY <1>7, <1>8, <1>10, <1>11, LayoutAssumption
  DEF IInv, Start, Booting, KernelBelowHeap, Indexed, Running, Linked, Partial, Boot, TablesOf

\* A step of vmm_init's loops may give the kernel's directory a table.
BootStep ==
    /\ pc \in Boot \ {"vmm_init"} /\ pc' \in (Boot \ {"vmm_init"}) \cup {"panic"}
    /\ \/ dirs' = dirs
       \/ \E t, physical : dirs' = AddTable(kernel_directory, i, t, physical)
    /\ i' \in Nat
    /\ UNCHANGED <<kernel_directory, dir>>

LEMMA BootStepKeeps == IInv /\ BootStep => IInv'
<1> SUFFICES ASSUME IInv, BootStep PROVE IInv'
  OBVIOUS
<1>1. DOMAIN dirs = {kernel_directory} /\ dir = 0 /\ i \in Nat
  BY DEF IInv, Booting, BootStep
<1>2. DOMAIN dirs' = {kernel_directory} /\ DOMAIN dirs'[kernel_directory].tables \subseteq Nat
  <2>1. CASE dirs' = dirs
    BY <1>1, <2>1 DEF IInv, KernelBelowHeap, BootStep, TablesOf, Boot
  <2>2. ASSUME NEW t, NEW physical, dirs' = AddTable(kernel_directory, i, t, physical)
        PROVE  DOMAIN dirs' = {kernel_directory} /\ DOMAIN dirs'[kernel_directory].tables \subseteq Nat
    <3>1. i \div ENTRIES \in Nat
      BY <1>1, PagePositive
    <3>2. DOMAIN dirs'[kernel_directory].tables = DOMAIN TablesOf(kernel_directory) \cup {i \div ENTRIES}
      BY <1>1, <2>2, AddTableIs
    <3> QED
      BY <1>1, <2>2, <3>1, <3>2, AddTableIs DEF IInv, KernelBelowHeap, BootStep, Boot
  <2> QED
    BY <2>1, <2>2 DEF BootStep
<1> QED
  BY <1>1, <1>2 DEF BootStep, IInv, Start, Booting, KernelBelowHeap, Indexed, Running,
     Linked, Partial, HasKernelTable, Boot, TablesOf

LEMMA GetBootPageAdds ==
    ASSUME NEW p, GetBootPage(p)
    PROVE  dirs' = dirs \/ \E t, physical : dirs' = AddTable(kernel_directory, p, t, physical)
  BY DEF GetBootPage

LEMMA LoopsAreBootSteps ==
    IInv /\ (PreallocateHeapTables \/ MapPlaced \/ AllocateHeap) => BootStep
<1> SUFFICES ASSUME IInv, PreallocateHeapTables \/ MapPlaced \/ AllocateHeap PROVE BootStep
  OBVIOUS
<1>1. pc \in {"tables", "map", "heap"}
  BY DEF PreallocateHeapTables, MapPlaced, AllocateHeap
<1>2. i \in Nat
  BY <1>1 DEF IInv, Booting, Boot
<1>3. CASE PreallocateHeapTables
  BY <1>2, <1>3, GetBootPageAdds, LayoutAssumption DEF PreallocateHeapTables, BootStep, Boot
<1>4. CASE MapPlaced
  BY <1>2, <1>4, GetBootPageAdds, LayoutAssumption DEF MapPlaced, alloc_frame, BootStep, Boot
<1>5. CASE AllocateHeap
  BY <1>2, <1>5, LayoutAssumption DEF AllocateHeap, alloc_frame, BootStep, Boot
<1> QED
  BY <1>3, <1>4, <1>5

LEMMA CreateHeapKeeps == IInv /\ CreateHeap => IInv'
<1> SUFFICES ASSUME IInv, CreateHeap PROVE IInv'
  OBVIOUS
<1>1. DOMAIN dirs = {kernel_directory} /\ dir = 0 /\ i \in Nat
  BY DEF IInv, Booting, Boot, CreateHeap
<1>2. kernel_directory # 0
  BY DEF IInv, KernelBelowHeap, CreateHeap
<1>3. top' \in Nat /\ top' >= KHEAP_START
  BY LayoutAssumption DEF CreateHeap
<1> QED
  BY <1>1, <1>2, <1>3 DEF CreateHeap, mapVars, IInv, Start, Booting, KernelBelowHeap, Indexed,
     Running, OnHeap, Linked, Partial, HasKernelTable, Boot, TablesOf

(***************************************************************************)
(* Steps after it.                                                          *)
(***************************************************************************)

\* The kernel faults behind its heap's tables; only its directory has the new one.
TableMade ==
    /\ pc' = "fault"
    /\ \E p, physical : dirs' = AddTable(kernel_directory, p, JustMade', physical)

\* The kernel stops; the directories stay as they are, or it has made a table.
Stopped ==
    /\ pc \notin {"vmm_init", "fault"} /\ pc' \in {"fault", "panic"}
    /\ dirs' = dirs \/ TableMade
    /\ UNCHANGED <<kernel_directory, dir>>

LEMMA StoppedKeeps == IInv /\ Stopped => IInv'
<1> SUFFICES ASSUME IInv, Stopped PROVE IInv'
  OBVIOUS
<1>1. CASE dirs' = dirs
  BY <1>1 DEF IInv, Stopped, Start, Booting, KernelBelowHeap, Indexed, Running, Linked, Partial,
     HasKernelTable, TablesOf, Boot
<1>2. CASE TableMade
  <2>1. kernel_directory \in DOMAIN dirs /\ kernel_directory \in 1..((KHEAP_START * PAGE) - 1)
    BY DEF IInv, KernelBelowHeap, Stopped
  <2>2. PICK p, physical : dirs' = AddTable(kernel_directory, p, JustMade', physical)
    BY <1>2 DEF TableMade
  <2> DEFINE x == p \div ENTRIES
  <2>3. /\ DOMAIN dirs' = DOMAIN dirs
        /\ DOMAIN dirs'[kernel_directory].tables = DOMAIN TablesOf(kernel_directory) \cup {x}
        /\ dirs'[kernel_directory].tables[x] = JustMade'
        /\ \A e \in DOMAIN TablesOf(kernel_directory) \ {x} :
              dirs'[kernel_directory].tables[e] = TablesOf(kernel_directory)[e]
        /\ \A c \in DOMAIN dirs \ {kernel_directory} : dirs'[c] = dirs[c]
    BY <2>1, <2>2, AddTableIs
  <2> HIDE DEF x
  <2>4. Linked'
    <3> SUFFICES ASSUME NEW d \in DOMAIN dirs \ {dir}, NEW e \in DOMAIN dirs'[kernel_directory].tables,
                        dirs'[kernel_directory].tables[e] # JustMade'
                 PROVE  HasKernelTable(d, e)'
      BY <1>2, <2>3 DEF Linked, Stopped, TableMade, TablesOf
    <3>1. e \in DOMAIN TablesOf(kernel_directory) \ {x}
      BY <2>3
    <3>2. HasKernelTable(d, e)
      BY <3>1 DEF IInv, Linked, Stopped
    <3>3. CASE d = kernel_directory
      BY <2>3, <3>3 DEF HasKernelTable, Stopped, TablesOf
    <3>4. CASE d # kernel_directory
      BY <2>3, <3>1, <3>2, <3>4 DEF HasKernelTable, Stopped, TablesOf
    <3> QED
      BY <3>3, <3>4
  <2> QED
    BY <1>2, <2>1, <2>3, <2>4
    DEF IInv, Stopped, TableMade, Start, Booting, KernelBelowHeap, Indexed, Running, Partial, Boot
<1> QED
  BY <1>1, <1>2 DEF Stopped

LEMMA StopStops ==
    ASSUME IInv, NEW e, Stop(e), pc \in {"run", "clone", "move_stack"}
    PROVE  Stopped
<1>1. CASE dirs' = dirs
  BY <1>1 DEF Stop, Stopped, mapVars
<1>2. CASE dirs' # dirs
  <2>1. /\ pc' = "fault" /\ top' = top + 2
        /\ \E p, physical : dirs' = AddTable(kernel_directory, p, NewTable, physical)
    BY <1>2 DEF Stop, mapVars
  <2>2. JustMade' = NewTable
    <3>1. top \in Nat
      BY DEF IInv, Running
    <3>2. (top + 2) - 2 = top
      BY <3>1
    <3> QED
      BY <2>1, <3>2 DEF JustMade, NewTable, PAGE
  <2> QED
    BY <2>1, <2>2 DEF Stop, Stopped, TableMade
<1> QED
  BY <1>1, <1>2

\* The heap grows, shrinks or stays; the directories stay as they are.
Quiet ==
    /\ pc \in {"run", "move_stack"} /\ pc' \in {pc, "run", "panic"}
    /\ top' \in Nat /\ top' >= top
    /\ i' \in Int
    /\ current_directory' \in {current_directory} \cup (DOMAIN dirs \ {kernel_directory})
    /\ pc' = "move_stack" => current_directory' = current_directory
    /\ UNCHANGED <<dirs, kernel_directory, dir>>

LEMMA IntervalGrows ==
    ASSUME NEW a \in Nat, NEW b \in Nat, NEW c \in Nat, b <= c
    PROVE  a..(b - 1) \subseteq a..(c - 1)
  OBVIOUS

LEMMA OnHeapStays ==
    ASSUME OnHeap, top \in Nat, top' \in Nat, top <= top',
           DOMAIN dirs' = DOMAIN dirs, UNCHANGED kernel_directory
    PROVE  OnHeap'
<1>1. KHEAP_START..(top - 1) \subseteq KHEAP_START..(top' - 1)
  <2>1. KHEAP_START \in Nat
    BY LayoutAssumption
  <2> QED
    BY <2>1, IntervalGrows
<1>2. \A d \in DOMAIN dirs' \ {kernel_directory'} : \E t \in KHEAP_START..(top' - 1) : d = t * PAGE
  BY <1>1 DEF OnHeap
<1> QED
  BY <1>2, Zenon DEF OnHeap, PAGE

LEMMA QuietKeeps == IInv /\ Quiet => IInv'
<1> SUFFICES ASSUME IInv, Quiet PROVE IInv'
  OBVIOUS
<1>1. /\ top \in Nat /\ top >= KHEAP_START /\ OnHeap /\ dir = 0
      /\ current_directory \in DOMAIN dirs
      /\ pc = "move_stack" => current_directory # kernel_directory
  BY DEF IInv, Running, Quiet
<1>2. kernel_directory \in DOMAIN dirs /\ kernel_directory > 0 /\ kernel_directory \in Nat
  <2>1. pc # "vmm_init"
    BY DEF Quiet
  <2>2. KHEAP_START * PAGE \in Nat
    BY LayoutAssumption, PagePositive
  <2> QED
    BY <2>1, <2>2 DEF IInv, KernelBelowHeap
<1>3. 0 \notin DOMAIN dirs
  <2>1. \A t \in Nat : t >= KHEAP_START => t * PAGE > 0
    BY LayoutAssumption, PagePositive
  <2> QED
    BY <1>1, <1>2, <2>1, LayoutAssumption DEF OnHeap
<1>4. OnHeap'
  BY <1>1, OnHeapStays DEF Quiet
<1>5. Running'
  BY <1>1, <1>3, <1>4, LayoutAssumption DEF Quiet, Running
<1> QED
  <2>1. pc # "fault" /\ pc' # "vmm_init"
    BY DEF Quiet
  <2> QED
    BY <1>1, <1>5, <2>1 DEF IInv, Quiet, Start, Booting, KernelBelowHeap, Indexed, Linked, Partial,
       HasKernelTable, TablesOf, Boot, PAGE

LEMMA KmallocKeeps ==
    ASSUME IInv, NEW n \in {1, 2}, kmalloc(n)
    PROVE  IInv'
<1>1. ASSUME NEW e, Stop(e) PROVE IInv'
  <2>1. pc = "run"
    BY DEF kmalloc
  <2> QED
    BY <1>1, <2>1, StopStops, StoppedKeeps
<1>2. ASSUME NEW e, Take(n, e),
             UNCHANGED <<dirs, placement_address, kernel_directory, current_directory, pc, i, dir>>
      PROVE  IInv'
  <2>1. pc = "run" /\ top \in Nat /\ i \in Int
    BY DEF kmalloc, IInv, Running
  <2>2. top' = top + n + 1
    BY <1>2 DEF Take
  <2> QED
    BY <1>2, <2>1, <2>2, QuietKeeps DEF Quiet
<1> QED
  BY <1>1, <1>2 DEF kmalloc

LEMMA ContractKeeps == IInv /\ contract => IInv'
<1> SUFFICES ASSUME IInv, contract PROVE IInv'
  OBVIOUS
<1>1. pc = "run" /\ UNCHANGED <<dirs, placement_address, kernel_directory, current_directory, top, pc, i, dir>>
  BY DEF contract
<1>2. top \in Nat /\ i \in Int
  BY <1>1 DEF IInv, Running
<1> QED
  BY <1>1, <1>2, QuietKeeps DEF Quiet

LEMMA SwitchKeeps ==
    ASSUME IInv, NEW d \in DOMAIN dirs \ {kernel_directory}, switch_page_directory(d)
    PROVE  IInv'
<1>1. pc = "run"
  BY DEF switch_page_directory
<1>2. top \in Nat /\ i \in Int
  BY <1>1 DEF IInv, Running
<1> QED
  BY <1>1, <1>2, QuietKeeps DEF Quiet, switch_page_directory, mapVars, heapVars

\* A block at top is at none of the addresses directories have.
LEMMA TopIsFresh ==
    ASSUME IInv, pc \in {"run", "clone", "move_stack"}
    PROVE  /\ top \in Nat /\ top >= KHEAP_START
           /\ top * PAGE \notin DOMAIN dirs \cup {0}
           /\ 0 \notin DOMAIN dirs
<1>1. top \in Nat /\ top >= KHEAP_START /\ OnHeap
  BY DEF IInv, Running
<1>2. KHEAP_START \in Nat \ {0} /\ KHEAP_START * PAGE \in Nat /\ top * PAGE \in Nat
  BY <1>1, LayoutAssumption, PagePositive
<1>3. kernel_directory \in 1..((KHEAP_START * PAGE) - 1)
  BY DEF IInv, KernelBelowHeap
<1>4. KHEAP_START * PAGE <= top * PAGE
  BY <1>1, <1>2, ProductGrows, PagePositive
<1>5. ASSUME NEW d \in DOMAIN dirs \ {kernel_directory} PROVE d # top * PAGE /\ d # 0
  <2>1. PICK t \in KHEAP_START..(top - 1) : d = t * PAGE
    BY <1>1 DEF OnHeap
  <2>2. t \in Nat \ {0} /\ t < top
    BY <1>1, <1>2
  <2>3. t * PAGE < top * PAGE
    BY <1>1, <2>2, ProductGrows, PagePositive
  <2>4. t * PAGE \in Nat /\ t * PAGE > 0
    BY <2>2, PagePositive
  <2> QED
    BY <1>2, <2>1, <2>3, <2>4
<1> QED
  BY <1>1, <1>2, <1>3, <1>4, <1>5

LEMMA CloneDirectoryKeeps == IInv /\ CloneDirectory => IInv'
<1> SUFFICES ASSUME IInv, CloneDirectory PROVE IInv'
  OBVIOUS
<1>1. pc \in {"clone", "run"} /\ dir = 0
  BY DEF CloneDirectory
<1>2. ASSUME NEW e, Stop(e) PROVE IInv'
  BY <1>1, <1>2, StopStops, StoppedKeeps
<1> DEFINE a == top * PAGE
<1>3. ASSUME NEW e, NEW new, Take(2, e), new.tables = <<>>, dirs' = With(dirs, a, new),
             dir' = a, i' = 0, pc' = "clone",
             UNCHANGED <<placement_address, kernel_directory, current_directory>>
      PROVE  IInv'
  <2>1. /\ top \in Nat /\ top >= KHEAP_START
        /\ a \notin DOMAIN dirs \cup {0} /\ 0 \notin DOMAIN dirs
    BY <1>1, TopIsFresh
  <2>2. /\ OnHeap /\ current_directory \in DOMAIN dirs
    BY <1>1 DEF IInv, Running
  <2>3. kernel_directory \in DOMAIN dirs
    BY <1>1 DEF IInv, KernelBelowHeap
  <2>4. top' = top + 3
    BY <1>3, <2>1 DEF Take
  <2>5. \A d \in DOMAIN dirs' \ {kernel_directory} : \E t \in KHEAP_START..(top' - 1) : d = t * PAGE
    <3>1. \A d \in DOMAIN dirs \ {kernel_directory} : \E t \in KHEAP_START..(top - 1) : d = t * PAGE
      BY <2>2 DEF OnHeap
    <3>2. top \in KHEAP_START..(top' - 1)
      BY <2>1, <2>4, LayoutAssumption
    <3>3. KHEAP_START..(top - 1) \subseteq KHEAP_START..(top' - 1)
      BY <2>1, <2>4, LayoutAssumption
    <3>4. DOMAIN dirs' = DOMAIN dirs \cup {a}
      BY <1>3 DEF With
    <3> QED
      BY <3>1, <3>2, <3>3, <3>4
  <2> HIDE DEF a
  <2>6. DOMAIN dirs' = DOMAIN dirs \cup {a} /\ dirs'[a] = new
        /\ \A d \in DOMAIN dirs : dirs'[d] = dirs[d]
    BY <1>3, <2>1 DEF With
  <2>7. DOMAIN dirs'[a].tables = {}
    BY <1>3, <2>6
  <2>8. OnHeap'
    BY <1>3, <2>5 DEF OnHeap, PAGE
  <2>9. Running'
    BY <1>3, <2>1, <2>2, <2>3, <2>4, <2>6, <2>8, LayoutAssumption DEF Running
  <2>10. KernelBelowHeap' /\ Indexed'
    BY <1>1, <1>3, <2>3, <2>6, <2>7 DEF IInv, KernelBelowHeap, Indexed, TablesOf, PAGE
  <2>11. Linked'
    BY <1>1, <1>3, <2>1, <2>3, <2>6 DEF IInv, Linked, HasKernelTable, TablesOf
  <2>12. Partial'
    BY <1>1, <1>3, <2>3, <2>6 DEF IInv, KernelBelowHeap, Partial, TablesOf
  <2> QED
    BY <1>3, <2>9, <2>10, <2>11, <2>12 DEF IInv, Start, Booting, Boot
<1> QED
  BY <1>2, <1>3 DEF CloneDirectory

\* clone_directory's loop gives the new directory one more table: the
\* kernel's own when that is what the source has.
FillStep(t, physical) ==
    /\ pc = "clone" /\ pc' = "clone" /\ dir # 0
    /\ Remaining # {}
    /\ NextTable \in DOMAIN TablesOf(kernel_directory) =>
          t = TablesOf(kernel_directory)[NextTable]
    /\ dirs' = AddTable(dir, NextTable * ENTRIES, t, physical)
    /\ i' = NextTable + 1
    /\ top' \in Nat /\ top' >= top
    /\ UNCHANGED <<kernel_directory, current_directory, dir>>

\* What the loop has behind it when it takes the next table.
LEMMA NextTableIsNext ==
    ASSUME IInv, pc = "clone", dir # 0, Remaining # {}
    PROVE  /\ NextTable \in Nat /\ NextTable \in DOMAIN Source.tables
           /\ (NextTable * ENTRIES) \div ENTRIES = NextTable
           /\ \A e \in DOMAIN TablesOf(kernel_directory) :
                 e < NextTable + 1 /\ e # NextTable => e < i
<1>1. i \in Nat /\ current_directory \in DOMAIN dirs \ {dir}
  BY DEF IInv, Running
<1>2. DOMAIN TablesOf(kernel_directory) \subseteq Nat
  BY DEF IInv, KernelBelowHeap
<1>3. DOMAIN Source.tables \subseteq Int
  BY <1>1 DEF IInv, Indexed, Source, TablesOf
<1>4. Remaining \subseteq Nat
  BY <1>1, <1>3 DEF Remaining
<1>5. PICK least \in Remaining : \A x \in Remaining : least <= x
  BY <1>4, LeastOf
<1>6. NextTable \in Remaining /\ \A x \in Remaining : NextTable <= x
  BY <1>5 DEF NextTable
<1>7. NextTable \in Nat /\ NextTable \in DOMAIN Source.tables
  BY <1>4, <1>6 DEF Remaining
<1>8. \A e \in DOMAIN TablesOf(kernel_directory) : e \in DOMAIN Source.tables
  BY <1>1 DEF IInv, Linked, HasKernelTable, Source, TablesOf
<1>9. ASSUME NEW e \in DOMAIN TablesOf(kernel_directory), e < NextTable + 1, e # NextTable
      PROVE  e < i
  <2>1. e \in Nat /\ e < NextTable
    BY <1>2, <1>7, <1>9
  <2>2. e \notin Remaining
    BY <1>6, <1>7, <2>1
  <2> QED
    BY <1>1, <1>8, <2>1, <2>2 DEF Remaining
<1> QED
  BY <1>7, <1>9, IndexOfPage, PagePositive

LEMMA FillKeeps ==
    ASSUME IInv, NEW t, NEW physical, FillStep(t, physical)
    PROVE  IInv'
<1>1. /\ NextTable \in Nat
      /\ (NextTable * ENTRIES) \div ENTRIES = NextTable
      /\ \A e \in DOMAIN TablesOf(kernel_directory) :
            e < NextTable + 1 /\ e # NextTable => e < i
  BY NextTableIsNext DEF FillStep
<1>2. /\ dir \in DOMAIN dirs \ {kernel_directory} /\ OnHeap
      /\ current_directory \in DOMAIN dirs \ {dir}
      /\ top \in Nat /\ top >= KHEAP_START
  BY DEF IInv, Running, FillStep
<1>3. kernel_directory \in DOMAIN dirs
  BY DEF IInv, KernelBelowHeap, FillStep
<1> DEFINE n == NextTable
<1>4. /\ DOMAIN dirs' = DOMAIN dirs
      /\ DOMAIN dirs'[dir].tables = DOMAIN TablesOf(dir) \cup {n}
      /\ dirs'[dir].tables[n] = t
      /\ \A e \in DOMAIN TablesOf(dir) \ {n} : dirs'[dir].tables[e] = TablesOf(dir)[e]
      /\ \A c \in DOMAIN dirs \ {dir} : dirs'[c] = dirs[c]
  <2>1. dirs' = AddTable(dir, n * ENTRIES, t, physical) /\ dir \in DOMAIN dirs
    BY <1>2 DEF FillStep
  <2> QED
    BY <1>1, <2>1, AddTableIs
<1>5. n \in DOMAIN TablesOf(kernel_directory) => t = TablesOf(kernel_directory)[n]
  BY DEF FillStep
<1>6. i' = n + 1 /\ pc' = "clone" /\ pc = "clone" /\ dir # 0
      /\ top' \in Nat /\ top' >= top
      /\ UNCHANGED <<kernel_directory, current_directory, dir>>
  BY DEF FillStep
<1>7. n \in Nat /\ \A e \in DOMAIN TablesOf(kernel_directory) : e < n + 1 /\ e # n => e < i
  BY <1>1
<1> HIDE DEF n
<1>8. OnHeap'
  BY <1>2, <1>4, <1>6, OnHeapStays
<1>9. Running'
  <2>1. i' \in Nat
    BY <1>6, <1>7
  <2>2. top' \in Nat /\ top' >= KHEAP_START
    BY <1>2, <1>6, LayoutAssumption
  <2> QED
    BY <1>2, <1>4, <1>6, <1>8, <2>1, <2>2 DEF Running
<1>10. KernelBelowHeap'
  BY <1>2, <1>3, <1>4, <1>6 DEF IInv, KernelBelowHeap, TablesOf, PAGE
<1>11. Indexed'
  <2>1. \A c \in DOMAIN dirs : DOMAIN dirs[c].tables \subseteq Int
    BY <1>6 DEF IInv, Indexed, TablesOf
  <2> QED
    BY <1>2, <1>4, <1>7, <2>1 DEF Indexed, TablesOf
<1>12. Linked'
  BY <1>2, <1>3, <1>4, <1>6 DEF IInv, Linked, HasKernelTable, TablesOf
<1>13. Partial'
  <2>1. TablesOf(kernel_directory)' = TablesOf(kernel_directory)
    BY <1>2, <1>3, <1>4, <1>6 DEF TablesOf
  <2>2. ASSUME NEW e \in DOMAIN TablesOf(kernel_directory), e < n + 1
        PROVE  /\ e \in DOMAIN dirs'[dir].tables
               /\ dirs'[dir].tables[e] = TablesOf(kernel_directory)[e]
    <3>1. CASE e = n
      BY <1>4, <1>5, <3>1
    <3>2. CASE e # n
      <4>1. e < i
        BY <1>7, <2>2, <3>2
      <4>2. HasKernelTable(dir, e)
        BY <1>6, <4>1 DEF IInv, Partial
      <4> QED
        BY <1>4, <3>2, <4>2 DEF HasKernelTable
    <3> QED
      BY <3>1, <3>2
  <2> QED
    BY <1>6, <2>1, <2>2 DEF Partial, HasKernelTable, TablesOf
<1> QED
  BY <1>6, <1>9, <1>10, <1>11, <1>12, <1>13 DEF IInv, Start, Booting, Boot

LEMMA LinkTableKeeps == IInv /\ LinkTable => IInv'
<1> SUFFICES ASSUME IInv, LinkTable PROVE IInv'
  OBVIOUS
<1> DEFINE t == Source.tables[NextTable]
           physical == Source.tablesPhysical[NextTable]
<1>1. pc = "clone" /\ top \in Nat
  BY DEF LinkTable, IInv, Running
<1>2. t = TablesOf(kernel_directory)[NextTable]
  BY DEF LinkTable, InKernel, TablesOf
<1>3. FillStep(t, physical)
  BY <1>1, <1>2 DEF LinkTable, FillStep, heapVars
<1> QED
  BY <1>3, FillKeeps

LEMMA CloneTableKeeps == IInv /\ CloneTable => IInv'
<1> SUFFICES ASSUME IInv, CloneTable PROVE IInv'
  OBVIOUS
<1>1. pc = "clone" /\ dir # 0 /\ Remaining # {} /\ ~InKernel(NextTable)
  BY DEF CloneTable
<1>2. ASSUME NEW e, Stop(e) PROVE IInv'
  BY <1>1, <1>2, StopStops, StoppedKeeps
<1>3. ASSUME pc' \in {"fault", "panic"}, UNCHANGED <<dirs, kernel_directory, dir>>
      PROVE  IInv'
  BY <1>1, <1>3, StoppedKeeps DEF Stopped
<1>4. ASSUME NEW e, NEW t, NEW physical, Take(1, e), pc' = "clone",
             dirs' = AddTable(dir, NextTable * ENTRIES, t, physical),
             i' = NextTable + 1,
             UNCHANGED <<kernel_directory, current_directory, dir>>
      PROVE  IInv'
  <2>1. NextTable \in DOMAIN Source.tables /\ current_directory \in DOMAIN dirs \ {dir}
        /\ top \in Nat
    BY <1>1, NextTableIsNext DEF IInv, Running
  <2>2. NextTable \notin DOMAIN TablesOf(kernel_directory)
    BY <1>1, <2>1 DEF IInv, Linked, HasKernelTable, InKernel, Source, TablesOf
  <2>3. top' = top + 2
    BY <1>4, <2>1 DEF Take
  <2> QED
    BY <1>1, <1>4, <2>1, <2>2, <2>3, FillKeeps DEF FillStep
<1> QED
  BY <1>2, <1>3, <1>4 DEF CloneTable, mapVars

LEMMA CloneEndKeeps == IInv /\ CloneEnd => IInv'
<1> SUFFICES ASSUME IInv, CloneEnd PROVE IInv'
  OBVIOUS
<1>1. /\ pc = "clone" /\ dir # 0 /\ Remaining = {} /\ dir' = 0
      /\ UNCHANGED <<dirs, top, kernel_directory>>
      /\ \/ /\ current_directory' = dir /\ pc' = "move_stack" /\ i' = STACK_TOP
         \/ /\ current_directory # kernel_directory /\ pc' = "run"
            /\ UNCHANGED <<current_directory, i>>
  BY DEF CloneEnd, mapVars, heapVars
<1>2. /\ dir \in DOMAIN dirs \ {kernel_directory} /\ OnHeap /\ i \in Nat
      /\ current_directory \in DOMAIN dirs \ {dir}
      /\ top \in Nat /\ top >= KHEAP_START
  BY <1>1 DEF IInv, Running
<1>3. DOMAIN TablesOf(kernel_directory) \subseteq Nat
  BY <1>1 DEF IInv, KernelBelowHeap
<1>4. \A e \in DOMAIN TablesOf(kernel_directory) : HasKernelTable(dir, e)
  <2> TAKE e \in DOMAIN TablesOf(kernel_directory)
  <2>1. e \in DOMAIN Source.tables
    BY <1>1, <1>2 DEF IInv, Linked, HasKernelTable, Source, TablesOf
  <2>2. e < i
    BY <1>1, <1>2, <1>3, <2>1 DEF Remaining
  <2> QED
    BY <1>1, <2>2 DEF IInv, Partial
<1>5. 0 \notin DOMAIN dirs
  BY <1>1, TopIsFresh
<1>6. OnHeap'
  BY <1>1, <1>2 DEF OnHeap, PAGE
<1>7. Running'
  BY <1>1, <1>2, <1>5, <1>6, LayoutAssumption DEF Running
<1>8. Linked'
  BY <1>1, <1>4 DEF IInv, Linked, HasKernelTable, TablesOf
<1> QED
  BY <1>1, <1>7, <1>8 DEF IInv, Start, Booting, KernelBelowHeap, Indexed, Partial, TablesOf, PAGE, Boot

LEMMA MoveStackKeeps == IInv /\ MoveStack => IInv'
<1> SUFFICES ASSUME IInv, MoveStack PROVE IInv'
  OBVIOUS
<1>1. /\ pc = "move_stack" /\ dir = 0 /\ i \in Int /\ top \in Nat /\ top >= KHEAP_START /\ OnHeap
      /\ current_directory \in DOMAIN dirs \ {kernel_directory}
      /\ UNCHANGED <<kernel_directory, current_directory, dir>>
  BY DEF MoveStack, IInv, Running
<1>2. ASSUME pc' = "run", UNCHANGED <<dirs, top, i>>
      PROVE  IInv'
  BY <1>1, <1>2, QuietKeeps DEF Quiet
<1>3. ASSUME NEW t, alloc_frame(tables, t, i), i' = i - 1, UNCHANGED <<dirs, top>>
      PROVE  IInv'
  <2>1. pc' \in {pc, "panic"}
    BY <1>3 DEF alloc_frame
  <2> QED
    BY <1>1, <1>3, <2>1, QuietKeeps DEF Quiet
<1>4. ASSUME NEW e, Stop(e)
      PROVE  IInv'
  BY <1>1, <1>4, StopStops, StoppedKeeps
<1>5. ASSUME NEW e, NEW t, NEW physical, Take(1, e), ~HasTable(current_directory, i),
             dirs' = AddTable(current_directory, i, t, physical), UNCHANGED <<pc, i>>
      PROVE  IInv'
  <2> DEFINE n == i \div ENTRIES
             d == current_directory
  <2>1. n \in Int
    BY <1>1, PagePositive
  <2>2. kernel_directory \in DOMAIN dirs
    BY <1>1 DEF IInv, KernelBelowHeap
  <2>3. /\ DOMAIN dirs' = DOMAIN dirs
        /\ DOMAIN dirs'[d].tables = DOMAIN TablesOf(d) \cup {n}
        /\ \A x \in DOMAIN TablesOf(d) \ {n} : dirs'[d].tables[x] = TablesOf(d)[x]
        /\ \A c \in DOMAIN dirs \ {d} : dirs'[c] = dirs[c]
    BY <1>1, <1>5, AddTableIs
  <2>4. n \notin DOMAIN TablesOf(d)
    BY <1>5 DEF HasTable, TablesOf
  <2>5. top' = top + 2
    BY <1>1, <1>5 DEF Take
  <2>6. 0 \notin DOMAIN dirs
    BY <1>1, TopIsFresh
  <2> HIDE DEF n
  <2>7. OnHeap'
    BY <1>1, <2>3, <2>5, OnHeapStays
  <2>8. Running'
    BY <1>1, <1>5, <2>3, <2>5, <2>6, <2>7, LayoutAssumption DEF Running
  <2>9. KernelBelowHeap'
    BY <1>1, <2>2, <2>3 DEF IInv, KernelBelowHeap, TablesOf, PAGE
  <2>10. Indexed'
    <3>1. \A c \in DOMAIN dirs : DOMAIN dirs[c].tables \subseteq Int
      BY <1>1 DEF IInv, Indexed, TablesOf
    <3> QED
      BY <2>1, <2>3, <3>1 DEF Indexed, TablesOf
  <2>11. Linked'
    BY <1>1, <2>2, <2>3, <2>4 DEF IInv, Linked, HasKernelTable, TablesOf
  <2> QED
    BY <1>1, <1>5, <2>8, <2>9, <2>10, <2>11 DEF IInv, Start, Booting, Partial, Boot
<1> QED
  BY <1>2, <1>3, <1>4, <1>5 DEF MoveStack, mapVars, heapVars

(***************************************************************************)
(* The theorem.                                                             *)
(***************************************************************************)
LEMMA NextKeeps == IInv /\ [Next]_vars => IInv'
<1> SUFFICES ASSUME IInv, [Next]_vars PROVE IInv'
  OBVIOUS
<1>1. CASE PreallocateHeapTables \/ MapPlaced \/ AllocateHeap
  BY <1>1, LoopsAreBootSteps, BootStepKeeps
<1>2. ASSUME NEW n \in {1, 2}, kmalloc(n) PROVE IInv'
  BY <1>2, KmallocKeeps
<1>3. ASSUME NEW d \in DOMAIN dirs \ {kernel_directory}, switch_page_directory(d) PROVE IInv'
  BY <1>3, SwitchKeeps
<1>4. CASE UNCHANGED vars
  BY <1>4 DEF vars, mapVars, heapVars, IInv, Start, Booting, KernelBelowHeap, Indexed, Running,
     OnHeap, Linked, Partial, HasKernelTable, TablesOf, JustMade, PAGE
<1> QED
  <2>1. CASE KernelNext
    BY <1>1, <1>2, <1>3, <2>1, VmmInitKeeps, CreateHeapKeeps, CloneDirectoryKeeps, LinkTableKeeps,
       CloneTableKeeps, CloneEndKeeps, MoveStackKeeps, Zenon DEF KernelNext
  <2> QED
    BY <1>4, <2>1, ContractKeeps DEF Next

LEMMA InvariantLinks == IInv => KernelTablesLinked
  BY DEF IInv, Linked, HasKernelTable, TablesOf, KernelTablesLinked, Complete

\* With or without calls of kfree: in every address space that is not still
\* being cloned, each table of the kernel is there, the very same one, so the
\* kernel's code, heap and data are where they are whichever task runs
\* (clone_directory, paging.c:351, with vmm_init and move_stack).  A table that
\* get_page makes when the heap grows out of its first one is missing in every
\* directory but the kernel's (paging.c:303), and then nothing runs on.
THEOREM TasksShareKernel == Spec => []KernelTablesLinked
<1>1. Init => IInv
  BY InitIsStart
<1>2. IInv /\ [KernelNext \/ contract]_vars => IInv'
  BY NextKeeps DEF Next
<1>3. IInv => KernelTablesLinked
  BY InvariantLinks
<1> QED
  BY <1>1, <1>2, <1>3, PTL DEF Spec

\* So it is for the kernel as it is, which never calls kfree.
COROLLARY KernelTasksShareKernel == KernelSpec => []KernelTablesLinked
<1>1. [KernelNext]_vars => [KernelNext \/ contract]_vars
  OBVIOUS
<1> QED
  BY <1>1, TasksShareKernel, PTL DEF KernelSpec, Spec

(***************************************************************************)
(* The frames, the tables and the stacks, whatever the sizes of tables,      *)
(* memory, heap and stacks, for the kernel as it is (KernelSpec).            *)
(*                                                                           *)
(* FInv: a frame that a page has is marked, the frames handed out for a set  *)
(* of pages are unmarked ones and differ from page to page, and a table that *)
(* is made anew has no page.  BInv follows vmm_init to the heap's creation.  *)
(* RInv is about what follows: the kernel's two tables and their frames, the *)
(* heap in one of them, every other table a block of the heap, and each page *)
(* of the heap that holds a table in the frame that the physical address in  *)
(* the directories names.  TInv completes the types.  SInv says which tables *)
(* only one directory has, and which of their pages are mapped.              *)
(***************************************************************************)

(***************************************************************************)
(* The frames handed out for a set of pages.                                *)
(***************************************************************************)
Before(x, S) == {y \in S : y < x}

\* An element of a finite set of integers has fewer elements before it than the
\* set has, and so has each of those than it.
LEMMA BeforeIsFewer ==
    ASSUME NEW S \in SUBSET Int, IsFiniteSet(S), NEW x \in S
    PROVE  /\ IsFiniteSet(Before(x, S))
           /\ Cardinality(Before(x, S)) \in Nat
           /\ Cardinality(Before(x, S)) < Cardinality(S)
<1>1. Before(x, S) \in SUBSET S /\ x \notin Before(x, S)
  BY DEF Before
<1>2. /\ IsFiniteSet(Before(x, S)) /\ Cardinality(Before(x, S)) <= Cardinality(S)
      /\ Cardinality(Before(x, S)) # Cardinality(S)
  BY <1>1, FS_Subset
<1>3. Cardinality(Before(x, S)) \in Nat /\ Cardinality(S) \in Nat
  BY <1>2, FS_CardinalityType
<1> QED
  BY <1>2, <1>3

LEMMA RankDiffers ==
    ASSUME NEW S \in SUBSET Int, IsFiniteSet(S), NEW x \in S, NEW y \in S, x < y
    PROVE  Cardinality(Before(x, S)) < Cardinality(Before(y, S))
<1> DEFINE T == Before(y, S)
<1>1. T \in SUBSET Int /\ x \in T
  BY DEF Before
<1>2. IsFiniteSet(T)
  BY BeforeIsFewer
<1>3. Before(x, T) = Before(x, S)
  <2>1. \A z \in S : z < x => z < y
    OBVIOUS
  <2> QED
    BY <2>1 DEF Before
<1>4. Cardinality(Before(x, T)) < Cardinality(T)
  BY <1>1, <1>2, BeforeIsFewer
<1> QED
  BY <1>3, <1>4

\* A finite set of naturals has an element of every rank.
LEMMA EveryRank ==
    ASSUME NEW S \in SUBSET Nat, IsFiniteSet(S)
    PROVE  \A n \in Nat : n < Cardinality(S) => \E x \in S : Cardinality(Before(x, S)) = n
<1> DEFINE Has(n) == \E x \in S : Cardinality(Before(x, S)) = n
           Missing == {n \in Nat : n < Cardinality(S) /\ ~Has(n)}
<1> SUFFICES ASSUME Missing # {} PROVE FALSE
  OBVIOUS
<1>1. PICK n \in Missing : \A m \in Missing : n <= m
  <2>1. Missing \subseteq Nat
    OBVIOUS
  <2> HIDE DEF Missing
  <2> QED
    BY <2>1, LeastOf
<1>2. n \in Nat /\ n < Cardinality(S) /\ ~Has(n) /\ Cardinality(S) \in Nat
  BY <1>1, FS_CardinalityType
\* The elements before rank n, and the least of the others.
<1> DEFINE Low == {x \in S : Cardinality(Before(x, S)) < n}
<1>a. /\ S \in SUBSET Int
      /\ \A x \in S : Cardinality(Before(x, S)) \in Nat /\ IsFiniteSet(Before(x, S))
      /\ \A x, y \in S : x < y => Cardinality(Before(x, S)) < Cardinality(Before(y, S))
  BY BeforeIsFewer, RankDiffers
<1>3. ASSUME NEW z \in S, Before(z, S) = Low, Cardinality(Low) = n PROVE FALSE
  BY <1>2, <1>3
<1>4. Low \in SUBSET S
  OBVIOUS
<1>5. IsFiniteSet(Low) /\ Cardinality(Low) = n
  <2>1. CASE n = 0
    <3>0. \A x \in S : ~(Cardinality(Before(x, S)) < 0)
      BY <1>a
    <3>1. Low = {}
      BY <2>1, <3>0
    <3> QED
      BY <2>1, <3>1, FS_EmptySet
  <2>2. CASE n # 0
    <3>1. n - 1 \in Nat /\ n - 1 < n /\ n - 1 < Cardinality(S)
      BY <1>2, <2>2
    <3>2. PICK x \in S : Cardinality(Before(x, S)) = n - 1
      BY <1>1, <3>1
    <3>3. ASSUME NEW y \in S PROVE y \in Low <=> y \in Before(x, S) \cup {x}
      <4>1. Cardinality(Before(y, S)) \in Nat
        BY <1>a
      <4>2. CASE y < x
        <5>1. Cardinality(Before(y, S)) < n - 1
          BY <1>a, <3>2, <4>2
        <5> QED
          BY <1>2, <4>1, <4>2, <5>1 DEF Before
      <4>3. CASE y = x
        BY <3>1, <3>2, <4>3
      <4>4. CASE x < y
        <5>1. n - 1 < Cardinality(Before(y, S))
          BY <1>a, <3>2, <4>4
        <5> QED
          BY <1>2, <4>1, <4>4, <5>1 DEF Before
      <4> QED
        BY <4>2, <4>3, <4>4
    <3>4. Low = Before(x, S) \cup {x}
      BY <3>3 DEF Before
    <3>5. IsFiniteSet(Before(x, S)) /\ x \notin Before(x, S)
      BY <1>a DEF Before
    <3>6. IsFiniteSet(Low) /\ Cardinality(Low) = Cardinality(Before(x, S)) + 1
      <4> DEFINE B == Before(x, S)
      <4> HIDE DEF B, Low
      <4>1. Low = B \cup {x} /\ IsFiniteSet(B) /\ x \notin B
        BY <3>4, <3>5 DEF B
      <4>2. IsFiniteSet(Low) /\ Cardinality(Low) = Cardinality(B) + 1
        BY <4>1, FS_AddElement
      <4> QED
        BY <4>2 DEF B
    <3> QED
      BY <1>2, <3>2, <3>6
  <2> QED
    BY <2>1, <2>2
<1>6. S \ Low # {} /\ S \ Low \subseteq Nat
  <2>1. S # Low
    BY <1>2, <1>5
  <2> HIDE DEF Low
  <2> QED
    BY <1>a, <1>4, <2>1
<1>7. PICK z \in S \ Low : \A x \in S \ Low : z <= x
  BY <1>6, LeastOf
<1>8. Before(z, S) = Low
  <2>1. ASSUME NEW x \in S PROVE x < z <=> x \in Low
    <3>1. CASE x \in Low
      <4>1. x # z /\ Cardinality(Before(x, S)) < n /\ ~(Cardinality(Before(z, S)) < n)
        BY <3>1
      <4>2. Cardinality(Before(x, S)) \in Nat /\ Cardinality(Before(z, S)) \in Nat
        BY <1>a
      <4>3. ~(z < x)
        <5> SUFFICES ASSUME z < x PROVE FALSE
          OBVIOUS
        <5>1. Cardinality(Before(z, S)) < Cardinality(Before(x, S))
          BY <1>a
        <5> QED
          BY <1>2, <4>1, <4>2, <5>1
      <4> QED
        BY <3>1, <4>1, <4>3
    <3>2. CASE x \notin Low
      BY <1>7, <3>2
    <3> QED
      BY <3>1, <3>2
  <2> QED
    BY <1>4, <2>1 DEF Before
<1> QED
  BY <1>3, <1>5, <1>7, <1>8

\* alloc_frame called for one page after another takes unmarked frames only,
\* and a frame of its own for each page.
LEMMA FramesForDiffer ==
    ASSUME NEW pages \in SUBSET Int, IsFiniteSet(pages), NEW used, ~RunsOut(pages, used)
    PROVE  /\ DOMAIN FramesFor(pages, used) = pages
           /\ \A p \in pages : FramesFor(pages, used)[p] \in FreeAmong(used)
           /\ \A p, q \in pages : FramesFor(pages, used)[p] = FramesFor(pages, used)[q] => p = q
<1> DEFINE free == FreeAmong(used)
           new == FramesFor(pages, used)
           rank(p) == Cardinality(Before(p, pages))
<1>1. free \in SUBSET Nat /\ IsFiniteSet(free)
  <2>1. NFRAMES - 1 \in Int
    BY PagePositive DEF NFRAMES
  <2>2. IsFiniteSet(Frame)
    BY <2>1, FS_Interval DEF Frame
  <2> QED
    BY <2>1, <2>2, FS_Subset DEF FreeAmong, Frame
<1>2. Cardinality(pages) <= Cardinality(free)
  <2>1. Cardinality(pages) \in Nat /\ Cardinality(free) \in Nat
    BY <1>1, FS_CardinalityType
  <2> QED
    BY <2>1 DEF RunsOut
<1>3. new = [p \in pages |-> CHOOSE f \in free : Cardinality(Before(f, free)) = rank(p)]
  BY DEF FramesFor, Before
<1> HIDE DEF new, free
<1>4. ASSUME NEW p \in pages
      PROVE  new[p] \in free /\ Cardinality(Before(new[p], free)) = rank(p)
  <2>1. rank(p) \in Nat /\ rank(p) < Cardinality(pages)
    BY BeforeIsFewer
  <2>2. Cardinality(pages) \in Nat /\ Cardinality(free) \in Nat
    BY <1>1, FS_CardinalityType
  <2>3. rank(p) < Cardinality(free)
    BY <1>2, <2>1, <2>2
  <2>4. \E f \in free : Cardinality(Before(f, free)) = rank(p)
    BY <1>1, <2>1, <2>3, EveryRank
  <2> HIDE DEF rank
  <2> QED
    BY <1>3, <2>4
<1>5. ASSUME NEW p \in pages, NEW q \in pages, p < q PROVE new[p] # new[q]
  <2>1. rank(p) < rank(q) /\ rank(p) \in Nat /\ rank(q) \in Nat
    BY <1>5, RankDiffers, BeforeIsFewer
  <2> HIDE DEF rank
  <2>2. Cardinality(Before(new[p], free)) = rank(p) /\ Cardinality(Before(new[q], free)) = rank(q)
    BY <1>4
  <2>3. rank(p) # rank(q)
    BY <2>1
  <2> QED
    BY <2>2, <2>3
<1>6. \A p, q \in pages : new[p] = new[q] => p = q
  BY <1>5
<1> QED
  BY <1>3, <1>4, <1>6 DEF new, free

\* The frame handed out for a single page.
LEMMA FirstFrameFree ==
    ASSUME NEW used, FreeAmong(used) # {}
    PROVE  first_frame(used) \in FreeAmong(used)
<1>1. FreeAmong(used) \subseteq Nat
  BY PagePositive DEF FreeAmong, Frame, NFRAMES
<1>2. PICK f \in FreeAmong(used) : \A g \in FreeAmong(used) : f <= g
  BY <1>1, LeastOf
<1> QED
  BY <1>2 DEF first_frame

(***************************************************************************)
(* Tables and bitmap: ts the tables, used the marked frames.                *)
(***************************************************************************)
Typed(ts) == \A t \in DOMAIN ts : \A e \in DOMAIN ts[t] : e \in 0..(ENTRIES - 1) /\ ts[t][e] \in Entry

\* Nothing takes an entry back (contract would): all there are are present.
Marked(ts, used) ==
    \A t \in DOMAIN ts : \A e \in DOMAIN ts[t] : ts[t][e].present /\ ts[t][e].frame \in used

Apart(ts) ==
    \A t, u \in DOMAIN ts : \A e \in DOMAIN ts[t], f \in DOMAIN ts[u] :
        ts[t][e].frame = ts[u][f].frame => t = u /\ e = f

Owned(ts, used) ==
    IsFiniteSet(DOMAIN ts) /\ used \subseteq Frame /\ Typed(ts) /\ Marked(ts, used) /\ Apart(ts)

\* A table of no pages, in the place of another or of none.
LEMMA NewTableOwned ==
    ASSUME NEW ts, NEW used, Owned(ts, used), NEW t
    PROVE  Owned(With(ts, t, <<>>), used)
<1> DEFINE new == With(ts, t, <<>>)
<1>1. DOMAIN new = DOMAIN ts \cup {t} /\ \A u \in DOMAIN new : new[u] = IF u = t THEN <<>> ELSE ts[u]
  BY DEF With
<1> HIDE DEF new
<1>2. IsFiniteSet(DOMAIN new)
  BY <1>1, FS_AddElement DEF Owned
<1>3. \A u \in DOMAIN new : \A e \in DOMAIN new[u] :
         u \in DOMAIN ts /\ new[u] = ts[u]
  BY <1>1
<1> QED
  BY <1>2, <1>3 DEF Owned, Typed, Marked, Apart, new

\* Unmarked frames, a different one for each slot, marked as they are taken.
LEMMA MapOwned ==
    ASSUME NEW ts, NEW used, Owned(ts, used), NEW new, NEW used2,
           used2 \subseteq Frame, used \subseteq used2,
           \A x \in DOMAIN new : new[x] \in used2 /\ new[x] \notin used,
           \A x, y \in DOMAIN new : new[x] = new[y] => x = y
    PROVE  Owned(Map(ts, new), used2) /\ DOMAIN Map(ts, new) = DOMAIN ts
<1> DEFINE m == Map(ts, new)
           has(t, e) == e \in DOMAIN ts[t]
<1>1. /\ DOMAIN m = DOMAIN ts
      /\ \A t \in DOMAIN ts :
            /\ \A e \in DOMAIN m[t] : has(t, e) \/ (e \in 0..(ENTRIES - 1) /\ <<t, e>> \in DOMAIN new)
            /\ \A e \in DOMAIN m[t] :
                  m[t][e] = IF <<t, e>> \in DOMAIN new THEN [present |-> TRUE, frame |-> new[<<t, e>>]]
                            ELSE ts[t][e]
  BY DEF Map
<1> HIDE DEF m
<1>2. ASSUME NEW t \in DOMAIN ts, NEW e \in DOMAIN m[t], <<t, e>> \in DOMAIN new
      PROVE  /\ e \in 0..(ENTRIES - 1) /\ m[t][e] \in Entry /\ m[t][e].frame = new[<<t, e>>]
             /\ m[t][e].frame \in used2 /\ m[t][e].frame \notin used /\ m[t][e].present
  <2>1. m[t][e] = [present |-> TRUE, frame |-> new[<<t, e>>]]
    BY <1>1, <1>2
  <2>2. new[<<t, e>>] \in used2 /\ new[<<t, e>>] \notin used /\ new[<<t, e>>] \in Frame
    BY <1>2
  <2>3. e \in 0..(ENTRIES - 1)
    BY <1>1 DEF Owned, Typed
  <2> QED
    BY <2>1, <2>2, <2>3 DEF Entry
<1>3. ASSUME NEW t \in DOMAIN ts, NEW e \in DOMAIN m[t], <<t, e>> \notin DOMAIN new
      PROVE  /\ e \in DOMAIN ts[t] /\ m[t][e] = ts[t][e]
             /\ e \in 0..(ENTRIES - 1) /\ m[t][e] \in Entry /\ m[t][e].present /\ m[t][e].frame \in used
  BY <1>1, <1>3 DEF Owned, Typed, Marked
<1>4. Typed(m) /\ Marked(m, used2)
  <2> SUFFICES ASSUME NEW t \in DOMAIN ts, NEW e \in DOMAIN m[t]
               PROVE  e \in 0..(ENTRIES - 1) /\ m[t][e] \in Entry /\ m[t][e].present
                      /\ m[t][e].frame \in used2
    BY <1>1, Zenon DEF Typed, Marked
  <2>1. CASE <<t, e>> \in DOMAIN new
    BY <1>2, <2>1, Zenon
  <2>2. CASE <<t, e>> \notin DOMAIN new
    BY <1>3, <2>2, Zenon
  <2> QED
    BY <2>1, <2>2
<1>5. Apart(m)
  <2> SUFFICES ASSUME NEW t \in DOMAIN ts, NEW u \in DOMAIN ts, NEW e \in DOMAIN m[t],
                      NEW f \in DOMAIN m[u], m[t][e].frame = m[u][f].frame
               PROVE  t = u /\ e = f
    BY <1>1 DEF Apart
  <2>1. CASE <<t, e>> \in DOMAIN new /\ <<u, f>> \in DOMAIN new
    <3>1. <<t, e>> = <<u, f>>
      BY <1>2, <2>1
    <3> QED
      BY <3>1
  <2>2. CASE <<t, e>> \in DOMAIN new /\ <<u, f>> \notin DOMAIN new
    BY <1>2, <1>3, <2>2
  <2>3. CASE <<t, e>> \notin DOMAIN new /\ <<u, f>> \in DOMAIN new
    BY <1>2, <1>3, <2>3
  <2>4. CASE <<t, e>> \notin DOMAIN new /\ <<u, f>> \notin DOMAIN new
    BY <1>3, <2>4 DEF Owned, Apart
  <2> QED
    BY <2>1, <2>2, <2>3, <2>4
<1> QED
  BY <1>1, <1>4, <1>5 DEF Owned, m

LEMMA AllocFrameOwned ==
    ASSUME NEW ts, NEW t, NEW p, Owned(ts, frames), alloc_frame(ts, t, p)
    PROVE  Owned(tables', frames') /\ DOMAIN tables' = DOMAIN ts
<1>1. CASE tables' = ts /\ frames' = frames
  BY <1>1
<1>2. CASE /\ FreeAmong(frames) # {}
           /\ tables' = Map(ts, [x \in {Slot(t, p)} |-> first_frame(frames)])
           /\ frames' = frames \cup {first_frame(frames)}
  <2> DEFINE new == [x \in {Slot(t, p)} |-> first_frame(frames)]
             f == first_frame(frames)
  <2>1. f \in Frame /\ f \notin frames
    BY <1>2, FirstFrameFree DEF FreeAmong
  <2>2. frames' \subseteq Frame /\ frames \subseteq frames' /\ f \in frames'
    BY <1>2, <2>1 DEF Owned
  <2>3. /\ \A x \in DOMAIN new : new[x] = f
        /\ \A x, y \in DOMAIN new : x = y
    OBVIOUS
  <2>4. tables' = Map(ts, new)
    BY <1>2
  <2> HIDE DEF new, f
  <2> QED
    BY <2>1, <2>2, <2>3, <2>4, MapOwned
<1> QED
  BY <1>1, <1>2, Zenon DEF alloc_frame

\* expand's loop.
LEMMA ExpandOwned ==
    ASSUME Owned(tables, frames), end \in Nat, NEW e \in Int, ~RunsOut(Grown(e), frames)
    PROVE  /\ Owned(TablesAfter(e), FramesAfter(e))
           /\ DOMAIN TablesAfter(e) =
                 DOMAIN tables \cup (IF Tableless(e) = {} THEN {} ELSE {NewTable})
<1> DEFINE new == NewFrames(e)
           ts == IF Tableless(e) = {} THEN tables ELSE With(tables, NewTable, <<>>)
           slot(p) == Slot(IF p \in Tableless(e) THEN NewTable ELSE KernelTable(p), p)
           page(x) == CHOOSE p \in Grown(e) : slot(p) = x
           at == [x \in {slot(p) : p \in Grown(e)} |-> new[page(x)]]
<1>1. Grown(e) \in SUBSET Int /\ IsFiniteSet(Grown(e))
  <2>1. IsFiniteSet(end..(e - 1))
    BY FS_Interval
  <2>2. Grown(e) \in SUBSET (end..(e - 1))
    BY DEF Grown
  <2>3. IsFiniteSet(Grown(e))
    BY <2>1, <2>2, FS_Subset
  <2> QED
    BY <2>2, <2>3
<1>2. /\ Owned(ts, frames)
      /\ DOMAIN ts = DOMAIN tables \cup (IF Tableless(e) = {} THEN {} ELSE {NewTable})
  BY NewTableOwned DEF With
<1>3. /\ \A p \in Grown(e) : new[p] \in FreeAmong(frames)
      /\ \A p, q \in Grown(e) : new[p] = new[q] => p = q
  BY <1>1, FramesForDiffer DEF NewFrames
<1>4. /\ \A p \in Grown(e) : new[p] \in FramesAfter(e) /\ new[p] \notin frames
      /\ frames \subseteq FramesAfter(e) /\ FramesAfter(e) \subseteq Frame
  BY <1>3 DEF FramesAfter, FreeAmong, Owned
<1> HIDE DEF new, slot, ts
<1>5. \A x \in DOMAIN at : page(x) \in Grown(e) /\ slot(page(x)) = x
  OBVIOUS
<1> HIDE DEF page
<1>6. \A x \in DOMAIN at : at[x] = new[page(x)]
  OBVIOUS
<1>7. TablesAfter(e) = Map(ts, at)
  BY Zenon DEF TablesAfter, new, slot, page, ts
<1> HIDE DEF at
<1>8. \A x \in DOMAIN at : at[x] \in FramesAfter(e) /\ at[x] \notin frames
  BY <1>4, <1>5, <1>6
<1>9. \A x, y \in DOMAIN at : at[x] = at[y] => x = y
  BY <1>3, <1>5, <1>6
<1> QED
  BY <1>2, <1>4, <1>7, <1>8, <1>9, MapOwned

(***************************************************************************)
(* The invariant.                                                           *)
(***************************************************************************)

\* Every table a directory has is a table, with a physical address.
TablesExist ==
    \A d \in DOMAIN dirs :
        /\ DOMAIN dirs[d].tablesPhysical = DOMAIN TablesOf(d)
        /\ \A e \in DOMAIN TablesOf(d) : TablesOf(d)[e] \in DOMAIN tables

FInv ==
    /\ Owned(tables, frames)
    /\ TablesExist
    /\ end \in Nat
    /\ pc = "vmm_init" => DOMAIN tables = {}

\* AddTable fills in the physical address as it does the table.
LEMMA AddPhysicalIs ==
    ASSUME NEW d \in DOMAIN dirs, NEW p, NEW t, NEW physical, dirs' = AddTable(d, p, t, physical)
    PROVE  /\ DOMAIN dirs'[d].tablesPhysical = DOMAIN dirs[d].tablesPhysical \cup {p \div ENTRIES}
           /\ dirs'[d].tablesPhysical[p \div ENTRIES] = physical
           /\ \A e \in DOMAIN dirs[d].tablesPhysical \ {p \div ENTRIES} :
                 dirs'[d].tablesPhysical[e] = dirs[d].tablesPhysical[e]
           /\ dirs'[d].physicalAddr = dirs[d].physicalAddr
<1> DEFINE f == dirs[d].tablesPhysical
           x == p \div ENTRIES
           g == dirs'[d].tablesPhysical
<1>1. g = With(f, x, physical) /\ dirs'[d].physicalAddr = dirs[d].physicalAddr
  BY DEF AddTable
<1> SUFFICES /\ DOMAIN g = DOMAIN f \cup {x}
             /\ g[x] = physical
             /\ \A e \in DOMAIN f \ {x} : g[e] = f[e]
  BY <1>1
<1> HIDE DEF f, g, x
<1> QED
  BY <1>1 DEF With

LEMMA TablesStay ==
    ASSUME TablesExist, UNCHANGED dirs, DOMAIN tables \subseteq DOMAIN tables'
    PROVE  TablesExist'
  BY DEF TablesExist, TablesOf

LEMMA TableAdded ==
    ASSUME TablesExist, NEW d \in DOMAIN dirs, NEW p, NEW t \in DOMAIN tables', NEW physical,
           dirs' = AddTable(d, p, t, physical), DOMAIN tables \subseteq DOMAIN tables'
    PROVE  TablesExist'
<1> DEFINE n == p \div ENTRIES
<1>1. /\ DOMAIN dirs' = DOMAIN dirs
      /\ DOMAIN dirs'[d].tables = DOMAIN TablesOf(d) \cup {n}
      /\ dirs'[d].tables[n] = t
      /\ \A e \in DOMAIN TablesOf(d) \ {n} : dirs'[d].tables[e] = TablesOf(d)[e]
      /\ \A c \in DOMAIN dirs \ {d} : dirs'[c] = dirs[c]
  BY AddTableIs
<1>2. DOMAIN dirs'[d].tablesPhysical = DOMAIN dirs[d].tablesPhysical \cup {n}
  BY AddPhysicalIs
<1> HIDE DEF n
<1>3. ASSUME NEW c \in DOMAIN dirs
      PROVE  /\ DOMAIN dirs'[c].tablesPhysical = DOMAIN dirs'[c].tables
             /\ \A e \in DOMAIN dirs'[c].tables : dirs'[c].tables[e] \in DOMAIN tables'
  <2>1. CASE c = d
    <3>1. DOMAIN dirs[d].tablesPhysical = DOMAIN TablesOf(d)
      BY DEF TablesExist
    <3>2. \A e \in DOMAIN TablesOf(d) : TablesOf(d)[e] \in DOMAIN tables'
      BY DEF TablesExist
    <3> QED
      BY <1>1, <1>2, <2>1, <3>1, <3>2
  <2>2. CASE c # d
    BY <1>1, <2>2 DEF TablesExist, TablesOf
  <2> QED
    BY <2>1, <2>2
<1> QED
  BY <1>1, <1>3 DEF TablesExist, TablesOf

LEMMA DirectoryAdded ==
    ASSUME TablesExist, NEW a, NEW new, new.tables = <<>>, new.tablesPhysical = <<>>,
           dirs' = With(dirs, a, new),
           DOMAIN tables \subseteq DOMAIN tables'
    PROVE  TablesExist'
<1>1. /\ DOMAIN dirs' = DOMAIN dirs \cup {a}
      /\ \A d \in DOMAIN dirs' : dirs'[d] = IF d = a THEN new ELSE dirs[d]
  BY DEF With
<1>2. DOMAIN new.tables = {} /\ DOMAIN new.tablesPhysical = {}
  OBVIOUS
<1> QED
  BY <1>1, <1>2 DEF TablesExist, TablesOf

LEMMA InitOwned == Init => FInv
<1> SUFFICES ASSUME Init PROVE FInv
  OBVIOUS
<1>1. DOMAIN tables = {} /\ DOMAIN dirs = {} /\ frames \in Memory /\ end = 0
  BY DEF Init
<1>2. frames \subseteq Frame
  BY <1>1, LayoutAssumption DEF Frame
<1>3. IsFiniteSet(DOMAIN tables)
  BY <1>1, FS_EmptySet
<1> QED
  BY <1>1, <1>2, <1>3 DEF FInv, Owned, Typed, Marked, Apart, TablesExist

LEMMA VmmInitOwned == FInv /\ VmmInit => FInv'
<1> SUFFICES ASSUME FInv, VmmInit PROVE FInv'
  OBVIOUS
<1>1. DOMAIN tables = {} /\ tables' = tables /\ frames' \subseteq frames /\ end' = end /\ pc' = "tables"
  BY DEF FInv, VmmInit, heapVars
<1>2. Owned(tables', frames')
  BY <1>1 DEF FInv, Owned, Typed, Marked, Apart
<1> DEFINE d == PageAligned(placement_address + (NFRAMES \div 32))
           new == [tables |-> <<>>, tablesPhysical |-> <<>>, physicalAddr |-> d + PAGE]
<1>3. dirs' = With(dirs, d, new) /\ new.tables = <<>> /\ new.tablesPhysical = <<>>
  BY DEF VmmInit
<1> HIDE DEF d, new
<1>4. TablesExist'
  BY <1>1, <1>3, DirectoryAdded DEF FInv
<1> QED
  BY <1>1, <1>2, <1>4 DEF FInv

\* get_page in the loops of vmm_init.
LEMMA BootPageOwned ==
    ASSUME FInv, NEW p, GetBootPage(p), kernel_directory \in DOMAIN dirs,
           DOMAIN tables' = DOMAIN BootTables(p)
    PROVE  Owned(BootTables(p), frames) /\ TablesExist'
<1>1. CASE HasTable(kernel_directory, p)
  BY <1>1, TablesStay DEF FInv, BootTables, GetBootPage
<1>2. CASE ~HasTable(kernel_directory, p)
  <2> DEFINE t == PageAligned(placement_address)
  <2>1. BootTables(p) = With(tables, t, <<>>) /\ dirs' = AddTable(kernel_directory, p, t, t)
    BY <1>2 DEF BootTables, BootTable, GetBootPage
  <2> HIDE DEF t
  <2>2. DOMAIN tables' = DOMAIN tables \cup {t}
    BY <2>1 DEF With
  <2> QED
    BY <2>1, <2>2, NewTableOwned, TableAdded DEF FInv
<1> QED
  BY <1>1, <1>2

LEMMA BootOwned ==
    IInv /\ FInv /\ (PreallocateHeapTables \/ MapPlaced \/ AllocateHeap) => FInv'
<1> SUFFICES ASSUME IInv, FInv, PreallocateHeapTables \/ MapPlaced \/ AllocateHeap PROVE FInv'
  OBVIOUS
<1>1. kernel_directory \in DOMAIN dirs /\ UNCHANGED end /\ pc' # "vmm_init"
  BY DEF IInv, KernelBelowHeap, PreallocateHeapTables, MapPlaced, AllocateHeap, alloc_frame, heapVars
<1>2. ASSUME UNCHANGED <<frames, tables, dirs>> PROVE FInv'
  BY <1>1, <1>2, TablesStay DEF FInv
<1>3. CASE PreallocateHeapTables
  <2>1. CASE InHeapLoop
    BY <1>1, <1>3, <2>1, BootPageOwned DEF PreallocateHeapTables, FInv
  <2>2. CASE ~InHeapLoop
    BY <1>2, <1>3, <2>2 DEF PreallocateHeapTables
  <2> QED
    BY <2>1, <2>2
<1>4. CASE MapPlaced
  <2>1. CASE InMapLoop
    <3>1. GetBootPage(i) /\ alloc_frame(BootTables(i), BootTable(i), i)
      BY <1>4, <2>1 DEF MapPlaced
    <3>2. DOMAIN tables' = DOMAIN BootTables(i)
      BY <3>1 DEF alloc_frame, Map
    <3>3. Owned(BootTables(i), frames) /\ TablesExist'
      BY <1>1, <3>1, <3>2, BootPageOwned
    <3>4. Owned(tables', frames')
      BY <3>1, <3>3, AllocFrameOwned
    <3> QED
      BY <1>1, <3>3, <3>4 DEF FInv
  <2>2. CASE ~InMapLoop
    BY <1>2, <1>4, <2>2 DEF MapPlaced
  <2> QED
    BY <2>1, <2>2
<1>5. CASE AllocateHeap
  <2>1. CASE InHeapLoop
    <3>1. alloc_frame(tables, KernelTable(i), i) /\ UNCHANGED dirs
      BY <1>5, <2>1 DEF AllocateHeap
    <3>2. Owned(tables', frames') /\ DOMAIN tables' = DOMAIN tables
      BY <3>1, AllocFrameOwned DEF FInv
    <3> QED
      BY <1>1, <3>1, <3>2, TablesStay DEF FInv
  <2>2. CASE ~InHeapLoop
    BY <1>2, <1>5, <2>2 DEF AllocateHeap
  <2> QED
    BY <2>1, <2>2
<1> QED
  BY <1>3, <1>4, <1>5

LEMMA CreateHeapOwned == FInv /\ CreateHeap => FInv'
<1> SUFFICES ASSUME FInv, CreateHeap PROVE FInv'
  OBVIOUS
<1>1. UNCHANGED <<frames, tables, dirs>> /\ end' \in Nat /\ pc' = "clone"
  BY LayoutAssumption DEF CreateHeap, mapVars
<1> QED
  BY <1>1, TablesStay DEF FInv

\* Steps that leave the maps alone.
LEMMA MapsStayOwned ==
    ASSUME FInv, UNCHANGED <<mapVars, heapVars>>, pc' # "vmm_init"
    PROVE  FInv'
  BY TablesStay DEF FInv, mapVars, heapVars

\* Blocks rise, and an expansion ends behind the block it is for.
LEMMA EndsIs ==
    ASSUME FInv, NEW n \in {1, 2}, NEW e \in Ends(n)
    PROVE  end \in Nat /\ e \in Nat
  BY DEF FInv, Ends

LEMMA FirstTablelessIs ==
    ASSUME FInv, NEW e \in Nat, Tableless(e) # {}
    PROVE  FirstTableless(e) \in Tableless(e) /\ FirstTableless(e) \in Nat
           /\ \A q \in Tableless(e) : FirstTableless(e) <= q
<1>1. Tableless(e) \subseteq Nat
  BY DEF Tableless, FInv
<1>2. PICK p \in Tableless(e) : \A q \in Tableless(e) : p <= q
  BY <1>1, LeastOf
<1> QED
  BY <1>1, <1>2 DEF FirstTableless

\* Nothing below the first page without a table is without one.
LEMMA ReachedIs ==
    ASSUME FInv, NEW e \in Nat
    PROVE  /\ Reached(e) \in Nat
           /\ Tableless(e) # {} /\ ~HasRoom => Tableless(Reached(e)) = {}
           /\ Tableless(e) = {} \/ HasRoom => Reached(e) = e
<1>1. CASE Tableless(e) # {} /\ ~HasRoom
  <2>1. Reached(e) = FirstTableless(e)
    BY <1>1 DEF Reached
  <2>2. FirstTableless(e) \in Nat /\ FirstTableless(e) \in Tableless(e)
        /\ \A q \in Tableless(e) : FirstTableless(e) <= q
    BY <1>1, FirstTablelessIs
  <2>3. ASSUME NEW p \in Tableless(FirstTableless(e)) PROVE FALSE
    BY <2>2, <2>3 DEF Tableless, FInv
  <2> QED
    BY <1>1, <2>1, <2>2, <2>3
<1>2. CASE Tableless(e) = {} \/ HasRoom
  BY <1>2 DEF Reached
<1> QED
  BY <1>1, <1>2

LEMMA StopOwned ==
    ASSUME IInv, FInv, pc \in {"run", "clone", "move_stack"}, NEW n \in {1, 2}, NEW e \in Ends(n), Stop(e)
    PROVE  FInv'
<1> DEFINE r == Reached(e)
<1>1. pc' # "vmm_init"
  BY DEF Stop
<1>2. CASE RunsOut(Grown(r), frames)
  BY <1>1, <1>2, MapsStayOwned DEF Stop
<1>3. CASE ~RunsOut(Grown(r), frames)
  <2>1. end \in Nat /\ e \in Nat /\ r \in Nat
    BY EndsIs, ReachedIs
  <2>2. frames' = FramesAfter(r) /\ tables' = TablesAfter(r)
    BY <1>3 DEF Stop
  <2> HIDE DEF r
  <2>3. Owned(tables', frames')
        /\ DOMAIN tables' = DOMAIN tables \cup (IF Tableless(r) = {} THEN {} ELSE {NewTable})
    <3>1. r \in Int /\ Owned(tables, frames)
      BY <2>1 DEF FInv
    <3>2. Owned(TablesAfter(r), FramesAfter(r))
          /\ DOMAIN TablesAfter(r) = DOMAIN tables \cup (IF Tableless(r) = {} THEN {} ELSE {NewTable})
      BY <1>3, <2>1, <3>1, ExpandOwned, Zenon
    <3> QED
      BY <2>2, <3>2, Zenon
  <2>4. CASE HasRoom
    <3>1. /\ dirs' = AddTable(kernel_directory, FirstTableless(e), NewTable,
                              Physical(TablesAfter(e), NewTable))
          /\ end' = e
      BY <1>3, <2>4 DEF Stop, r
    <3>2. r = e
      BY <2>1, <2>4, ReachedIs DEF r
    <3>3. Tableless(e) # {}
      BY <1>3, <3>2 DEF Stop, Stops, r
    <3>4. NewTable \in DOMAIN tables'
      BY <2>3, <3>2, <3>3
    <3>5. kernel_directory \in DOMAIN dirs
      BY DEF IInv, KernelBelowHeap
    <3>6. TablesExist'
      BY <2>3, <3>1, <3>4, <3>5, TableAdded DEF FInv
    <3> QED
      BY <1>1, <2>1, <2>3, <3>1, <3>6 DEF FInv
  <2>5. CASE ~HasRoom
    <3>1. UNCHANGED <<dirs, heapVars>>
      BY <1>3, <2>5 DEF Stop, r
    <3> QED
      BY <1>1, <2>1, <2>3, <3>1, TablesStay DEF FInv, heapVars
  <2> QED
    BY <2>4, <2>5
<1> QED
  BY <1>2, <1>3

\* The heap hands out a block, and with it the frames of the pages it grew by.
LEMMA TakeOwned ==
    ASSUME FInv, NEW n \in {1, 2}, NEW e \in Ends(n), Take(n, e)
    PROVE  /\ Owned(TablesAfter(e), FramesAfter(e))
           /\ DOMAIN TablesAfter(e) = DOMAIN tables
           /\ end' \in Nat
<1>1. end \in Nat /\ e \in Nat
  BY EndsIs
<1>2. ~RunsOut(Grown(e), frames) /\ Tableless(e) = {} /\ end' = e
  BY Zenon DEF Take, Stops
<1>3. e \in Int /\ Owned(tables, frames)
  BY <1>1 DEF FInv
<1>4. Owned(TablesAfter(e), FramesAfter(e))
      /\ DOMAIN TablesAfter(e) = DOMAIN tables \cup (IF Tableless(e) = {} THEN {} ELSE {NewTable})
  BY <1>1, <1>2, <1>3, ExpandOwned, Zenon
<1> QED
  BY <1>1, <1>2, <1>4

LEMMA KmallocOwned ==
    ASSUME IInv, FInv, NEW n \in {1, 2}, kmalloc(n)
    PROVE  FInv'
<1>1. PICK e \in Ends(n) :
         \/ Stop(e)
         \/ /\ Take(n, e) /\ frames' = FramesAfter(e) /\ tables' = TablesAfter(e)
            /\ UNCHANGED <<dirs, pc>>
  BY DEF kmalloc
<1>2. pc = "run"
  BY DEF kmalloc
<1>3. CASE Take(n, e) /\ frames' = FramesAfter(e) /\ tables' = TablesAfter(e) /\ UNCHANGED <<dirs, pc>>
  BY <1>2, <1>3, TakeOwned, TablesStay DEF FInv
<1> QED
  BY <1>1, <1>2, <1>3, StopOwned

LEMMA CloneDirectoryOwned == IInv /\ FInv /\ CloneDirectory => FInv'
<1> SUFFICES ASSUME IInv, FInv, CloneDirectory PROVE FInv'
  OBVIOUS
<1> DEFINE a == top * PAGE
           new(e) == [tables |-> <<>>, tablesPhysical |-> <<>>,
                      physicalAddr |-> Physical(TablesAfter(e), a) + PAGE]
<1>1. PICK e \in Ends(2) :
         \/ Stop(e)
         \/ /\ Take(2, e) /\ frames' = FramesAfter(e) /\ tables' = TablesAfter(e)
            /\ dirs' = With(dirs, a, new(e)) /\ pc' = "clone"
  BY DEF CloneDirectory
<1>2. ASSUME Take(2, e), frames' = FramesAfter(e), tables' = TablesAfter(e),
             dirs' = With(dirs, a, new(e)), pc' = "clone"
      PROVE  FInv'
  <2>1. new(e).tables = <<>> /\ new(e).tablesPhysical = <<>>
    OBVIOUS
  <2> HIDE DEF a, new
  <2>2. Owned(tables', frames') /\ DOMAIN tables' = DOMAIN tables /\ end' \in Nat
    BY <1>2, TakeOwned
  <2>3. TablesExist'
    BY <1>2, <2>1, <2>2, DirectoryAdded DEF FInv
  <2> QED
    BY <1>2, <2>2, <2>3 DEF FInv
<1>3. pc \in {"clone", "run"}
  BY DEF CloneDirectory
<1> QED
  BY <1>1, <1>2, <1>3, StopOwned

\* Where clone_directory is when it takes the next table.
LEMMA SourceTable ==
    ASSUME IInv, FInv, pc = "clone", dir # 0, Remaining # {}
    PROVE  /\ dir \in DOMAIN dirs /\ current_directory \in DOMAIN dirs
           /\ Source.tables[NextTable] \in DOMAIN tables
<1>1. dir \in DOMAIN dirs /\ current_directory \in DOMAIN dirs
  BY DEF IInv, Running
<1>2. NextTable \in DOMAIN Source.tables
  BY NextTableIsNext
<1> QED
  BY <1>1, <1>2 DEF FInv, TablesExist, TablesOf, Source

LEMMA LinkTableOwned == IInv /\ FInv /\ LinkTable => FInv'
<1> SUFFICES ASSUME IInv, FInv, LinkTable PROVE FInv'
  OBVIOUS
<1>1. /\ dir \in DOMAIN dirs /\ Source.tables[NextTable] \in DOMAIN tables
      /\ UNCHANGED <<frames, tables, end, pc>> /\ pc = "clone"
  BY SourceTable DEF LinkTable, heapVars
<1>2. TablesExist'
  BY <1>1, TableAdded DEF LinkTable, FInv
<1> QED
  BY <1>1, <1>2 DEF FInv

\* clone_table: the new table's pages get frames of their own.
LEMMA CloneTableOwned == IInv /\ FInv /\ CloneTable => FInv'
<1> SUFFICES ASSUME IInv, FInv, CloneTable PROVE FInv'
  OBVIOUS
<1> DEFINE a == top * PAGE
           s == Source.tables[NextTable]
           ts(e) == With(TablesAfter(e), a, <<>>)
           used(e) == FramesAfter(e)
           new(e) == FramesFor(Copied(s), used(e))
           at(e) == [x \in {a} \X Copied(s) |-> new(e)[x[2]]]
<1>1. /\ pc = "clone" /\ dir \in DOMAIN dirs /\ s \in DOMAIN tables
  BY SourceTable DEF CloneTable
<1>2. PICK e \in Ends(1) :
         \/ Stop(e)
         \/ UNCHANGED <<mapVars, heapVars>> /\ pc' \in {"fault", "panic"}
         \/ /\ Take(1, e) /\ ~RunsOut(Copied(s), used(e)) /\ pc' = "clone"
            /\ tables' = Map(ts(e), at(e))
            /\ frames' = used(e) \cup {new(e)[p] : p \in Copied(s)}
            /\ \E physical : dirs' = AddTable(dir, NextTable * ENTRIES, a, physical)
  BY Zenon DEF CloneTable
<1>3. ASSUME Take(1, e), ~RunsOut(Copied(s), used(e)), pc' = "clone",
             tables' = Map(ts(e), at(e)),
             frames' = used(e) \cup {new(e)[p] : p \in Copied(s)},
             NEW physical, dirs' = AddTable(dir, NextTable * ENTRIES, a, physical)
      PROVE  FInv'
  <2> HIDE DEF a, s
  <2>1. Owned(TablesAfter(e), used(e)) /\ DOMAIN TablesAfter(e) = DOMAIN tables /\ end' \in Nat
    BY <1>3, TakeOwned
  <2>2. Owned(ts(e), used(e)) /\ DOMAIN ts(e) = DOMAIN tables \cup {a}
    BY <2>1, NewTableOwned DEF With
  <2> HIDE DEF ts, used
  <2>3. Copied(s) \in SUBSET Int /\ IsFiniteSet(Copied(s))
    <3>1. Copied(s) \in SUBSET (0..(ENTRIES - 1))
      BY <1>1 DEF Copied, FInv, Owned, Typed
    <3>2. IsFiniteSet(0..(ENTRIES - 1))
      BY PagePositive, FS_Interval
    <3>3. IsFiniteSet(Copied(s))
      BY <3>1, <3>2, FS_Subset
    <3> QED
      BY <3>1, <3>3
  <2>4. /\ \A p \in Copied(s) : new(e)[p] \in FreeAmong(used(e))
        /\ \A p, q \in Copied(s) : new(e)[p] = new(e)[q] => p = q
    BY <1>3, <2>3, FramesForDiffer
  <2> HIDE DEF new
  <2>5. /\ \A p \in Copied(s) : new(e)[p] \in frames' /\ new(e)[p] \notin used(e)
        /\ used(e) \subseteq frames' /\ frames' \subseteq Frame
    BY <1>3, <2>2, <2>4 DEF FreeAmong, Owned
  <2>6. /\ \A x \in DOMAIN at(e) : x = <<a, x[2]>> /\ x[2] \in Copied(s) /\ at(e)[x] = new(e)[x[2]]
    OBVIOUS
  <2>7. \A x \in DOMAIN at(e) : at(e)[x] \in frames' /\ at(e)[x] \notin used(e)
    BY <2>5, <2>6
  <2>8. \A x, y \in DOMAIN at(e) : at(e)[x] = at(e)[y] => x = y
    BY <2>4, <2>6
  <2> HIDE DEF at
  <2>9. Owned(tables', frames') /\ DOMAIN tables' = DOMAIN tables \cup {a}
    BY <1>3, <2>2, <2>5, <2>7, <2>8, MapOwned
  <2>10. TablesExist'
    BY <1>1, <1>3, <2>9, TableAdded DEF FInv
  <2> QED
    BY <1>3, <2>1, <2>9, <2>10 DEF FInv
<1> QED
  BY <1>1, <1>2, <1>3, StopOwned, MapsStayOwned

LEMMA CloneEndOwned == FInv /\ CloneEnd => FInv'
<1> SUFFICES ASSUME FInv, CloneEnd PROVE FInv'
  OBVIOUS
<1>1. UNCHANGED <<mapVars, heapVars>> /\ pc' # "vmm_init"
  BY DEF CloneEnd
<1> QED
  BY <1>1, MapsStayOwned

LEMMA MoveStackOwned == IInv /\ FInv /\ MoveStack => FInv'
<1> SUFFICES ASSUME IInv, FInv, MoveStack PROVE FInv'
  OBVIOUS
<1> DEFINE a == top * PAGE
<1>1. pc = "move_stack" /\ current_directory \in DOMAIN dirs
  BY DEF MoveStack, IInv, Running
<1>2. \/ pc' = "run" /\ UNCHANGED <<mapVars, heapVars>>
      \/ /\ HasTable(current_directory, i) /\ UNCHANGED <<dirs, heapVars>>
         /\ alloc_frame(tables, Source.tables[i \div ENTRIES], i)
      \/ \E e \in Ends(1) :
            \/ Stop(e)
            \/ /\ Take(1, e) /\ frames' = FramesAfter(e) /\ UNCHANGED pc
               /\ tables' = With(TablesAfter(e), a, <<>>)
               /\ \E physical : dirs' = AddTable(current_directory, i, a, physical)
  BY Zenon DEF MoveStack
<1>3. CASE pc' = "run" /\ UNCHANGED <<mapVars, heapVars>>
  BY <1>3, MapsStayOwned
<1>4. ASSUME HasTable(current_directory, i), UNCHANGED <<dirs, heapVars>>,
             alloc_frame(tables, Source.tables[i \div ENTRIES], i)
      PROVE  FInv'
  <2>1. Owned(tables', frames') /\ DOMAIN tables' = DOMAIN tables
    BY <1>4, AllocFrameOwned DEF FInv
  <2>2. pc' # "vmm_init"
    BY <1>1, <1>4 DEF alloc_frame
  <2> QED
    BY <1>4, <2>1, <2>2, TablesStay DEF FInv, heapVars
<1>5. ASSUME NEW e \in Ends(1), Take(1, e), frames' = FramesAfter(e), UNCHANGED pc,
             tables' = With(TablesAfter(e), a, <<>>),
             NEW physical, dirs' = AddTable(current_directory, i, a, physical)
      PROVE  FInv'
  <2> HIDE DEF a
  <2>1. Owned(TablesAfter(e), FramesAfter(e)) /\ DOMAIN TablesAfter(e) = DOMAIN tables /\ end' \in Nat
    BY <1>5, TakeOwned
  <2>2. Owned(tables', frames') /\ DOMAIN tables' = DOMAIN tables \cup {a}
    BY <1>5, <2>1, NewTableOwned DEF With
  <2>3. TablesExist'
    BY <1>1, <1>5, <2>2, TableAdded DEF FInv
  <2> QED
    BY <1>1, <1>5, <2>1, <2>2, <2>3 DEF FInv
<1> QED
  BY <1>1, <1>2, <1>3, <1>4, <1>5, StopOwned

(***************************************************************************)
(* The theorem.                                                             *)
(***************************************************************************)
LEMMA KernelNextOwned == IInv /\ FInv /\ [KernelNext]_vars => FInv'
<1> SUFFICES ASSUME IInv, FInv, [KernelNext]_vars PROVE FInv'
  OBVIOUS
<1>1. ASSUME NEW d, switch_page_directory(d) PROVE FInv'
  <2>1. pc' # "vmm_init" /\ UNCHANGED <<mapVars, heapVars>>
    BY <1>1 DEF switch_page_directory
  <2> QED
    BY <2>1, MapsStayOwned
<1>2. CASE UNCHANGED vars
  BY <1>2, TablesStay DEF vars, mapVars, heapVars, FInv
<1>3. CASE KernelNext
  BY <1>1, <1>3, VmmInitOwned, BootOwned, CreateHeapOwned, KmallocOwned, CloneDirectoryOwned,
     LinkTableOwned, CloneTableOwned, CloneEndOwned, MoveStackOwned, Zenon DEF KernelNext
<1> QED
  BY <1>2, <1>3

\* Different pages have different frames, so there are as many of these as of those.
LEMMA ApartCounts ==
    ASSUME Owned(tables, frames)
    PROVE  FrameHasOneOwner
<1> DEFINE image == {FrameOf(x) : x \in Framed}
           f == [x \in Framed |-> FrameOf(x)]
<1>1. ASSUME NEW x \in Framed
      PROVE  /\ x = <<x[1], x[2]>> /\ x[1] \in DOMAIN tables /\ x[2] \in DOMAIN tables[x[1]]
  <2>1. x = <<x[1], x[2]>> /\ x[1] \in DOMAIN tables /\ x[2] \in 0..(ENTRIES - 1)
        /\ EntryAt(tables[x[1]], x[2]).present
    BY DEF Framed
  <2>2. x[2] % ENTRIES = x[2]
    BY <2>1, PagePositive
  <2> QED
    BY <2>1, <2>2 DEF EntryAt, Unmapped
<1>2. \A x \in Framed : FrameOf(x) \in frames
  BY <1>1 DEF Owned, Marked, FrameOf
<1>3. \A x, y \in Framed : FrameOf(x) = FrameOf(y) => x = y
  BY <1>1 DEF Owned, Apart, FrameOf
<1>4. IsFiniteSet(Framed)
  <2>1. IsFiniteSet(DOMAIN tables) /\ IsFiniteSet(0..(ENTRIES - 1))
    BY PagePositive, FS_Interval DEF Owned
  <2>2. IsFiniteSet((DOMAIN tables) \X (0..(ENTRIES - 1)))
    BY <2>1, FS_Product
  <2>3. Framed \in SUBSET ((DOMAIN tables) \X (0..(ENTRIES - 1)))
    BY DEF Framed
  <2> QED
    BY <2>2, <2>3, FS_Subset
<1>5. f \in Bijection(Framed, image)
  <2> HIDE DEF Framed
  <2> QED
    BY <1>3 DEF Bijection, Injection, Surjection, IsInjective
<1>6. ExistsBijection(Framed, image)
  BY <1>5 DEF ExistsBijection
<1>7. Cardinality(image) = Cardinality(Framed)
  BY <1>4, <1>6, FS_Bijection
<1> QED
  BY <1>2, <1>7 DEF FrameHasOneOwner

\* In the kernel as it is, whatever is allocated and however often a task
\* forks, no frame backs two pages, frame 0 included, and every frame in use is marked in the
\* bitmap (alloc_frame, expand and clone_table).
THEOREM FramesHaveOneOwner == KernelSpec => []FrameHasOneOwner
<1>1. Init => IInv /\ FInv
  BY InitIsStart, InitOwned
<1>2. IInv /\ [KernelNext]_vars => IInv'
  BY NextKeeps DEF Next
<1>3. IInv /\ FInv /\ [KernelNext]_vars => FInv'
  BY KernelNextOwned
<1>4. FInv => FrameHasOneOwner
  BY ApartCounts DEF FInv
<1> QED
  BY <1>1, <1>2, <1>3, <1>4, PTL DEF KernelSpec

(***************************************************************************)
(* Where vmm_init places and maps.  The map loop moves its own limit, by     *)
(* placing the table it maps with; the frames it takes are those of the      *)
(* pages it is at, as long as it has not left the first table's reach.       *)
(***************************************************************************)
KH == KHEAP_START \div ENTRIES

LIMIT == 8 * (NFRAMES \div 32)

Has(n) == n \in DOMAIN TablesOf(kernel_directory)

KT(n) == TablesOf(kernel_directory)[n]

\* The first m pages are mapped where they lie.
Identity(m) ==
    /\ m \in 0..LIMIT
    /\ \A p \in 0..(m - 1) :
          Has(0) /\ p \in DOMAIN tables[KT(0)] /\ tables[KT(0)][p] = [present |-> TRUE, frame |-> p]

\* What table n, while it is missing, may still take.
Missing(n) == IF Has(n) THEN 0 ELSE 2 * PAGE

Placing ==
    /\ placement_address \in Nat
    /\ placement_address + Missing(0) + Missing(KH) + PAGE + (KHEAP_PAGES * PAGE) <= LIMIT * PAGE
    /\ kernel_directory \in Nat /\ kernel_directory + DIR_SIZE <= placement_address
    /\ dirs[kernel_directory].physicalAddr = kernel_directory + PAGE
    /\ DOMAIN TablesOf(kernel_directory) \subseteq {0, KH}
    /\ \A t \in DOMAIN tables : t \in Nat /\ t < placement_address
    /\ Has(0) /\ Has(KH) => KT(0) # KT(KH)
    /\ \A n \in DOMAIN TablesOf(kernel_directory) : dirs[kernel_directory].tablesPhysical[n] = KT(n)

\* The heap's initial pages up to page k have frames that follow each other.
InARow(ts, m, k) ==
    \A q \in KHEAP_START..(k - 1) : EntryAt(ts[KT(KH)], q).frame = m + (q - KHEAP_START)

Unframed(ts, k) ==
    \A q \in k..(KHEAP_START + KHEAP_PAGES - 1) : EntryAt(ts[KT(KH)], q).frame = 0

\* Of the frames whose bits were cleared, the first n are taken.
FirstTaken(n) == \A f \in 0..(LIMIT - 1) : f \in frames <=> f < n

InTables ==
    /\ i \in KHEAP_START..(KHEAP_START + KHEAP_PAGES)
    /\ i > KHEAP_START => Has(KH)
    /\ Has(KH) => DOMAIN tables[KT(KH)] = {}
    /\ ~Has(0)
    /\ \A f \in frames : f >= LIMIT

InMap ==
    /\ Has(KH)
    /\ DOMAIN tables[KT(KH)] = {}
    /\ Identity(i)
    /\ i > 0 => (i - 1) * PAGE < placement_address + PAGE
    /\ Has(0) => DOMAIN tables[KT(0)] \subseteq 0..(i - 1)
    /\ FirstTaken(i)

InHeap ==
    /\ Has(0) /\ Has(KH)
    /\ 0 \in frames
    /\ i \in KHEAP_START..(KHEAP_START + KHEAP_PAGES)
    /\ pc = "create" => i = KHEAP_START + KHEAP_PAGES
    /\ Unframed(tables, i)
    /\ \E m \in 0..(LIMIT - KHEAP_PAGES) :
          /\ Identity(m) /\ placement_address + PAGE <= m * PAGE
          /\ InARow(tables, m, i)
          /\ FirstTaken(m + (i - KHEAP_START))

BInv ==
    /\ pc \in {"tables", "map", "heap", "create"} => Placing
    /\ pc = "tables" => InTables
    /\ pc = "map" => InMap
    /\ pc \in {"heap", "create"} => InHeap

LEMMA LimitInTable == LIMIT \in Nat /\ LIMIT <= ENTRIES /\ LIMIT <= NFRAMES
  BY PagePositive, SMT DEF LIMIT, NFRAMES, PAGE

LEMMA HeapTable ==
    /\ KH \in Nat /\ KH > 0
    /\ \A p \in KHEAP_START..(KHEAP_START + KHEAP_PAGES - 1) : p \div ENTRIES = KH
<1>1. ENTRIES \in Nat \ {0} /\ KHEAP_START \in Nat /\ KHEAP_PAGES \in Nat \ {0} /\ KHEAP_START >= ENTRIES
      /\ KHEAP_START \div ENTRIES = (KHEAP_START + KHEAP_PAGES - 1) \div ENTRIES
  BY LayoutAssumption, BootFits
<1> DEFINE last == KHEAP_START + KHEAP_PAGES - 1
<1>2. \A a, b \in Nat : a <= b => a \div ENTRIES <= b \div ENTRIES
  BY <1>1, SMT
<1>3. last \in Nat /\ KHEAP_START <= last
  BY <1>1
<1>4. KH \in Nat /\ KH > 0
  BY <1>1, SMT DEF KH
<1>5. ASSUME NEW p \in KHEAP_START..last PROVE p \div ENTRIES = KH
  <2>1. p \in Nat /\ KHEAP_START <= p /\ p <= last
    BY <1>1, <1>3
  <2>2. KHEAP_START \div ENTRIES <= p \div ENTRIES /\ p \div ENTRIES <= last \div ENTRIES
    BY <1>1, <1>2, <1>3, <2>1
  <2>3. p \div ENTRIES \in Int
    BY <1>1, <2>1
  <2> QED
    BY <1>1, <1>4, <2>2, <2>3 DEF KH
<1> QED
  BY <1>4, <1>5

LEMMA AlignedNext ==
    ASSUME NEW a \in Nat
    PROVE  PageAligned(a) \in Nat /\ a < PageAligned(a) /\ PageAligned(a) <= a + PAGE
<1>1. PAGE \in Nat \ {0}
  BY PagePositive
<1>2. \A n \in Nat \ {0} : (a \div n) * n <= a /\ a < ((a \div n) * n) + n /\ (a \div n) * n \in Nat
  OBVIOUS
<1> QED
  BY <1>1, <1>2 DEF PageAligned

LEMMA SmallIndex ==
    ASSUME NEW p \in Nat, p < ENTRIES
    PROVE  p \div ENTRIES = 0 /\ p % ENTRIES = p
  BY PagePositive, SMT

\* A new table of the kernel's directory lies behind all that was placed.
LEMMA BootTableFits ==
    ASSUME Placing, TablesExist, kernel_directory \in DOMAIN dirs,
           NEW p \in Nat, NEW n \in {0, KH}, p \div ENTRIES = n, ~HasTable(kernel_directory, p),
           GetBootPage(p), DOMAIN tables' = DOMAIN BootTables(p), UNCHANGED kernel_directory
    PROVE  /\ Placing'
           /\ DOMAIN TablesOf(kernel_directory)' = DOMAIN TablesOf(kernel_directory) \cup {n}
           /\ KT(n)' = PageAligned(placement_address)
           /\ \A e \in DOMAIN TablesOf(kernel_directory) : KT(e)' = KT(e)
           /\ PageAligned(placement_address) \notin DOMAIN tables
           /\ placement_address' > placement_address
<1> DEFINE t == PageAligned(placement_address)
<1>1. placement_address \in Nat /\ PAGE \in Nat \ {0} /\ KH \in Nat /\ KH > 0 /\ LIMIT * PAGE \in Nat
  BY PagePositive, HeapTable, LimitInTable DEF Placing
<1>2. t \in Nat /\ placement_address < t /\ t <= placement_address + PAGE
  BY <1>1, AlignedNext
<1>3. ~Has(n)
  BY DEF Has, HasTable, TablesOf
<1>4. placement_address' = t + PAGE /\ dirs' = AddTable(kernel_directory, p, t, t)
  BY DEF GetBootPage
<1>5. DOMAIN tables' = DOMAIN tables \cup {t}
  BY DEF BootTables, BootTable, With
<1> HIDE DEF t
<1>6. /\ DOMAIN dirs'[kernel_directory].tables = DOMAIN TablesOf(kernel_directory) \cup {n}
      /\ dirs'[kernel_directory].tables[n] = t
      /\ \A e \in DOMAIN TablesOf(kernel_directory) \ {n} :
            dirs'[kernel_directory].tables[e] = TablesOf(kernel_directory)[e]
  BY <1>4, AddTableIs
<1>7. /\ DOMAIN TablesOf(kernel_directory)' = DOMAIN TablesOf(kernel_directory) \cup {n}
      /\ KT(n)' = t
      /\ \A e \in DOMAIN TablesOf(kernel_directory) : KT(e)' = KT(e)
  BY <1>3, <1>6 DEF TablesOf, KT, Has
<1>8. \A u \in DOMAIN tables : u \in Nat /\ u < placement_address
  BY DEF Placing
<1>9. t \notin DOMAIN tables
  BY <1>1, <1>2, <1>8
<1>10. placement_address' \in Nat /\ placement_address' <= placement_address + 2 * PAGE
       /\ placement_address' > placement_address /\ t < placement_address'
  BY <1>1, <1>2, <1>4
<1>11. PAGE' = PAGE /\ LIMIT' = LIMIT /\ KH' = KH
  BY DEF PAGE, LIMIT, NFRAMES, KH
<1>12. /\ DOMAIN TablesOf(kernel_directory)' \subseteq {0, KH}
       /\ \A u \in DOMAIN tables' : u \in Nat /\ u < placement_address'
  <2>1. DOMAIN TablesOf(kernel_directory)' \subseteq {0, KH}
    BY <1>7 DEF Placing
  <2>2. \A u \in DOMAIN tables' : u \in DOMAIN tables \/ u = t
    BY <1>5
  <2>3. \A u \in DOMAIN tables : u \in Nat /\ u < placement_address'
    BY <1>1, <1>8, <1>10
  <2> QED
    BY <1>2, <1>10, <2>1, <2>2, <2>3
<1>13. Has(n)' /\ (\A e \in {0, KH} \ {n} : Has(e)' <=> Has(e))
  BY <1>7 DEF Has
<1>14. /\ Missing(n) = 2 * PAGE /\ Missing(n)' = 0
       /\ \A e \in {0, KH} \ {n} : Missing(e)' = Missing(e) /\ Missing(e) \in {0, 2 * PAGE}
  BY <1>3, <1>11, <1>13, Zenon DEF Missing
<1>15. placement_address' + Missing(0)' + Missing(KH)' + PAGE + (KHEAP_PAGES * PAGE) <= LIMIT * PAGE
  <2> DEFINE room == KHEAP_PAGES * PAGE
  <2>0. room \in Nat
    BY <1>1, LayoutAssumption
  <2>1. placement_address + Missing(0) + Missing(KH) + PAGE + room <= LIMIT * PAGE
    BY DEF Placing
  <2> HIDE DEF room
  <2> SUFFICES placement_address' + Missing(0)' + Missing(KH)' + PAGE + room <= LIMIT * PAGE
    BY DEF room
  <2>2. CASE n = 0
    <3>1. Missing(0) = 2 * PAGE /\ Missing(0)' = 0 /\ Missing(KH)' = Missing(KH) /\ Missing(KH) \in {0, 2 * PAGE}
      BY <1>1, <1>14, <2>2
    <3> QED
      BY <1>1, <1>10, <2>0, <2>1, <3>1
  <2>3. CASE n = KH
    <3>1. Missing(KH) = 2 * PAGE /\ Missing(KH)' = 0 /\ Missing(0)' = Missing(0) /\ Missing(0) \in {0, 2 * PAGE}
      BY <1>1, <1>14, <2>3
    <3> QED
      BY <1>1, <1>10, <2>0, <2>1, <3>1
  <2> QED
    BY <2>2, <2>3
<1>16. Has(0)' /\ Has(KH)' => KT(0)' # KT(KH)'
  <2>1. \A e \in DOMAIN TablesOf(kernel_directory) : KT(e) # t
    BY <1>9 DEF TablesExist, KT
  <2> QED
    BY <1>1, <1>7, <2>1 DEF Placing, Has
<1>17. \A e \in DOMAIN TablesOf(kernel_directory)' :
          dirs'[kernel_directory].tablesPhysical[e] = KT(e)'
  <2>1. DOMAIN dirs[kernel_directory].tablesPhysical = DOMAIN TablesOf(kernel_directory)
    BY DEF TablesExist
  <2>2. /\ dirs'[kernel_directory].tablesPhysical[n] = t
        /\ \A e \in DOMAIN TablesOf(kernel_directory) \ {n} :
              dirs'[kernel_directory].tablesPhysical[e] = dirs[kernel_directory].tablesPhysical[e]
    BY <1>4, <2>1, AddPhysicalIs
  <2>3. \A e \in DOMAIN TablesOf(kernel_directory) : dirs[kernel_directory].tablesPhysical[e] = KT(e)
    BY DEF Placing
  <2> QED
    BY <1>7, <2>2, <2>3
<1>18. /\ kernel_directory' \in Nat /\ kernel_directory' + DIR_SIZE' <= placement_address'
       /\ dirs'[kernel_directory'].physicalAddr = kernel_directory' + PAGE
  <2>1. dirs'[kernel_directory].physicalAddr = dirs[kernel_directory].physicalAddr
    BY <1>4, AddPhysicalIs
  <2>2. DIR_SIZE' = DIR_SIZE /\ DIR_SIZE \in Nat
    BY <1>1, <1>11 DEF DIR_SIZE
  <2> QED
    BY <1>1, <1>10, <2>1, <2>2 DEF Placing
<1> QED
  <2>1. Placing'
    BY <1>7, <1>10, <1>11, <1>12, <1>15, <1>16, <1>17, <1>18 DEF Placing
  <2> QED
    BY <1>7, <1>9, <1>10, <2>1 DEF t

LEMMA VmmInitPlaces == IInv /\ FInv /\ VmmInit => BInv'
<1> SUFFICES ASSUME IInv, FInv, VmmInit PROVE BInv'
  OBVIOUS
<1> DEFINE a == placement_address + (NFRAMES \div 32)
           d == PageAligned(a)
           new == [tables |-> <<>>, tablesPhysical |-> <<>>, physicalAddr |-> d + PAGE]
<1>1. placement_address \in KernelEnd /\ DOMAIN tables = {}
  BY DEF IInv, Start, FInv, VmmInit
<1>2. /\ dirs' = With(dirs, d, new) /\ kernel_directory' = d /\ pc' = "tables"
      /\ i' = KHEAP_START /\ placement_address' = d + DIR_SIZE /\ tables' = tables
      /\ frames' = frames \ 0..(LIMIT - 1)
  BY DEF VmmInit, LIMIT
<1>3. d \in Nat
  <2>1. NFRAMES \div 32 \in Nat
    BY PagePositive DEF NFRAMES
  <2>2. a \in Nat
    BY <1>1, <2>1, LayoutAssumption
  <2> QED
    BY <2>2, AlignedPositive
<1>4. d + DIR_SIZE + ((5 + KHEAP_PAGES) * PAGE) <= LIMIT * PAGE
  BY <1>1, BootFits DEF LIMIT
<1>5. DIR_SIZE \in Nat /\ PAGE \in Nat
  BY PagePositive DEF DIR_SIZE
<1> HIDE DEF d
<1>6. dirs'[d].tables = <<>> /\ dirs'[d].physicalAddr = d + PAGE
  BY <1>2 DEF With
<1>7. DOMAIN TablesOf(kernel_directory)' = {}
  BY <1>2, <1>6 DEF TablesOf
<1>8. \A f \in frames' : f >= LIMIT
  BY <1>2, LimitInTable DEF FInv, Owned, Frame
<1>9. Missing(0)' = 2 * PAGE /\ Missing(KH)' = 2 * PAGE
  BY <1>7, Zenon DEF Missing, Has, PAGE
<1>10. /\ placement_address' \in Nat
       /\ placement_address' + Missing(0)' + Missing(KH)' + PAGE + (KHEAP_PAGES * PAGE) <= LIMIT * PAGE
  <2> DEFINE room == KHEAP_PAGES * PAGE
  <2>1. LIMIT * PAGE \in Nat /\ room \in Nat
    BY <1>5, LimitInTable, LayoutAssumption
  <2>2. (5 + KHEAP_PAGES) * PAGE = (5 * PAGE) + room
    BY <1>5, LayoutAssumption
  <2> HIDE DEF room
  <2>3. placement_address' + Missing(0)' + Missing(KH)' + PAGE + room <= LIMIT * PAGE
    BY <1>2, <1>3, <1>4, <1>5, <1>9, <2>1, <2>2
  <2> QED
    BY <1>2, <1>3, <1>5, <2>3 DEF room
<1>11. PAGE' = PAGE /\ LIMIT' = LIMIT /\ KH' = KH
  BY DEF PAGE, LIMIT, NFRAMES, KH
<1>12. Placing'
  <2>1. DIR_SIZE' = DIR_SIZE
    BY <1>11 DEF DIR_SIZE
  <2> QED
    BY <1>1, <1>2, <1>3, <1>5, <1>6, <1>7, <1>10, <1>11, <2>1 DEF Placing, Has
<1>13. InTables'
  BY <1>2, <1>7, <1>8, <1>11, LayoutAssumption DEF InTables, Has
<1> QED
  BY <1>2, <1>12, <1>13 DEF BInv

LEMMA PlacingStays ==
    ASSUME Placing, UNCHANGED <<placement_address, dirs, kernel_directory>>, DOMAIN tables' = DOMAIN tables
    PROVE  /\ Placing'
           /\ \A n : Has(n)' <=> Has(n)
           /\ \A n : KT(n)' = KT(n)
  BY DEF Placing, Missing, Has, KT, KH, TablesOf, LIMIT, NFRAMES, DIR_SIZE, PAGE

LEMMA PlacingBelow ==
    ASSUME Placing
    PROVE  /\ placement_address + PAGE <= LIMIT * PAGE
           /\ placement_address + PAGE <= (LIMIT - KHEAP_PAGES) * PAGE
<1> DEFINE room == KHEAP_PAGES * PAGE
           all == LIMIT * PAGE
<1>1. /\ PAGE \in Nat /\ LIMIT \in Nat /\ KHEAP_PAGES \in Nat /\ placement_address \in Nat
      /\ room \in Nat /\ all \in Nat
  BY PagePositive, LimitInTable, LayoutAssumption DEF Placing
<1>2. (LIMIT - KHEAP_PAGES) * PAGE = all - room
  BY <1>1
<1>3. Missing(0) \in Nat /\ Missing(KH) \in Nat
  BY <1>1 DEF Missing
<1>4. placement_address + Missing(0) + Missing(KH) + PAGE + room <= all
  BY DEF Placing
<1> HIDE DEF room, all
<1>5. placement_address + PAGE + room <= all
  BY <1>1, <1>3, <1>4
<1> QED
  BY <1>1, <1>2, <1>5 DEF all

LEMMA PreallocatePlaces == IInv /\ FInv /\ BInv /\ PreallocateHeapTables => BInv'
<1> SUFFICES ASSUME IInv, FInv, BInv, PreallocateHeapTables PROVE BInv'
  OBVIOUS
<1>1. /\ pc = "tables" /\ Placing /\ InTables /\ TablesExist
      /\ kernel_directory \in DOMAIN dirs /\ UNCHANGED <<frames, kernel_directory>>
  BY DEF PreallocateHeapTables, BInv, FInv, IInv, KernelBelowHeap
<1>2. KH' = KH /\ LIMIT' = LIMIT /\ KH > 0 /\ KH \in Nat /\ LIMIT \in Nat
  BY HeapTable, LimitInTable DEF KH, LIMIT, NFRAMES, PAGE
<1>3. KHEAP_START \in Nat /\ KHEAP_PAGES \in Nat \ {0}
  BY LayoutAssumption
<1>4. CASE InHeapLoop
  <2>1. i \in KHEAP_START..(KHEAP_START + KHEAP_PAGES - 1) /\ i \in Nat
    BY <1>1, <1>3, <1>4 DEF InTables, InHeapLoop
  <2>2. i \div ENTRIES = KH
    BY <2>1, HeapTable
  <2>3. GetBootPage(i) /\ tables' = BootTables(i) /\ i' = i + 1 /\ pc' = "tables"
    BY <1>1, <1>4 DEF PreallocateHeapTables
  <2>4. i' \in KHEAP_START..(KHEAP_START + KHEAP_PAGES)
    BY <1>3, <2>1, <2>3
  <2>5. CASE HasTable(kernel_directory, i)
    <3>1. UNCHANGED <<placement_address, dirs, kernel_directory, tables>> /\ Has(KH)
      BY <1>1, <2>2, <2>3, <2>5 DEF GetBootPage, BootTables, HasTable, Has, TablesOf
    <3>2. Placing' /\ Has(KH)' /\ ~Has(0)'
      BY <1>1, <3>1, PlacingStays DEF InTables
    <3>3. DOMAIN tables'[KT(KH)'] = {}
      BY <1>1, <3>1 DEF InTables, KT, KH, TablesOf
    <3> QED
      BY <1>1, <1>2, <2>3, <2>4, <3>2, <3>3 DEF BInv, InTables
  <2>6. CASE ~HasTable(kernel_directory, i)
    <3>1. /\ Placing' /\ DOMAIN TablesOf(kernel_directory)' = DOMAIN TablesOf(kernel_directory) \cup {KH}
          /\ KT(KH)' = PageAligned(placement_address)
      BY <1>1, <2>1, <2>2, <2>3, <2>6, BootTableFits
    <3>2. Has(KH)' /\ ~Has(0)'
      BY <1>1, <1>2, <3>1 DEF Has, InTables
    <3>3. DOMAIN tables'[KT(KH)'] = {}
      <4>1. tables' = With(tables, PageAligned(placement_address), <<>>)
        BY <2>3, <2>6 DEF BootTables, BootTable
      <4> QED
        BY <1>2, <3>1, <4>1 DEF With
    <3> QED
      BY <1>1, <1>2, <2>3, <2>4, <3>1, <3>2, <3>3 DEF BInv, InTables
  <2> QED
    BY <2>5, <2>6
<1>5. CASE ~InHeapLoop
  <2>1. i' = 0 /\ pc' = "map" /\ UNCHANGED <<tables, dirs, placement_address>>
    BY <1>5 DEF PreallocateHeapTables
  <2>2. i > KHEAP_START
    BY <1>1, <1>3, <1>5 DEF InHeapLoop, InTables
  <2>3. Placing' /\ Has(KH)' /\ ~Has(0)'
    BY <1>1, <1>2, <2>1, <2>2, PlacingStays DEF InTables
  <2>4. Identity(i)'
    BY <1>2, <2>1 DEF Identity
  <2>5. FirstTaken(i)'
    BY <1>1, <1>2, <2>1 DEF InTables, FirstTaken
  <2>6. DOMAIN tables'[KT(KH)'] = {}
    BY <1>1, <1>2, <2>1, <2>2 DEF InTables, KT, KH, TablesOf
  <2> QED
    BY <1>2, <2>1, <2>3, <2>4, <2>5, <2>6 DEF BInv, InMap
<1> QED
  BY <1>4, <1>5

Same(f, g) == DOMAIN f = DOMAIN g /\ \A x \in DOMAIN g : f[x] = g[x]

LEMMA SameEntry ==
    ASSUME NEW f, NEW g, Same(f, g), NEW p
    PROVE  EntryAt(f, p) = EntryAt(g, p)
  BY DEF Same, EntryAt

LEMMA MapElsewhere ==
    ASSUME NEW ts, NEW new, NEW t \in DOMAIN ts, \A e : <<t, e>> \notin DOMAIN new
    PROVE  Same(Map(ts, new)[t], ts[t])
<1>1. Map(ts, new)[t] =
         [e \in DOMAIN ts[t] \cup {x \in 0..(ENTRIES - 1) : <<t, x>> \in DOMAIN new} |->
            IF <<t, e>> \in DOMAIN new THEN [present |-> TRUE, frame |-> new[<<t, e>>]] ELSE ts[t][e]]
  BY DEF Map
<1>2. {x \in 0..(ENTRIES - 1) : <<t, x>> \in DOMAIN new} = {}
  OBVIOUS
<1> QED
  BY <1>1, <1>2 DEF Same

LEMMA MapEntry ==
    ASSUME NEW ts, NEW new, NEW t \in DOMAIN ts, NEW p, <<t, p % ENTRIES>> \notin DOMAIN new
    PROVE  EntryAt(Map(ts, new)[t], p) = EntryAt(ts[t], p)
<1> DEFINE n == p % ENTRIES
<1>1. Map(ts, new)[t] =
         [e \in DOMAIN ts[t] \cup {x \in 0..(ENTRIES - 1) : <<t, x>> \in DOMAIN new} |->
            IF <<t, e>> \in DOMAIN new THEN [present |-> TRUE, frame |-> new[<<t, e>>]] ELSE ts[t][e]]
  BY DEF Map
<1>2. <<t, n>> \notin DOMAIN new
  OBVIOUS
<1> HIDE DEF n
<1>3. n \in DOMAIN Map(ts, new)[t] <=> n \in DOMAIN ts[t]
  BY <1>1, <1>2
<1>4. n \in DOMAIN ts[t] => Map(ts, new)[t][n] = ts[t][n]
  BY <1>1, <1>2
<1> QED
  BY <1>3, <1>4 DEF EntryAt, n

LEMMA IdentityStays ==
    ASSUME NEW m, Identity(m), dirs'[kernel_directory] = dirs[kernel_directory],
           UNCHANGED kernel_directory, Same(tables'[KT(0)], tables[KT(0)])
    PROVE  Identity(m)'
<1>1. LIMIT' = LIMIT /\ Has(0)' = Has(0) /\ KT(0)' = KT(0)
  BY DEF LIMIT, NFRAMES, PAGE, Has, KT, TablesOf
<1> QED
  BY <1>1 DEF Identity, Same

LEMMA EntriesDiffer ==
    ASSUME NEW p \in Nat, NEW q \in Nat, NEW n \in Nat \ {0},
           p \div n = q \div n, p % n = q % n
    PROVE  p = q
  BY SMT

\* The next frame, when those that are taken come first.
LEMMA NextFrameIs ==
    ASSUME NEW n \in 0..(LIMIT - 1), FirstTaken(n)
    PROVE  FreeAmong(frames) # {} /\ first_frame(frames) = n
<1>1. /\ LIMIT \in Nat /\ LIMIT <= NFRAMES /\ n \in Nat /\ n < LIMIT
      /\ Frame = 0..(NFRAMES - 1) /\ NFRAMES \in Nat
  BY PagePositive, LimitInTable DEF Frame, NFRAMES
<1>2. n \in FreeAmong(frames)
  BY <1>1 DEF FreeAmong, FirstTaken
<1>3. \A f \in FreeAmong(frames) : f \in Nat /\ n <= f
  <2> TAKE f \in FreeAmong(frames)
  <2>1. f \in Nat /\ f \notin frames
    BY <1>1 DEF FreeAmong
  <2>2. CASE f < n
    BY <1>1, <2>1, <2>2 DEF FirstTaken
  <2> QED
    BY <1>1, <2>1, <2>2
<1>4. first_frame(frames) \in FreeAmong(frames) /\ \A g \in FreeAmong(frames) : first_frame(frames) <= g
  BY <1>2, <1>3 DEF first_frame
<1>5. first_frame(frames) <= n /\ n <= first_frame(frames) /\ first_frame(frames) \in Nat
  BY <1>2, <1>3, <1>4
<1> QED
  BY <1>1, <1>2, <1>5

\* And then one more is taken.
LEMMA FirstTakenGrows ==
    ASSUME NEW n \in 0..(LIMIT - 1), FirstTaken(n), frames' = frames \cup {n}
    PROVE  FirstTaken(n + 1)'
<1>1. LIMIT' = LIMIT /\ LIMIT \in Nat
  BY LimitInTable DEF LIMIT, NFRAMES, PAGE
<1> QED
  BY <1>1 DEF FirstTaken

\* One turn of the map loop: page i gets frame i.
LEMMA MapStepPlaces ==
    ASSUME IInv, FInv, BInv, MapPlaced, InMapLoop
    PROVE  BInv' /\ pc' = "map"
<1>1. /\ pc = "map" /\ Placing /\ InMap /\ TablesExist /\ i \in Nat /\ i <= LIMIT
      /\ kernel_directory \in DOMAIN dirs /\ UNCHANGED kernel_directory
      /\ i' = i + 1 /\ GetBootPage(i) /\ alloc_frame(BootTables(i), BootTable(i), i)
  <2>1. pc = "map" /\ InMap
    BY DEF MapPlaced, BInv
  <2>2. i \in Nat /\ i <= LIMIT
    BY <2>1, LimitInTable DEF InMap, Identity
  <2> QED
    BY <2>1, <2>2 DEF MapPlaced, BInv, FInv, IInv, KernelBelowHeap
<1>2. /\ KH' = KH /\ LIMIT' = LIMIT /\ KH > 0 /\ KH \in Nat /\ LIMIT \in Nat
      /\ PAGE \in Nat \ {0} /\ LIMIT <= ENTRIES /\ LIMIT <= NFRAMES /\ ENTRIES \in Nat \ {0}
  BY PagePositive, HeapTable, LimitInTable DEF KH, LIMIT, NFRAMES, PAGE
<1>3. i < LIMIT
  <2>1. placement_address + PAGE <= LIMIT * PAGE
    BY <1>1, PlacingBelow
  <2>2. i * PAGE < LIMIT * PAGE
    BY <1>1, <1>2, <2>1 DEF InMapLoop, Placing
  <2> QED
    BY <1>1, <1>2, <2>2
<1>4. i \div ENTRIES = 0 /\ i % ENTRIES = i
  BY <1>1, <1>2, <1>3, SmallIndex
<1> DEFINE t == BootTable(i)
           ts == BootTables(i)
<1>5. /\ DOMAIN tables' = DOMAIN ts
      /\ t \in DOMAIN ts
      /\ DOMAIN ts[t] \subseteq 0..(i - 1)
      /\ \A p \in 0..(i - 1) : p \in DOMAIN ts[t] /\ ts[t][p] = [present |-> TRUE, frame |-> p]
      /\ Placing' /\ Has(0)' /\ Has(KH)' /\ KT(0)' = t
      /\ KT(KH)' = KT(KH) /\ KT(KH) # t /\ KT(KH) \in DOMAIN ts /\ DOMAIN ts[KT(KH)] = {}
      /\ placement_address' >= placement_address
  <2>0. KT(KH) \in DOMAIN tables
    BY <1>1 DEF TablesExist, KT, Has, InMap
  <2>1. DOMAIN tables' = DOMAIN ts
    BY <1>1 DEF alloc_frame, Map
  <2>2. CASE HasTable(kernel_directory, i)
    <3>1. /\ Has(0) /\ t = KT(0) /\ ts = tables
          /\ UNCHANGED <<placement_address, dirs, kernel_directory>>
      BY <1>1, <1>4, <2>2 DEF BootTable, BootTables, HasTable, KernelTable, KT, Has, TablesOf, GetBootPage
    <3>2. t \in DOMAIN tables
      BY <1>1, <3>1 DEF TablesExist, KT, Has
    <3>3. DOMAIN tables' = DOMAIN tables
      BY <2>1, <3>1
    <3>4. Placing' /\ Has(0)' /\ Has(KH)' /\ KT(0)' = t
      BY <1>1, <1>2, <3>1, <3>3, PlacingStays DEF InMap
    <3>5. KT(KH)' = KT(KH) /\ KT(KH) # t /\ placement_address' >= placement_address
      BY <1>1, <1>2, <3>1 DEF KT, TablesOf, Placing, InMap
    <3> QED
      BY <1>1, <2>0, <2>1, <3>1, <3>2, <3>4, <3>5 DEF InMap, Identity
  <2>3. CASE ~HasTable(kernel_directory, i)
    <3>1. t = PageAligned(placement_address) /\ ts = With(tables, t, <<>>)
      BY <2>3 DEF BootTable, BootTables
    <3>2. /\ Placing'
          /\ DOMAIN TablesOf(kernel_directory)' = DOMAIN TablesOf(kernel_directory) \cup {0}
          /\ KT(0)' = t /\ KT(KH)' = KT(KH) /\ t \notin DOMAIN tables
          /\ placement_address' > placement_address /\ placement_address' \in Int
      <4>1. \A e \in DOMAIN TablesOf(kernel_directory) : KT(e)' = KT(e)
        BY <1>1, <1>4, <2>1, <2>3, <3>1, BootTableFits
      <4>2. /\ Placing' /\ KT(0)' = t /\ t \notin DOMAIN tables
            /\ DOMAIN TablesOf(kernel_directory)' = DOMAIN TablesOf(kernel_directory) \cup {0}
            /\ placement_address' > placement_address
        BY <1>1, <1>4, <2>1, <2>3, <3>1, BootTableFits
      <4>3. KT(KH)' = KT(KH)
        BY <1>1, <1>2, <4>1 DEF InMap, Has, KT
      <4>4. placement_address' \in Int
        BY <4>2 DEF Placing
      <4> QED
        BY <4>2, <4>3, <4>4
    <3>3. Has(0)' /\ Has(KH)'
      BY <1>1, <1>2, <3>2 DEF Has, InMap
    <3>4. ~Has(0)
      BY <1>4, <2>3 DEF Has, HasTable, TablesOf
    <3> HIDE DEF t, ts
    <3>5. t \in DOMAIN ts /\ ts[t] = <<>>
      BY <3>1 DEF With
    <3>6. ~(\E p \in 0..(i - 1) : TRUE)
      BY <1>1, <3>4 DEF InMap, Identity
    <3>7. KT(KH) # t /\ KT(KH) \in DOMAIN ts /\ DOMAIN ts[KT(KH)] = {}
      BY <1>1, <2>0, <3>1, <3>2 DEF With, InMap
    <3>8. placement_address' >= placement_address
      BY <1>1, <3>2 DEF Placing
    <3> QED
      BY <2>1, <3>2, <3>3, <3>5, <3>6, <3>7, <3>8
  <2> QED
    BY <2>2, <2>3
<1>6. alloc_frame(ts, t, i)
  BY <1>1
<1> HIDE DEF t, ts
<1>7. i \notin DOMAIN ts[t]
  BY <1>1, <1>5
<1>8. EntryAt(ts[t], i).frame = 0
  BY <1>4, <1>7 DEF EntryAt, Unmapped
<1>9. FreeAmong(frames) # {} /\ first_frame(frames) = i
  BY <1>1, <1>2, <1>3, NextFrameIs DEF InMap
<1>10. /\ tables' = Map(ts, [x \in {<<t, i>>} |-> i]) /\ frames' = frames \cup {i} /\ pc' = "map"
  BY <1>1, <1>4, <1>6, <1>8, <1>9 DEF alloc_frame, Slot
<1>11. /\ DOMAIN tables'[t] = DOMAIN ts[t] \cup {i}
       /\ tables'[t][i] = [present |-> TRUE, frame |-> i]
       /\ \A p \in DOMAIN ts[t] : tables'[t][p] = ts[t][p]
  <2> DEFINE new == [x \in {<<t, i>>} |-> i]
  <2>1. DOMAIN new = {<<t, i>>} /\ new[<<t, i>>] = i
    OBVIOUS
  <2>2. \A e : <<t, e>> \in DOMAIN new <=> e = i
    BY <2>1
  <2> HIDE DEF new
  <2>3. tables' = Map(ts, new)
    BY <1>10 DEF new
  <2>4. i \in 0..(ENTRIES - 1)
    BY <1>1, <1>2, <1>3
  <2>5. tables'[t] = [e \in DOMAIN ts[t] \cup {x \in 0..(ENTRIES - 1) : <<t, x>> \in DOMAIN new} |->
            IF <<t, e>> \in DOMAIN new THEN [present |-> TRUE, frame |-> new[<<t, e>>]] ELSE ts[t][e]]
    BY <1>5, <2>3 DEF Map
  <2>6. {x \in 0..(ENTRIES - 1) : <<t, x>> \in DOMAIN new} = {i}
    BY <2>2, <2>4
  <2> QED
    BY <1>7, <2>1, <2>2, <2>5, <2>6
<1>12. Identity(i)'
  <2>1. i' \in 0..LIMIT
    BY <1>1, <1>2, <1>3
  <2>2. ASSUME NEW p \in 0..(i' - 1)
        PROVE  p \in DOMAIN tables'[t] /\ tables'[t][p] = [present |-> TRUE, frame |-> p]
    <3>1. p \in 0..(i - 1) \/ p = i
      BY <1>1
    <3> QED
      BY <1>5, <1>11, <3>1
  <2> QED
    BY <1>2, <1>5, <2>1, <2>2 DEF Identity
<1>13. DOMAIN tables'[t] \subseteq 0..(i' - 1)
  BY <1>1, <1>5, <1>11
<1>14. FirstTaken(i)'
  BY <1>1, <1>2, <1>3, <1>10, FirstTakenGrows DEF InMap, FirstTaken
<1>15. DOMAIN tables'[KT(KH)'] = {}
  <2> DEFINE new == [x \in {<<t, i>>} |-> i]
  <2>1. \A e : <<KT(KH), e>> \notin DOMAIN new
    BY <1>5
  <2>2. tables' = Map(ts, new)
    BY <1>10
  <2> HIDE DEF new
  <2> QED
    BY <1>5, <2>1, <2>2, MapElsewhere DEF Same
<1>16. i' > 0 => (i' - 1) * PAGE < placement_address' + PAGE
  <2>1. i' - 1 = i
    BY <1>1
  <2>2. placement_address \in Nat /\ placement_address' \in Nat
    BY <1>1, <1>5 DEF Placing
  <2>3. i * PAGE \in Nat /\ i * PAGE < placement_address + PAGE
    BY <1>1, <1>2 DEF InMapLoop
  <2>4. i * PAGE < placement_address' + PAGE
    BY <1>2, <1>5, <2>2, <2>3
  <2> QED
    BY <2>1, <2>4
<1> QED
  BY <1>1, <1>2, <1>5, <1>10, <1>12, <1>13, <1>14, <1>15, <1>16 DEF BInv, InMap, PAGE

LEMMA MapEndPlaces ==
    ASSUME IInv, FInv, BInv, MapPlaced, ~InMapLoop
    PROVE  BInv'
<1>1. /\ pc = "map" /\ Placing /\ InMap /\ pc' = "heap" /\ i' = KHEAP_START
      /\ UNCHANGED <<frames, tables, dirs, placement_address, kernel_directory>>
  BY DEF MapPlaced, BInv
<1>2. /\ KH' = KH /\ LIMIT' = LIMIT /\ LIMIT \in Nat /\ PAGE \in Nat \ {0} /\ PAGE' = PAGE
  BY PagePositive, LimitInTable DEF KH, LIMIT, NFRAMES, PAGE
<1>3. i \in 0..LIMIT /\ Identity(i) /\ placement_address + PAGE <= i * PAGE /\ i > 0
  <2>1. i \in 0..LIMIT /\ Identity(i)
    BY <1>1 DEF InMap, Identity
  <2>2. placement_address \in Nat /\ i \in Nat /\ i * PAGE \in Nat
    BY <1>1, <1>2, <2>1 DEF Placing
  <2>3. placement_address + PAGE <= i * PAGE
    BY <1>2, <2>2 DEF InMapLoop
  <2> QED
    BY <1>2, <2>1, <2>2, <2>3
<1>4. Has(0) /\ 0 \in frames
  <2>1. 0 \in 0..(i - 1) /\ 0 \in 0..(LIMIT - 1)
    BY <1>2, <1>3
  <2> QED
    BY <1>1, <1>3, <2>1 DEF Identity, InMap, FirstTaken
<1>5. Placing' /\ Has(0)' /\ Has(KH)'
  BY <1>1, <1>2, <1>4, PlacingStays DEF InMap
<1>6. \A m : Identity(m) => Identity(m)'
  BY <1>1, <1>2 DEF Identity, Has, KT, TablesOf
<1>7. i \in 0..(LIMIT - KHEAP_PAGES)
  <2>1. (i - 1) * PAGE < (LIMIT - KHEAP_PAGES) * PAGE /\ LIMIT - KHEAP_PAGES \in Int
    <3>1. placement_address + PAGE <= (LIMIT - KHEAP_PAGES) * PAGE
      BY <1>1, PlacingBelow
    <3>2. (i - 1) * PAGE < placement_address + PAGE
      BY <1>1, <1>3 DEF InMap
    <3>3. {(i - 1) * PAGE, (LIMIT - KHEAP_PAGES) * PAGE, placement_address} \subseteq Int
      BY <1>1, <1>2, <1>3, LayoutAssumption DEF Placing
    <3> QED
      BY <1>2, <3>1, <3>2, <3>3, LayoutAssumption
  <2>2. i - 1 < LIMIT - KHEAP_PAGES
    BY <1>2, <1>3, <2>1
  <2> QED
    BY <1>2, <1>3, <2>1, <2>2
<1>8. InHeap'
  <2>1. i' \in KHEAP_START..(KHEAP_START + KHEAP_PAGES) /\ i' - KHEAP_START = 0
    BY <1>1, LayoutAssumption
  <2>2. PICK k : k = i
    OBVIOUS
  <2>3. \E m \in 0..(LIMIT' - KHEAP_PAGES) :
          /\ Identity(m)' /\ placement_address' + PAGE <= m * PAGE
          /\ InARow(tables, m, i)'
          /\ FirstTaken(m + (i - KHEAP_START))'
    <3>1. k \in 0..(LIMIT' - KHEAP_PAGES)
      BY <1>2, <1>7, <2>2
    <3>2. Identity(k)' /\ placement_address' + PAGE <= k * PAGE
      BY <1>1, <1>3, <1>6, <2>2
    <3>3. InARow(tables, k, i)'
      <4>1. KHEAP_START..(i' - 1) = {}
        BY <1>1, LayoutAssumption
      <4> QED
        BY <4>1, Zenon DEF InARow
    <3>4. k + (i' - KHEAP_START) = i
      BY <1>3, <2>1, <2>2
    <3>5. FirstTaken(k + (i - KHEAP_START))'
      BY <1>1, <1>2, <3>4 DEF FirstTaken, InMap
    <3> QED
      BY <3>1, <3>2, <3>3, <3>5
  <2>4. Unframed(tables, i)'
    <3>1. DOMAIN tables'[KT(KH)'] = {}
      BY <1>1, <1>2, <1>5 DEF InMap, KT, TablesOf
    <3> QED
      BY <3>1 DEF Unframed, EntryAt, Unmapped
  <2> QED
    BY <1>1, <1>2, <1>4, <1>5, <2>1, <2>3, <2>4, Zenon DEF InHeap
<1> QED
  BY <1>1, <1>5, <1>8 DEF BInv

LEMMA MapNewEntry ==
    ASSUME NEW ts, NEW new, NEW t \in DOMAIN ts, NEW p \in Nat, <<t, p % ENTRIES>> \in DOMAIN new
    PROVE  EntryAt(Map(ts, new)[t], p) = [present |-> TRUE, frame |-> new[<<t, p % ENTRIES>>]]
<1> DEFINE n == p % ENTRIES
<1>1. Map(ts, new)[t] =
         [e \in DOMAIN ts[t] \cup {x \in 0..(ENTRIES - 1) : <<t, x>> \in DOMAIN new} |->
            IF <<t, e>> \in DOMAIN new THEN [present |-> TRUE, frame |-> new[<<t, e>>]] ELSE ts[t][e]]
  BY DEF Map
<1>2. <<t, n>> \in DOMAIN new /\ n \in 0..(ENTRIES - 1)
  BY PagePositive
<1> HIDE DEF n
<1>3. n \in DOMAIN Map(ts, new)[t]
      /\ Map(ts, new)[t][n] = [present |-> TRUE, frame |-> new[<<t, n>>]]
  BY <1>1, <1>2
<1> QED
  BY <1>3 DEF EntryAt, n

\* One turn of the loop that gives the heap's pages their frames.
LEMMA HeapPagePlaces ==
    ASSUME IInv, FInv, BInv, AllocateHeap, InHeapLoop
    PROVE  BInv'
<1>1. /\ pc = "heap" /\ Placing /\ InHeap /\ TablesExist /\ i' = i + 1
      /\ UNCHANGED <<dirs, placement_address, kernel_directory>>
      /\ alloc_frame(tables, KernelTable(i), i)
  BY DEF AllocateHeap, BInv, FInv
<1>2. /\ KH' = KH /\ LIMIT' = LIMIT /\ LIMIT \in Nat /\ PAGE \in Nat \ {0} /\ PAGE' = PAGE
      /\ KH > 0 /\ KH \in Nat /\ ENTRIES \in Nat \ {0}
      /\ KHEAP_START \in Nat /\ KHEAP_PAGES \in Nat \ {0}
  BY PagePositive, LimitInTable, HeapTable, LayoutAssumption DEF KH, LIMIT, NFRAMES, PAGE
<1>3. /\ i \in KHEAP_START..(KHEAP_START + KHEAP_PAGES - 1) /\ i \in Nat
      /\ i' \in KHEAP_START..(KHEAP_START + KHEAP_PAGES)
  BY <1>1, <1>2 DEF InHeapLoop, InHeap
<1>4. PICK m \in 0..(LIMIT - KHEAP_PAGES) :
         /\ Identity(m) /\ placement_address + PAGE <= m * PAGE
         /\ InARow(tables, m, i)
         /\ FirstTaken(m + (i - KHEAP_START))
  BY <1>1 DEF InHeap
<1>5. PICK n : n = m + (i - KHEAP_START)
  OBVIOUS
<1> DEFINE t == KT(KH)
           new == [x \in {Slot(t, i)} |-> n]
<1>6. n \in 0..(LIMIT - 1) /\ FirstTaken(n)
  BY <1>5, <1>2, <1>3, <1>4
<1>7. KernelTable(i) = t
  BY <1>3, HeapTable DEF KernelTable, KT, TablesOf
<1>8. KT(0) \in DOMAIN tables /\ KT(0) # t /\ t \in DOMAIN tables
  BY <1>1 DEF TablesExist, KT, Has, InHeap, Placing, IInv, KernelBelowHeap
<1>9. EntryAt(tables[t], i).frame = 0
  BY <1>1, <1>3 DEF InHeap, Unframed
<1>10. /\ tables' = Map(tables, new) /\ frames' = frames \cup {n} /\ pc' = "heap"
  <2>1. FreeAmong(frames) # {} /\ first_frame(frames) = n
    BY <1>6, NextFrameIs
  <2> QED
    BY <1>1, <1>7, <1>9, <2>1 DEF alloc_frame
<1>11. DOMAIN new = {<<t, i % ENTRIES>>} /\ new[<<t, i % ENTRIES>>] = n
  BY DEF Slot
<1> HIDE DEF new
<1>12. Same(tables'[KT(0)], tables[KT(0)])
  <2>1. \A e : <<KT(0), e>> \notin DOMAIN new
    BY <1>8, <1>11
  <2> QED
    BY <1>8, <1>10, <2>1, MapElsewhere
<1>13. DOMAIN tables' = DOMAIN tables
  BY <1>10 DEF Map
<1>14. /\ Placing' /\ Has(0)' /\ Has(KH)' /\ KT(KH)' = t
       /\ \A k : Identity(k) => Identity(k)'
  <2>1. Placing' /\ Has(0)' /\ Has(KH)' /\ KT(KH)' = t
    BY <1>1, <1>2, <1>13, PlacingStays DEF InHeap
  <2> QED
    BY <1>1, <1>12, <2>1, IdentityStays
<1>15. EntryAt(tables'[t], i).frame = n
  <2>1. <<t, i % ENTRIES>> \in DOMAIN new
    BY <1>11
  <2>2. EntryAt(Map(tables, new)[t], i) = [present |-> TRUE, frame |-> new[<<t, i % ENTRIES>>]]
    BY <1>3, <1>8, <2>1, MapNewEntry
  <2> QED
    BY <1>10, <1>11, <2>2
<1>16. ASSUME NEW q \in KHEAP_START..(KHEAP_START + KHEAP_PAGES - 1), q # i
       PROVE  EntryAt(tables'[t], q) = EntryAt(tables[t], q)
  <2>1. q \in Nat /\ q \div ENTRIES = i \div ENTRIES
    <3>1. q \div ENTRIES = KH /\ i \div ENTRIES = KH
      BY <1>3, HeapTable
    <3> QED
      BY <1>2, <3>1
  <2>2. q % ENTRIES # i % ENTRIES
    BY <1>2, <1>3, <1>16, <2>1, EntriesDiffer
  <2>3. <<t, q % ENTRIES>> \notin DOMAIN new
    BY <1>11, <2>2
  <2> QED
    BY <1>8, <1>10, <2>3, MapEntry
<1>17. InARow(tables, m, i)'
  <2> SUFFICES ASSUME NEW q \in KHEAP_START..(i' - 1)
               PROVE  EntryAt(tables'[t], q).frame = m + (q - KHEAP_START)
    BY <1>14 DEF InARow
  <2>1. CASE q = i
    BY <1>5, <1>15, <2>1
  <2>2. CASE q # i
    <3>1. q \in KHEAP_START..(i - 1) /\ q \in KHEAP_START..(KHEAP_START + KHEAP_PAGES - 1)
      BY <1>1, <1>2, <1>3, <2>2
    <3> QED
      BY <1>4, <1>16, <2>2, <3>1 DEF InARow
  <2> QED
    BY <2>1, <2>2
<1>18. Unframed(tables, i)'
  <2> SUFFICES ASSUME NEW q \in i'..(KHEAP_START + KHEAP_PAGES - 1)
               PROVE  EntryAt(tables'[t], q).frame = 0
    BY <1>14 DEF Unframed
  <2>1. q # i /\ q \in KHEAP_START..(KHEAP_START + KHEAP_PAGES - 1)
        /\ q \in i..(KHEAP_START + KHEAP_PAGES - 1)
    BY <1>1, <1>2, <1>3
  <2> QED
    BY <1>1, <1>16, <2>1 DEF InHeap, Unframed
<1>19. FirstTaken(m + (i - KHEAP_START))'
  <2>1. m + (i' - KHEAP_START) = n + 1
    BY <1>5, <1>1, <1>2, <1>3, <1>4
  <2>2. FirstTaken(n + 1)'
    BY <1>6, <1>10, FirstTakenGrows
  <2> QED
    BY <1>2, <2>1, <2>2 DEF FirstTaken
<1>20. InHeap'
  <2>1. Identity(m)' /\ placement_address' + PAGE' <= m * PAGE' /\ m \in 0..(LIMIT' - KHEAP_PAGES)
    BY <1>1, <1>2, <1>4, <1>14
  <2>2. 0 \in frames' /\ pc' # "create"
    BY <1>1, <1>10 DEF InHeap
  <2> QED
    BY <1>3, <1>14, <1>17, <1>18, <1>19, <2>1, <2>2 DEF InHeap
<1> QED
  BY <1>10, <1>14, <1>20 DEF BInv

LEMMA AllocateHeapPlaces == IInv /\ FInv /\ BInv /\ AllocateHeap => BInv'
<1> SUFFICES ASSUME IInv, FInv, BInv, AllocateHeap PROVE BInv'
  OBVIOUS
<1>1. CASE ~InHeapLoop
  <2>1. /\ pc = "heap" /\ Placing /\ InHeap /\ pc' = "create"
        /\ UNCHANGED <<frames, tables, dirs, placement_address, kernel_directory, i>>
    BY <1>1 DEF AllocateHeap, BInv
  <2>2. /\ KH' = KH /\ LIMIT' = LIMIT /\ PAGE' = PAGE
    BY DEF KH, LIMIT, NFRAMES, PAGE
  <2>3. Placing' /\ Has(0)' /\ Has(KH)' /\ KT(KH)' = KT(KH) /\ KT(0)' = KT(0)
    BY <2>1, <2>2, PlacingStays DEF InHeap
  <2>4. i' = KHEAP_START + KHEAP_PAGES
    BY <1>1, <2>1, LayoutAssumption DEF InHeap, InHeapLoop
  <2>5. /\ Unframed(tables, i)'
        /\ \A m : InARow(tables, m, i) => InARow(tables, m, i)'
        /\ \A m : FirstTaken(m + (i - KHEAP_START)) => FirstTaken(m + (i - KHEAP_START))'
        /\ \A m : Identity(m) => Identity(m)'
    BY <2>1, <2>2, <2>3 DEF Unframed, InARow, FirstTaken, Identity, InHeap
  <2>6. InHeap'
    BY <2>1, <2>2, <2>3, <2>4, <2>5, Zenon DEF InHeap
  <2> QED
    BY <2>1, <2>3, <2>6 DEF BInv
<1> QED
  BY <1>1, HeapPagePlaces

(***************************************************************************)
(* When paging is on.  The kernel's two tables lie below the heap, where     *)
(* memory is mapped as it lies; every other table is a block of the heap,    *)
(* and the heap's pages keep their frames.                                  *)
(***************************************************************************)
Up == pc \in {"clone", "move_stack", "run"}

InitialEnd == KHEAP_START + KHEAP_PAGES

RCore ==
    /\ kernel_directory \in DOMAIN dirs /\ kernel_directory \in Nat
    /\ placement_address \in Nat
    /\ kernel_directory + DIR_SIZE <= placement_address
    /\ DOMAIN TablesOf(kernel_directory) = {0, KH}
    /\ KT(0) # KT(KH)
    /\ \A n \in {0, KH} : KT(n) \in Nat /\ KT(n) < placement_address /\ KT(n) \in DOMAIN tables
    /\ placement_address <= KHEAP_START * PAGE
    /\ \E m \in 0..LIMIT : Identity(m) /\ placement_address <= m * PAGE
    /\ \E m \in Nat : InARow(tables, m, InitialEnd)
    /\ 0 \in frames
    /\ top \in Nat /\ top >= KHEAP_START
    /\ end \in Nat /\ top <= end /\ InitialEnd <= end
    /\ \A q \in KHEAP_START..(end - 1) : q \div ENTRIES = KH

Block(t) == \E q \in KHEAP_START..(top - 1) : t = q * PAGE

Located ==
    \A d \in DOMAIN dirs : \A e \in DOMAIN TablesOf(d) :
        /\ e \in 0..(ENTRIES - 1)
        /\ e \in {0, KH} => TablesOf(d)[e] = KT(e)
        /\ e \notin {0, KH} => Block(TablesOf(d)[e])

\* The two halves of TablesAreWalked.
Whole == \A d \in DOMAIN dirs : InitiallyMapped(d) => dirs[d].physicalAddr = Translated(d + PAGE)

Walked ==
    \A d \in DOMAIN dirs : \A e \in DOMAIN TablesOf(d) : \A a \in {TablesOf(d)[e]} :
        Translated(a) = dirs[d].tablesPhysical[e]

\* Where move_stack's loop is.
StackRange == pc = "move_stack" => i \in (STACK_TOP - STACK_PAGES - 1)..STACK_TOP

\* What was placed is mapped where it lies.
Placed ==
    /\ kernel_directory \in DOMAIN dirs
    /\ placement_address \in Nat \ {0}
    /\ \E m \in 0..LIMIT : Identity(m) /\ placement_address <= m * PAGE

RInv ==
    /\ Up => RCore /\ Located /\ Whole /\ Walked /\ StackRange
    /\ pc = "fault" => Placed /\ Whole /\ Walked

\* ts maps the kernel's memory and the heap's as the tables do.
KernelKept(ts) ==
    /\ Same(ts[KT(0)], tables[KT(0)])
    /\ \A q \in KHEAP_START..(end - 1) : EntryAt(ts[KT(KH)], q) = EntryAt(tables[KT(KH)], q)

\* ts and us have the same tables of the kernel.
Agree(ts, us) == \A n \in {0, KH} : Same(ts[KT(n)], us[KT(n)])

LEMMA AgreeKept ==
    ASSUME NEW ts, NEW us, Agree(ts, us), KernelKept(us)
    PROVE  KernelKept(ts)
  BY SameEntry DEF Agree, KernelKept, Same

LEMMA DivBelow ==
    ASSUME NEW a \in Nat, NEW m \in Nat, NEW n \in Nat \ {0}, a < m * n
    PROVE  a \div n \in Nat /\ a \div n < m
<1> DEFINE q == a \div n
<1>1. q \in Nat /\ q * n <= a
  OBVIOUS
<1>2. CASE q >= m
  <2>1. m * n <= q * n
    BY <1>1, <1>2
  <2> QED
    BY <1>1, <2>1
<1> QED
  BY <1>1, <1>2

LEMMA HeapTableLow == KH < ENTRIES
<1>1. ENTRIES \in Nat \ {0} /\ KHEAP_START \in Nat
  BY PagePositive, LayoutAssumption
<1>2. KHEAP_START \in 0..((ENTRIES * ENTRIES) - 1) /\ ENTRIES * ENTRIES \in Nat
  BY <1>1, StackApart
<1>3. KHEAP_START < ENTRIES * ENTRIES
  BY <1>1, <1>2
<1> QED
  BY <1>1, <1>3, DivBelow DEF KH

LEMMA IntervalIs ==
    ASSUME NEW a \in Nat, NEW b \in Nat, NEW q
    PROVE  q \in a..(b - 1) <=> q \in Nat /\ a <= q /\ q < b
  OBVIOUS

\* Pages of the heap that have a table have the kernel's heap table.
LEMMA HeapPageTable ==
    ASSUME RCore, NEW p \in Nat, p >= KHEAP_START, HasTable(kernel_directory, p)
    PROVE  p \div ENTRIES = KH /\ KernelTable(p) = KT(KH)
<1>1. p \div ENTRIES \in {0, KH}
  BY DEF RCore, HasTable, TablesOf
<1>2. ENTRIES \in Nat \ {0} /\ p >= ENTRIES
  BY LayoutAssumption, BootFits, PagePositive
<1>3. p \div ENTRIES # 0
  BY <1>2, SMT
<1> QED
  BY <1>1, <1>3 DEF KernelTable, KT, TablesOf

\* A block of the heap is none of the kernel's tables.
LEMMA BlockIsNotKernels ==
    ASSUME RCore, NEW q \in Nat, q >= KHEAP_START
    PROVE  q * PAGE \in Nat /\ \A n \in {0, KH} : KT(n) # q * PAGE
<1>1. PAGE \in Nat \ {0} /\ KHEAP_START \in Nat /\ KHEAP_START * PAGE \in Nat /\ q * PAGE \in Nat
  BY PagePositive, LayoutAssumption
<1>2. KHEAP_START * PAGE <= q * PAGE
  BY <1>1, ProductGrows
<1>3. placement_address <= KHEAP_START * PAGE /\ placement_address \in Nat
  BY DEF RCore
<1>4. \A n \in {0, KH} : KT(n) \in Nat /\ KT(n) < placement_address
  BY DEF RCore
<1> QED
  BY <1>1, <1>2, <1>3, <1>4

\* expand maps pages behind the heap's end only, in the kernel's heap table or
\* in the table get_page makes.
LEMMA ExpandKeepsKernel ==
    ASSUME RCore, NEW e \in Nat
    PROVE  /\ KernelKept(TablesAfter(e))
           /\ \A t \in DOMAIN tables \ {KT(KH), NewTable} : Same(TablesAfter(e)[t], tables[t])
           /\ DOMAIN TablesAfter(e) =
                 DOMAIN tables \cup (IF Tableless(e) = {} THEN {} ELSE {NewTable})
<1> DEFINE slot(p) == Slot(IF p \in Tableless(e) THEN NewTable ELSE KernelTable(p), p)
           at == [x \in {slot(p) : p \in Grown(e)} |-> NewFrames(e)[CHOOSE p \in Grown(e) : slot(p) = x]]
           ts == IF Tableless(e) = {} THEN tables ELSE With(tables, NewTable, <<>>)
<1>1. TablesAfter(e) = Map(ts, at)
  BY Zenon DEF TablesAfter
<1>2. \A p \in Grown(e) :
         /\ p \in Nat /\ p >= end /\ p >= KHEAP_START
         /\ \/ slot(p) = <<NewTable, p % ENTRIES>>
            \/ p \div ENTRIES = KH /\ slot(p) = <<KT(KH), p % ENTRIES>>
  <2> TAKE p \in Grown(e)
  <2>1. p \in end..(e - 1) /\ end \in Nat /\ end >= KHEAP_START /\ KHEAP_START \in Nat
    BY LayoutAssumption DEF Grown, RCore
  <2>2. p \in Nat /\ p >= end /\ p >= KHEAP_START
    BY <2>1
  <2>3. CASE p \in Tableless(e)
    BY <2>2, <2>3 DEF Slot
  <2>4. CASE p \notin Tableless(e)
    <3>1. HasTable(kernel_directory, p)
      BY <2>1, <2>4 DEF Tableless
    <3> QED
      BY <2>2, <2>4, <3>1, HeapPageTable DEF Slot
  <2> QED
    BY <2>3, <2>4
<1>3. DOMAIN at = {slot(p) : p \in Grown(e)}
  OBVIOUS
<1>4. \A n \in {0, KH} : KT(n) # NewTable /\ KT(n) \in DOMAIN tables
  BY BlockIsNotKernels DEF NewTable, RCore
<1>5. /\ DOMAIN ts = DOMAIN tables \cup (IF Tableless(e) = {} THEN {} ELSE {NewTable})
      /\ \A t \in DOMAIN tables \ {NewTable} : ts[t] = tables[t]
  BY DEF With
<1> HIDE DEF ts
<1>6. \A t \in DOMAIN tables \ {KT(KH), NewTable} : Same(TablesAfter(e)[t], tables[t])
  <2> TAKE t \in DOMAIN tables \ {KT(KH), NewTable}
  <2>1. \A x : <<t, x>> \notin DOMAIN at
    BY <1>2, <1>3
  <2> HIDE DEF at
  <2>2. Same(TablesAfter(e)[t], ts[t])
    BY <1>1, <1>5, <2>1, MapElsewhere
  <2> QED
    BY <1>5, <2>2
<1>7. \A q \in KHEAP_START..(end - 1) :
         EntryAt(TablesAfter(e)[KT(KH)], q) = EntryAt(tables[KT(KH)], q)
  <2> TAKE q \in KHEAP_START..(end - 1)
  <2>1. q \in Nat /\ q >= KHEAP_START /\ q < end
    BY LayoutAssumption DEF RCore
  <2>2. KT(KH) \in DOMAIN ts /\ ts[KT(KH)] = tables[KT(KH)] /\ ENTRIES \in Nat \ {0}
    BY <1>4, <1>5, PagePositive
  <2>3. <<KT(KH), q % ENTRIES>> \notin DOMAIN at
    <3> SUFFICES ASSUME NEW p \in Grown(e), slot(p) = <<KT(KH), q % ENTRIES>> PROVE FALSE
      BY <1>3
    <3>1. p % ENTRIES = q % ENTRIES /\ p \in Nat /\ p >= end /\ p \div ENTRIES = KH
      BY <1>2, <1>4
    <3>2. q \div ENTRIES = KH
      BY DEF RCore
    <3>3. p = q
      BY <2>1, <2>2, <3>1, <3>2, EntriesDiffer
    <3> QED
      BY <2>1, <3>1, <3>3 DEF RCore
  <2>4. KT(KH) \in DOMAIN ts
    BY <2>2
  <2> HIDE DEF at
  <2>5. EntryAt(Map(ts, at)[KT(KH)], q) = EntryAt(ts[KT(KH)], q)
    BY <2>3, <2>4, MapEntry, Zenon
  <2>6. TablesAfter(e) = Map(ts, at)
    BY <1>1
  <2> QED
    BY <2>2, <2>5, <2>6, Zenon
<1>8. DOMAIN TablesAfter(e) = DOMAIN ts
  BY <1>1 DEF Map
<1>9. KT(0) \in DOMAIN tables \ {KT(KH), NewTable}
  BY <1>4 DEF RCore
<1> QED
  BY <1>5, <1>6, <1>7, <1>8, <1>9 DEF KernelKept

LEMMA NewTableAgrees ==
    ASSUME RCore, NEW ts, KT(0) \in DOMAIN ts, KT(KH) \in DOMAIN ts, NEW q \in Nat, q >= KHEAP_START
    PROVE  Agree(With(ts, q * PAGE, <<>>), ts)
<1> DEFINE a == q * PAGE
           new == With(ts, a, <<>>)
<1>1. KT(0) # a /\ KT(KH) # a
  BY BlockIsNotKernels
<1>2. \A t \in DOMAIN ts : t # a => new[t] = ts[t]
  BY DEF With
<1> HIDE DEF a, new
<1>3. new[KT(0)] = ts[KT(0)] /\ new[KT(KH)] = ts[KT(KH)]
  BY <1>1, <1>2
<1>4. Agree(new, ts)
  BY <1>3 DEF Agree, Same
<1> QED
  BY <1>4 DEF new, a

LEMMA MapAgrees ==
    ASSUME NEW ts, KT(0) \in DOMAIN ts, KT(KH) \in DOMAIN ts, NEW new,
           \A n \in {0, KH} : \A e : <<KT(n), e>> \notin DOMAIN new
    PROVE  Agree(Map(ts, new), ts)
  BY MapElsewhere DEF Agree

LEMMA AgreeTrans ==
    ASSUME NEW ts, NEW us, NEW vs, Agree(ts, us), Agree(us, vs)
    PROVE  Agree(ts, vs)
  BY DEF Agree, Same

\* Where a kernel page is depends on the kernel's two tables only.
LEMMA AgreePhysical ==
    ASSUME RCore, NEW ts, NEW us, Agree(ts, us), NEW a
    PROVE  Physical(ts, a) = Physical(us, a)
<1> DEFINE p == a \div PAGE
<1>1. KernelEntry(ts, p) = KernelEntry(us, p)
  <2>1. CASE HasTable(kernel_directory, p)
    <3>1. p \div ENTRIES \in {0, KH} /\ KernelTable(p) = KT(p \div ENTRIES)
      BY <2>1 DEF RCore, HasTable, TablesOf, KernelTable, KT
    <3>2. EntryAt(ts[KernelTable(p)], p) = EntryAt(us[KernelTable(p)], p)
      BY <3>1, SameEntry DEF Agree
    <3> QED
      BY <3>2, Zenon DEF KernelEntry
  <2>2. CASE ~HasTable(kernel_directory, p)
    BY <2>2, Zenon DEF KernelEntry
  <2> QED
    BY <2>1, <2>2
<1> QED
  BY <1>1, Zenon DEF Physical

\* The kernel's directory keeps its two tables.
KernelStays ==
    /\ UNCHANGED kernel_directory
    /\ kernel_directory \in DOMAIN dirs'
    /\ \A n \in {0, KH} :
          n \in DOMAIN dirs'[kernel_directory].tables /\ dirs'[kernel_directory].tables[n] = KT(n)

\* A page that one of them is for.
OfKernel(p) == p \div ENTRIES \in {0, KH}

LEMMA KernelPageIs ==
    ASSUME RCore, KernelStays, NEW p, OfKernel(p)
    PROVE  /\ \A ts : KernelEntry(ts, p) = EntryAt(ts[KT(p \div ENTRIES)], p)
           /\ KernelEntry(tables, p)' = EntryAt(tables'[KT(p \div ENTRIES)], p)
<1>1. HasTable(kernel_directory, p) /\ KernelTable(p) = KT(p \div ENTRIES)
  BY DEF RCore, OfKernel, HasTable, TablesOf, KernelTable, KT
<1>2. HasTable(kernel_directory, p)' /\ KernelTable(p)' = KT(p \div ENTRIES)
  BY DEF KernelStays, OfKernel, HasTable, KernelTable
<1> QED
  BY <1>1, <1>2 DEF KernelEntry, RCore, KernelStays, EntryAt, Unmapped

LEMMA PhysicalIsTranslated ==
    ASSUME RCore, KernelStays, NEW a, OfKernel(a \div PAGE)
    PROVE  Translated(a)' = Physical(tables', a)
<1>1. PAGE' = PAGE
  BY DEF PAGE
<1>2. KernelEntry(tables, a \div PAGE)' = KernelEntry(tables', a \div PAGE)
  BY KernelPageIs
<1> QED
  BY <1>1, <1>2 DEF Translated, Physical

\* What is in a page that was placed, or in the heap, stays where it is.
LEMMA TranslatedStays ==
    ASSUME RCore, KernelStays, KernelKept(tables'), NEW a,
           \/ a \in Nat /\ a < placement_address
           \/ a \div PAGE \in KHEAP_START..(end - 1)
    PROVE  Translated(a)' = Translated(a)
<1> DEFINE p == a \div PAGE
<1>1. PAGE \in Nat \ {0} /\ KHEAP_START \in Nat /\ ENTRIES \in Nat \ {0} /\ LIMIT \in Nat /\ LIMIT <= ENTRIES
  BY PagePositive, LayoutAssumption, LimitInTable
<1>2. OfKernel(p) /\ EntryAt(tables'[KT(p \div ENTRIES)], p) = EntryAt(tables[KT(p \div ENTRIES)], p)
  <2>1. CASE a \in Nat /\ a < placement_address
    <3>1. PICK m \in 0..LIMIT : placement_address <= m * PAGE
      BY DEF RCore
    <3>2. m \in Nat /\ m <= ENTRIES /\ placement_address \in Nat /\ m * PAGE \in Nat
      BY <1>1, <3>1 DEF RCore
    <3>3. p \in Nat /\ p < m
      BY <1>1, <2>1, <3>1, <3>2, DivBelow
    <3>4. p \div ENTRIES = 0
      BY <1>1, <3>2, <3>3, SmallIndex
    <3>5. EntryAt(tables'[KT(0)], p) = EntryAt(tables[KT(0)], p)
      BY SameEntry DEF KernelKept
    <3> QED
      BY <3>4, <3>5 DEF OfKernel
  <2>2. CASE p \in KHEAP_START..(end - 1)
    BY <2>2 DEF OfKernel, KernelKept, RCore
  <2> QED
    BY <2>1, <2>2
<1>3. KernelEntry(tables', p) = KernelEntry(tables, p)
  BY <1>2, KernelPageIs
<1>4. Translated(a)' = Physical(tables', a)
  BY <1>2, PhysicalIsTranslated
<1> QED
  BY <1>3, <1>4 DEF Physical, Translated

\* A block of the heap, and the second page of a directory in the heap's
\* initial pages, are in the heap.
LEMMA BlockPages ==
    ASSUME RCore, NEW a, Block(a)
    PROVE  /\ a \div PAGE \in KHEAP_START..(end - 1)
           /\ InitiallyMapped(a) => (a + PAGE) \div PAGE \in KHEAP_START..(InitialEnd - 1)
<1>1. PAGE \in Nat \ {0} /\ KHEAP_START \in Nat /\ KHEAP_PAGES \in Nat
  BY PagePositive, LayoutAssumption
<1>2. PICK q \in KHEAP_START..(top - 1) : a = q * PAGE
  BY DEF Block
<1>3. q \in Nat /\ KHEAP_START <= q /\ q < top /\ top <= end /\ top \in Nat /\ end \in Nat
  BY <1>1, <1>2 DEF RCore
<1>4. a \div PAGE = q
  BY <1>1, <1>2, <1>3, IndexOfPage
<1>5. a + PAGE = (q + 1) * PAGE /\ q + 1 \in Nat
  BY <1>1, <1>2, <1>3
<1>6. (a + PAGE) \div PAGE = q + 1
  BY <1>1, <1>5, IndexOfPage
<1>7. ASSUME InitiallyMapped(a) PROVE q + 1 < InitialEnd
  <2>1. (q * PAGE) + (2 * PAGE) + 4 <= (KHEAP_START + KHEAP_PAGES) * PAGE
    BY <1>1, <1>2, <1>3, <1>7 DEF InitiallyMapped, DIR_SIZE
  <2>2. PICK k : k = q + 1 /\ k \in Nat
    BY <1>3
  <2>3. CASE InitialEnd <= k
    <3>1. InitialEnd * PAGE <= k * PAGE /\ k * PAGE \in Nat /\ InitialEnd * PAGE \in Nat
      BY <1>1, <2>2, <2>3, ProductGrows DEF InitialEnd
    <3>2. k * PAGE = (q * PAGE) + PAGE
      BY <1>1, <1>2, <1>5, <2>2
    <3> QED
      BY <1>1, <1>3, <2>1, <3>1, <3>2 DEF InitialEnd
  <2> QED
    BY <1>1, <2>2, <2>3 DEF InitialEnd
<1>8. a \div PAGE \in KHEAP_START..(end - 1)
  BY <1>1, <1>3, <1>4, IntervalIs
<1>9. ASSUME InitiallyMapped(a) PROVE (a + PAGE) \div PAGE \in KHEAP_START..(InitialEnd - 1)
  <2>1. q + 1 < InitialEnd /\ InitialEnd \in Nat /\ q + 1 \in Nat /\ KHEAP_START <= q + 1
    BY <1>1, <1>3, <1>7, <1>9 DEF InitialEnd
  <2> QED
    BY <1>1, <1>6, <2>1, IntervalIs
<1> QED
  BY <1>8, <1>9

(***************************************************************************)
(* What any step after create_heap does to tables and directories.          *)
(***************************************************************************)

\* A directory's entry e is one some directory had, or leads to the block the
\* heap has just handed out.
Inherited(d, e) ==
    \E c \in DOMAIN dirs :
        /\ e \in DOMAIN TablesOf(c)
        /\ dirs'[d].tables[e] = TablesOf(c)[e]
        /\ dirs'[d].tablesPhysical[e] = dirs[c].tablesPhysical[e]

Made(d, e) ==
    /\ e \in 0..(ENTRIES - 1) /\ e \notin {0, KH} /\ top < top' /\ top \div ENTRIES = KH
    /\ dirs'[d].tables[e] = top * PAGE
    /\ dirs'[d].tablesPhysical[e] = Physical(tables', top * PAGE)

\* A directory was there before, or is the block the heap has just handed out.
Lasting(d) == d \in DOMAIN dirs /\ dirs'[d].physicalAddr = dirs[d].physicalAddr

Cloned(d) == d = top * PAGE /\ dirs'[d].physicalAddr = Physical(tables', d) + PAGE

MapStep ==
    /\ KernelStays /\ UNCHANGED placement_address
    /\ DOMAIN tables \subseteq DOMAIN tables' /\ KernelKept(tables')
    /\ \A d \in DOMAIN dirs' : Lasting(d) \/ Cloned(d)
    /\ \A d \in DOMAIN dirs' : \A e \in DOMAIN dirs'[d].tables : Inherited(d, e) \/ Made(d, e)

\* One after which the kernel runs on.
UpStep ==
    /\ MapStep
    /\ dirs'[kernel_directory] = dirs[kernel_directory]
    /\ frames \subseteq frames'
    /\ top' \in Nat /\ top <= top' /\ end' \in Nat /\ top' <= end' /\ end <= end'
    /\ \A q \in end..(end' - 1) : HasTable(kernel_directory, q)

LEMMA IdentityKept ==
    ASSUME RCore, MapStep, NEW m, Identity(m)
    PROVE  Identity(m)'
<1>1. LIMIT' = LIMIT /\ Has(0)' /\ KT(0)' = KT(0)
  BY DEF LIMIT, NFRAMES, PAGE, Has, KT, TablesOf, MapStep, KernelStays
<1>2. Same(tables'[KT(0)], tables[KT(0)])
  BY DEF MapStep, KernelKept
<1> QED
  BY <1>1, <1>2 DEF Identity, Same

\* The heap's initial pages have frames that follow each other, so that a
\* directory in them does lie whole where its first page's frame is.
LEMMA InitialFrames ==
    ASSUME RCore, MapStep, NEW d, d = top * PAGE, InitiallyMapped(d)
    PROVE  Physical(tables', d) + PAGE = Translated(d + PAGE)'
<1>1. PAGE \in Nat \ {0} /\ KHEAP_START \in Nat /\ KHEAP_PAGES \in Nat /\ top \in Nat /\ KHEAP_START <= top
      /\ end \in Nat /\ InitialEnd <= end
  BY PagePositive, LayoutAssumption DEF RCore
<1>2. top + 1 < InitialEnd
  <2>1. (top * PAGE) + (2 * PAGE) + 4 <= (KHEAP_START + KHEAP_PAGES) * PAGE
    BY <1>1 DEF InitiallyMapped, DIR_SIZE
  <2>2. PICK k : k = top + 1 /\ k \in Nat
    BY <1>1
  <2>3. CASE InitialEnd <= k
    <3>1. InitialEnd * PAGE <= k * PAGE /\ k * PAGE \in Nat /\ InitialEnd * PAGE \in Nat
      BY <1>1, <2>2, <2>3, ProductGrows DEF InitialEnd
    <3>2. k * PAGE = (top * PAGE) + PAGE
      BY <1>1, <2>2
    <3> QED
      BY <1>1, <2>1, <3>1, <3>2 DEF InitialEnd
  <2> QED
    BY <1>1, <2>2, <2>3 DEF InitialEnd
<1>3. PICK m \in Nat : InARow(tables, m, InitialEnd)
  BY DEF RCore
<1>4. ASSUME NEW q \in {top, top + 1}
      PROVE  OfKernel(q) /\ KernelEntry(tables', q).frame = m + (q - KHEAP_START)
  <2>1. q \in KHEAP_START..(end - 1) /\ q \in KHEAP_START..(InitialEnd - 1)
    BY <1>1, <1>2 DEF InitialEnd
  <2>2. q \div ENTRIES = KH
    BY <2>1 DEF RCore
  <2>3. EntryAt(tables'[KT(KH)], q) = EntryAt(tables[KT(KH)], q)
    BY <2>1 DEF MapStep, KernelKept
  <2>4. EntryAt(tables[KT(KH)], q).frame = m + (q - KHEAP_START)
    BY <1>3, <2>1 DEF InARow
  <2>5. OfKernel(q)
    BY <2>2 DEF OfKernel
  <2>6. KernelEntry(tables', q) = EntryAt(tables'[KT(KH)], q)
    BY <2>2, <2>5, KernelPageIs DEF MapStep
  <2> QED
    BY <2>3, <2>4, <2>5, <2>6
<1>5. d \div PAGE = top /\ (d + PAGE) \div PAGE = top + 1 /\ d % PAGE = 0 /\ (d + PAGE) % PAGE = 0
  <2>1. \A q \in Nat : (q * PAGE) \div PAGE = q /\ (q * PAGE) % PAGE = 0
    BY <1>1, IndexOfPage, SMT
  <2>2. d + PAGE = (top + 1) * PAGE /\ top + 1 \in Nat
    BY <1>1
  <2> QED
    BY <1>1, <2>1, <2>2
<1>6. Translated(d + PAGE)' = Physical(tables', d + PAGE)
  BY <1>4, <1>5, PhysicalIsTranslated DEF MapStep
<1>7. PICK f \in Nat : f = m + (top - KHEAP_START) /\ f + 1 = m + ((top + 1) - KHEAP_START)
  BY <1>1, <1>3
<1>8. KernelEntry(tables', top).frame = f /\ KernelEntry(tables', top + 1).frame = f + 1
  BY <1>4, <1>7
<1>9. Physical(tables', d) = f * PAGE /\ Physical(tables', d + PAGE) = (f + 1) * PAGE
  <2>1. Physical(tables', d) = (f * PAGE) + 0 /\ Physical(tables', d + PAGE) = ((f + 1) * PAGE) + 0
    BY <1>5, <1>8 DEF Physical
  <2>2. f * PAGE \in Nat /\ (f + 1) * PAGE \in Nat
    BY <1>1, <1>7
  <2> QED
    BY <2>1, <2>2
<1>10. (f + 1) * PAGE = (f * PAGE) + PAGE
  BY <1>1, <1>7
<1> QED
  BY <1>6, <1>9, <1>10

LEMMA MapStepWalks ==
    ASSUME RCore, OnHeap, Located, Whole, Walked, MapStep
    PROVE  Whole' /\ Walked' /\ Placed'
<1>1. KHEAP_START \in Nat /\ PAGE \in Nat \ {0} /\ PAGE' = PAGE /\ end \in Nat /\ InitialEnd <= end
      /\ InitialEnd \in Nat
  <2>1. KHEAP_START \in Nat /\ PAGE \in Nat \ {0} /\ InitialEnd \in Nat
    BY LayoutAssumption, PagePositive DEF InitialEnd
  <2>2. PAGE' = PAGE
    BY DEF PAGE
  <2> QED
    BY <2>1, <2>2 DEF RCore
<1>2. ASSUME NEW d \in DOMAIN dirs', InitiallyMapped(d)
      PROVE  dirs'[d].physicalAddr = Translated(d + PAGE)'
  <2>1. CASE Lasting(d)
    <3>1. Translated(d + PAGE)' = Translated(d + PAGE)
      <4>1. CASE d = kernel_directory
        <5>1. d + PAGE \in Nat /\ d + PAGE < placement_address
          BY <1>1, <4>1 DEF RCore, DIR_SIZE
        <5> QED
          BY <5>1, TranslatedStays DEF MapStep
      <4>2. CASE d # kernel_directory
        <5>1. Block(d)
          BY <2>1, <4>2 DEF OnHeap, Block, Lasting
        <5>2. (d + PAGE) \div PAGE \in KHEAP_START..(InitialEnd - 1)
          BY <1>2, <5>1, BlockPages
        <5>3. (d + PAGE) \div PAGE \in KHEAP_START..(end - 1)
          BY <1>1, <5>2
        <5> QED
          BY <5>3, TranslatedStays DEF MapStep
      <4> QED
        BY <4>1, <4>2
    <3> QED
      BY <1>2, <2>1, <3>1 DEF Lasting, Whole
  <2>2. CASE Cloned(d)
    BY <1>2, <2>2, InitialFrames DEF Cloned
  <2> QED
    BY <2>1, <2>2 DEF MapStep
<1>3. ASSUME NEW d \in DOMAIN dirs', NEW e \in DOMAIN dirs'[d].tables, NEW a, a = dirs'[d].tables[e]
      PROVE  Translated(a)' = dirs'[d].tablesPhysical[e]
  <2>1. CASE Inherited(d, e)
    <3>1. PICK c \in DOMAIN dirs :
             /\ e \in DOMAIN TablesOf(c)
             /\ a = TablesOf(c)[e]
             /\ dirs'[d].tablesPhysical[e] = dirs[c].tablesPhysical[e]
      BY <1>3, <2>1 DEF Inherited
    <3>2. a \in {KT(0), KT(KH)} \/ Block(a)
      BY <3>1 DEF Located
    <3>3. \/ a \in Nat /\ a < placement_address
          \/ a \div PAGE \in KHEAP_START..(end - 1)
      BY <3>2, BlockPages DEF RCore
    <3>4. Translated(a)' = Translated(a)
      BY <3>3, TranslatedStays DEF MapStep
    <3> QED
      BY <3>1, <3>4 DEF Walked
  <2>2. CASE Made(d, e)
    <3>1. a = top * PAGE /\ top \in Nat /\ top \div ENTRIES = KH
          /\ dirs'[d].tablesPhysical[e] = Physical(tables', a)
      BY <1>3, <2>2 DEF Made, RCore
    <3>2. a \div PAGE = top
      BY <1>1, <3>1, IndexOfPage
    <3>3. Translated(a)' = Physical(tables', a)
      BY <3>1, <3>2, PhysicalIsTranslated DEF MapStep, OfKernel
    <3> QED
      BY <3>1, <3>3
  <2> QED
    BY <2>1, <2>2 DEF MapStep
<1>4. Placed'
  <2>1. PICK m \in 0..LIMIT : Identity(m) /\ placement_address <= m * PAGE
    BY DEF RCore
  <2>2. Identity(m)' /\ LIMIT' = LIMIT
    BY <2>1, IdentityKept DEF LIMIT, NFRAMES, PAGE
  <2>3. placement_address \in Nat \ {0}
    BY DEF RCore
  <2> QED
    BY <1>1, <2>1, <2>2, <2>3 DEF Placed, MapStep, KernelStays
<1>5. Whole'
  <2>1. \A d : InitiallyMapped(d)' = InitiallyMapped(d)
    BY DEF InitiallyMapped, DIR_SIZE, PAGE
  <2> QED
    BY <1>1, <1>2, <2>1 DEF Whole
<1>6. Walked'
  BY <1>3 DEF Walked, TablesOf
<1> QED
  BY <1>4, <1>5, <1>6

LEMMA UpStepKeeps ==
    ASSUME RCore, OnHeap, Located, Whole, Walked, UpStep
    PROVE  RCore' /\ Located' /\ Whole' /\ Walked'
<1>1. /\ KH' = KH /\ LIMIT' = LIMIT /\ PAGE' = PAGE /\ InitialEnd' = InitialEnd
      /\ DOMAIN TablesOf(kernel_directory)' = DOMAIN TablesOf(kernel_directory)
      /\ \A n : KT(n)' = KT(n)
  BY DEF KH, LIMIT, NFRAMES, PAGE, InitialEnd, UpStep, MapStep, KernelStays, TablesOf, KT
<1>2. KHEAP_START \in Nat /\ PAGE \in Nat \ {0} /\ InitialEnd \in Nat
  BY LayoutAssumption, PagePositive DEF InitialEnd
<1>3. \E m \in 0..LIMIT : Identity(m)' /\ placement_address' <= m * PAGE
  BY IdentityKept DEF RCore, UpStep, MapStep
<1>4. \A q \in KHEAP_START..(end' - 1) : q \div ENTRIES = KH
  <2> TAKE q \in KHEAP_START..(end' - 1)
  <2>1. end' \in Nat /\ end \in Nat
    BY DEF UpStep, RCore
  <2>2. q \in Nat /\ KHEAP_START <= q /\ q < end'
    BY <1>2, <2>1, IntervalIs
  <2>3. CASE q < end
    <3>1. q \in KHEAP_START..(end - 1)
      BY <1>2, <2>1, <2>2, <2>3
    <3> QED
      BY <3>1 DEF RCore
  <2>4. CASE ~(q < end)
    <3>0. end <= q
      BY <2>1, <2>2, <2>4
    <3>1. q \in end..(end' - 1)
      BY <2>1, <2>2, <3>0, IntervalIs
    <3> QED
      BY <2>2, <3>1, HeapPageTable DEF UpStep
  <2> QED
    BY <2>3, <2>4
<1>5. \E m \in Nat : InARow(tables', m, InitialEnd)
  <2>1. PICK m \in Nat : InARow(tables, m, InitialEnd)
    BY DEF RCore
  <2>2. ASSUME NEW q \in KHEAP_START..(InitialEnd - 1)
        PROVE  EntryAt(tables'[KT(KH)], q) = EntryAt(tables[KT(KH)], q)
    <3>1. q \in KHEAP_START..(end - 1)
      BY <1>2 DEF RCore
    <3> QED
      BY <3>1 DEF UpStep, MapStep, KernelKept
  <2> QED
    BY <2>1, <2>2 DEF InARow
<1>6. RCore'
  <2>1. \A n \in {0, KH} : KT(n)' \in Nat /\ KT(n)' < placement_address' /\ KT(n)' \in DOMAIN tables'
    BY <1>1 DEF RCore, UpStep, MapStep
  <2>2. top' >= KHEAP_START /\ InitialEnd <= end'
    BY <1>2 DEF RCore, UpStep
  <2>3. \E m \in Nat : InARow(tables, m, InitialEnd)'
    <3>1. \A m : InARow(tables, m, InitialEnd)' <=> InARow(tables', m, InitialEnd)
      BY <1>1 DEF InARow, EntryAt, Unmapped
    <3> QED
      BY <1>5, <3>1
  <2>4. kernel_directory' \in DOMAIN dirs' /\ kernel_directory' \in Nat
        /\ kernel_directory' + DIR_SIZE' <= placement_address'
    BY DEF RCore, UpStep, MapStep, KernelStays, DIR_SIZE, PAGE
  <2> QED
    BY <1>1, <1>3, <1>4, <2>1, <2>2, <2>3, <2>4 DEF RCore, UpStep, MapStep
<1>7. \A a : Block(a) => Block(a)'
  <2> SUFFICES ASSUME NEW a, Block(a) PROVE Block(a)'
    OBVIOUS
  <2>1. KHEAP_START..(top - 1) \subseteq KHEAP_START..(top' - 1)
    BY <1>2, IntervalGrows DEF RCore, UpStep
  <2>2. PICK q \in KHEAP_START..(top - 1) : a = q * PAGE
    BY DEF Block
  <2>3. \E z \in KHEAP_START..(top' - 1) : a = z * PAGE
    BY <2>1, <2>2
  <2> QED
    BY <1>1, <2>3, Zenon DEF Block
<1>8. ASSUME NEW d \in DOMAIN dirs', NEW e \in DOMAIN dirs'[d].tables, NEW a, a = dirs'[d].tables[e]
      PROVE  /\ e \in 0..(ENTRIES - 1)
             /\ e \in {0, KH} => a = KT(e)
             /\ e \notin {0, KH} => Block(a)'
  <2>1. CASE Inherited(d, e)
    <3>1. PICK c \in DOMAIN dirs : e \in DOMAIN TablesOf(c) /\ a = TablesOf(c)[e]
      BY <1>8, <2>1 DEF Inherited
    <3> QED
      BY <1>7, <3>1 DEF Located
  <2>2. CASE Made(d, e)
    <3>1. e \in 0..(ENTRIES - 1) /\ e \notin {0, KH} /\ top < top' /\ a = top * PAGE
      BY <1>8, <2>2 DEF Made
    <3>2. top \in KHEAP_START..(top' - 1)
      <4>1. top \in Nat /\ KHEAP_START <= top /\ top' \in Nat
        BY <1>2 DEF RCore, UpStep
      <4> QED
        BY <1>2, <3>1, <4>1, IntervalIs
    <3>3. \E q \in KHEAP_START..(top' - 1) : a = q * PAGE
      BY <3>1, <3>2
    <3>4. Block(a)'
      BY <1>1, <3>3, Zenon DEF Block
    <3> QED
      BY <3>1, <3>4
  <2> QED
    BY <2>1, <2>2 DEF UpStep, MapStep
<1>9. Located'
  <2>1. \A d \in DOMAIN dirs' : \A e \in DOMAIN dirs'[d].tables :
           /\ e \in 0..(ENTRIES - 1)
           /\ e \in {0, KH} => dirs'[d].tables[e] = KT(e)
           /\ e \notin {0, KH} => \A a \in {dirs'[d].tables[e]} : Block(a)'
    BY <1>8
  <2> QED
    BY <1>1, <2>1 DEF Located, TablesOf, Block
<1> QED
  BY <1>6, <1>9, MapStepWalks DEF UpStep

(***************************************************************************)
(* create_heap: what was placed lies below the heap and is where it is.     *)
(***************************************************************************)
LEMMA IdentityEntry ==
    ASSUME kernel_directory \in DOMAIN dirs, NEW m, Identity(m), NEW p \in 0..(m - 1)
    PROVE  KernelEntry(tables, p) = [present |-> TRUE, frame |-> p]
<1>1. p \in Nat /\ p < ENTRIES
  BY LimitInTable, PagePositive DEF Identity
<1>2. p \div ENTRIES = 0 /\ p % ENTRIES = p
  BY <1>1, SmallIndex
<1>3. Has(0) /\ p \in DOMAIN tables[KT(0)] /\ tables[KT(0)][p] = [present |-> TRUE, frame |-> p]
  BY DEF Identity
<1>4. HasTable(kernel_directory, p) /\ KernelTable(p) = KT(0)
  BY <1>2, <1>3 DEF HasTable, Has, KernelTable, KT, TablesOf
<1>5. EntryAt(tables[KT(0)], p) = [present |-> TRUE, frame |-> p]
  BY <1>2, <1>3 DEF EntryAt
<1> QED
  BY <1>4, <1>5, Zenon DEF KernelEntry

LEMMA IdentityTranslates ==
    ASSUME kernel_directory \in DOMAIN dirs, NEW m, Identity(m), NEW a \in Nat, a < m * PAGE
    PROVE  Translated(a) = a
<1> DEFINE p == a \div PAGE
<1>1. PAGE \in Nat \ {0} /\ m \in Nat
  BY PagePositive, LimitInTable DEF Identity
<1>2. p \in Nat /\ p < m
  BY <1>1, DivBelow
<1>3. p \in 0..(m - 1)
  BY <1>1, <1>2
<1> HIDE DEF p
<1>4. KernelEntry(tables, p).frame = p
  BY <1>3, IdentityEntry
<1>5. \A n \in Nat \ {0} : ((a \div n) * n) + (a % n) = a
  BY SMT
<1> QED
  BY <1>1, <1>4, <1>5 DEF Translated, p

LEMMA CreateHeapIsUp == IInv /\ FInv /\ BInv /\ CreateHeap => RInv'
<1> SUFFICES ASSUME IInv, FInv, BInv, CreateHeap PROVE RInv'
  OBVIOUS
<1>1. /\ pc = "create" /\ Placing /\ InHeap /\ TablesExist
      /\ kernel_directory \in DOMAIN dirs /\ DOMAIN dirs = {kernel_directory}
      /\ UNCHANGED <<frames, tables, dirs, kernel_directory>>
      /\ placement_address' = placement_address + HEAP_STRUCT
      /\ top' = KHEAP_START + INDEX_PAGES /\ end' = KHEAP_START + KHEAP_PAGES /\ pc' = "clone"
  BY DEF CreateHeap, BInv, FInv, IInv, Booting, KernelBelowHeap, Boot, mapVars
<1>2. /\ KH' = KH /\ LIMIT' = LIMIT /\ PAGE' = PAGE
      /\ (\A n : KT(n)' = KT(n)) /\ (\A n : Has(n)' = Has(n)) /\ (\A m : Identity(m)' = Identity(m))
  BY <1>1 DEF KH, LIMIT, NFRAMES, PAGE, KT, Has, TablesOf, Identity
<1>3. /\ HEAP_STRUCT \in Nat /\ HEAP_STRUCT <= PAGE
      /\ KHEAP_START \in Nat /\ KHEAP_PAGES \in Nat /\ INDEX_PAGES \in Nat /\ INDEX_PAGES < KHEAP_PAGES
      /\ ENTRIES \in Nat \ {0} /\ PAGE \in Nat \ {0} /\ ENTRIES <= KHEAP_START
      /\ LIMIT \in Nat /\ LIMIT <= ENTRIES
  <2>1. HEAP_STRUCT \in Nat /\ KHEAP_START \in Nat /\ KHEAP_PAGES \in Nat /\ INDEX_PAGES \in Nat
    BY LayoutAssumption
  <2> QED
    BY <2>1, LayoutAssumption, PagePositive, BootFits, LimitInTable
<1>4. KH \in Nat /\ KH > 0 /\ KH < ENTRIES
  BY HeapTable, HeapTableLow
<1>5. PICK m \in 0..LIMIT :
         Identity(m) /\ placement_address + PAGE <= m * PAGE /\ InARow(tables, m, InitialEnd)
  <2>1. PICK m \in 0..(LIMIT - KHEAP_PAGES) :
           Identity(m) /\ placement_address + PAGE <= m * PAGE /\ InARow(tables, m, i)
    BY <1>1 DEF InHeap
  <2>2. i = InitialEnd
    BY <1>1 DEF InHeap, InitialEnd
  <2>3. m \in 0..LIMIT
    BY <1>3
  <2> QED
    BY <2>1, <2>2, <2>3
<1>6. /\ placement_address \in Nat /\ placement_address' \in Nat
      /\ placement_address <= placement_address' /\ placement_address' <= m * PAGE
      /\ placement_address < m * PAGE
      /\ placement_address' <= KHEAP_START * PAGE
  <2>1. m \in Nat /\ m <= LIMIT /\ m <= KHEAP_START /\ m * PAGE \in Nat /\ KHEAP_START * PAGE \in Nat
    BY <1>3, <1>5
  <2>2. m * PAGE <= KHEAP_START * PAGE
    BY <1>3, <2>1, ProductGrows
  <2>3. placement_address \in Nat
    BY <1>1 DEF Placing
  <2> QED
    BY <1>1, <1>3, <1>5, <2>1, <2>2, <2>3
<1>7. /\ DOMAIN TablesOf(kernel_directory) = {0, KH} /\ KT(0) # KT(KH)
      /\ \A n \in {0, KH} : KT(n) \in Nat /\ KT(n) < placement_address /\ KT(n) \in DOMAIN tables
  BY <1>1 DEF Placing, InHeap, TablesExist, KT, Has
<1>8. RCore'
  <2>1. \A n \in {0, KH} : KT(n) \in Nat /\ KT(n) < placement_address'
    BY <1>1, <1>3, <1>6, <1>7
  <2>2. \A q \in KHEAP_START..(end' - 1) : q \div ENTRIES = KH
    <3>1. end' - 1 = KHEAP_START + KHEAP_PAGES - 1
      BY <1>1, <1>3
    <3> QED
      BY <3>1, HeapTable
  <2>3. top' \in Nat /\ top' >= KHEAP_START /\ end' \in Nat /\ top' <= end' /\ InitialEnd <= end'
    BY <1>1, <1>3 DEF InitialEnd
  <2>4. \E n \in 0..LIMIT : Identity(n)' /\ placement_address' <= n * PAGE
    BY <1>2, <1>5, <1>6
  <2>5. DOMAIN TablesOf(kernel_directory)' = {0, KH} /\ 0 \in frames'
    BY <1>1, <1>7 DEF TablesOf, InHeap
  <2>6. placement_address' \in Nat /\ placement_address' <= KHEAP_START * PAGE
    BY <1>6
  <2>7. \E n \in Nat : InARow(tables, n, InitialEnd)'
    <3>1. m \in Nat
      BY <1>3, <1>5
    <3>2. tables' = tables /\ KT(KH)' = KT(KH)
      BY <1>1, <1>2
    <3>3. InARow(tables, m, InitialEnd) => InARow(tables, m, InitialEnd)'
      BY <3>2 DEF InARow, InitialEnd, EntryAt, Unmapped
    <3> QED
      BY <1>5, <3>1, <3>3
  <2>8. kernel_directory' \in Nat /\ kernel_directory' + DIR_SIZE' <= placement_address'
    <3>1. DIR_SIZE' = DIR_SIZE /\ DIR_SIZE \in Nat
      BY <1>3 DEF DIR_SIZE, PAGE
    <3>2. kernel_directory \in Nat /\ kernel_directory + DIR_SIZE <= placement_address
      BY <1>1 DEF Placing
    <3> QED
      BY <1>1, <1>6, <3>1, <3>2
  <2> QED
    BY <1>1, <1>2, <1>7, <2>1, <2>2, <2>3, <2>4, <2>5, <2>6, <2>7, <2>8 DEF RCore, InitialEnd
<1>9. Located'
  <2>1. \A d \in DOMAIN dirs' : \A e \in DOMAIN dirs'[d].tables :
           e \in {0, KH} /\ e \in 0..(ENTRIES - 1) /\ dirs'[d].tables[e] = KT(e)
    BY <1>1, <1>3, <1>4, <1>7 DEF KT, TablesOf
  <2> QED
    BY <1>2, <2>1 DEF Located, TablesOf
<1>10. Walked'
  <2>1. \A a : Translated(a)' = Translated(a)
    BY <1>1 DEF Translated, KernelEntry, HasTable, KernelTable, EntryAt, Unmapped, PAGE
  <2>2. \A n \in {0, KH} : Translated(KT(n)) = KT(n)
    <3> TAKE n \in {0, KH}
    <3>1. KT(n) \in Nat /\ KT(n) < m * PAGE
      <4>1. KT(n) \in Nat /\ KT(n) < placement_address
        BY <1>7
      <4>2. m * PAGE \in Nat
        BY <1>3, <1>5
      <4> QED
        BY <1>6, <4>1, <4>2
    <3> QED
      BY <1>1, <1>5, <3>1, IdentityTranslates
  <2>3. \A n \in {0, KH} : dirs[kernel_directory].tablesPhysical[n] = KT(n)
    BY <1>1, <1>7 DEF Placing
  <2>4. \A d \in DOMAIN dirs' : \A e \in DOMAIN dirs'[d].tables : \A a \in {dirs'[d].tables[e]} :
           Translated(a)' = dirs'[d].tablesPhysical[e]
    <3> TAKE d \in DOMAIN dirs'
    <3> TAKE e \in DOMAIN dirs'[d].tables
    <3> TAKE a \in {dirs'[d].tables[e]}
    <3>1. d = kernel_directory /\ dirs'[d] = dirs[kernel_directory] /\ e \in {0, KH} /\ a = KT(e)
      BY <1>1, <1>7 DEF TablesOf, KT
    <3> QED
      BY <2>1, <2>2, <2>3, <3>1
  <2> QED
    BY <2>4 DEF Walked, TablesOf
<1>11. Whole'
  <2>1. \A a : Translated(a)' = Translated(a)
    BY <1>1 DEF Translated, KernelEntry, HasTable, KernelTable, EntryAt, Unmapped, PAGE
  <2>2. \A d \in {kernel_directory} : dirs[d].physicalAddr = d + PAGE /\ Translated(d + PAGE) = d + PAGE
    <3> TAKE d \in {kernel_directory}
    <3>1. d \in Nat /\ d + DIR_SIZE <= placement_address /\ dirs[d].physicalAddr = d + PAGE
      BY <1>1 DEF Placing
    <3>2. d + PAGE \in Nat /\ d + PAGE < placement_address
      BY <1>3, <1>6, <3>1 DEF DIR_SIZE
    <3>3. m * PAGE \in Nat /\ d + PAGE < m * PAGE
      BY <1>3, <1>5, <1>6, <3>2
    <3>4. Translated(d + PAGE) = d + PAGE
      BY <1>1, <1>5, <3>2, <3>3, IdentityTranslates
    <3> QED
      BY <3>1, <3>4
  <2>3. \A d \in DOMAIN dirs' : dirs'[d].physicalAddr = Translated(d + PAGE)'
    <3> TAKE d \in DOMAIN dirs'
    <3>1. d = kernel_directory /\ dirs'[d] = dirs[kernel_directory]
      BY <1>1
    <3> QED
      BY <2>1, <2>2, <3>1
  <2> QED
    BY <1>2, <2>3 DEF Whole
<1> QED
  BY <1>1, <1>8, <1>9, <1>10, <1>11 DEF RInv, StackRange

(***************************************************************************)
(* The steps of the kernel once paging is on.                               *)
(***************************************************************************)

\* The directories' half of a step.
Entered ==
    /\ \A d \in DOMAIN dirs' : Lasting(d) \/ Cloned(d)
    /\ \A d \in DOMAIN dirs' : \A e \in DOMAIN dirs'[d].tables : Inherited(d, e) \/ Made(d, e)

Filled == kernel_directory \in DOMAIN dirs' /\ dirs'[kernel_directory] = dirs[kernel_directory] /\ Entered

LEMMA DirsStayFilled ==
    ASSUME kernel_directory \in DOMAIN dirs, UNCHANGED dirs
    PROVE  Filled
  BY DEF Filled, Entered, Inherited, Lasting, TablesOf

\* A directory with no table yet.
LEMMA NewDirectoryFilled ==
    ASSUME kernel_directory \in DOMAIN dirs, NEW a, a = top * PAGE, a \notin DOMAIN dirs,
           NEW new, new.tables = <<>>, new.physicalAddr = Physical(tables', a) + PAGE,
           dirs' = With(dirs, a, new)
    PROVE  Filled
<1>1. /\ DOMAIN dirs' = DOMAIN dirs \cup {a}
      /\ \A d \in DOMAIN dirs' : dirs'[d] = IF d = a THEN new ELSE dirs[d]
  BY DEF With
<1>2. DOMAIN new.tables = {}
  OBVIOUS
<1>3. \A d \in DOMAIN dirs' : Lasting(d) \/ Cloned(d)
  BY <1>1 DEF Lasting, Cloned
<1> QED
  BY <1>1, <1>2, <1>3 DEF Filled, Entered, Inherited, TablesOf

\* A directory with one more table.
LEMMA NewTableEntered ==
    ASSUME TablesExist, NEW d \in DOMAIN dirs,
           NEW p, NEW t, NEW physical, dirs' = AddTable(d, p, t, physical),
           Inherited(d, p \div ENTRIES) \/ Made(d, p \div ENTRIES)
    PROVE  Entered
<1> DEFINE n == p \div ENTRIES
<1>1. /\ DOMAIN dirs' = DOMAIN dirs
      /\ DOMAIN dirs'[d].tables = DOMAIN TablesOf(d) \cup {n}
      /\ \A e \in DOMAIN TablesOf(d) \ {n} : dirs'[d].tables[e] = TablesOf(d)[e]
      /\ \A c \in DOMAIN dirs \ {d} : dirs'[c] = dirs[c]
  BY AddTableIs
<1>2. /\ \A e \in DOMAIN TablesOf(d) \ {n} : dirs'[d].tablesPhysical[e] = dirs[d].tablesPhysical[e]
      /\ dirs'[d].physicalAddr = dirs[d].physicalAddr
  <2>1. DOMAIN dirs[d].tablesPhysical = DOMAIN TablesOf(d)
    BY DEF TablesExist
  <2> QED
    BY <2>1, AddPhysicalIs
<1>3. Inherited(d, n) \/ Made(d, n)
  OBVIOUS
<1> HIDE DEF n
<1>4. ASSUME NEW c \in DOMAIN dirs', NEW e \in DOMAIN dirs'[c].tables
      PROVE  Inherited(c, e) \/ Made(c, e)
  <2>1. CASE c # d
    BY <1>1, <2>1 DEF Inherited, TablesOf
  <2>2. CASE c = d /\ e # n
    BY <1>1, <1>2, <2>2 DEF Inherited
  <2>3. CASE c = d /\ e = n
    BY <1>3, <2>3
  <2> QED
    BY <2>1, <2>2, <2>3
<1>5. \A c \in DOMAIN dirs' : Lasting(c)
  BY <1>1, <1>2 DEF Lasting
<1> QED
  BY <1>4, <1>5 DEF Entered

LEMMA NewTableFilled ==
    ASSUME TablesExist, kernel_directory \in DOMAIN dirs, NEW d \in DOMAIN dirs \ {kernel_directory},
           NEW p, NEW t, NEW physical, dirs' = AddTable(d, p, t, physical),
           Inherited(d, p \div ENTRIES) \/ Made(d, p \div ENTRIES)
    PROVE  Filled
  BY NewTableEntered, AddTableIs DEF Filled

LEMMA FilledIsMapStep ==
    ASSUME RCore, Filled, UNCHANGED <<placement_address, kernel_directory>>,
           DOMAIN tables \subseteq DOMAIN tables', KernelKept(tables')
    PROVE  MapStep
<1>1. KernelStays
  BY DEF KernelStays, Filled, RCore, KT, TablesOf
<1> QED
  BY <1>1 DEF MapStep, Filled, Entered

\* Steps that hand out no memory.
LEMMA StillIsUpStep ==
    ASSUME RCore, Filled, UNCHANGED <<frames, tables, heapVars, placement_address, kernel_directory>>
    PROVE  UpStep
<1>1. KernelKept(tables')
  BY DEF KernelKept, Same
<1>2. top' \in Nat /\ top <= top' /\ end' \in Nat /\ top' <= end' /\ end <= end'
  BY DEF RCore, heapVars
<1>3. \A q \in end..(end' - 1) : HasTable(kernel_directory, q)
  <2>1. end' = end /\ end \in Nat
    BY DEF RCore, heapVars
  <2> QED
    BY <2>1
<1> QED
  BY <1>1, <1>2, <1>3, FilledIsMapStep DEF UpStep, Filled

\* The heap hands out a block.
LEMMA TakeIs ==
    ASSUME RCore, NEW n \in {1, 2}, NEW e \in Ends(n), Take(n, e)
    PROVE  /\ top' \in Nat /\ top < top' /\ end' \in Nat /\ top' <= end' /\ end <= end'
           /\ \A q \in end..(end' - 1) : HasTable(kernel_directory, q)
           /\ top \div ENTRIES = KH
           /\ KernelKept(TablesAfter(e)) /\ DOMAIN TablesAfter(e) = DOMAIN tables
           /\ frames \subseteq FramesAfter(e)
<1>1. top \in Nat /\ end \in Nat /\ e \in Nat /\ top + n + 1 <= e /\ end <= e
      /\ KHEAP_START \in Nat /\ KHEAP_START <= top
  BY LayoutAssumption DEF RCore, Ends
<1>2. top' = top + n + 1 /\ end' = e /\ Tableless(e) = {}
  BY Zenon DEF Take, Stops
<1>3. \A q \in end..(e - 1) : HasTable(kernel_directory, q)
  BY <1>2 DEF Tableless
<1>4. frames \subseteq FramesAfter(e)
  BY DEF FramesAfter
<1>5. KernelKept(TablesAfter(e)) /\ DOMAIN TablesAfter(e) = DOMAIN tables
  BY <1>1, <1>2, ExpandKeepsKernel
<1>6. top \div ENTRIES = KH
  <2>1. CASE top < end
    <3>1. top \in KHEAP_START..(end - 1)
      BY <1>1, <2>1
    <3> QED
      BY <3>1 DEF RCore
  <2>2. CASE ~(top < end)
    <3>1. top \in end..(e - 1)
      BY <1>1, <2>2
    <3> QED
      BY <1>1, <1>3, <3>1, HeapPageTable
  <2> QED
    BY <2>1, <2>2
<1> QED
  BY <1>1, <1>2, <1>3, <1>4, <1>5, <1>6

LEMMA TakeIsUpStep ==
    ASSUME RCore, NEW n \in {1, 2}, NEW e \in Ends(n), Take(n, e), Filled,
           UNCHANGED <<placement_address, kernel_directory>>,
           DOMAIN tables \subseteq DOMAIN tables', Agree(tables', TablesAfter(e)),
           FramesAfter(e) \subseteq frames'
    PROVE  UpStep
<1>1. /\ top' \in Nat /\ top < top' /\ end' \in Nat /\ top' <= end' /\ end <= end'
      /\ \A q \in end..(end' - 1) : HasTable(kernel_directory, q)
      /\ KernelKept(TablesAfter(e)) /\ frames \subseteq FramesAfter(e)
  BY TakeIs
<1>2. KernelKept(tables')
  BY <1>1, AgreeKept
<1>3. top <= top'
  BY <1>1 DEF RCore
<1> QED
  BY <1>1, <1>2, <1>3, FilledIsMapStep DEF UpStep, Filled

LEMMA AgreeSelf ==
    ASSUME NEW ts
    PROVE  Agree(ts, ts)
  BY DEF Agree, Same

LEMMA KmallocIsUpStep ==
    ASSUME RCore, NEW n \in {1, 2}, NEW e \in Ends(n), Take(n, e),
           frames' = FramesAfter(e), tables' = TablesAfter(e),
           UNCHANGED <<dirs, placement_address, kernel_directory>>
    PROVE  UpStep
<1>1. DOMAIN TablesAfter(e) = DOMAIN tables
  BY TakeIs
<1>2. Filled
  BY DirsStayFilled DEF RCore
<1>3. Agree(tables', TablesAfter(e))
  BY AgreeSelf
<1> QED
  BY <1>1, <1>2, <1>3, TakeIsUpStep

LEMMA CloneDirectoryIsUpStep ==
    ASSUME RCore, IInv, pc \in {"clone", "run"}, NEW e \in Ends(2), Take(2, e),
           frames' = FramesAfter(e), tables' = TablesAfter(e),
           NEW new, new.tables = <<>>,
           new.physicalAddr = Physical(TablesAfter(e), top * PAGE) + PAGE,
           dirs' = With(dirs, top * PAGE, new),
           UNCHANGED <<placement_address, kernel_directory>>
    PROVE  UpStep
<1>1. DOMAIN TablesAfter(e) = DOMAIN tables
  BY TakeIs
<1>2. Filled
  BY TopIsFresh, NewDirectoryFilled DEF RCore
<1>3. Agree(tables', TablesAfter(e))
  BY AgreeSelf
<1> QED
  BY <1>1, <1>2, <1>3, TakeIsUpStep

LEMMA LinkTableIsUpStep ==
    ASSUME RCore, IInv, FInv, LinkTable
    PROVE  UpStep
<1>1. /\ pc = "clone" /\ dir # 0 /\ Remaining # {}
      /\ dirs' = AddTable(dir, NextTable * ENTRIES, Source.tables[NextTable], Source.tablesPhysical[NextTable])
      /\ UNCHANGED <<frames, tables, heapVars, placement_address, kernel_directory>>
  BY DEF LinkTable
<1>2. dir \in DOMAIN dirs \ {kernel_directory} /\ current_directory \in DOMAIN dirs
  BY <1>1 DEF IInv, Running
<1>3. NextTable \in DOMAIN Source.tables /\ (NextTable * ENTRIES) \div ENTRIES = NextTable
  BY <1>1, NextTableIsNext
<1> DEFINE n == NextTable
           t == Source.tables[n]
           physical == Source.tablesPhysical[n]
<1>4. DOMAIN dirs[dir].tablesPhysical = DOMAIN TablesOf(dir) /\ TablesExist
  BY <1>2 DEF FInv, TablesExist
<1>5. dirs'[dir].tables[n] = t /\ dirs'[dir].tablesPhysical[n] = physical
  <2>1. dirs' = AddTable(dir, n * ENTRIES, t, physical)
    BY <1>1
  <2> HIDE DEF t, physical
  <2> QED
    BY <1>2, <1>3, <2>1, AddTableIs, AddPhysicalIs
<1>6. Inherited(dir, n)
  BY <1>2, <1>3, <1>5 DEF Inherited, Source, TablesOf
<1>7. Filled
  BY <1>1, <1>2, <1>3, <1>4, <1>6, NewTableFilled DEF RCore
<1> QED
  BY <1>1, <1>7, StillIsUpStep

\* A table that the heap has just handed out the block of.
LEMMA MadeTableFilled ==
    ASSUME RCore, TablesExist, NEW d \in DOMAIN dirs \ {kernel_directory}, NEW p,
           p \div ENTRIES \in 0..(ENTRIES - 1), p \div ENTRIES \notin {0, KH},
           top < top', top \div ENTRIES = KH,
           dirs' = AddTable(d, p, top * PAGE, Physical(tables', top * PAGE))
    PROVE  Filled
<1> DEFINE n == p \div ENTRIES
           t == top * PAGE
           physical == Physical(tables', t)
<1>1. DOMAIN dirs[d].tablesPhysical = DOMAIN TablesOf(d)
  BY DEF TablesExist
<1>2. dirs'[d].tables[n] = t /\ dirs'[d].tablesPhysical[n] = physical
  <2>1. dirs' = AddTable(d, p, t, physical)
    OBVIOUS
  <2> HIDE DEF t, physical
  <2> QED
    BY <2>1, AddTableIs, AddPhysicalIs
<1>3. Made(d, n)
  BY <1>2 DEF Made
<1> QED
  BY <1>3, NewTableFilled DEF RCore

LEMMA KernelTablesInHeap ==
    ASSUME RCore, NEW n \in {1, 2}, NEW e \in Ends(n), Take(n, e)
    PROVE  KT(0) \in DOMAIN TablesAfter(e) /\ KT(KH) \in DOMAIN TablesAfter(e)
  BY TakeIs DEF RCore

LEMMA CloneTableIsUpStep ==
    ASSUME RCore, Located, IInv, FInv, pc = "clone", dir # 0, Remaining # {}, ~InKernel(NextTable),
           NEW e \in Ends(1), Take(1, e), NEW ts, ts = With(TablesAfter(e), top * PAGE, <<>>),
           NEW S, NEW at, DOMAIN at = {top * PAGE} \X S, tables' = Map(ts, at),
           FramesAfter(e) \subseteq frames',
           dirs' = AddTable(dir, NextTable * ENTRIES, top * PAGE, Physical(ts, top * PAGE)),
           UNCHANGED <<placement_address, kernel_directory>>
    PROVE  UpStep
<1> DEFINE a == top * PAGE
           n == NextTable
<1>1. dir \in DOMAIN dirs \ {kernel_directory} /\ current_directory \in DOMAIN dirs \ {dir}
  BY DEF IInv, Running
<1>2. n \in DOMAIN Source.tables /\ (n * ENTRIES) \div ENTRIES = n
  BY NextTableIsNext
<1>3. n \in 0..(ENTRIES - 1) /\ n \notin {0, KH}
  <2>1. n \notin DOMAIN TablesOf(kernel_directory)
    BY <1>1, <1>2 DEF IInv, Linked, HasKernelTable, InKernel, Source, TablesOf
  <2>2. n \in 0..(ENTRIES - 1)
    BY <1>1, <1>2 DEF Located, Source, TablesOf
  <2> QED
    BY <2>1, <2>2 DEF RCore
<1>4. /\ top \in Nat /\ top >= KHEAP_START
      /\ KT(0) \in DOMAIN TablesAfter(e) /\ KT(KH) \in DOMAIN TablesAfter(e)
      /\ DOMAIN TablesAfter(e) = DOMAIN tables /\ top < top' /\ top \div ENTRIES = KH
  BY KernelTablesInHeap, TakeIs DEF RCore
<1>5. DOMAIN ts = DOMAIN tables \cup {a}
  BY <1>4 DEF With
<1>7. \A m \in {0, KH} : \A x : <<KT(m), x>> \notin DOMAIN at
  BY <1>4, BlockIsNotKernels
<1>8. Agree(ts, TablesAfter(e))
  BY <1>4, NewTableAgrees
<1>9. dirs' = AddTable(dir, n * ENTRIES, a, Physical(ts, a))
  OBVIOUS
<1> HIDE DEF n, a
<1>10. DOMAIN tables' = DOMAIN ts
  BY DEF Map
<1>11. Agree(tables', ts)
  BY <1>4, <1>5, <1>7, MapAgrees
<1>12. Agree(tables', TablesAfter(e))
  BY <1>8, <1>11, AgreeTrans
<1>13. Physical(tables', a) = Physical(ts, a)
  BY <1>11, AgreePhysical
<1>14. dirs' = AddTable(dir, n * ENTRIES, top * PAGE, Physical(tables', top * PAGE))
  BY <1>9, <1>13 DEF a
<1>15. TablesExist
  BY DEF FInv
<1>16. Filled
  BY <1>1, <1>2, <1>3, <1>4, <1>14, <1>15, MadeTableFilled
<1> QED
  BY <1>5, <1>10, <1>12, <1>16, TakeIsUpStep

\* move_stack's pages are in none of the kernel's tables.
LEMMA StackIndex ==
    ASSUME NEW p \in (STACK_TOP - STACK_PAGES)..STACK_TOP
    PROVE  p \div ENTRIES \in 0..(ENTRIES - 1) /\ p \div ENTRIES \notin {0, KH}
<1>1. STACK_TOP \in Nat /\ STACK_PAGES \in Nat /\ STACK_PAGES <= STACK_TOP /\ ENTRIES \in Nat \ {0}
  <2>1. STACK_TOP \in Nat /\ STACK_PAGES \in Nat
    BY LayoutAssumption
  <2> QED
    BY <2>1, StackApart, PagePositive
<1>2. STACK_TOP < ENTRIES * ENTRIES
  <2>1. STACK_TOP \in 0..((ENTRIES * ENTRIES) - 1)
    BY StackApart
  <2>2. ENTRIES * ENTRIES \in Nat
    BY <1>1
  <2> QED
    BY <1>1, <2>1, <2>2
<1>3. p \in Nat /\ p < ENTRIES * ENTRIES
  <2>1. ENTRIES * ENTRIES \in Nat
    BY <1>1
  <2> QED
    BY <1>1, <1>2, <2>1
<1>4. p \div ENTRIES \in Nat /\ p \div ENTRIES < ENTRIES
  BY <1>1, <1>3, DivBelow
<1>5. p \div ENTRIES \notin {0, KH}
  BY StackApart DEF KH
<1> QED
  BY <1>1, <1>4, <1>5

LEMMA MoveStackMapsIsUpStep ==
    ASSUME RCore, Located, current_directory \in DOMAIN dirs,
           i \in (STACK_TOP - STACK_PAGES)..STACK_TOP,
           HasTable(current_directory, i), alloc_frame(tables, Source.tables[i \div ENTRIES], i),
           UNCHANGED <<dirs, heapVars, placement_address, kernel_directory>>
    PROVE  UpStep
<1> DEFINE t == Source.tables[i \div ENTRIES]
<1>1. i \div ENTRIES \notin {0, KH}
  BY StackIndex
<1>2. Block(t)
  BY <1>1 DEF Located, HasTable, Source, TablesOf
<1>3. KT(0) # t /\ KT(KH) # t
  <2>1. PICK q \in KHEAP_START..(top - 1) : t = q * PAGE
    BY <1>2 DEF Block
  <2>2. q \in Nat /\ q >= KHEAP_START
    BY <2>1, LayoutAssumption
  <2> QED
    BY <2>1, <2>2, BlockIsNotKernels
<1>4. alloc_frame(tables, t, i)
  OBVIOUS
<1> HIDE DEF t
<1>5. DOMAIN tables' = DOMAIN tables /\ frames \subseteq frames' /\ Agree(tables', tables)
  <2>1. CASE tables' = tables /\ UNCHANGED frames
    BY <2>1, AgreeSelf
  <2>2. CASE /\ tables' = Map(tables, [x \in {Slot(t, i)} |-> first_frame(frames)])
             /\ frames' = frames \cup {first_frame(frames)}
    <3> DEFINE new == [x \in {Slot(t, i)} |-> first_frame(frames)]
    <3>1. \A n \in {0, KH} : \A x : <<KT(n), x>> \notin DOMAIN new
      BY <1>3 DEF Slot
    <3>2. tables' = Map(tables, new)
      BY <2>2
    <3> HIDE DEF new
    <3>3. Agree(tables', tables)
      BY <3>1, <3>2, MapAgrees DEF RCore
    <3>4. DOMAIN tables' = DOMAIN tables
      BY <3>2 DEF Map
    <3> QED
      BY <2>2, <3>3, <3>4
  <2> QED
    BY <1>4, <2>1, <2>2, Zenon DEF alloc_frame
<1>6. KernelKept(tables')
  <2>1. KernelKept(tables)
    BY DEF KernelKept, Same
  <2> QED
    BY <1>5, <2>1, AgreeKept
<1>7. Filled
  BY DirsStayFilled DEF RCore
<1>8. top' \in Nat /\ top <= top' /\ end' \in Nat /\ top' <= end' /\ end' = end /\ end <= end'
  BY DEF RCore, heapVars
<1>9. \A q \in end..(end' - 1) : HasTable(kernel_directory, q)
  BY <1>8
<1> QED
  BY <1>5, <1>6, <1>7, <1>8, <1>9, FilledIsMapStep DEF UpStep, Filled

LEMMA MoveStackMakesIsUpStep ==
    ASSUME RCore, TablesExist, current_directory \in DOMAIN dirs \ {kernel_directory},
           i \in (STACK_TOP - STACK_PAGES)..STACK_TOP,
           NEW e \in Ends(1), Take(1, e), frames' = FramesAfter(e),
           tables' = With(TablesAfter(e), top * PAGE, <<>>),
           dirs' = AddTable(current_directory, i, top * PAGE, Physical(TablesAfter(e), top * PAGE)),
           UNCHANGED <<placement_address, kernel_directory>>
    PROVE  UpStep
<1> DEFINE a == top * PAGE
<1>1. /\ top \in Nat /\ top >= KHEAP_START
      /\ KT(0) \in DOMAIN TablesAfter(e) /\ KT(KH) \in DOMAIN TablesAfter(e)
      /\ DOMAIN TablesAfter(e) = DOMAIN tables /\ top < top' /\ top \div ENTRIES = KH
  BY KernelTablesInHeap, TakeIs DEF RCore
<1>2. DOMAIN tables' = DOMAIN tables \cup {a}
  BY <1>1 DEF With
<1>3. Agree(tables', TablesAfter(e))
  BY <1>1, NewTableAgrees
<1>4. Physical(tables', a) = Physical(TablesAfter(e), a)
  BY <1>3, AgreePhysical
<1>5. dirs' = AddTable(current_directory, i, top * PAGE, Physical(tables', top * PAGE))
  BY <1>4
<1>6. Filled
  BY <1>1, <1>5, StackIndex, MadeTableFilled
<1> QED
  BY <1>2, <1>3, <1>6, TakeIsUpStep

\* Any step once paging is on.
LEMMA MapsStayUp ==
    ASSUME RCore, UNCHANGED <<mapVars, heapVars, placement_address, kernel_directory>>
    PROVE  UpStep
<1>1. Filled
  BY DirsStayFilled DEF RCore, mapVars
<1> QED
  BY <1>1, StillIsUpStep DEF mapVars

\* The table that is made when the heap grows out of its first is for none of
\* the kernel's two, and is in a page of the heap.
LEMMA FarTable ==
    ASSUME RCore, FInv, NEW n \in {1, 2}, NEW e \in Ends(n), Tableless(e) # {}
    PROVE  /\ FirstTableless(e) \div ENTRIES \in 0..(ENTRIES - 1)
           /\ FirstTableless(e) \div ENTRIES \notin {0, KH}
<1>1. /\ end \in Nat /\ e \in Nat /\ e <= end + 3 /\ ENTRIES \in Nat /\ ENTRIES > 3
      /\ KHEAP_START \in Nat /\ KHEAP_START < end /\ KH \in Nat /\ KH + 1 < ENTRIES
  <2>1. end \in Nat /\ e \in Nat /\ e <= end + 3
    BY DEF RCore, Ends
  <2>2. KHEAP_START \in Nat /\ KHEAP_PAGES \in Nat \ {0} /\ ENTRIES \in Nat /\ ENTRIES > 3
    BY LayoutAssumption, HeapTableHasRoom
  <2>3. KHEAP_START < end
    BY <2>1, <2>2 DEF RCore, InitialEnd
  <2>4. KH \in Nat /\ KH + 1 < ENTRIES
    BY HeapTable, HeapTableHasRoom DEF KH
  <2> QED
    BY <2>1, <2>2, <2>3, <2>4
<1>2. PICK p : p = FirstTableless(e)
  OBVIOUS
<1>3. p \in Nat /\ p \in Tableless(e)
  BY <1>1, <1>2, FirstTablelessIs
<1>4. p <= end + 2 /\ ~HasTable(kernel_directory, p)
  BY <1>1, <1>3 DEF Tableless
<1>5. p \div ENTRIES \notin {0, KH}
  BY <1>4 DEF HasTable, RCore, TablesOf
<1>6. (end - 1) \div ENTRIES = KH
  <2>1. end - 1 \in KHEAP_START..(end - 1)
    BY <1>1
  <2> QED
    BY <2>1 DEF RCore
<1>7. p \div ENTRIES \in Nat /\ p \div ENTRIES < KH + 2
  <2>1. PICK z \in Nat : z = end - 1
    BY <1>1
  <2>2. \A x \in Nat, m \in Nat \ {0} : x < ((x \div m) + 1) * m
    BY SMT
  <2>3. z < (KH + 1) * ENTRIES
    BY <1>1, <1>6, <2>1, <2>2
  <2>4. (KH + 2) * ENTRIES = ((KH + 1) * ENTRIES) + ENTRIES /\ (KH + 1) * ENTRIES \in Nat
    BY <1>1
  <2>5. p < (KH + 2) * ENTRIES
    BY <1>1, <1>3, <1>4, <2>1, <2>3, <2>4
  <2> QED
    BY <1>1, <1>3, <2>5, DivBelow
<1> QED
  BY <1>1, <1>2, <1>5, <1>7

\* A step after which the kernel runs on, or stands still.
Indexes == \A d \in DOMAIN dirs : DOMAIN TablesOf(d) \subseteq 0..(ENTRIES - 1)

Stands == MapStep /\ Indexes' /\ DOMAIN dirs \subseteq DOMAIN dirs' /\ ~Up' /\ top' \in Nat

LEMMA MapsStayStands ==
    ASSUME RCore, Located, UNCHANGED <<mapVars, heapVars, placement_address, kernel_directory>>, ~Up'
    PROVE  Stands
<1>1. MapStep
  BY MapsStayUp DEF UpStep
<1> QED
  BY <1>1 DEF Stands, Indexes, Located, TablesOf, mapVars, heapVars, RCore

LEMMA StopStands ==
    ASSUME RCore, Located, FInv, NEW n \in {1, 2}, NEW e \in Ends(n), Stop(e)
    PROVE  Stands
<1> DEFINE r == Reached(e)
<1>1. ~Up' /\ UNCHANGED <<placement_address, kernel_directory>>
  BY DEF Stop, Up
<1>2. CASE RunsOut(Grown(r), frames)
  <2>1. UNCHANGED <<mapVars, heapVars>>
    BY <1>2 DEF Stop
  <2> QED
    BY <1>1, <2>1, MapsStayStands
<1>3. CASE ~RunsOut(Grown(r), frames)
  <2>1. end \in Nat /\ e \in Nat /\ r \in Nat /\ top \in Nat
    BY EndsIs, ReachedIs DEF RCore
  <2>2. tables' = TablesAfter(r)
    BY <1>3 DEF Stop
  <2>3. KernelKept(tables') /\ DOMAIN tables \subseteq DOMAIN tables'
    <3> HIDE DEF r
    <3> QED
      BY <2>1, <2>2, ExpandKeepsKernel
  <2>4. CASE ~HasRoom
    <3>1. UNCHANGED <<dirs, heapVars>>
      BY <1>3, <2>4 DEF Stop
    <3>2. MapStep
      BY <1>1, <2>3, <3>1, DirsStayFilled, FilledIsMapStep DEF RCore
    <3> QED
      BY <1>1, <2>1, <3>1, <3>2 DEF Stands, Indexes, Located, TablesOf, heapVars
  <2>5. CASE HasRoom
    <3>1. PICK p, x : p = FirstTableless(e) /\ x = p \div ENTRIES
      OBVIOUS
    <3>2. r = e
      BY <2>1, <2>5, ReachedIs
    <3>3. Tableless(e) # {}
      BY <1>3, <3>2 DEF Stop, Stops
    <3>4. x \in 0..(ENTRIES - 1) /\ x \notin {0, KH}
      BY <3>1, <3>3, FarTable
    <3>5. /\ dirs' = AddTable(kernel_directory, p, top * PAGE, Physical(TablesAfter(e), top * PAGE))
          /\ top' = top + 2
      BY <1>3, <2>5, <3>1 DEF Stop, NewTable
    <3>6. tables' = TablesAfter(e)
      BY <2>2, <3>2
    <3>7. dirs' = AddTable(kernel_directory, p, top * PAGE, Physical(tables', top * PAGE))
      BY <3>5, <3>6
    <3>8. kernel_directory \in DOMAIN dirs /\ TablesExist
      BY DEF RCore, FInv
    <3>9. /\ DOMAIN dirs' = DOMAIN dirs
          /\ DOMAIN dirs'[kernel_directory].tables = DOMAIN TablesOf(kernel_directory) \cup {x}
          /\ dirs'[kernel_directory].tables[x] = top * PAGE
          /\ \A z \in DOMAIN TablesOf(kernel_directory) \ {x} :
                dirs'[kernel_directory].tables[z] = TablesOf(kernel_directory)[z]
          /\ \A c \in DOMAIN dirs \ {kernel_directory} : dirs'[c] = dirs[c]
      BY <3>1, <3>7, <3>8, AddTableIs
    <3>10. dirs'[kernel_directory].tablesPhysical[x] = Physical(tables', top * PAGE)
      BY <3>1, <3>7, <3>8, AddPhysicalIs
    <3>11. top \div ENTRIES = KH /\ top < top'
      <4>1. top \in KHEAP_START..(end - 1)
        BY <2>1, <2>5, LayoutAssumption DEF HasRoom, RCore
      <4> QED
        BY <2>1, <3>5, <4>1 DEF RCore
    <3>12. Made(kernel_directory, x)
      BY <3>4, <3>9, <3>10, <3>11 DEF Made
    <3>13. Entered
      BY <3>1, <3>7, <3>8, <3>12, NewTableEntered
    <3>14. KernelStays
      BY <1>1, <3>4, <3>8, <3>9 DEF KernelStays, RCore, KT, TablesOf
    <3>15. MapStep
      BY <1>1, <2>3, <3>13, <3>14 DEF MapStep, Entered
    <3>16. Indexes'
      <4> SUFFICES ASSUME NEW d \in DOMAIN dirs', NEW z \in DOMAIN dirs'[d].tables
                   PROVE  z \in 0..(ENTRIES - 1)
        BY DEF Indexes, TablesOf
      <4>1. CASE d = kernel_directory
        BY <3>4, <3>8, <3>9, <4>1 DEF Located
      <4>2. CASE d # kernel_directory
        BY <3>9, <4>2 DEF Located, TablesOf
      <4> QED
        BY <4>1, <4>2
    <3> QED
      BY <1>1, <2>1, <3>5, <3>9, <3>15, <3>16 DEF Stands
  <2> QED
    BY <2>4, <2>5
<1> QED
  BY <1>2, <1>3

LEMMA KmallocUp ==
    ASSUME RCore, Located, FInv, NEW n \in {1, 2}, kmalloc(n)
    PROVE  Stands \/ (UpStep /\ pc' # "move_stack")
<1>1. PICK e \in Ends(n) :
         \/ Stop(e)
         \/ /\ Take(n, e) /\ frames' = FramesAfter(e) /\ tables' = TablesAfter(e)
            /\ UNCHANGED <<dirs, placement_address, kernel_directory, pc>>
  BY DEF kmalloc
<1>2. pc = "run"
  BY DEF kmalloc
<1>3. Stop(e) => Stands
  BY StopStands
<1> QED
  BY <1>1, <1>2, <1>3, KmallocIsUpStep

LEMMA CloneDirectoryUp ==
    ASSUME RCore, Located, IInv, FInv, CloneDirectory
    PROVE  Stands \/ (UpStep /\ pc' # "move_stack")
<1> DEFINE new(e) == [tables |-> <<>>, tablesPhysical |-> <<>>,
                      physicalAddr |-> Physical(TablesAfter(e), top * PAGE) + PAGE]
<1>1. pc \in {"clone", "run"}
  BY DEF CloneDirectory
<1>2. PICK e \in Ends(2) :
         \/ Stop(e)
         \/ /\ Take(2, e) /\ frames' = FramesAfter(e) /\ tables' = TablesAfter(e)
            /\ dirs' = With(dirs, top * PAGE, new(e)) /\ pc' = "clone"
            /\ UNCHANGED <<placement_address, kernel_directory>>
  BY DEF CloneDirectory
<1>3. new(e).tables = <<>> /\ new(e).physicalAddr = Physical(TablesAfter(e), top * PAGE) + PAGE
  OBVIOUS
<1>4. Stop(e) => Stands
  BY StopStands
<1> HIDE DEF new
<1> QED
  BY <1>1, <1>2, <1>3, <1>4, CloneDirectoryIsUpStep

LEMMA CloneTableUp ==
    ASSUME RCore, Located, IInv, FInv, CloneTable
    PROVE  Stands \/ (UpStep /\ pc' # "move_stack")
<1> DEFINE a == top * PAGE
           S == Copied(Source.tables[NextTable])
           ts(e) == With(TablesAfter(e), a, <<>>)
           new(e) == FramesFor(S, FramesAfter(e))
           at(e) == [x \in {a} \X S |-> new(e)[x[2]]]
<1>1. pc = "clone" /\ dir # 0 /\ Remaining # {} /\ ~InKernel(NextTable)
  BY DEF CloneTable
<1>2. PICK e \in Ends(1) :
         \/ Stop(e)
         \/ /\ UNCHANGED <<mapVars, heapVars, placement_address, kernel_directory>>
            /\ pc' \in {"fault", "panic"}
         \/ /\ Take(1, e) /\ pc' = "clone"
            /\ tables' = Map(ts(e), at(e))
            /\ frames' = FramesAfter(e) \cup {new(e)[p] : p \in S}
            /\ dirs' = AddTable(dir, NextTable * ENTRIES, a, Physical(ts(e), a))
            /\ UNCHANGED <<placement_address, kernel_directory>>
  BY Zenon DEF CloneTable
<1>3. CASE /\ Take(1, e) /\ pc' = "clone"
           /\ tables' = Map(ts(e), at(e))
           /\ frames' = FramesAfter(e) \cup {new(e)[p] : p \in S}
           /\ dirs' = AddTable(dir, NextTable * ENTRIES, a, Physical(ts(e), a))
           /\ UNCHANGED <<placement_address, kernel_directory>>
  <2>1. FramesAfter(e) \subseteq frames'
    BY <1>3
  <2>2. ts(e) = With(TablesAfter(e), top * PAGE, <<>>)
    OBVIOUS
  <2>3. DOMAIN at(e) = {top * PAGE} \X S
    OBVIOUS
  <2> HIDE DEF ts, S, new, at
  <2> QED
    BY <1>1, <1>3, <2>1, <2>2, <2>3, CloneTableIsUpStep
<1>4. CASE /\ UNCHANGED <<mapVars, heapVars, placement_address, kernel_directory>>
           /\ pc' \in {"fault", "panic"}
  BY <1>4, MapsStayStands DEF Up
<1>5. Stop(e) => Stands
  BY StopStands
<1> HIDE DEF ts, S, new, at, a
<1> QED
  BY <1>2, <1>3, <1>4, <1>5

LEMMA MoveStackUp ==
    ASSUME RCore, Located, StackRange, IInv, FInv, MoveStack
    PROVE  Stands \/ (UpStep /\ StackRange')
<1>1. /\ pc = "move_stack" /\ current_directory \in DOMAIN dirs \ {kernel_directory}
      /\ i \in (STACK_TOP - STACK_PAGES - 1)..STACK_TOP /\ TablesExist
      /\ UNCHANGED <<placement_address, kernel_directory>>
  BY DEF MoveStack, IInv, Running, FInv, StackRange
<1>2. STACK_TOP \in Nat /\ STACK_PAGES \in Nat
  BY LayoutAssumption
<1>3. CASE i < STACK_TOP - STACK_PAGES
  <2>1. pc' = "run" /\ UNCHANGED <<mapVars, heapVars>>
    BY <1>3 DEF MoveStack
  <2> QED
    BY <1>1, <2>1, MapsStayUp DEF StackRange
<1>4. CASE ~(i < STACK_TOP - STACK_PAGES)
  <2>1. i \in (STACK_TOP - STACK_PAGES)..STACK_TOP /\ i - 1 \in (STACK_TOP - STACK_PAGES - 1)..STACK_TOP
    BY <1>1, <1>2, <1>4
  <2>2. CASE HasTable(current_directory, i)
    <3>1. /\ alloc_frame(tables, Source.tables[i \div ENTRIES], i) /\ i' = i - 1
          /\ UNCHANGED <<dirs, heapVars>>
      BY <1>4, <2>2, Zenon DEF MoveStack
    <3>2. UpStep
      BY <1>1, <2>1, <2>2, <3>1, MoveStackMapsIsUpStep
    <3> QED
      BY <2>1, <3>1, <3>2 DEF StackRange
  <2>3. CASE ~HasTable(current_directory, i)
    <3>1. PICK e \in Ends(1) :
             \/ Stop(e)
             \/ /\ Take(1, e) /\ frames' = FramesAfter(e)
                /\ tables' = With(TablesAfter(e), top * PAGE, <<>>)
                /\ dirs' = AddTable(current_directory, i, top * PAGE,
                                    Physical(TablesAfter(e), top * PAGE))
                /\ UNCHANGED <<pc, i>>
      BY <1>4, <2>3, Zenon DEF MoveStack
    <3>2. CASE Stop(e)
      BY <3>1, <3>2, StopStands
    <3>3. CASE /\ Take(1, e) /\ frames' = FramesAfter(e)
               /\ tables' = With(TablesAfter(e), top * PAGE, <<>>)
               /\ dirs' = AddTable(current_directory, i, top * PAGE,
                                   Physical(TablesAfter(e), top * PAGE))
               /\ UNCHANGED <<pc, i>>
      BY <1>1, <2>1, <3>3, MoveStackMakesIsUpStep DEF StackRange
    <3> QED
      BY <3>1, <3>2, <3>3
  <2> QED
    BY <2>2, <2>3
<1> QED
  BY <1>3, <1>4

LEMMA KernelNextUp ==
    ASSUME IInv, FInv, Up, RCore, Located, StackRange, [KernelNext]_vars
    PROVE  Stands \/ (UpStep /\ StackRange')
<1>1. CASE UNCHANGED vars
  BY <1>1, MapsStayUp DEF vars, StackRange
<1>2. CASE KernelNext
  <2>1. ASSUME VmmInit \/ PreallocateHeapTables \/ MapPlaced \/ AllocateHeap \/ CreateHeap PROVE FALSE
    BY <2>1 DEF Up, VmmInit, PreallocateHeapTables, MapPlaced, AllocateHeap, CreateHeap
  <2>2. ASSUME NEW n \in {1, 2}, kmalloc(n) PROVE Stands \/ (UpStep /\ StackRange')
    BY <2>2, KmallocUp DEF StackRange
  <2>3. ASSUME NEW d \in DOMAIN dirs \ {kernel_directory}, switch_page_directory(d)
        PROVE  Stands \/ (UpStep /\ StackRange')
    BY <2>3, MapsStayUp DEF switch_page_directory, StackRange
  <2>4. ASSUME CloneDirectory PROVE Stands \/ (UpStep /\ StackRange')
    BY <2>4, CloneDirectoryUp DEF StackRange
  <2>5. ASSUME LinkTable PROVE Stands \/ (UpStep /\ StackRange')
    BY <2>5, LinkTableIsUpStep DEF LinkTable, StackRange
  <2>6. ASSUME CloneTable PROVE Stands \/ (UpStep /\ StackRange')
    BY <2>6, CloneTableUp DEF StackRange
  <2>7. ASSUME CloneEnd PROVE Stands \/ (UpStep /\ StackRange')
    <3>1. STACK_TOP \in (STACK_TOP - STACK_PAGES - 1)..STACK_TOP
      <4>1. STACK_TOP \in Nat /\ STACK_PAGES \in Nat
        BY LayoutAssumption
      <4> QED
        BY <4>1
    <3>2. /\ UNCHANGED <<mapVars, heapVars, placement_address, kernel_directory>>
          /\ pc' = "move_stack" => i' = STACK_TOP
      BY <2>7 DEF CloneEnd
    <3> QED
      BY <3>1, <3>2, MapsStayUp DEF StackRange
  <2>8. ASSUME MoveStack PROVE Stands \/ (UpStep /\ StackRange')
    BY <2>8, MoveStackUp
  <2> QED
    BY <1>2, <2>1, <2>2, <2>3, <2>4, <2>5, <2>6, <2>7, <2>8, Zenon DEF KernelNext
<1> QED
  BY <1>1, <1>2

\* One step of the kernel, from vmm_init on.
LEMMA KernelNextBoots == IInv /\ FInv /\ BInv /\ [KernelNext]_vars => BInv'
<1> SUFFICES ASSUME IInv, FInv, BInv, [KernelNext]_vars PROVE BInv'
  OBVIOUS
<1>1. CASE UNCHANGED vars
  BY <1>1 DEF vars, mapVars, heapVars, BInv, Placing, InTables, InMap, InHeap, Identity, Missing, Has,
     InARow, Unframed, FirstTaken, EntryAt, Unmapped, DIR_SIZE, KT, KH, TablesOf, LIMIT, NFRAMES, PAGE
<1>2. CASE KernelNext
  <2>1. ASSUME MapPlaced PROVE BInv'
    BY <2>1, MapStepPlaces, MapEndPlaces
  <2>2. ASSUME pc' \notin {"tables", "map", "heap", "create"} PROVE BInv'
    BY <2>2 DEF BInv
  <2>3. ASSUME CreateHeap PROVE BInv'
    BY <2>2, <2>3 DEF CreateHeap
  <2>4. ASSUME Up PROVE BInv'
    <3>1. pc' \in {pc, "clone", "move_stack", "run", "fault", "panic"}
      BY <1>2, <2>4, Zenon DEF KernelNext, Up, VmmInit, PreallocateHeapTables, MapPlaced, AllocateHeap,
         CreateHeap, kmalloc, CloneDirectory, LinkTable, CloneTable, CloneEnd, MoveStack,
         switch_page_directory, Stop, alloc_frame
    <3> QED
      BY <2>2, <2>4, <3>1 DEF Up
  <2>5. ASSUME ~Up PROVE VmmInit \/ PreallocateHeapTables \/ MapPlaced \/ AllocateHeap \/ CreateHeap
    BY <1>2, <2>5, Zenon DEF KernelNext, Up, kmalloc, CloneDirectory, LinkTable, CloneTable, CloneEnd,
       MoveStack, switch_page_directory
  <2> QED
    BY <2>1, <2>3, <2>4, <2>5, VmmInitPlaces, PreallocatePlaces, AllocateHeapPlaces
<1> QED
  BY <1>1, <1>2

LEMMA OnlyCreateHeapStarts ==
    ASSUME [KernelNext]_vars, ~Up, Up'
    PROVE  CreateHeap
<1>1. pc' # pc /\ KernelNext
  BY DEF vars, Up
<1>2. VmmInit \/ PreallocateHeapTables \/ MapPlaced \/ AllocateHeap \/ CreateHeap
  BY <1>1, Zenon DEF KernelNext, Up, kmalloc, CloneDirectory, LinkTable, CloneTable, CloneEnd,
     MoveStack, switch_page_directory
<1> QED
  BY <1>2 DEF Up, VmmInit, PreallocateHeapTables, MapPlaced, AllocateHeap, alloc_frame

\* Nothing runs on in a kernel that stands still.
LEMMA StandsStill ==
    ASSUME [KernelNext]_vars, ~Up, pc' = "fault"
    PROVE  UNCHANGED vars
<1> SUFFICES ASSUME KernelNext PROVE FALSE
  OBVIOUS
<1>1. VmmInit \/ PreallocateHeapTables \/ MapPlaced \/ AllocateHeap \/ CreateHeap
  BY Zenon DEF KernelNext, Up, kmalloc, CloneDirectory, LinkTable, CloneTable, CloneEnd,
     MoveStack, switch_page_directory
<1> QED
  BY <1>1 DEF VmmInit, PreallocateHeapTables, MapPlaced, AllocateHeap, CreateHeap, alloc_frame

LEMMA KernelNextRuns == IInv /\ FInv /\ BInv /\ RInv /\ [KernelNext]_vars => RInv'
<1> SUFFICES ASSUME IInv, FInv, BInv, RInv, [KernelNext]_vars PROVE RInv'
  OBVIOUS
<1>1. CASE Up
  <2>1. Stands \/ (UpStep /\ StackRange')
    BY <1>1, KernelNextUp DEF RInv
  <2>2. RCore /\ OnHeap /\ Located /\ Whole /\ Walked
    BY <1>1 DEF RInv, IInv, Running, Up
  <2>3. Whole' /\ Walked' /\ Placed'
    BY <2>1, <2>2, MapStepWalks DEF Stands, UpStep
  <2>4. CASE UpStep /\ StackRange'
    BY <2>2, <2>3, <2>4, UpStepKeeps DEF RInv
  <2> QED
    BY <2>1, <2>3, <2>4 DEF Stands, RInv
<1>2. CASE ~Up /\ Up'
  BY <1>2, OnlyCreateHeapStarts, CreateHeapIsUp
<1>3. CASE ~Up /\ pc' = "fault"
  <2>1. UNCHANGED vars
    BY <1>3, StandsStill
  <2>2. Placed /\ Whole /\ Walked
    BY <1>3, <2>1 DEF RInv, vars
  <2>3. UNCHANGED <<tables, dirs, kernel_directory, placement_address>>
    BY <2>1 DEF vars, mapVars
  <2>4. Placed'
    BY <2>2, <2>3 DEF Placed, Identity, Has, KT, TablesOf, LIMIT, NFRAMES, PAGE
  <2>5. \A a : Translated(a)' = Translated(a)
    BY <2>3 DEF Translated, KernelEntry, HasTable, KernelTable, EntryAt, Unmapped, PAGE
  <2>6. \A d : InitiallyMapped(d)' = InitiallyMapped(d)
    BY DEF InitiallyMapped, DIR_SIZE, PAGE
  <2>7. PAGE' = PAGE
    BY DEF PAGE
  <2>8. Whole'
    BY <2>2, <2>3, <2>5, <2>6, <2>7 DEF Whole
  <2>9. Walked'
    BY <2>2, <2>3, <2>5 DEF Walked, TablesOf
  <2> QED
    BY <1>3, <2>4, <2>8, <2>9 DEF RInv, Up
<1>4. CASE ~Up' /\ pc' # "fault"
  BY <1>4 DEF RInv
<1> QED
  BY <1>1, <1>2, <1>3, <1>4

(***************************************************************************)
(* Types.                                                                   *)
(***************************************************************************)
TInv ==
    /\ Indexes
    /\ placement_address \in Nat /\ top \in Nat /\ i \in Int
    /\ {kernel_directory, current_directory} \subseteq DOMAIN dirs \cup {0}
    /\ dir \in DOMAIN dirs \cup {0}
    /\ pc \in Pc
    /\ pc \in Boot => current_directory = 0

LEMMA TypesHold == FInv /\ TInv => TypeOK
<1> SUFFICES ASSUME FInv, TInv PROVE TypeOK
  OBVIOUS
<1>1. frames \subseteq Frame /\ end \in Nat
  BY DEF FInv, Owned
<1>2. \A t \in DOMAIN tables : \A e \in DOMAIN tables[t] :
         e \in 0..(ENTRIES - 1) /\ tables[t][e] \in Entry
  BY DEF FInv, Owned, Typed
<1>3. \A d \in DOMAIN dirs :
         /\ \A e \in DOMAIN dirs[d].tables : e \in 0..(ENTRIES - 1) /\ dirs[d].tables[e] \in DOMAIN tables
         /\ DOMAIN dirs[d].tablesPhysical = DOMAIN dirs[d].tables
  BY DEF FInv, TablesExist, TInv, Indexes, TablesOf
<1> QED
  BY <1>1, <1>2, <1>3 DEF TInv, TypeOK

LEMMA InitTypes == Init => TInv
<1> SUFFICES ASSUME Init PROVE TInv
  OBVIOUS
<1>1. placement_address \in Nat
  BY LayoutAssumption DEF Init
<1>2. DOMAIN dirs = {}
  BY DEF Init
<1> QED
  BY <1>1, <1>2 DEF Init, TInv, Indexes, Pc, Boot

LEMMA BootTypes ==
    ASSUME IInv', BInv', TInv, pc' \in Boot \ {"vmm_init"}, UNCHANGED <<current_directory, top>>,
           pc \in Boot
    PROVE  TInv'
<1>1. DOMAIN dirs' = {kernel_directory'} /\ dir' = 0 /\ i' \in Nat
  BY DEF IInv, Booting, Boot
<1>2. placement_address' \in Nat /\ DOMAIN TablesOf(kernel_directory)' \subseteq {0, KH}
  <2>1. Placing'
    BY DEF BInv, Boot
  <2>2. KH' = KH
    BY DEF KH
  <2> QED
    BY <2>1, <2>2 DEF Placing
<1>3. {0, KH} \subseteq 0..(ENTRIES - 1)
  BY HeapTable, HeapTableLow, PagePositive
<1>4. Indexes'
  BY <1>1, <1>2, <1>3 DEF Indexes, TablesOf
<1> QED
  BY <1>1, <1>2, <1>4 DEF TInv, Pc

LEMMA UpTypes ==
    ASSUME IInv', FInv, RInv, TInv, IInv, Up, [KernelNext]_vars
    PROVE  TInv'
<1>1. RCore /\ OnHeap /\ Located /\ Whole /\ Walked /\ StackRange
  BY DEF RInv, IInv, Running, Up
<1>2. Stands \/ UpStep
  BY <1>1, KernelNextUp
<1>3. MapStep
  BY <1>2 DEF Stands, UpStep
<1>4. Indexes' /\ top' \in Nat
  <2>1. CASE Stands
    BY <2>1 DEF Stands
  <2>2. CASE UpStep
    BY <1>1, <2>2, UpStepKeeps DEF Indexes, Located, UpStep, TablesOf
  <2> QED
    BY <1>2, <2>1, <2>2
<1>5. kernel_directory' \in DOMAIN dirs' /\ placement_address' \in Nat
  BY <1>1, <1>3 DEF MapStep, KernelStays, RCore
<1>6. CASE pc' \in {"clone", "move_stack", "run"}
  <2>1. current_directory' \in DOMAIN dirs' /\ dir' \in DOMAIN dirs' \cup {0} /\ i' \in Int
    BY <1>6 DEF IInv, Running
  <2> QED
    BY <1>4, <1>5, <1>6, <2>1 DEF TInv, Pc, Boot
<1>7. CASE pc' \notin {"clone", "move_stack", "run"}
  <2>1. /\ pc' \in {"fault", "panic"} /\ UNCHANGED <<current_directory, dir>> /\ i' \in {i, i - 1}
        /\ UNCHANGED dirs \/ Stands
    <3>1. CASE UNCHANGED vars
      BY <1>7, <3>1 DEF vars, mapVars, Up
    <3>2. CASE KernelNext
      <4>1. /\ pc' \in {"fault", "panic"} /\ UNCHANGED <<current_directory, dir>> /\ i' \in {i, i - 1}
            /\ UNCHANGED dirs \/ \E n \in {1, 2} : \E e \in Ends(n) : Stop(e)
        BY <1>7, <3>2, Zenon DEF KernelNext, Up, VmmInit, PreallocateHeapTables, MapPlaced, AllocateHeap,
           CreateHeap, kmalloc, CloneDirectory, LinkTable, CloneTable, CloneEnd, MoveStack,
           switch_page_directory, Stop, alloc_frame, mapVars
      <4> QED
        BY <1>1, <4>1, StopStands
    <3> QED
      BY <3>1, <3>2
  <2>2. i' \in Int
    BY <2>1 DEF TInv
  <2>3. DOMAIN dirs \subseteq DOMAIN dirs'
    BY <2>1 DEF Stands
  <2>4. current_directory' \in DOMAIN dirs' \cup {0} /\ dir' \in DOMAIN dirs' \cup {0}
    BY <2>1, <2>3 DEF TInv
  <2> QED
    BY <1>4, <1>5, <2>1, <2>2, <2>4 DEF TInv, Pc, Boot
<1> QED
  BY <1>6, <1>7

LEMMA KernelNextTypes ==
    ASSUME IInv, FInv, BInv, RInv, TInv, [KernelNext]_vars, IInv', BInv', RInv'
    PROVE  TInv'
<1>1. CASE UNCHANGED vars
  BY <1>1 DEF vars, mapVars, heapVars, TInv, Indexes, TablesOf
<1>2. CASE Up
  BY <1>2, UpTypes
<1>3. CASE CreateHeap
  <2>1. /\ pc' = "clone" /\ current_directory' = kernel_directory
        /\ UNCHANGED <<dirs, kernel_directory, i, dir>>
    BY <1>3 DEF CreateHeap, mapVars
  <2>2. RCore' /\ kernel_directory \in DOMAIN dirs
    BY <1>3, <2>1 DEF RInv, Up, IInv, KernelBelowHeap, CreateHeap
  <2> QED
    BY <2>1, <2>2 DEF TInv, RCore, Indexes, TablesOf, Pc, Boot
<1>4. CASE AllocateHeap /\ pc' = "panic"
  <2>1. UNCHANGED <<dirs, placement_address, kernel_directory, current_directory, top, dir>>
        /\ i' \in {i, i + 1}
    BY <1>4 DEF AllocateHeap, heapVars
  <2>2. i' \in Int
    BY <2>1 DEF TInv
  <2> QED
    BY <1>4, <2>1, <2>2 DEF TInv, Indexes, TablesOf, Pc, Boot
<1>5. CASE VmmInit \/ PreallocateHeapTables \/ MapPlaced \/ (AllocateHeap /\ pc' # "panic")
  <2>1. pc \in Boot /\ UNCHANGED <<current_directory, top>>
    BY <1>5 DEF VmmInit, PreallocateHeapTables, MapPlaced, AllocateHeap, Boot, heapVars
  <2>2. CASE MapPlaced
    <3>1. CASE InMapLoop
      BY <2>1, <2>2, <3>1, MapStepPlaces, BootTypes DEF Boot
    <3>2. CASE ~InMapLoop
      BY <2>1, <2>2, <3>2, BootTypes DEF MapPlaced, Boot
    <3> QED
      BY <3>1, <3>2
  <2>3. CASE VmmInit \/ PreallocateHeapTables \/ (AllocateHeap /\ pc' # "panic")
    <3>1. pc' \in Boot \ {"vmm_init"}
      BY <2>3 DEF VmmInit, PreallocateHeapTables, AllocateHeap, alloc_frame, Boot
    <3> QED
      BY <2>1, <3>1, BootTypes
  <2> QED
    BY <1>5, <2>2, <2>3
<1>6. CASE KernelNext /\ ~Up
  <2>1. VmmInit \/ PreallocateHeapTables \/ MapPlaced \/ AllocateHeap \/ CreateHeap
    BY <1>6, Zenon DEF KernelNext, Up, kmalloc, CloneDirectory, LinkTable, CloneTable, CloneEnd,
       MoveStack, switch_page_directory
  <2> QED
    BY <1>3, <1>4, <1>5, <2>1
<1> QED
  BY <1>1, <1>2, <1>6

(***************************************************************************)
(* The theorems.                                                            *)
(***************************************************************************)
MInv == IInv /\ FInv /\ BInv /\ RInv /\ TInv

LEMMA MapsHold == KernelSpec => []MInv
<1>1. Init => MInv
  <2>1. Init => BInv /\ RInv
    BY DEF Init, BInv, RInv, Up
  <2> QED
    BY <2>1, InitIsStart, InitOwned, InitTypes DEF MInv
<1>2. MInv /\ [KernelNext]_vars => MInv'
  <2> SUFFICES ASSUME MInv, [KernelNext]_vars PROVE MInv'
    OBVIOUS
  <2>1. IInv'
    BY NextKeeps DEF MInv, Next
  <2>2. FInv' /\ BInv' /\ RInv'
    BY KernelNextOwned, KernelNextBoots, KernelNextRuns DEF MInv
  <2> QED
    BY <2>1, <2>2, KernelNextTypes DEF MInv
<1> QED
  BY <1>1, <1>2, PTL DEF KernelSpec

\* Tables, directories, bitmap and heap have their types: an entry of a
\* directory is below ENTRIES and leads to a table that exists.
THEOREM PagingTypes == KernelSpec => []TypeOK
<1>1. MInv => TypeOK
  BY TypesHold DEF MInv
<1> QED
  BY <1>1, MapsHold, PTL

LEMMA PlacedIsMapped == MInv => IdentityMapped
<1> SUFFICES ASSUME MInv, pc \notin Boot \cup {"panic"},
                    NEW p \in 0..((placement_address - 1) \div PAGE)
             PROVE  KernelEntry(tables, p) = [present |-> TRUE, frame |-> p]
  BY DEF IdentityMapped
<1>1. Placed
  <2>1. RCore => Placed
    BY DEF RCore, Placed
  <2> QED
    BY <2>1 DEF MInv, RInv, TInv, Up, Pc, Boot
<1>2. PICK m \in 0..LIMIT : Identity(m) /\ placement_address <= m * PAGE
  BY <1>1 DEF Placed
<1>3. PAGE \in Nat \ {0} /\ m \in Nat
  BY <1>2, PagePositive, LimitInTable
<1>4. placement_address - 1 \in Nat
  BY <1>1 DEF Placed
<1>5. placement_address - 1 < m * PAGE
  <2>1. placement_address \in Nat /\ m * PAGE \in Nat
    BY <1>1, <1>3 DEF Placed
  <2> QED
    BY <1>2, <2>1
<1>6. (placement_address - 1) \div PAGE \in Nat /\ (placement_address - 1) \div PAGE < m
  BY <1>3, <1>4, <1>5, DivBelow
<1>7. p \in 0..(m - 1)
  BY <1>3, <1>6
<1> QED
  BY <1>1, <1>2, <1>7, IdentityEntry DEF Placed

\* vmm_init maps everything it placed, the tables it placed while mapping
\* included, where it lies; and no later step of the kernel unmaps it
\* (paging.c:296).
THEOREM PlacedStaysMapped == KernelSpec => []IdentityMapped
  BY MapsHold, PlacedIsMapped, PTL

\* The physical addresses that get_page and clone_directory write into a
\* directory are where the tables they edit are, and the heap's pages stay in
\* their frames (paging.c:212, :382).  Of a directory that lies in the heap's
\* initial pages (vmm_init's, and the clones made before the heap grows), the
\* address switch_page_directory gives the processor is where those physical
\* addresses are (paging.c:359): vmm_init gives these pages frames that follow
\* each other.
THEOREM ProcessorWalksTables == KernelSpec => []TablesAreWalked
<1>1. MInv => TablesAreWalked
  <2> SUFFICES ASSUME MInv, pc \notin Boot \cup {"panic"} PROVE TablesAreWalked
    BY DEF TablesAreWalked
  <2>1. Whole /\ Walked
    BY DEF MInv, RInv, TInv, Up, Pc, Boot
  <2> QED
    BY <2>1 DEF Whole, Walked, TablesAreWalked, TablesOf
<1> QED
  BY <1>1, MapsHold, PTL

(***************************************************************************)
(* Stacks.  A directory's own tables are blocks of the heap that no other    *)
(* directory has; clone_directory copies them in order, so the clone has     *)
(* those behind the loop counter, with the same pages; and while the first   *)
(* stack is being mapped there is no other directory than its and the       *)
(* kernel's.                                                                *)
(***************************************************************************)
Pages(d, e) == {p \in 0..(ENTRIES - 1) : EntryAt(tables[TablesOf(d)[e]], p).frame # 0}

Twins(c, d) == Own(c) = Own(d) /\ \A e \in Own(c) : Pages(c, e) = Pages(d, e)

Private ==
    \A c, d \in DOMAIN dirs : \A e \in Own(c), f \in Own(d) :
        TablesOf(c)[e] = TablesOf(d)[f] => c = d /\ e = f

Alone ==
    /\ pc = "clone" /\ dir = 0 =>
          DOMAIN dirs = {kernel_directory} /\ current_directory = kernel_directory
    /\ pc = "clone" /\ dir # 0 /\ current_directory = kernel_directory =>
          DOMAIN dirs = {kernel_directory, dir} /\ \A d \in DOMAIN dirs : Own(d) = {}
    /\ pc = "move_stack" => DOMAIN dirs = {kernel_directory, current_directory}
    /\ pc = "run" => current_directory # kernel_directory

Twinned ==
    pc \in {"clone", "run"} =>
        \A c, d \in DOMAIN dirs \ {kernel_directory, dir} : Twins(c, d)

Copying ==
    pc = "clone" /\ dir # 0 /\ current_directory # kernel_directory =>
        \A c \in {current_directory}, d \in {dir} :
            /\ Own(d) = {e \in Own(c) : e < i}
            /\ \A e \in Own(d) : Pages(d, e) = Pages(c, e)

SInv == Up => Private /\ Alone /\ Twinned /\ Copying

\* A directory's own tables, and the pages they map, stay as they are.
Steady(d) ==
    /\ d \in DOMAIN dirs' /\ Own(d)' = Own(d)
    /\ \A e \in Own(d) : TablesOf(d)'[e] = TablesOf(d)[e] /\ Pages(d, e)' = Pages(d, e)

LEMMA OwnTable ==
    ASSUME RCore, Located, TablesExist, NEW d \in DOMAIN dirs, NEW e \in Own(d)
    PROVE  /\ e \in DOMAIN TablesOf(d) /\ e \in 0..(ENTRIES - 1) /\ e \notin {0, KH}
           /\ TablesOf(d)[e] \in DOMAIN tables
           /\ TablesOf(d)[e] \notin {KT(0), KT(KH), top * PAGE}
<1>1. e \in DOMAIN TablesOf(d) /\ e \notin {0, KH}
  BY DEF Own, RCore, TablesOf
<1>2. Block(TablesOf(d)[e]) /\ e \in 0..(ENTRIES - 1)
  BY <1>1 DEF Located
<1>3. PICK q \in KHEAP_START..(top - 1) : TablesOf(d)[e] = q * PAGE
  BY <1>2 DEF Block
<1>4. q \in Nat /\ q >= KHEAP_START /\ q < top /\ top \in Nat /\ PAGE \in Nat \ {0}
  BY <1>3, LayoutAssumption, PagePositive DEF RCore
<1>5. q * PAGE < top * PAGE /\ q * PAGE \in Nat /\ top * PAGE \in Nat
  BY <1>4, ProductGrows
<1>6. \A n \in {0, KH} : KT(n) # q * PAGE
  BY <1>4, BlockIsNotKernels
<1>7. q * PAGE # top * PAGE
  BY <1>5
<1> QED
  BY <1>1, <1>2, <1>3, <1>6, <1>7 DEF TablesExist

LEMMA PagesStay ==
    ASSUME NEW d, NEW e, dirs'[d].tables[e] = TablesOf(d)[e],
           \A t \in {TablesOf(d)[e]} : Same(tables'[t], tables[t])
    PROVE  Pages(d, e)' = Pages(d, e)
<1> DEFINE t == TablesOf(d)[e]
<1>1. \A p : EntryAt(tables'[t], p) = EntryAt(tables[t], p)
  BY SameEntry
<1>2. \A p : EntryAt(tables[t], p)' = EntryAt(tables'[t], p)
  BY DEF TablesOf, EntryAt, Unmapped
<1> QED
  BY <1>1, <1>2 DEF Pages, TablesOf

LEMMA SteadyIs ==
    ASSUME RCore, Located, TablesExist, UNCHANGED kernel_directory,
           dirs'[kernel_directory] = dirs[kernel_directory],
           NEW d \in DOMAIN dirs, d \in DOMAIN dirs', dirs'[d] = dirs[d],
           \A t \in DOMAIN tables \ {KT(KH), top * PAGE} : Same(tables'[t], tables[t])
    PROVE  Steady(d)
<1>1. Own(d)' = Own(d)
  BY DEF Own
<1>2. \A e : dirs'[d].tables[e] = TablesOf(d)[e]
  BY DEF TablesOf
<1>3. ASSUME NEW e \in Own(d) PROVE Pages(d, e)' = Pages(d, e)
  <2>1. \A t \in {TablesOf(d)[e]} : Same(tables'[t], tables[t])
    BY OwnTable
  <2> QED
    BY <1>2, <2>1, PagesStay
<1> QED
  BY <1>1, <1>2, <1>3 DEF Steady, TablesOf

LEMMA TwinsStay ==
    ASSUME NEW c, NEW d, Steady(c), Steady(d), Twins(c, d)
    PROVE  Twins(c, d)'
  BY DEF Steady, Twins

\* No directory gets a table that is not new.
LEMMA PrivateStays ==
    ASSUME RCore, Located, TablesExist, Private, NEW b, NEW n,
           \A d \in DOMAIN dirs' : \A e \in Own(d)' :
              \/ d = b /\ e = n /\ TablesOf(d)'[e] = top * PAGE
              \/ d \in DOMAIN dirs /\ e \in Own(d) /\ TablesOf(d)'[e] = TablesOf(d)[e]
    PROVE  Private'
<1>1. \A d \in DOMAIN dirs : \A e \in Own(d) : TablesOf(d)[e] # top * PAGE
  BY OwnTable
<1> SUFFICES ASSUME NEW c \in DOMAIN dirs', NEW d \in DOMAIN dirs', NEW e \in Own(c)', NEW f \in Own(d)',
                    TablesOf(c)'[e] = TablesOf(d)'[f]
             PROVE  c = d /\ e = f
  BY DEF Private
<1> QED
  BY <1>1 DEF Private

LEMMA PrivateSame ==
    ASSUME Private, \A d \in DOMAIN dirs' : d \in DOMAIN dirs /\ Steady(d)
    PROVE  Private'
  BY DEF Private, Steady

LEMMA AllSteady ==
    ASSUME RCore, Located, TablesExist, UNCHANGED <<dirs, kernel_directory>>,
           \A t \in DOMAIN tables \ {KT(KH), top * PAGE} : Same(tables'[t], tables[t])
    PROVE  \A d \in DOMAIN dirs : Steady(d)
  BY SteadyIs

LEMMA TakeKeepsTables ==
    ASSUME RCore, NEW n \in {1, 2}, NEW e \in Ends(n), Take(n, e)
    PROVE  \A t \in DOMAIN tables \ {KT(KH), top * PAGE} : Same(TablesAfter(e)[t], tables[t])
<1>1. e \in Nat
  BY DEF RCore, Ends
<1> QED
  BY <1>1, ExpandKeepsKernel DEF NewTable

\* The kernel stops, or does something else than map or fill a directory.
LEMMA StillKeepsStacks ==
    ASSUME RCore, Located, TablesExist, Private, UNCHANGED <<mapVars, kernel_directory>>
    PROVE  Private' /\ \A d \in DOMAIN dirs : Steady(d)
<1>1. \A d \in DOMAIN dirs : Steady(d)
  BY AllSteady DEF mapVars, Same
<1> QED
  BY <1>1, PrivateSame DEF mapVars

LEMMA StoppedStacks ==
    ASSUME pc' \in {"fault", "panic"}
    PROVE  SInv'
  BY DEF SInv, Up

LEMMA StopStacks ==
    ASSUME NEW e, Stop(e)
    PROVE  SInv'
  BY StoppedStacks DEF Stop

LEMMA KmallocStacks ==
    ASSUME IInv, RCore, Located, TablesExist, Private, Alone, Twinned, NEW n \in {1, 2}, kmalloc(n)
    PROVE  SInv'
<1>1. PICK e \in Ends(n) :
         \/ Stop(e)
         \/ /\ Take(n, e) /\ tables' = TablesAfter(e)
            /\ UNCHANGED <<dirs, kernel_directory, current_directory, pc, dir>>
  BY DEF kmalloc
<1>2. pc = "run"
  BY DEF kmalloc
<1>3. CASE Stop(e)
  BY <1>3, StopStacks
<1>4. CASE /\ Take(n, e) /\ tables' = TablesAfter(e)
           /\ UNCHANGED <<dirs, kernel_directory, current_directory, pc, dir>>
  <2>1. \A d \in DOMAIN dirs : Steady(d)
    BY <1>4, TakeKeepsTables, AllSteady
  <2>2. Private'
    BY <1>4, <2>1, PrivateSame
  <2>3. Twinned'
    BY <1>2, <1>4, <2>1, TwinsStay DEF Twinned
  <2>4. Alone' /\ Copying'
    BY <1>2, <1>4 DEF Alone, Copying
  <2> QED
    BY <2>2, <2>3, <2>4 DEF SInv
<1> QED
  BY <1>1, <1>3, <1>4

LEMMA CloneDirectoryStacks ==
    ASSUME IInv, RCore, Located, TablesExist, Private, Alone, Twinned, CloneDirectory
    PROVE  SInv'
<1> DEFINE new(e) == [tables |-> <<>>, tablesPhysical |-> <<>>,
                      physicalAddr |-> Physical(TablesAfter(e), top * PAGE) + PAGE]
<1>0. PICK a : a = top * PAGE
  OBVIOUS
<1>1. PICK e \in Ends(2) :
         \/ Stop(e)
         \/ /\ Take(2, e) /\ tables' = TablesAfter(e) /\ dirs' = With(dirs, a, new(e))
            /\ dir' = a /\ i' = 0 /\ pc' = "clone"
            /\ UNCHANGED <<kernel_directory, current_directory>>
  BY <1>0 DEF CloneDirectory
<1>2. /\ pc \in {"clone", "run"} /\ dir = 0
      /\ a \notin DOMAIN dirs \cup {0} /\ 0 \notin DOMAIN dirs
      /\ kernel_directory \in DOMAIN dirs /\ current_directory \in DOMAIN dirs
  BY <1>0, TopIsFresh DEF CloneDirectory, IInv, Running, RCore
<1>3. CASE Stop(e)
  BY <1>3, StopStacks
<1>4. CASE /\ Take(2, e) /\ tables' = TablesAfter(e) /\ dirs' = With(dirs, a, new(e))
           /\ dir' = a /\ i' = 0 /\ pc' = "clone"
           /\ UNCHANGED <<kernel_directory, current_directory>>
  <2>1. new(e).tables = <<>>
    OBVIOUS
  <2> HIDE DEF new
  <2>2. /\ DOMAIN dirs' = DOMAIN dirs \cup {a} /\ dirs'[a] = new(e)
        /\ \A d \in DOMAIN dirs : dirs'[d] = dirs[d]
    BY <1>2, <1>4 DEF With
  <2>3. \A d \in DOMAIN dirs : Steady(d)
    BY <1>2, <1>4, <2>2, TakeKeepsTables, SteadyIs
  <2>4. Own(a)' = {}
    <3>1. DOMAIN dirs'[a].tables = {}
      BY <2>1, <2>2
    <3> QED
      BY <3>1 DEF Own
  <2>5. Private'
    BY <2>2, <2>3, <2>4 DEF Private, Steady
  <2>6. Twinned'
    <3>1. \A d \in DOMAIN dirs' \ {kernel_directory', dir'} : d \in DOMAIN dirs \ {kernel_directory}
      BY <1>4, <2>2
    <3>2. \A c, d \in DOMAIN dirs \ {kernel_directory} : Twins(c, d)
      BY <1>2 DEF Twinned
    <3> QED
      BY <2>3, <3>1, <3>2, TwinsStay DEF Twinned
  <2>7. Alone'
    <3>1. ASSUME current_directory = kernel_directory
          PROVE  DOMAIN dirs = {kernel_directory}
      BY <1>2, <3>1 DEF Alone
    <3>2. Own(kernel_directory) = {}
      BY DEF Own
    <3>3. ASSUME current_directory = kernel_directory, NEW d \in DOMAIN dirs' PROVE Own(d)' = {}
      BY <2>2, <2>3, <2>4, <3>1, <3>2, <3>3 DEF Steady
    <3> QED
      BY <1>2, <1>4, <2>2, <3>1, <3>3 DEF Alone
  <2>8. Copying'
    <3>1. \A d \in DOMAIN dirs : Own(d) \subseteq Nat
      <4>1. \A d \in DOMAIN dirs : \A x \in Own(d) : x \in 0..(ENTRIES - 1)
        BY OwnTable
      <4> QED
        BY <4>1
    <3>2. \A d \in DOMAIN dirs : {x \in Own(d)' : x < 0} = {}
      BY <2>3, <3>1 DEF Steady
    <3> QED
      BY <1>2, <1>4, <2>4, <3>2 DEF Copying
  <2> QED
    BY <2>5, <2>6, <2>7, <2>8 DEF SInv
<1> QED
  BY <1>1, <1>3, <1>4

\* Between the loop counter and the next table the source has none.
LEMMA NextIsLeast ==
    ASSUME IInv, Located, pc = "clone", dir # 0, Remaining # {}
    PROVE  /\ NextTable \in DOMAIN Source.tables /\ NextTable \in Nat /\ i <= NextTable
           /\ \A e \in DOMAIN Source.tables : e < NextTable + 1 <=> e < i \/ e = NextTable
<1>1. current_directory \in DOMAIN dirs /\ i \in Nat
  BY DEF IInv, Running
<1>2. \A e \in DOMAIN Source.tables : e \in Nat
  <2>1. \A e \in DOMAIN Source.tables : e \in 0..(ENTRIES - 1)
    BY <1>1 DEF Located, Source, TablesOf
  <2> QED
    BY <2>1
<1>3. Remaining \subseteq Nat
  BY <1>2 DEF Remaining
<1>4. PICK least \in Remaining : \A x \in Remaining : least <= x
  BY <1>3, LeastOf
<1>5. NextTable \in Remaining /\ \A x \in Remaining : NextTable <= x
  BY <1>4 DEF NextTable
<1>6. NextTable \in Nat /\ i <= NextTable /\ NextTable \in DOMAIN Source.tables
  BY <1>3, <1>5 DEF Remaining
<1>7. ASSUME NEW e \in DOMAIN Source.tables
      PROVE  e < NextTable + 1 <=> e < i \/ e = NextTable
  <2>1. e \in Nat
    BY <1>2
  <2>2. e < i \/ NextTable <= e
    BY <1>1, <1>5, <2>1 DEF Remaining
  <2> QED
    BY <1>1, <1>6, <2>1, <2>2
<1> QED
  BY <1>6, <1>7

LEMMA LinkTableStacks ==
    ASSUME IInv, FInv, RCore, Located, TablesExist, Private, Alone, Twinned, Copying, LinkTable
    PROVE  SInv'
<1> DEFINE n == NextTable
           t == Source.tables[n]
           physical == Source.tablesPhysical[n]
<1>1. /\ pc = "clone" /\ dir # 0 /\ Remaining # {} /\ InKernel(n)
      /\ dirs' = AddTable(dir, n * ENTRIES, t, physical) /\ i' = n + 1
      /\ UNCHANGED <<tables, kernel_directory, current_directory, pc, dir>>
  BY DEF LinkTable
<1>2. /\ dir \in DOMAIN dirs \ {kernel_directory} /\ kernel_directory \in DOMAIN dirs
      /\ current_directory \in DOMAIN dirs \ {dir}
  BY <1>1 DEF IInv, Running, RCore
<1>3. n \in DOMAIN Source.tables /\ (n * ENTRIES) \div ENTRIES = n /\ n \in DOMAIN TablesOf(kernel_directory)
  BY <1>1, NextTableIsNext DEF InKernel, TablesOf
<1>4. \A e \in DOMAIN Source.tables : e < n + 1 <=> e < i \/ e = n
  BY <1>1, NextIsLeast
<1> HIDE DEF n, t, physical
<1>5. /\ DOMAIN dirs' = DOMAIN dirs
      /\ DOMAIN dirs'[dir].tables = DOMAIN TablesOf(dir) \cup {n}
      /\ \A e \in DOMAIN TablesOf(dir) \ {n} : dirs'[dir].tables[e] = TablesOf(dir)[e]
      /\ \A c \in DOMAIN dirs \ {dir} : dirs'[c] = dirs[c]
  BY <1>1, <1>2, <1>3, AddTableIs
<1>6. \A d \in DOMAIN dirs : Steady(d)
  <2> TAKE d \in DOMAIN dirs
  <2>1. CASE d # dir
    BY <1>1, <1>2, <1>5, <2>1, SteadyIs DEF Same
  <2>2. CASE d = dir
    <3>1. Own(d)' = Own(d) /\ n \notin Own(d)
      BY <1>1, <1>2, <1>3, <1>5, <2>2 DEF Own, TablesOf
    <3>2. \A e \in Own(d) : dirs'[d].tables[e] = TablesOf(d)[e]
      BY <1>5, <2>2, <3>1 DEF Own, TablesOf
    <3>3. \A e \in Own(d) : Pages(d, e)' = Pages(d, e)
      BY <1>1, <3>2, PagesStay DEF Same
    <3> QED
      BY <1>5, <3>1, <3>2, <3>3 DEF Steady, TablesOf
  <2> QED
    BY <2>1, <2>2
<1>7. Private'
  BY <1>5, <1>6, PrivateSame
<1>8. Twinned'
  BY <1>1, <1>5, <1>6, TwinsStay DEF Twinned
<1>9. Alone'
  BY <1>1, <1>2, <1>5, <1>6 DEF Alone, Steady
<1>10. Copying'
  <2> SUFFICES ASSUME current_directory # kernel_directory,
                      NEW c, c = current_directory, NEW d, d = dir
               PROVE  /\ Own(d)' = {e \in Own(c)' : e < n + 1}
                      /\ \A e \in Own(d)' : Pages(d, e)' = Pages(c, e)'
    BY <1>1 DEF Copying
  <2>1. Own(d) = {e \in Own(c) : e < i} /\ \A e \in Own(d) : Pages(d, e) = Pages(c, e)
    BY <1>1 DEF Copying
  <2>2. Steady(c) /\ Steady(d)
    BY <1>2, <1>6
  <2>3. \A e \in Own(c) : e \in DOMAIN Source.tables /\ e # n
    BY <1>3 DEF Own, Source, TablesOf
  <2>4. {e \in Own(c) : e < n + 1} = {e \in Own(c) : e < i}
    BY <1>4, <2>3
  <2> QED
    BY <2>1, <2>2, <2>4 DEF Steady
<1> QED
  BY <1>7, <1>8, <1>9, <1>10 DEF SInv

LEMMA EntriesFinite == IsFiniteSet(0..(ENTRIES - 1))
<1>1. ENTRIES - 1 \in Int
  BY PagePositive
<1> QED
  BY <1>1, FS_Interval

\* clone_table gives the clone the pages the source's table has.
LEMMA CopyHasPages ==
    ASSUME FInv, RCore, NEW e \in Ends(1), Take(1, e), NEW s \in DOMAIN tables, NEW a,
           ~RunsOut(Copied(s), FramesAfter(e)),
           NEW at, \A x : <<a, x>> \in DOMAIN at <=> x \in Copied(s),
           \A p \in Copied(s) : at[<<a, p>>] = FramesFor(Copied(s), FramesAfter(e))[p],
           tables' = Map(With(TablesAfter(e), a, <<>>), at)
    PROVE  \A p \in 0..(ENTRIES - 1) :
              EntryAt(tables'[a], p).frame # 0 <=> EntryAt(tables[s], p).frame # 0
<1> DEFINE S == Copied(s)
           ts == With(TablesAfter(e), a, <<>>)
           new == FramesFor(S, FramesAfter(e))
<1>1. S \in SUBSET (0..(ENTRIES - 1)) /\ \A p \in S : p \in DOMAIN tables[s] /\ tables[s][p].frame # 0
  BY DEF Copied, FInv, Owned, Typed
<1>2. \A p \in S : new[p] # 0
  <2>2. IsFiniteSet(S) /\ S \in SUBSET Int
    <3>1. S \in SUBSET (0..(ENTRIES - 1))
      BY <1>1
    <3> HIDE DEF S
    <3>2. IsFiniteSet(S)
      BY <3>1, EntriesFinite, FS_Subset
    <3> QED
      BY <3>1, <3>2
  <2>3. \A p \in S : new[p] \in FreeAmong(FramesAfter(e))
    BY <2>2, FramesForDiffer
  <2>4. 0 \in FramesAfter(e)
    BY DEF RCore, FramesAfter
  <2> QED
    BY <2>3, <2>4 DEF FreeAmong
<1>3. a \in DOMAIN ts /\ DOMAIN ts[a] = {}
  <2>1. a \in DOMAIN ts /\ ts[a] = <<>>
    BY DEF With
  <2> QED
    BY <2>1
<1>4. tables'[a] = [x \in DOMAIN ts[a] \cup {x \in 0..(ENTRIES - 1) : <<a, x>> \in DOMAIN at} |->
            IF <<a, x>> \in DOMAIN at THEN [present |-> TRUE, frame |-> at[<<a, x>>]] ELSE ts[a][x]]
  BY <1>3 DEF Map
<1>5. \A x : <<a, x>> \in DOMAIN at <=> x \in S
  OBVIOUS
<1>6. \A p \in S : at[<<a, p>>] = new[p]
  OBVIOUS
<1> HIDE DEF ts, new
<1> HIDE DEF S
<1>7. {x \in 0..(ENTRIES - 1) : <<a, x>> \in DOMAIN at} = S
  BY <1>1, <1>5
<1>8. DOMAIN tables'[a] = S /\ \A p \in S : tables'[a][p].frame = new[p]
  <2>1. tables'[a] = [x \in S |->
            IF <<a, x>> \in DOMAIN at THEN [present |-> TRUE, frame |-> at[<<a, x>>]] ELSE ts[a][x]]
    BY <1>3, <1>4, <1>7
  <2>2. /\ DOMAIN tables'[a] = S
        /\ \A p \in S : tables'[a][p] = IF <<a, p>> \in DOMAIN at
                                        THEN [present |-> TRUE, frame |-> at[<<a, p>>]] ELSE ts[a][p]
    BY <2>1, Zenon
  <2>3. ASSUME NEW p \in S PROVE tables'[a][p].frame = new[p]
    <3>1. <<a, p>> \in DOMAIN at /\ at[<<a, p>>] = new[p]
      BY <1>5, <1>6
    <3>2. tables'[a][p] = [present |-> TRUE, frame |-> at[<<a, p>>]]
      BY <2>2, <3>1, Zenon
    <3> QED
      BY <3>1, <3>2
  <2> QED
    BY <2>2, <2>3
<1>9. \A p \in 0..(ENTRIES - 1) : p % ENTRIES = p
  BY PagePositive, SmallIndex
<1>10. \A p \in 0..(ENTRIES - 1) : EntryAt(tables'[a], p).frame # 0 <=> p \in S
  BY <1>2, <1>7, <1>8, <1>9 DEF EntryAt, Unmapped
<1>11. \A p \in 0..(ENTRIES - 1) : EntryAt(tables[s], p).frame # 0 <=> p \in S
  BY <1>9 DEF EntryAt, Unmapped, Copied, S
<1> QED
  BY <1>10, <1>11

LEMMA CloneTableStacks ==
    ASSUME IInv, FInv, RCore, Located, TablesExist, Private, Alone, Twinned, Copying, CloneTable
    PROVE  SInv'
<1>0. PICK a, n, s : a = top * PAGE /\ n = NextTable /\ s = Source.tables[NextTable]
  OBVIOUS
<1> DEFINE ts(e) == With(TablesAfter(e), a, <<>>)
           new(e) == FramesFor(Copied(s), FramesAfter(e))
           at(e) == [x \in {a} \X Copied(s) |-> new(e)[x[2]]]
<1>1. pc = "clone" /\ dir # 0 /\ Remaining # {} /\ ~InKernel(n)
  BY <1>0 DEF CloneTable
<1>2. PICK e \in Ends(1) :
         \/ Stop(e)
         \/ UNCHANGED <<mapVars, kernel_directory>> /\ pc' \in {"fault", "panic"}
         \/ /\ Take(1, e) /\ ~RunsOut(Copied(s), FramesAfter(e)) /\ pc' = "clone" /\ i' = n + 1
            /\ tables' = Map(ts(e), at(e))
            /\ \E physical : dirs' = AddTable(dir, n * ENTRIES, a, physical)
            /\ UNCHANGED <<kernel_directory, current_directory, dir>>
  BY <1>0, Zenon DEF CloneTable
<1>3. /\ dir \in DOMAIN dirs \ {kernel_directory} /\ kernel_directory \in DOMAIN dirs
      /\ current_directory \in DOMAIN dirs \ {dir}
  BY <1>1 DEF IInv, Running, RCore
<1>4. /\ n \in DOMAIN Source.tables /\ (n * ENTRIES) \div ENTRIES = n /\ n \in Nat /\ i \in Nat /\ i <= n
      /\ \A x \in DOMAIN Source.tables : x < n + 1 <=> x < i \/ x = n
  BY <1>0, <1>1, NextTableIsNext, NextIsLeast DEF IInv, Running
<1>5. n \notin DOMAIN TablesOf(kernel_directory) /\ current_directory # kernel_directory
  BY <1>1, <1>3, <1>4 DEF IInv, Linked, HasKernelTable, InKernel, Source, TablesOf
<1>6. s \in DOMAIN tables
  BY <1>0, <1>1, SourceTable
<1>7. CASE Stop(e)
  BY <1>7, StopStacks
<1>8. CASE UNCHANGED <<mapVars, kernel_directory>> /\ pc' \in {"fault", "panic"}
  BY <1>8, StoppedStacks
<1>9. ASSUME Take(1, e), ~RunsOut(Copied(s), FramesAfter(e)), pc' = "clone", i' = n + 1,
             tables' = Map(ts(e), at(e)),
             NEW physical, dirs' = AddTable(dir, n * ENTRIES, a, physical),
             UNCHANGED <<kernel_directory, current_directory, dir>>
      PROVE  SInv'
  <2>1. /\ DOMAIN dirs' = DOMAIN dirs
        /\ DOMAIN dirs'[dir].tables = DOMAIN TablesOf(dir) \cup {n}
        /\ dirs'[dir].tables[n] = a
        /\ \A x \in DOMAIN TablesOf(dir) \ {n} : dirs'[dir].tables[x] = TablesOf(dir)[x]
        /\ \A c \in DOMAIN dirs \ {dir} : dirs'[c] = dirs[c]
    BY <1>3, <1>4, <1>9, AddTableIs
  <2>2. \A x \in DOMAIN at(e) : x[1] = a
    OBVIOUS
  <2>3. DOMAIN at(e) = {a} \X Copied(s) /\ \A p \in Copied(s) : at(e)[<<a, p>>] = new(e)[p]
    OBVIOUS
  <2> HIDE DEF at
  <2>4. \A t \in DOMAIN tables \ {KT(KH), a} : Same(tables'[t], tables[t])
    <3> TAKE t \in DOMAIN tables \ {KT(KH), a}
    <3>1. Same(TablesAfter(e)[t], tables[t]) /\ t \in DOMAIN TablesAfter(e)
      <4>1. e \in Ends(1) /\ Take(1, e) /\ t \in DOMAIN tables \ {KT(KH), top * PAGE}
        BY <1>0, <1>2, <1>9
      <4> QED
        BY <4>1, TakeKeepsTables, TakeIs
    <3>2. t \in DOMAIN ts(e) /\ ts(e)[t] = TablesAfter(e)[t]
      BY <3>1 DEF With
    <3> HIDE DEF ts
    <3>3. \A x : <<t, x>> \notin DOMAIN at(e)
      BY <2>2
    <3>4. Same(tables'[t], ts(e)[t])
      BY <1>9, <3>2, <3>3, MapElsewhere
    <3> QED
      BY <3>1, <3>2, <3>4 DEF Same
  <2>5. \A d \in DOMAIN dirs \ {dir} : Steady(d)
    BY <1>0, <1>3, <1>9, <2>1, <2>4, SteadyIs
  <2>6. \A d \in {dir} :
           /\ Own(d)' = Own(d) \cup {n} /\ TablesOf(d)'[n] = a
           /\ \A x \in Own(d) \ {n} : TablesOf(d)'[x] = TablesOf(d)[x] /\ Pages(d, x)' = Pages(d, x)
    <3> TAKE d \in {dir}
    <3>1. Own(d)' = Own(d) \cup {n}
      BY <1>3, <1>5, <1>9, <2>1 DEF Own, TablesOf
    <3>2. \A x \in Own(d) \ {n} : dirs'[d].tables[x] = TablesOf(d)[x]
      BY <2>1 DEF Own, TablesOf
    <3>3. \A x \in Own(d) \ {n} : Pages(d, x)' = Pages(d, x)
      <4> TAKE x \in Own(d) \ {n}
      <4>1. \A t \in {TablesOf(d)[x]} : Same(tables'[t], tables[t])
        BY <1>0, <1>3, <2>4, OwnTable
      <4> QED
        BY <3>2, <4>1, PagesStay
    <3> QED
      BY <2>1, <3>1, <3>2, <3>3 DEF TablesOf
  <2>7. Private'
    <3>1. \A d \in DOMAIN dirs' : \A x \in Own(d)' :
             \/ d = dir /\ x = n /\ TablesOf(d)'[x] = top * PAGE
             \/ d \in DOMAIN dirs /\ x \in Own(d) /\ TablesOf(d)'[x] = TablesOf(d)[x]
      BY <1>0, <2>1, <2>5, <2>6 DEF Steady
    <3> QED
      BY <3>1, PrivateStays
  <2>8. Twinned'
    <3>1. \A d \in DOMAIN dirs' \ {kernel_directory', dir'} : d \in DOMAIN dirs \ {kernel_directory, dir}
      BY <1>9, <2>1
    <3> QED
      BY <1>1, <1>9, <2>5, <3>1, TwinsStay DEF Twinned
  <2>9. Alone'
    BY <1>1, <1>5, <1>9 DEF Alone
  <2>10. Copying'
    <3> SUFFICES ASSUME NEW c, c = current_directory, NEW d, d = dir
                 PROVE  /\ Own(d)' = {x \in Own(c)' : x < n + 1}
                        /\ \A x \in Own(d)' : Pages(d, x)' = Pages(c, x)'
      BY <1>1, <1>9 DEF Copying
    <3>1. Own(d) = {x \in Own(c) : x < i} /\ \A x \in Own(d) : Pages(d, x) = Pages(c, x)
      BY <1>1, <1>5 DEF Copying
    <3>2. Steady(c)
      BY <1>3, <2>5
    <3>3. n \in Own(c) /\ \A x \in Own(c) : x \in DOMAIN Source.tables
      BY <1>4, <1>5 DEF Own, Source, TablesOf
    <3>4. {x \in Own(c) : x < n + 1} = Own(d) \cup {n}
      BY <1>4, <3>1, <3>3
    <3>5. Own(d)' = Own(d) \cup {n}
      BY <2>6
    <3>6. n \notin Own(d)
      BY <1>4, <3>1
    <3>7. \A x \in Own(d) : Pages(d, x)' = Pages(c, x)'
      BY <2>6, <3>1, <3>2, <3>6 DEF Steady
    <3>8. Pages(d, n)' = Pages(c, n)'
      <4>1. \A p \in 0..(ENTRIES - 1) :
               EntryAt(tables'[a], p).frame # 0 <=> EntryAt(tables[s], p).frame # 0
        <5>1. tables' = Map(With(TablesAfter(e), a, <<>>), at(e))
          BY <1>9
        <5>2. \A p \in Copied(s) : at(e)[<<a, p>>] = FramesFor(Copied(s), FramesAfter(e))[p]
          BY <2>3
        <5>3. \A x : <<a, x>> \in DOMAIN at(e) <=> x \in Copied(s)
          BY <2>3
        <5>4. e \in Ends(1) /\ Take(1, e) /\ ~RunsOut(Copied(s), FramesAfter(e))
          BY <1>2, <1>9
        <5> HIDE DEF ts, new
        <5> QED
          BY <1>6, <5>1, <5>2, <5>3, <5>4, CopyHasPages
      <4>2. Pages(d, n)' = {p \in 0..(ENTRIES - 1) : EntryAt(tables'[a], p).frame # 0}
        BY <2>6 DEF Pages, EntryAt, Unmapped
      <4>3. Pages(c, n) = {p \in 0..(ENTRIES - 1) : EntryAt(tables[s], p).frame # 0}
        BY <1>0 DEF Pages, Source, TablesOf
      <4> QED
        BY <3>2, <3>3, <4>1, <4>2, <4>3 DEF Steady
    <3> QED
      BY <3>2, <3>4, <3>5, <3>7, <3>8 DEF Steady
  <2> QED
    BY <2>7, <2>8, <2>9, <2>10 DEF SInv
<1> HIDE DEF ts, new, at
<1> QED
  BY <1>2, <1>7, <1>8, <1>9

LEMMA CloneEndStacks ==
    ASSUME IInv, RCore, Located, TablesExist, Private, Alone, Twinned, Copying, CloneEnd
    PROVE  SInv'
<1>1. /\ pc = "clone" /\ dir # 0 /\ Remaining = {} /\ dir' = 0
      /\ UNCHANGED <<mapVars, dirs, kernel_directory>>
      /\ \/ /\ current_directory = kernel_directory
            /\ current_directory' = dir /\ pc' = "move_stack"
         \/ /\ current_directory # kernel_directory /\ pc' = "run"
            /\ UNCHANGED <<current_directory, i>>
  BY DEF CloneEnd, mapVars
<1>2. Private' /\ \A d \in DOMAIN dirs : Steady(d)
  BY <1>1, StillKeepsStacks
<1>3. Alone' /\ Copying'
  BY <1>1 DEF Alone, Copying
<1>4. ASSUME pc' = "run" PROVE Twinned'
  <2>1. current_directory # kernel_directory /\ UNCHANGED <<dirs, kernel_directory, current_directory>>
    BY <1>1, <1>4
  <2>2. current_directory \in DOMAIN dirs \ {kernel_directory, dir} /\ dir \in DOMAIN dirs /\ i \in Nat
    BY <1>1, <2>1 DEF IInv, Running
  <2>3. \A c \in {current_directory}, d \in {dir} : Twins(c, d) /\ Twins(d, c)
    <3> SUFFICES ASSUME NEW c, c = current_directory, NEW d, d = dir
                 PROVE  Twins(c, d) /\ Twins(d, c)
      OBVIOUS
    <3>1. Own(d) = {e \in Own(c) : e < i} /\ \A e \in Own(d) : Pages(d, e) = Pages(c, e)
      BY <1>1, <2>1 DEF Copying
    <3>2. \A e \in Own(c) : e \in DOMAIN Source.tables /\ e \in 0..(ENTRIES - 1)
      BY <2>2, OwnTable DEF Own, Source
    <3>3. \A e \in Own(c) : e < i
      BY <1>1, <2>2, <3>2 DEF Remaining
    <3>4. Own(d) = Own(c)
      BY <3>1, <3>3
    <3> QED
      BY <3>1, <3>4 DEF Twins
  <2>4. \A c, d \in DOMAIN dirs \ {kernel_directory, dir} : Twins(c, d)
    BY <1>1 DEF Twinned
  <2>5. \A d : Twins(d, d)
    BY DEF Twins
  <2>6. ASSUME NEW c, NEW d, NEW z, Twins(c, z), Twins(z, d) PROVE Twins(c, d)
    BY <2>6 DEF Twins
  <2>7. \A c, d \in DOMAIN dirs \ {kernel_directory} : Twins(c, d)
    <3> SUFFICES ASSUME NEW c \in DOMAIN dirs \ {kernel_directory}, NEW d \in DOMAIN dirs \ {kernel_directory}
                 PROVE  Twins(c, d)
      OBVIOUS
    <3>1. \A z \in {current_directory} : Twins(c, z) /\ Twins(z, d)
      BY <2>2, <2>3, <2>4
    <3> QED
      BY <2>6, <3>1
  <2> QED
    BY <1>2, <2>1, <2>7, TwinsStay DEF Twinned
<1>5. Twinned'
  BY <1>1, <1>4 DEF Twinned
<1> QED
  BY <1>2, <1>3, <1>5 DEF SInv

LEMMA MoveStackStacks ==
    ASSUME IInv, RCore, Located, TablesExist, Private, Alone, StackRange, MoveStack
    PROVE  SInv'
<1>1. /\ pc = "move_stack" /\ current_directory \in DOMAIN dirs \ {kernel_directory} /\ dir = 0
      /\ i \in (STACK_TOP - STACK_PAGES - 1)..STACK_TOP
      /\ DOMAIN dirs = {kernel_directory, current_directory}
      /\ UNCHANGED <<kernel_directory, current_directory, dir>>
  BY DEF MoveStack, IInv, Running, Alone, StackRange
\* There is one directory that is not the kernel's.
<1>2. ASSUME Private', DOMAIN dirs' = DOMAIN dirs, pc' # "clone" PROVE SInv'
  <2>1. Twinned'
    <3>1. \A d \in DOMAIN dirs' \ {kernel_directory', dir'} : d = current_directory
      BY <1>1, <1>2
    <3>2. \A d : Twins(d, d)'
      BY DEF Twins
    <3> QED
      BY <1>2, <3>1, <3>2 DEF Twinned
  <2>2. Alone' /\ Copying'
    BY <1>1, <1>2 DEF Alone, Copying
  <2> QED
    BY <1>2, <2>1, <2>2 DEF SInv
<1>3. ASSUME UNCHANGED dirs PROVE Private'
  BY <1>1, <1>3 DEF Private, Own, TablesOf
<1>4. CASE i < STACK_TOP - STACK_PAGES
  BY <1>2, <1>3, <1>4 DEF MoveStack, mapVars
<1>5. CASE ~(i < STACK_TOP - STACK_PAGES) /\ HasTable(current_directory, i)
  <2>1. UNCHANGED dirs /\ pc' # "clone"
    BY <1>1, <1>5, Zenon DEF MoveStack, alloc_frame
  <2> QED
    BY <1>2, <1>3, <2>1
<1>6. CASE ~(i < STACK_TOP - STACK_PAGES) /\ ~HasTable(current_directory, i)
  <2>1. PICK e \in Ends(1) :
           \/ Stop(e)
           \/ /\ Take(1, e) /\ UNCHANGED pc
              /\ \E physical : dirs' = AddTable(current_directory, i, top * PAGE, physical)
    BY <1>6, Zenon DEF MoveStack
  <2>2. CASE Stop(e)
    BY <2>2, StopStacks
  <2>3. ASSUME Take(1, e), UNCHANGED pc,
               NEW physical, dirs' = AddTable(current_directory, i, top * PAGE, physical)
        PROVE  SInv'
    <3>1. PICK n : n = i \div ENTRIES
      OBVIOUS
    <3>2. /\ DOMAIN dirs' = DOMAIN dirs
          /\ DOMAIN dirs'[current_directory].tables = DOMAIN TablesOf(current_directory) \cup {n}
          /\ dirs'[current_directory].tables[n] = top * PAGE
          /\ \A x \in DOMAIN TablesOf(current_directory) \ {n} :
                dirs'[current_directory].tables[x] = TablesOf(current_directory)[x]
          /\ \A c \in DOMAIN dirs \ {current_directory} : dirs'[c] = dirs[c]
      BY <1>1, <2>3, <3>1, AddTableIs
    <3>3. \A d \in DOMAIN dirs' : \A x \in Own(d)' :
             \/ d = current_directory /\ x = n /\ TablesOf(d)'[x] = top * PAGE
             \/ d \in DOMAIN dirs /\ x \in Own(d) /\ TablesOf(d)'[x] = TablesOf(d)[x]
      BY <1>1, <3>2 DEF Own, TablesOf
    <3>4. Private'
      BY <3>3, PrivateStays
    <3> QED
      BY <1>1, <1>2, <2>3, <3>2, <3>4
  <2> QED
    BY <2>1, <2>2, <2>3
<1> QED
  BY <1>4, <1>5, <1>6

LEMMA SwitchStacks ==
    ASSUME RCore, Located, TablesExist, Private, Twinned,
           NEW d \in DOMAIN dirs \ {kernel_directory}, switch_page_directory(d)
    PROVE  SInv'
<1>1. /\ pc = "run" /\ pc' = "run" /\ current_directory' = d
      /\ UNCHANGED <<mapVars, kernel_directory, dir>>
  BY DEF switch_page_directory
<1>2. Private' /\ \A c \in DOMAIN dirs : Steady(c)
  BY <1>1, StillKeepsStacks
<1>3. Twinned'
  BY <1>1, <1>2, TwinsStay DEF Twinned, mapVars
<1> QED
  BY <1>1, <1>2, <1>3 DEF SInv, Alone, Copying

LEMMA CreateHeapStacks ==
    ASSUME IInv, CreateHeap
    PROVE  SInv'
<1>1. /\ DOMAIN dirs = {kernel_directory} /\ dir = 0 /\ pc' = "clone"
      /\ current_directory' = kernel_directory /\ UNCHANGED <<mapVars, kernel_directory, dir>>
  BY DEF IInv, Booting, Boot, CreateHeap
<1>2. dirs' = dirs
  BY <1>1 DEF mapVars
<1>3. \A d \in DOMAIN dirs' : Own(d)' = {}
  BY <1>1, <1>2 DEF Own
<1> QED
  BY <1>1, <1>2, <1>3 DEF SInv, Private, Alone, Twinned, Copying

LEMMA KernelNextStacks ==
    ASSUME IInv, FInv, RInv, SInv, [KernelNext]_vars
    PROVE  SInv'
<1>1. CASE UNCHANGED vars
  BY <1>1 DEF vars, mapVars, heapVars, SInv, Up, Private, Alone, Twinned, Twins, Copying, Pages, Own,
     TablesOf, EntryAt, Unmapped
<1>2. CASE ~Up'
  BY <1>2 DEF SInv
<1>3. CASE ~Up /\ Up'
  BY <1>3, OnlyCreateHeapStarts, CreateHeapStacks
<1>4. CASE Up /\ KernelNext
  <2>1. RCore /\ Located /\ StackRange /\ TablesExist /\ Private /\ Alone /\ Twinned /\ Copying
    BY <1>4 DEF RInv, SInv, FInv
  <2>2. ASSUME VmmInit \/ PreallocateHeapTables \/ MapPlaced \/ AllocateHeap \/ CreateHeap PROVE FALSE
    BY <1>4, <2>2 DEF Up, VmmInit, PreallocateHeapTables, MapPlaced, AllocateHeap, CreateHeap
  <2>3. ASSUME NEW n \in {1, 2}, kmalloc(n) PROVE SInv'
    BY <2>1, <2>3, KmallocStacks
  <2>4. ASSUME NEW d \in DOMAIN dirs \ {kernel_directory}, switch_page_directory(d) PROVE SInv'
    BY <2>1, <2>4, SwitchStacks
  <2>5. CASE CloneDirectory
    BY <2>1, <2>5, CloneDirectoryStacks
  <2>6. CASE LinkTable
    BY <2>1, <2>6, LinkTableStacks
  <2>7. CASE CloneTable
    BY <2>1, <2>7, CloneTableStacks
  <2>8. CASE CloneEnd
    BY <2>1, <2>8, CloneEndStacks
  <2>9. CASE MoveStack
    BY <2>1, <2>9, MoveStackStacks
  <2> QED
    BY <1>4, <2>2, <2>3, <2>4, <2>5, <2>6, <2>7, <2>8, <2>9, Zenon DEF KernelNext
<1> QED
  BY <1>1, <1>2, <1>3, <1>4

LEMMA StacksAreApart == IInv /\ SInv => StacksAreOwn
<1> SUFFICES ASSUME IInv, SInv, pc = "run",
                    NEW c \in DOMAIN dirs \ {kernel_directory}, NEW d \in DOMAIN dirs \ {kernel_directory},
                    c # d
             PROVE  /\ StackPages(c) = StackPages(d)
                    /\ \A e \in Own(c) : dirs[c].tables[e] # dirs[d].tables[e]
  BY DEF StacksAreOwn
<1>1. Private /\ Twinned
  BY DEF SInv, Up
<1>2. dir = 0 /\ 0 \notin DOMAIN dirs
  BY TopIsFresh DEF IInv, Running
<1>3. Own(c) = Own(d) /\ \A e \in Own(c) : Pages(c, e) = Pages(d, e)
  BY <1>1, <1>2 DEF Twinned, Twins
<1>4. \A e \in Own(c) : dirs[c].tables[e] # dirs[d].tables[e]
  BY <1>1, <1>3 DEF Private, TablesOf
<1>5. \A b \in {c, d} : StackPages(b) = {x \in Own(b) \X (0..(ENTRIES - 1)) : x[2] \in Pages(b, x[1])}
  BY DEF StackPages, Pages, TablesOf
<1>6. StackPages(c) = StackPages(d)
  BY <1>3, <1>5
<1> QED
  BY <1>4, <1>6

\* However often a task forks, its stack and its parent's are the same pages,
\* in tables that no other directory has: with FramesHaveOneOwner, in frames
\* of its own (move_stack, task.c; clone_table, paging.c:317).
THEOREM TasksOwnStacks == KernelSpec => []StacksAreOwn
<1>1. Init => SInv
  BY DEF Init, SInv, Up
<1>2. MInv /\ SInv /\ [KernelNext]_vars => SInv'
  BY KernelNextStacks DEF MInv
<1>3. MInv /\ SInv => StacksAreOwn
  BY StacksAreApart DEF MInv
<1> QED
  BY <1>1, <1>2, <1>3, MapsHold, PTL DEF KernelSpec
=============================================================================
