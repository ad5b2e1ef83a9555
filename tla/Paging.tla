------------------------------- MODULE Paging -------------------------------
(***************************************************************************)
(* kmm/paging.c: the frame bitmap, page tables and directories, set up by   *)
(* vmm_init, given a stack by task.c's move_stack, grown and shrunk by the  *)
(* heap and cloned by fork.                                                 *)
(*                                                                          *)
(* Virtual addresses are counted in bytes, pages in pages.  Tables and      *)
(* directories are kept by their address; an entry that is all zero is left *)
(* out of them.  Access rights are left out.  kfree has no caller, so the   *)
(* heap's blocks rise: top is the first page it has not handed out, and the *)
(* page behind a block holds the tags.  alloc may expand the heap while it  *)
(* has room, because clone_table clears the tags behind its block.          *)
(***************************************************************************)
EXTENDS Integers, FiniteSets, TLC

CONSTANTS
    ENTRIES,       \* entries of a table, and of a directory
    KHEAP_START, KHEAP_PAGES,      \* first page of the heap, its initial size
    INDEX_PAGES,   \* pages of the heap taken by its index
    HEAP_MIN_PAGES,\* contract leaves this many pages behind the index
    HEAP_STRUCT,   \* sizeof(struct heap)
    STACK_TOP, STACK_PAGES,        \* move_stack's arguments, in pages
    KernelEnd,     \* where the kernel's image may end
    Memory,        \* what the memory behind it may hold where the bitmap goes
    MaxDirs        \* bound: directories ever made

PAGE == 4 * ENTRIES
NFRAMES == PAGE                    \* 16 MB of 4 KB frames: 4096 of them
DIR_SIZE == (2 * PAGE) + 4

PageAligned(a) == ((a \div PAGE) * PAGE) + PAGE

ASSUME LayoutAssumption ==
    /\ {ENTRIES, KHEAP_START, KHEAP_PAGES, HEAP_STRUCT, STACK_TOP, MaxDirs} \subseteq Nat \ {0}
    /\ {INDEX_PAGES, HEAP_MIN_PAGES, STACK_PAGES} \subseteq Nat
    /\ INDEX_PAGES < KHEAP_PAGES /\ HEAP_STRUCT <= PAGE
    /\ \A a \in KernelEnd : a \in Nat /\ a >= PAGE
    /\ \A m \in Memory : m \subseteq 0..(NFRAMES - 1)

\* vmm_init's directory is placed below the heap.
ASSUME HeapAboveKernel ==
    \A a \in KernelEnd : PageAligned(a + (NFRAMES \div 32)) < KHEAP_START * PAGE

\* One table maps the heap at first, another all that vmm_init places: image,
\* bitmap, directory and both tables.  The frames whose bits it clears are
\* enough for these and for the heap.
ASSUME BootFits ==
    /\ ENTRIES <= KHEAP_START
    /\ KHEAP_START \div ENTRIES = (KHEAP_START + KHEAP_PAGES - 1) \div ENTRIES
    /\ \A a \in KernelEnd :
          PageAligned(a + (NFRAMES \div 32)) + DIR_SIZE + ((5 + KHEAP_PAGES) * PAGE)
             <= 8 * (NFRAMES \div 32) * PAGE

\* The stack has tables of its own, and everything lies in the address space.
ASSUME StackApart ==
    /\ STACK_PAGES <= STACK_TOP
    /\ {KHEAP_START, STACK_TOP} \subseteq 0..((ENTRIES * ENTRIES) - 1)
    /\ \A p \in (STACK_TOP - STACK_PAGES)..STACK_TOP : p \div ENTRIES \notin {0, KHEAP_START \div ENTRIES}

\* vmm_init's clone_directory may expand the heap by a directory and its tags
\* and stays in the heap's table; the table behind that one is addressable.
ASSUME HeapTableHasRoom ==
    /\ ENTRIES > 3
    /\ KHEAP_START \div ENTRIES = (KHEAP_START + KHEAP_PAGES + 2) \div ENTRIES
    /\ (KHEAP_START \div ENTRIES) + 1 < ENTRIES

VARIABLES
    frames,                 \* numbers of the bits set in the bitmap
    placement_address,
    tables,                 \* address of a page table -> its entries
    dirs,                   \* address of a page directory -> the directory
    kernel_directory, current_directory,
    top, end,               \* the heap: first page not handed out, first not in it
    pc, i,                  \* where the kernel is, its loop counter
    dir                     \* the directory clone_directory is filling, or 0

mapVars == <<frames, tables, dirs>>
heapVars == <<top, end>>
vars == <<mapVars, placement_address, kernel_directory, current_directory, heapVars, pc, i, dir>>

Boot == {"vmm_init", "tables", "map", "heap", "create"}
Pc == Boot \cup {"clone", "move_stack", "run", "fault", "panic"}

Frame == 0..(NFRAMES - 1)
Entry == [present : BOOLEAN, frame : Frame]
Unmapped == [present |-> FALSE, frame |-> 0]

EntryAt(t, p) == IF p % ENTRIES \in DOMAIN t THEN t[p % ENTRIES] ELSE Unmapped

HasTable(d, p) == p \div ENTRIES \in DOMAIN dirs[d].tables

\* The table for page p that every kernel page is looked up in.
KernelTable(p) == dirs[kernel_directory].tables[p \div ENTRIES]

KernelEntry(ts, p) ==
    IF kernel_directory \in DOMAIN dirs /\ HasTable(kernel_directory, p)
    THEN EntryAt(ts[KernelTable(p)], p)
    ELSE Unmapped

PhysicalPlaced(ts, a) == a                  \* mutant: as before the heap exists

\* The physical address kmalloc_int works out for a block of the heap.
Physical(ts, a) == (KernelEntry(ts, a \div PAGE).frame * PAGE) + (a % PAGE)

TypeOK ==
    /\ frames \subseteq Frame
    /\ placement_address \in Nat
    /\ \A t \in DOMAIN tables : \A e \in DOMAIN tables[t] :
          e \in 0..(ENTRIES - 1) /\ tables[t][e] \in Entry
    /\ \A d \in DOMAIN dirs :
          /\ \A e \in DOMAIN dirs[d].tables : e \in 0..(ENTRIES - 1) /\ dirs[d].tables[e] \in DOMAIN tables
          /\ DOMAIN dirs[d].tablesPhysical = DOMAIN dirs[d].tables
    /\ {kernel_directory, current_directory} \subseteq DOMAIN dirs \cup {0}
    /\ dir \in DOMAIN dirs \cup {0}
    /\ top \in Nat /\ end \in Nat /\ i \in Int
    /\ pc \in Pc

Init ==
    /\ placement_address \in KernelEnd
    /\ frames \in Memory
    /\ tables = <<>>
    /\ dirs = <<>>
    /\ kernel_directory = 0
    /\ current_directory = 0
    /\ top = 0 /\ end = 0
    /\ pc = "vmm_init"
    /\ i = 0
    /\ dir = 0

(***************************************************************************)
(* Frames.                                                                  *)
(***************************************************************************)
FreeAmong(used) == Frame \ used

first_frame(used) == CHOOSE f \in FreeAmong(used) : \A g \in FreeAmong(used) : f <= g

\* Frames for a set of pages, handed out one by one from the first page up.
FramesFor(pages, used) ==
    LET Rank(x, S) == Cardinality({y \in S : y < x})
    IN  [p \in pages |-> CHOOSE f \in FreeAmong(used) :
                            Rank(f, FreeAmong(used)) = Rank(p, pages)]

RunsOut(pages, used) == Cardinality(FreeAmong(used)) < Cardinality(pages)

\* Where get_page finds page p: a table and the entry in it.
Slot(t, p) == <<t, p % ENTRIES>>

\* The tables when the slots in the domain of new have the frames of new.
Map(ts, new) ==
    [t \in DOMAIN ts |->
        [e \in DOMAIN ts[t] \cup {x \in 0..(ENTRIES - 1) : <<t, x>> \in DOMAIN new} |->
            IF <<t, e>> \in DOMAIN new THEN [present |-> TRUE, frame |-> new[<<t, e>>]]
            ELSE ts[t][e]]]

\* alloc_frame, for a page whose entry may have a frame already.
alloc_frame(ts, t, p) ==
    IF EntryAt(ts[t], p).frame # 0
    THEN /\ tables' = ts
         /\ UNCHANGED <<frames, pc>>
    ELSE IF FreeAmong(frames) = {}
    THEN /\ pc' = "panic"
         /\ tables' = ts
         /\ UNCHANGED frames
    ELSE /\ tables' = Map(ts, [x \in {Slot(t, p)} |-> first_frame(frames)])
         /\ frames' = frames \cup {first_frame(frames)}
         /\ UNCHANGED pc

\* free_frame hands clear_frame a frame number where it expects an address.
Cleared(used, freed) == used \ {f \div PAGE : f \in freed}

(***************************************************************************)
(* vmm_init.                                                                *)
(***************************************************************************)
With(f, x, v) == [y \in DOMAIN f \cup {x} |-> IF y = x THEN v ELSE f[y]]

AddTableByPage(d, p, t, physical) ==        \* mutant: the page's number is the index
    [dirs EXCEPT ![d] = [tables |-> With(dirs[d].tables, p, t),
                         tablesPhysical |-> With(dirs[d].tablesPhysical, p, physical),
                         physicalAddr |-> dirs[d].physicalAddr]]

AddTable(d, p, t, physical) ==
    [dirs EXCEPT ![d] = [tables |-> With(dirs[d].tables, p \div ENTRIES, t),
                         tablesPhysical |-> With(dirs[d].tablesPhysical, p \div ENTRIES, physical),
                         physicalAddr |-> dirs[d].physicalAddr]]

\* The bitmap has NFRAMES bits; a byte for each 32 of them is asked for and cleared.
VmmInit ==
    LET bytes == NFRAMES \div 32
        d == PageAligned(placement_address + bytes)
    IN  /\ pc = "vmm_init"
        /\ frames' = frames \ 0..((8 * bytes) - 1)
        /\ placement_address' = d + DIR_SIZE
        /\ kernel_directory' = d
        /\ dirs' = With(dirs, d, [tables |-> <<>>, tablesPhysical |-> <<>>,
                                  physicalAddr |-> d + PAGE])
        /\ i' = KHEAP_START
        /\ pc' = "tables"
        /\ UNCHANGED <<tables, current_directory, heapVars, dir>>

\* get_page while the heap does not exist: a new table comes from placement_address.
GetBootPage(p) ==
    IF HasTable(kernel_directory, p)
    THEN UNCHANGED <<dirs, placement_address>>
    ELSE LET t == PageAligned(placement_address)
         IN  /\ placement_address' = t + PAGE
             /\ dirs' = AddTable(kernel_directory, p, t, t)

BootTable(p) == IF HasTable(kernel_directory, p) THEN KernelTable(p) ELSE PageAligned(placement_address)

BootTables(p) == IF HasTable(kernel_directory, p) THEN tables ELSE With(tables, BootTable(p), <<>>)

InHeapLoop == i < KHEAP_START + KHEAP_PAGES

PreallocateHeapTables ==
    /\ pc = "tables"
    /\ IF InHeapLoop
       THEN /\ GetBootPage(i)
            /\ tables' = BootTables(i)
            /\ i' = i + 1
            /\ UNCHANGED pc
       ELSE /\ i' = 0
            /\ pc' = "map"
            /\ UNCHANGED <<tables, dirs, placement_address>>
    /\ UNCHANGED <<frames, kernel_directory, current_directory, heapVars, dir>>

InMapLoopShort == i * PAGE < placement_address     \* mutant: nothing mapped ahead

\* The limit moves while the loop runs: its own tables are placed there.
InMapLoop == i * PAGE < placement_address + PAGE

MapPlaced ==
    /\ pc = "map"
    /\ IF InMapLoop
       THEN /\ GetBootPage(i)
            /\ alloc_frame(BootTables(i), BootTable(i), i)
            /\ i' = i + 1
       ELSE /\ i' = KHEAP_START
            /\ pc' = "heap"
            /\ UNCHANGED <<frames, tables, dirs, placement_address>>
    /\ UNCHANGED <<kernel_directory, current_directory, heapVars, dir>>

AllocateHeap ==
    /\ pc = "heap"
    /\ IF InHeapLoop
       THEN /\ alloc_frame(tables, KernelTable(i), i)
            /\ i' = i + 1
       ELSE /\ pc' = "create"
            /\ UNCHANGED <<frames, tables, i>>
    /\ UNCHANGED <<dirs, placement_address, kernel_directory, current_directory, heapVars, dir>>

\* switch_page_directory(kernel_directory), then create_heap.
CreateHeap ==
    /\ pc = "create"
    /\ current_directory' = kernel_directory
    /\ placement_address' = placement_address + HEAP_STRUCT
    /\ top' = KHEAP_START + INDEX_PAGES
    /\ end' = KHEAP_START + KHEAP_PAGES
    /\ pc' = "clone"
    /\ UNCHANGED <<mapVars, kernel_directory, i, dir>>

(***************************************************************************)
(* The heap, as far as paging sees it.                                      *)
(***************************************************************************)

\* Where the heap ends once a block of n pages has been handed out: an expansion
\* adds its size and that of its tags.
Ends(n) == {e \in {end, end + n, end + n + 1} : top + n + 1 <= e}

\* Pages expand gives a frame: contract may have left some behind.
Grown(e) == {p \in end..(e - 1) : KernelEntry(tables, p).frame = 0}

NewFrames(e) == FramesFor(Grown(e), frames)

FramesAfterUnmarked(e) == frames            \* mutant: no set_frame

FramesAfter(e) == frames \cup {NewFrames(e)[p] : p \in Grown(e)}

\* Pages expand comes to that have no table.
Tableless(e) == {p \in end..(e - 1) : ~HasTable(kernel_directory, p)}

FirstTableless(e) == CHOOSE p \in Tableless(e) : \A q \in Tableless(e) : p <= q

\* get_page, called by expand, asks the heap for their table: the block at top.
NewTable == top * PAGE

TablesAfter(e) ==
    LET slot(p) == Slot(IF p \in Tableless(e) THEN NewTable ELSE KernelTable(p), p)
    IN  Map(IF Tableless(e) = {} THEN tables ELSE With(tables, NewTable, <<>>),
            [x \in {slot(p) : p \in Grown(e)} |->
                NewFrames(e)[CHOOSE p \in Grown(e) : slot(p) = x]])

\* The heap, whose end is still the old one, has a block for the table.
HasRoom == top + 2 <= end

\* How far expand gets: without room for the table it calls itself for ever.
Reached(e) == IF Tableless(e) = {} \/ HasRoom THEN e ELSE FirstTableless(e)

Stops(e) == Tableless(e) # {} \/ RunsOut(Grown(e), frames)

\* Growing past the kernel's last heap table ends in a fault even if a table is
\* made: only kernel_directory gets it, which is not the one in use, and alloc
\* writes a tag at the heap's new end.
Stop(e) ==
    LET r == Reached(e) IN
    /\ Stops(e)
    /\ IF RunsOut(Grown(r), frames)
       THEN /\ pc' = "panic"
            /\ UNCHANGED <<mapVars, heapVars>>
       ELSE /\ pc' = "fault"
            /\ frames' = FramesAfter(r)
            /\ tables' = TablesAfter(r)
            /\ IF HasRoom
               THEN /\ dirs' = AddTable(kernel_directory, FirstTableless(e), NewTable,
                                        Physical(TablesAfter(e), NewTable))
                    /\ top' = top + 2
                    /\ end' = e
               ELSE UNCHANGED <<dirs, heapVars>>
    /\ UNCHANGED <<placement_address, kernel_directory, current_directory, i, dir>>

Take(n, e) ==
    /\ ~Stops(e)
    /\ end' = e
    /\ top' = top + n + 1

\* Any kernel code that asks for memory.
kmalloc(n) ==
    /\ pc = "run"
    /\ \E e \in Ends(n) :
          \/ Stop(e)
          \/ /\ Take(n, e)
             /\ frames' = FramesAfter(e)
             /\ tables' = TablesAfter(e)
             /\ UNCHANGED <<dirs, placement_address, kernel_directory, current_directory, pc, i, dir>>

\* free, when the heap's last block becomes free: contract keeps the page at
\* the new end, takes the frames of those behind it and leaves them present.
contract ==
    LET lowest == KHEAP_START + INDEX_PAGES + HEAP_MIN_PAGES IN
    \E e \in {x \in top..(end - 1) : x >= lowest} :
        LET gone == (e + 1)..(end - 1)
            freed == {KernelEntry(tables, p).frame : p \in gone} \ {0}
        IN  /\ pc = "run"
            /\ frames' = Cleared(frames, freed)
            /\ tables' = [t \in DOMAIN tables |-> [x \in DOMAIN tables[t] |->
                              IF <<t, x>> \in {Slot(KernelTable(p), p) : p \in gone}
                              THEN [tables[t][x] EXCEPT !.frame = 0] ELSE tables[t][x]]]
            /\ end' = e
            /\ UNCHANGED <<dirs, placement_address, kernel_directory, current_directory, top, pc, i, dir>>

(***************************************************************************)
(* clone_directory, of the current directory.                               *)
(***************************************************************************)

\* physicalAddr is worked out from the frame of the directory's first page, as
\* if those of its pages followed each other.
CloneDirectory ==
    LET a == top * PAGE IN
    /\ pc \in {"clone", "run"}
    /\ dir = 0
    /\ Cardinality(DOMAIN dirs) < MaxDirs
    /\ \E e \in Ends(2) :
          \/ Stop(e)
          \/ /\ Take(2, e)
             /\ frames' = FramesAfter(e)
             /\ tables' = TablesAfter(e)
             /\ dirs' = With(dirs, a, [tables |-> <<>>, tablesPhysical |-> <<>>,
                                       physicalAddr |-> Physical(TablesAfter(e), a) + PAGE])
             /\ dir' = a
             /\ i' = 0
             /\ pc' = "clone"
             /\ UNCHANGED <<placement_address, kernel_directory, current_directory>>

Source == dirs[current_directory]

RemainingAfter == {e \in DOMAIN Source.tables : i < e}   \* mutant: increments too early

Remaining == {e \in DOMAIN Source.tables : i <= e}

NextTable == CHOOSE e \in Remaining : \A x \in Remaining : e <= x

InKernelAlways(e) == e \in DOMAIN Source.tables          \* mutant: links every table

InKernel(e) ==
    /\ e \in DOMAIN dirs[kernel_directory].tables
    /\ dirs[kernel_directory].tables[e] = Source.tables[e]

LinkTable ==
    /\ pc = "clone"
    /\ dir # 0
    /\ Remaining # {}
    /\ InKernel(NextTable)
    /\ dirs' = AddTable(dir, NextTable * ENTRIES, Source.tables[NextTable], Source.tablesPhysical[NextTable])
    /\ i' = NextTable + 1
    /\ UNCHANGED <<frames, tables, heapVars, placement_address, kernel_directory, current_directory, pc, dir>>

\* The pages of table s that a clone gets frames of its own for.
Copied(s) == {p \in DOMAIN tables[s] : tables[s][p].frame # 0}

\* clone_table.  It clears the size of a directory: two pages and a word.
CloneTable ==
    LET a == top * PAGE
        s == Source.tables[NextTable]
    IN  /\ pc = "clone"
        /\ dir # 0
        /\ Remaining # {}
        /\ ~InKernel(NextTable)
        /\ \E e \in Ends(1) :
              \/ Stop(e)
              \/ /\ ~Stops(e)
                 /\ LET ts == With(TablesAfter(e), a, <<>>)
                        used == FramesAfter(e)
                        new == FramesFor(Copied(s), used)
                        stop == IF ~KernelEntry(ts, top + 2).present THEN "fault"
                                ELSE IF RunsOut(Copied(s), used) THEN "panic"
                                ELSE "clone"
                    IN  /\ pc' = stop
                        /\ IF stop = "clone"
                           THEN /\ Take(1, e)
                                /\ tables' = Map(ts, [x \in {a} \X Copied(s) |-> new[x[2]]])
                                /\ frames' = used \cup {new[p] : p \in Copied(s)}
                                /\ dirs' = AddTable(dir, NextTable * ENTRIES, a, Physical(ts, a))
                                /\ i' = NextTable + 1
                           ELSE UNCHANGED <<mapVars, heapVars, i>>
                 /\ UNCHANGED <<placement_address, kernel_directory, current_directory, dir>>

\* The clone made by vmm_init is switched to; fork's is kept for its task.
CloneEnd ==
    /\ pc = "clone"
    /\ dir # 0
    /\ Remaining = {}
    /\ IF current_directory = kernel_directory
       THEN current_directory' = dir /\ pc' = "move_stack" /\ i' = STACK_TOP
       ELSE pc' = "run" /\ UNCHANGED <<current_directory, i>>
    /\ dir' = 0
    /\ UNCHANGED <<mapVars, heapVars, placement_address, kernel_directory>>

(***************************************************************************)
(* Tasks.                                                                   *)
(***************************************************************************)

\* move_stack's loop: the page's table is the current directory's own.
MoveStack ==
    /\ pc = "move_stack"
    /\ IF i < STACK_TOP - STACK_PAGES
       THEN /\ pc' = "run"
            /\ UNCHANGED <<mapVars, heapVars, i>>
       ELSE IF HasTable(current_directory, i)
       THEN /\ alloc_frame(tables, Source.tables[i \div ENTRIES], i)
            /\ i' = i - 1
            /\ UNCHANGED <<dirs, heapVars>>
       ELSE \E e \in Ends(1) :
               \/ Stop(e)
               \/ /\ Take(1, e)
                  /\ frames' = FramesAfter(e)
                  /\ tables' = With(TablesAfter(e), top * PAGE, <<>>)
                  /\ dirs' = AddTable(current_directory, i, top * PAGE,
                                      Physical(TablesAfter(e), top * PAGE))
                  /\ UNCHANGED <<pc, i>>
    /\ UNCHANGED <<placement_address, kernel_directory, current_directory, dir>>

switch_page_directory(d) ==
    /\ pc = "run"
    /\ current_directory' = d
    /\ UNCHANGED <<mapVars, heapVars, placement_address, kernel_directory, pc, i, dir>>

\* The kernel as it is: nothing in it calls kfree.
KernelNext ==
    \/ VmmInit \/ PreallocateHeapTables \/ MapPlaced \/ AllocateHeap \/ CreateHeap
    \/ \E n \in {1, 2} : kmalloc(n)
    \/ CloneDirectory \/ LinkTable \/ CloneTable \/ CloneEnd
    \/ MoveStack
    \/ \E d \in DOMAIN dirs \ {kernel_directory} : switch_page_directory(d)

KernelSpec == Init /\ [][KernelNext]_vars

\* With calls of kfree.
Spec == Init /\ [][KernelNext \/ contract]_vars

(***************************************************************************)
(* Properties.                                                              *)
(***************************************************************************)
Framed == {x \in (DOMAIN tables) \X (0..(ENTRIES - 1)) : EntryAt(tables[x[1]], x[2]).present}

FrameOf(x) == tables[x[1]][x[2]].frame

\* No frame, the first included, backs two pages, in whatever tables they are,
\* and the bitmap has every frame in use marked: growing the heap and cloning
\* a stack never take a frame from its owner.  (Shrinking the heap, which the
\* kernel never does, would: FirstFrameIsFree.)
FrameHasOneOwner ==
    /\ \A x \in Framed : FrameOf(x) \in frames
    /\ Cardinality({FrameOf(x) : x \in Framed}) = Cardinality(Framed)

\* When paging is on, all that was placed before (image, bitmap, directory,
\* tables, struct heap) is mapped where it lies, although vmm_init places
\* tables while it maps.
IdentityMapped ==
    pc \notin Boot \cup {"panic"} =>
        \A p \in 0..((placement_address - 1) \div PAGE) :
            KernelEntry(tables, p) = [present |-> TRUE, frame |-> p]

Complete == DOMAIN dirs \ {dir}

\* The table get_page made last, for the heap.
JustMade == (top - 2) * PAGE

\* Every address space has the kernel's tables, the very same ones.  Only the
\* table that is made when the heap grows out of its first may be missing, and
\* then the machine has stopped: nothing runs on in a directory without it.
KernelTablesLinked ==
    \A d \in Complete : \A e \in DOMAIN dirs[kernel_directory].tables :
        \/ /\ e \in DOMAIN dirs[d].tables
           /\ dirs[d].tables[e] = dirs[kernel_directory].tables[e]
        \/ pc = "fault" /\ dirs[kernel_directory].tables[e] = JustMade

\* Where the memory at a kernel address really is.
Translated(a) == (KernelEntry(tables, a \div PAGE).frame * PAGE) + (a % PAGE)

\* A directory in a page that vmm_init mapped: its own, or one in the heap's
\* initial pages.
InitiallyMapped(d) == d + DIR_SIZE <= (KHEAP_START + KHEAP_PAGES) * PAGE

\* The tables the processor walks are the tables the kernel edits: the physical
\* address it is given for a directory is where tablesPhysical (the directory's
\* second page) is, and those in there are where the tables are.  The first
\* half is not so for a directory in pages the heap got later, whose frames may
\* be apart.
TablesAreWalked ==
    pc \notin Boot \cup {"panic"} =>
        \A d \in DOMAIN dirs :
            /\ InitiallyMapped(d) => dirs[d].physicalAddr = Translated(d + PAGE)
            /\ \A e \in DOMAIN dirs[d].tables :
                  Translated(dirs[d].tables[e]) = dirs[d].tablesPhysical[e]

Own(d) == DOMAIN dirs[d].tables \ DOMAIN dirs[kernel_directory].tables

StackPages(d) == {x \in Own(d) \X (0..(ENTRIES - 1)) :
                      EntryAt(tables[dirs[d].tables[x[1]]], x[2]).frame # 0}

\* Each task has a stack of its own: the same pages, in tables no other
\* directory has (and so, by FrameHasOneOwner, in frames of their own).
StacksAreOwn ==
    pc = "run" =>
        \A c, d \in DOMAIN dirs \ {kernel_directory} : c # d =>
            /\ StackPages(c) = StackPages(d)
            /\ \A e \in Own(c) : dirs[c].tables[e] # dirs[d].tables[e]

\* paging.c:57, "first free physical frame": the next frame handed out is one
\* that no page is mapped to.
FirstFrameIsFree ==
    FreeAmong(frames) # {} =>
        \A t \in DOMAIN tables : \A e \in DOMAIN tables[t] :
            tables[t][e].present => tables[t][e].frame # first_frame(frames)
=============================================================================
