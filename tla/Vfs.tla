--------------------------------- MODULE Vfs ---------------------------------
(***************************************************************************)
(* The file layer: kfs/vfs.c (node tree and open table), kcore/modules.c     *)
(* (the device tree), kcore/initrd.c (the tar ramdisk) and the system calls  *)
(* of kcore/syscall.c that use them.                                        *)
(*                                                                          *)
(* A node is a pair: its name, or "file" for a node of the ramdisk, and a    *)
(* number.  A path is the sequence of names between its slashes.  What a     *)
(* device does with the bytes it is given is left to its driver.             *)
(***************************************************************************)
EXTENDS Integers, Sequences, SequencesExt, FiniteSets

CONSTANTS
    Client,        \* programs that make system calls
    OPEN,          \* slots of vfsOpenTable: 256
    BLOCK,         \* TAR_BLOCK_SIZE: 512
    INITRD_HEADER_SIZE,  \* entries of the ramdisk's headers[] and nodes[]: 64
    WORD,          \* an unsigned int is below this: 2^32
    Images,        \* ramdisks: sequences of members [path, dir, size]
    Path,          \* paths that clients ask for
    Count          \* counts that clients ask for

ASSUME FileAssumption ==
    /\ {OPEN, BLOCK, INITRD_HEADER_SIZE, WORD} \subseteq Nat \ {0}
    /\ Count \subseteq 0..(WORD - 1) /\ Path \subseteq Seq(STRING)

\* Each member has a name: initrd_parse takes a header without one for the end.
ASSUME ImageAssumption ==
    /\ Images \subseteq Seq([path : Seq(STRING), dir : BOOLEAN, size : Nat])
    /\ \A im \in Images : \A k \in DOMAIN im : im[k].path # <<>> /\ Last(im[k].path) # ""

VARIABLES
    memory,                           \* the ramdisk, by address
    rootEntries,                      \* vfsRootEntries up to vfsRoot.length
    modulesEntries, modulesLength,    \* slot -> node; modulesRoot.length
    headers, initrdNodes,             \* of the ramdisk, by number
    ttyNodes,                         \* the nodes tty.c writes to
    openTable,                        \* slot -> node; the slots in use
    pc,                               \* boot step to come, "run", "fault" or "wild"
    opened, buffer,                   \* result of the last open, of the last read
    image, loaded, held               \* history: the tar file, as it was in memory;
                                      \* client -> its handles

treeVars == <<rootEntries, modulesEntries, modulesLength, headers, initrdNodes, ttyNodes>>
results == <<opened, buffer>>
history == <<image, loaded, held>>
vars == <<memory, treeVars, openTable, pc, results, history>>

Slot == 0..(OPEN - 1)
None == <<"none", 0>>                 \* the null pointer
Wild == <<"wild", 0>>                 \* a call through a null pointer
Root == <<"root", 0>>
Dev == <<"dev", 0>>
Initrd == <<"initrd", 0>>
File(i) == <<"file", i>>

NameOf(n) == IF n[1] = "file" THEN initrdNodes[n[2]].name ELSE n[1]

(***************************************************************************)
(* The tar file, as tar lays it out: a header block for each member, then   *)
(* its contents in whole blocks, then zeros.                                *)
(***************************************************************************)
Span(m) == BLOCK * (1 + ((m.size + BLOCK - 1) \div BLOCK))

\* Where the k-th member starts, or the zeros behind the last.
Start(k) ==
    LET end[i \in 0..Len(image)] == IF i = 0 THEN 0 ELSE end[i - 1] + Span(image[i])
    IN  end[k - 1]

Extent(k) == (Start(k) + BLOCK)..(Start(k) + BLOCK + image[k].size - 1)

Zero == <<"zero", 0>>

\* What tar put at address a.
Original(a) ==
    LET k == CHOOSE j \in DOMAIN image : Start(j) <= a /\ a < Start(j) + Span(image[j])
    IN  IF a >= Start(Len(image) + 1) THEN Zero
        ELSE IF a = Start(k) THEN <<"header", k>>
        ELSE IF a < Start(k) + BLOCK THEN <<"fields", k>>
        ELSE IF a \in Extent(k) THEN <<"data", k>>
        ELSE Zero

Init ==
    /\ image \in Images
    /\ memory = [a \in 0..(Start(Len(image) + 1) + BLOCK - 1) |-> Original(a)]
    /\ rootEntries = <<>>
    /\ modulesEntries = <<>> /\ modulesLength = 0
    /\ headers = <<>> /\ initrdNodes = <<>>
    /\ ttyNodes = <<>>
    /\ openTable = <<>>
    /\ pc = "initrd"
    /\ opened = 0 /\ buffer = [node |-> None, cells |-> {}]
    /\ loaded = memory
    /\ held = [c \in Client |-> {}]

(***************************************************************************)
(* Nodes.                                                                   *)
(***************************************************************************)
Directories == {Root, Dev, Initrd}

\* The nodes that a directory's walk returns before it returns null.
Walk(d) ==
    CASE d = Root   -> rootEntries
      [] d = Dev    -> [i \in 1..modulesLength |->
                           IF i - 1 \in DOMAIN modulesEntries THEN modulesEntries[i - 1] ELSE None]
      [] d = Initrd -> [i \in 1..Len(initrdNodes) |-> File(i)]

NameStarts == {"vga_fb"} \X {"vga_fb_color", "vga_fb_cursor"}
SameStart(component, name) ==           \* mutant: compares the name's length alone
    component = name \/ <<name, component>> \in NameStarts

\* vfs_find compares the longer of the two lengths, and no name has a slash.
SameName(component, name) == component = name

Child(n, component) ==
    IF n \in {None, Wild} THEN n
    ELSE IF n \notin Directories THEN Wild
    ELSE LET entries == Walk(n)
             i == SelectInSeq(entries, LAMBDA e : e # None /\ SameName(component, NameOf(e)))
         IN  IF i = 0 THEN None ELSE entries[i]

\* An empty component (a slash at the end, or two in a row) ends the search.
Components(path) ==
    LET i == SelectInSeq(path, LAMBDA c : c = "")
    IN  IF i = 0 THEN path ELSE SubSeq(path, 1, i - 1)

vfs_find_root(path) ==
    LET c == Components(path)
        reached[i \in 0..Len(c)] == IF i = 0 THEN Root ELSE Child(reached[i - 1], c[i])
    IN  reached[Len(c)]

vfs_get(slot) == IF slot \in DOMAIN openTable THEN openTable[slot] ELSE None

HasRead(n) == n[1] \notin {"tty", "vga_fb_cursor"}
HasWrite(n) == n[1] \notin {"rtc", "initrd"}

(***************************************************************************)
(* Boot: initrd_init, modules_init, and the drivers in their order.          *)
(***************************************************************************)
file_node_write(n) == rootEntries' = Append(rootEntries, n)

\* Drivers pass the length of /dev as the offset, each node at its own.
modules_node_write(nodes) ==
    /\ modulesEntries' = [i \in 0..(modulesLength + Len(nodes) - 1) |->
                             IF i < modulesLength THEN modulesEntries[i] ELSE nodes[i - modulesLength + 1]]
    /\ modulesLength' = modulesLength + Len(nodes)

SizeAt(a) ==
    IF a \in DOMAIN memory /\ memory[a][1] = "header" THEN image[memory[a][2]].size ELSE 0

NextHeaderFloor(a) ==                   \* mutant: the rest of the last block is left out
    a + (((SizeAt(a) \div BLOCK) + 1) * BLOCK)

NextHeader(a) ==
    a + (((SizeAt(a) \div BLOCK) + 1) * BLOCK)
      + (IF SizeAt(a) % BLOCK # 0 THEN BLOCK ELSE 0)

\* Addresses of the headers, up to the first empty name.
initrd_parse ==
    LET most == Cardinality(DOMAIN memory)
        address[i \in 0..most] == IF i = 0 THEN 0 ELSE NextHeader(address[i - 1])
        Empty(i) == address[i] \notin DOMAIN memory \/ memory[address[i]] = Zero
        count == CHOOSE n \in 0..most : Empty(n) /\ \A i \in 0..(n - 1) : ~Empty(i)
    IN  [i \in 1..count |-> address[i - 1]]

\* A node is named after the last part of the member's path.
NodeFor(a) ==
    LET m == image[memory[a][2]] IN [name |-> Last(m.path), length |-> m.size]

\* What went astray does nothing more that the tree, the table or a file shows.
GoesAstray == /\ pc' = "wild"
              /\ UNCHANGED <<memory, treeVars, openTable, results, history>>

\* headers[] lies before nodes[] and neither index is tested: with more members the
\* last headers' addresses are stored over the first nodes, whose names are then
\* stored over those addresses before they are followed.
initrd_init ==
    /\ pc = "initrd"
    /\ \/ Len(initrd_parse) > INITRD_HEADER_SIZE /\ GoesAstray
       \/ /\ Len(initrd_parse) <= INITRD_HEADER_SIZE
          /\ headers' = initrd_parse
          /\ initrdNodes' = [i \in DOMAIN initrd_parse |-> NodeFor(initrd_parse[i])]
          /\ file_node_write(Initrd)
          /\ pc' = "modules"
          /\ UNCHANGED <<memory, modulesEntries, modulesLength, ttyNodes, openTable, results, history>>

DriverOrder == <<"io", "vga", "pit", "kbd", "rtc", "ata", "serial", "tty", "elf">>

NodesOf(driver) ==
    CASE driver = "vga" -> <<<<"vga_fb", 0>>, <<"vga_fb_color", 0>>, <<"vga_fb_cursor", 0>>>>
      [] driver = "tty" -> <<<<"tty", 0>>, <<"cwd", 0>>>>
      [] driver \in {"io", "kbd", "rtc"} -> <<<<driver, 0>>>>
      [] OTHER -> <<>>

After(step) ==
    LET i == SelectInSeq(DriverOrder, LAMBDA d : d = step)
    IN  IF i = Len(DriverOrder) THEN "run" ELSE DriverOrder[i + 1]

modules_init ==
    /\ pc = "modules"
    /\ file_node_write(Dev)
    /\ pc' = DriverOrder[1]
    /\ UNCHANGED <<memory, modulesEntries, modulesLength, headers, initrdNodes, ttyNodes,
                   openTable, results, history>>

TtyLooksUp == [f \in {"vga_fb", "vga_fb_color", "vga_fb_cursor"} |-> vfs_find_root(<<"dev", f>>)]

\* A driver writes through the node of /dev, tty_init through that of the colour as well.
NodeMissing ==
    \/ NodesOf(pc) # <<>> /\ vfs_find_root(<<"dev">>) = None
    \/ pc = "tty" /\ TtyLooksUp["vga_fb_color"] = None

DriverInit ==
    /\ \E i \in DOMAIN DriverOrder : pc = DriverOrder[i]
    /\ ttyNodes' = IF pc = "tty" THEN TtyLooksUp ELSE ttyNodes
    /\ IF NodeMissing
       THEN /\ pc' = "fault"
            /\ UNCHANGED <<modulesEntries, modulesLength>>
       ELSE /\ pc' = After(pc)
            /\ modules_node_write(NodesOf(pc))
    /\ UNCHANGED <<memory, rootEntries, headers, initrdNodes, openTable, results, history>>

(***************************************************************************)
(* System calls.  A client uses the handles it was given.                    *)
(***************************************************************************)
FreeButLast == (0..(OPEN - 2)) \ DOMAIN openTable      \* mutant: the loop ends too early

Free == Slot \ DOMAIN openTable

\* The slot vfs_open takes.
OpenSlot == CHOOSE s \in Free : \A t \in Free : s <= t

TableWith(slot, n) ==
    [s \in DOMAIN openTable \cup {slot} |-> IF s = slot THEN n ELSE openTable[s]]

Handle(slot, n) == [slot |-> slot, node |-> n]

OpenedUnchecked(c, n) ==                \* mutant: a path that leads nowhere is opened
    IF Free = {}
    THEN /\ opened' = -1
         /\ UNCHANGED <<openTable, held>>
    ELSE /\ openTable' = TableWith(OpenSlot, n)
         /\ held' = [held EXCEPT ![c] = @ \cup {Handle(OpenSlot, n)}]
         /\ opened' = OpenSlot

Opened(c, n) ==
    IF n = None \/ Free = {}
    THEN /\ opened' = -1
         /\ UNCHANGED <<openTable, held>>
    ELSE /\ openTable' = TableWith(OpenSlot, n)
         /\ held' = [held EXCEPT ![c] = @ \cup {Handle(OpenSlot, n)}]
         /\ opened' = OpenSlot

syscall_open(c, path) ==
    LET n == vfs_find_root(path) IN
    /\ pc = "run"
    /\ \/ n = Wild /\ GoesAstray
       \/ /\ n # Wild
          /\ Opened(c, n)
          /\ UNCHANGED <<memory, treeVars, pc, buffer, image, loaded>>

ClosedNext(slot) == [s \in DOMAIN openTable \ {slot + 1} |-> openTable[s]]   \* mutant: the slot behind

vfs_close(slot) == [s \in DOMAIN openTable \ {slot} |-> openTable[s]]

syscall_close(c, h) ==
    /\ pc = "run"
    /\ openTable' = vfs_close(h.slot)
    /\ held' = [held EXCEPT ![c] = @ \ {h}]
    /\ UNCHANGED <<memory, treeVars, pc, results, image, loaded>>

\* It copies from the node to its caller.
syscall_info(path) ==
    /\ pc = "run"
    /\ vfs_find_root(path) = Wild
    /\ GoesAstray

MovedUncut(i, offset, count) == count   \* mutant: the end of the file is not looked at

\* How much a read or write of file i moves.
Moved(i, offset, count) ==
    LET length == initrdNodes[i].length IN
    IF offset > length THEN 0
    ELSE IF (offset + count) % WORD > length THEN length - offset
    ELSE count

\* The addresses it moves.
Cells(i, offset, count) ==
    (headers[i] + BLOCK + offset)..(headers[i] + BLOCK + offset + Moved(i, offset, count) - 1)

\* Directories return their names whatever the count.
syscall_read(h, count) ==
    LET n == vfs_get(h.slot) IN
    /\ pc = "run"
    /\ n # None /\ HasRead(n)
    /\ UNCHANGED <<memory, treeVars, openTable, pc, opened, history>>
    /\ \/ /\ n[1] = "file"
          /\ buffer' = [node |-> n, cells |-> {memory[a] : a \in Cells(n[2], 0, count)}]
       \/ /\ n \in Directories
          /\ buffer' = [node |-> n, cells |-> {<<"name", i>> : i \in 1..Len(Walk(n))}]
       \/ /\ n[1] # "file" /\ n \notin Directories
          /\ buffer' = [node |-> n, cells |-> {}]

\* Writing to / or /dev makes the buffer's address a node: all is lost.
syscall_write(h, count) ==
    LET n == vfs_get(h.slot) IN
    /\ pc = "run"
    /\ n # None /\ HasWrite(n)
    /\ UNCHANGED <<treeVars, openTable, results, history>>
    /\ \/ n \in {Root, Dev} /\ pc' = "wild" /\ UNCHANGED memory
       \/ /\ n[1] = "file"
          /\ memory' = [a \in DOMAIN memory \cup Cells(n[2], 0, count) |->
                           IF a \in Cells(n[2], 0, count) THEN <<"written", n[2]>> ELSE memory[a]]
          /\ UNCHANGED pc

Next ==
    \/ initrd_init \/ modules_init \/ DriverInit
    \/ \E p \in Path : syscall_info(p)
    \/ \E c \in Client :
          \/ \E p \in Path : syscall_open(c, p)
          \/ \E h \in held[c] :
                \/ syscall_close(c, h)
                \/ \E n \in Count : syscall_read(h, n) \/ syscall_write(h, n)

Spec == Init /\ [][Next]_vars

(***************************************************************************)
(* Properties.                                                              *)
(***************************************************************************)
Boot == {"initrd", "modules"} \cup {DriverOrder[i] : i \in DOMAIN DriverOrder}

TypeOK ==
    /\ pc \in Boot \cup {"run", "fault", "wild"}
    /\ DOMAIN openTable \subseteq Slot
    /\ None \notin {openTable[s] : s \in DOMAIN openTable}
    /\ DOMAIN modulesEntries = 0..(modulesLength - 1)
    /\ DOMAIN headers = DOMAIN initrdNodes
    /\ opened \in {-1} \cup Slot
    /\ held \in [Client -> SUBSET [slot : Slot, node : {openTable[s] : s \in DOMAIN openTable}]]

\* vfs_open, vfs_close: a handle leads to the node it was opened for until it is
\* closed, no two opens share a slot, and a slot in use belongs to a handle that
\* somebody still has.
HandlesAreKept ==
    /\ \A c \in Client : \A h \in held[c] : vfs_get(h.slot) = h.node
    /\ \A c, d \in Client : \A h \in held[c], g \in held[d] :
          h.slot = g.slot => c = d /\ h = g
    /\ \A s \in DOMAIN openTable : \E c \in Client : \E h \in held[c] : h.slot = s

\* initrd_parse, initrd_file_write: writes change nothing of the tar image but
\* the contents of the file they went to, whatever lengths its neighbours have.
FilesAreApart ==
    \A a \in DOMAIN memory :
        memory[a] # loaded[a] =>
            \E k \in DOMAIN image : a \in Extent(k) /\ memory[a] = <<"written", k>>

\* initrd_file_read: a file's reader sees that file's bytes alone.
ReadsOwnFile ==
    buffer.node[1] = "file" =>
        buffer.cells \subseteq {"data", "written"} \X {buffer.node[2]}

Devices == UNION {Range(NodesOf(DriverOrder[i])) : i \in DOMAIN DriverOrder}

\* initrd_init, modules_init: a ramdisk with no more members than initrd.c's tables
\* have entries is mounted, the boot order gets every driver the nodes it looks up,
\* and afterwards each device and each member of the ramdisk is found by its path (of
\* members with one name the first), though names start alike.  A larger ramdisk is
\* never run with: the boot goes astray in it.
NodesAreFound ==
    /\ pc # "fault"
    /\ pc # "initrd" => (rootEntries = <<>> <=> Len(image) > INITRD_HEADER_SIZE)
    /\ pc = "run" =>
          /\ \A n \in Devices : vfs_find_root(<<"dev", NameOf(n)>>) = n
          /\ \A f \in DOMAIN ttyNodes : ttyNodes[f] = <<f, 0>>
          /\ \A k \in DOMAIN image :
                vfs_find_root(<<"initrd", Last(image[k].path)>>)
                    = File(SelectInSeq(image, LAMBDA m : Last(m.path) = Last(image[k].path)))

\* vfs_open: a path that leads to a node is refused only when every slot is in use.
OpenServes ==
    [][opened' = -1 /\ DOMAIN openTable # Slot =>
          \A c \in Client, p \in Path :
              syscall_open(c, p) => vfs_find_root(p) \in {None, Wild}]_vars
=============================================================================
