# DynnOS in TLA+

DynnOS is a 32-bit kernel for the PC: it boots from a multiboot loader, sets up
segments, interrupts and paging, gives itself a heap, mounts a tar ramdisk,
starts a task list driven by the timer and runs a shell that polls the
keyboard. It is one address space and one processor, written in C and
assembler, with no tests; what it is meant to do is stated in its comments.
This directory holds TLA+ models of its parts, the TLC runs that check them on
small instances, and proofs checked by TLAPS for every instance.

Paths below are relative to the repository's `src/`.

## 1. The system

Boot order, which gives every model its initial state: `mach_init`
(kbase/mach.c) -> `mach_init_base`: log, gdt, tss, idt, fpu, irq, isr,
`vmm_init`, `syscall_init`, then `sti` -> `kinit` (kcore/kernel.c): `vfs_init`,
`initrd_init`, `modules_init` (pit, kbd, rtc, ...), `task_init`, `kshell_init`,
which loops for the rest of the machine's life.

Three threads of control exist at most: the code that was running, the timer
interrupt (which may change the running task), and the keyboard interrupt.
Interrupt gates turn interrupts off. Nothing in the kernel takes a lock.
`isrs.s` has the calls of `isr_handler` and `syscall_handler` commented out, so
a page fault, and the system call interrupt, do nothing: a faulting access is
retried for ever.

| component | state | operations | what makes it correct |
|---|---|---|---|
| Keyboard (kmod/kbd) | ring of 256 characters, head, tail, shift and caps flags | `kbd_handler` (interrupt), `kbd_buffer`, `kbd_device_read`, `kbd_device_write` | a FIFO, however interrupt and polling loop interleave; every accepted key is read |
| Tasks (ktask/task.c) | `current_task`, list from `ready_queue`, `next_pid`; per task esp, ebp, eip, directory, kernel stack | `task_init`, `fork`, `switch_task`, `switch_to_user_mode` | the list holds every task once; a task is resumed only through a context that was saved for it; turns go round |
| Interrupts (kbase/isr*, irq*, idt) | handler table, the PIC's in-service state | `irq_handler`, `isr_register_handler`, end of interrupt | each interrupt is acknowledged and returned from once |
| Timer (kmod/pit) | `pit_counter` | `pit_handler`, `timer_wait` | counts ticks, also past its wrap |
| Heap (kmm/kheap.c) | tagged blocks and holes in one region, the hole index, `end_address` | `alloc`, `free`, `expand`, `contract`; before the heap exists the placement allocator of `kmalloc_int` | blocks and holes tile the region; live blocks are disjoint and backed by frames |
| Ordered table (kcommon/ordered_table.c) | array, size | insert, lookup, remove | stays in order |
| Paging (kmm/paging.c) | frame bitmap, directories, tables, `current_directory` | `alloc_frame`, `free_frame`, `dma_frame`, `get_page`, `clone_directory`, `vmm_init`, `switch_page_directory` | a frame belongs to one page; what the kernel uses stays mapped in every directory |
| File system (kfs/vfs.c) | node array, open table, file system table, root entries | find, open, close, read, write, readdir, register | an open slot belongs to one opener; lookups find what was added |
| Device tree (kcore/modules.c) | 32 device entries | lookup, write, initialise | every registered device is found |
| Ramdisk (kcore/initrd.c) | headers of the tar image | parse, read, write | every file is found; a read stays inside its file |
| System calls (kcore/syscall.c) | table of functions | open, read, write, close, ... | calls reach the file system with valid handles |
| Shell (kcore/kshell.c) | line of 256 characters, argument vector | `shell_stack_push`, `handle_char`, `shell_parse` | the line stays inside its buffer and ends in a zero |
| Console (kdebug/debug.c, kmod/tty, kmod/vga) | screen cells, cursor | `putch`, `scroll`, `kprintf`, `tty_putc` | the cursor stays on the screen |
| Drivers (kmod/rtc, ata, serial, pci, io) | hardware registers | polling loops | a wait ends |
| Machine setup (kbase/gdt, idt, tss, fpu, cpu, mboot) | descriptor tables | straight-line code | order of the steps |
| C library (kcommon/string, memory, math, file) | none | pure functions | what the C functions compute |

How they meet: the keyboard interrupt writes the ring the shell polls
(`kshell_init` -> `kbd_buffer`); the timer interrupt calls `switch_task`, which
changes `current_directory` (paging) and the TSS; `fork` calls
`clone_directory` and `kmalloc`; the heap's `expand` and `contract` call
`get_page`, `alloc_frame` and `free_frame`; the file system, the device tree
and the shell call each other in straight lines. The shell and the heap are used
by one task only.

What is hard here: interrupts between any two instructions of the task and
keyboard code; a context switch that abandons one stack in the middle of an
interrupt and continues on another; `fork`, which returns twice; boundary tags
that later calls trust; bounds of fixed tables; unsigned arithmetic at zero and
at 2^32. `PROJECT.json` lists each hazard at its line, with the properties
aimed at it or the reason there is none.

## 2. The modules

| module | what it is |
|---|---|
| `BoundedFifo` | abstract: a queue with a capacity that refuses when full |
| `Keyboard` | kbd.c, the interrupt handler against `kbd_buffer` in its steps |
| `MCKeyboard` | scancodes and a small key map for TLC |
| `KeyboardProofs` | theorems about `Keyboard`, refinement of `BoundedFifo` |
| `RoundRobin` | abstract: turns taken in order of joining |
| `Tasks` | task.c with the timer's interrupt path (irq.c, irqs.s, pit.c) |
| `TasksProofs` | theorems about `Tasks` |
| `Allocator` | abstract: disjoint, aligned blocks below a moving limit |
| `OrderedTable` | ordered_table.c, as operators on sequences |
| `Heap` | kheap.c: `alloc`, `expand`, `contract`, `free`, and the heap used within its design |
| `MCHeap` | sizes for TLC |
| `HeapProofs` | theorems about `Heap`, refinement of `Allocator` |
| `Paging` | paging.c: boot, tables, directories, with `move_stack` and the heap's growth |
| `MCPaging` | a machine of 32-entry tables for TLC |
| `PagingProofs` | theorems about the directories, frames, tables and stacks of `Paging` |
| `Vfs` | vfs.c, modules.c, initrd.c and syscall.c: boot of the file layer, then system calls |
| `MCVfs` | ramdisks, paths and counts for TLC |
| `VfsProofs` | theorems about the open table, the ramdisk and the device tree of `Vfs` |
| `Screen` | debug.c: `putch`, `scroll`, `cls` and `kprintf` of a text, as operators on a screen |
| `Display` | debug.c's `putch` access by access, tty.c and vga.c, under the timer's log |
| `MCDisplay` | a screen of three rows for TLC |
| `DisplayProofs` | theorems about the cursor, the stores and the page of `Display` |
| `CString` | string.c and memory.c, as operators on a memory |
| `Format` | debug.c: what `kprintf` makes of a format and its arguments |
| `MCString` | one call of each function of `CString` and `Format`, with reference definitions |
| `StringProofs` | theorems about those functions, for any memory |
| `CommandLine` | abstract: a line edited at its end and run as it was typed |
| `KShell` | kshell.c, with the keyboard's queue, `Screen` and timer.c's `timer_wait` |
| `MCKShell` | commands, keys and a small screen for TLC |
| `KShellProofs` | theorems about `timer_wait`, the echo of a line and the parser of `KShell` |

Definitions that name a plausible bug (marked `mutant` in their comments) are
used by nothing: each is a variant of the definition below it, with which the
property named in `PROJECT.json` fails. They record what each property is
sensitive to.

### Keyboard

The handler is one step: it runs through an interrupt gate and before its end
of interrupt. `kbd_buffer` is three steps, each a separate access to the shared
structure: `ReadEmptyTest` (kbd.c:115), `ReadFetch` (the copy) and `ReadAdvance`
(the tail), then the shell's handling of the character. `kbd_device_read` has
the same body. A key without a character queues the character 0, as the
source does, which takes a slot and reads back as "no key". `sent` (every
key offered), `taken` and `lost` are history variables. What the shell does with
a character is one step, `ReadReturn`, with three ways out: back to the poll; out
of the loop, because the command after a newline cleared `kernel_shell`; or never
(`pc = "hang"`): a line may not be handled to its end, and neither may a typed
`%`, which `handle_char` gives `kprintf` as a format of one character
(kshell.c:249), so that it reads on behind the format's end (debug.c:156). `KShell`
models the same two and says when they happen.

### Tasks

`task`, `current_task`, `ready_queue` and `next_pid` are those of task.c. Pid,
page directory and kernel stack of a task have the same number. A saved
eip names the function it points into: `switch_task` and `fork` each take it
from `read_eip`, and a task whose eip is still 0 or unset goes `wild`. `frames` is,
for each page directory (each has its own copy of the stack, at one address),
the stack of places interrupted. `fork` is seven steps for the parent and
one for the child, `clone_directory` among them copying frames and locals at the
point where it is called (so the child's copy has `parent_task` set and
`new_task` not). `switch_task` is part of the timer's step up to its jump, which
happens with interrupts off; the jump's code enables them (task.c:174),
before the end of interrupt. So a second timer interrupt can nest between the
end of interrupt and the `iret`, and `inService` models the PIC holding
back interrupts until it has been written to.

### Heap

Addresses are offsets from the heap's start. Memory is the set of intact tags
in it, by address: writing over any byte of a tag removes it, and a block's
owner is taken to overwrite the whole block. The index is the sequence of hole
headers, kept by the translated ordered table. `present` and `framed` are the
pages of the region, apart: `contract` takes a frame away and leaves the entry
present. `alloc` is one step per call of the C function, `Alloc` the call
from outside, `AllocExpand` the call that expands and calls itself,
`AllocCarve` the call that returns.

A call need not come back, and the model ends where it does not (`Stop`). An access to a page
that is not present is a `fault`, retried for ever; one to a page whose frame `contract`
took, and whose entry it left present, goes `astray`, to frame 0. Both are tested for all the
tags that `alloc` writes, and for the header that `free` reads behind its block. Within `expand`
(`ExpandStops`), `alloc_frame` may `panic` at any page that has no frame, since others take frames too;
and behind the page tables that `vmm_init` made (`TABLE_END`) `get_page` asks `kmalloc_ap` for a
table, so that `alloc` is called, `nested`, on a heap whose end has not been moved yet. `Paging` follows the
last case as far as it goes.

Page rounding is modelled as written. `expand` tests
`new_size & (0xFFFFF000 != 0)`, which is the lowest bit, so an even size stays as it is and the heap may
end inside a page, and the loop that allocates frames goes on from there in steps of a page; the alignment in
`find_smallest_hole` tests the lowest bit, too; `contract` tests and keeps the
bit 0x1000 alone.

### Paging

Tables and directories are kept by their virtual address, so that sharing a table
is holding the same address, and the physical address the processor is given is a
number beside it. `vmm_init` runs in its order: bitmap and kernel directory
placed (`VmmInit`), tables for the heap (`PreallocateHeapTables`), everything
placed so far mapped to itself (`MapPlaced`, one page a step, because its own
tables move the limit of its loop), frames for the heap (`AllocateHeap`), paging
on and the heap created (`CreateHeap`), the kernel's directory cloned
(`CloneDirectory`, `LinkTable` or `CloneTable` for each table, `CloneEnd`); then
`task_init`'s `move_stack`, and `run`: blocks from the heap, clones by `fork`,
and switches of directory, in any order.

The heap is seen as its page-aligned blocks. No caller of `kfree` exists, so blocks
only rise (`top`); `Ends` are the ends an expansion may leave. `contract`, which
`Spec` adds, is for the run about `free_frame`. `clone_table` clears 8196 bytes for a
table of 4096: the overrun lands in the free page behind (or in no page at all: `fault`), and
may lose the heap's tags, which is why any call may expand. Where the heap grows out of its page table,
`get_page` asks the heap for another (paging.c:303) while `expand` has not moved its end yet. If the heap
has room for a table's block (`HasRoom`), `kernel_directory`, and no other directory, gets the new
table, the expansion goes on, and `alloc` writes its tag at the new end through the directory in use,
which does not map it; if there is no room, `alloc` expands within `expand` until its stack is
used up. Both are `Stop`, which makes the changes up to there and ends in `fault`. A full bitmap is
`kpanic`, `panic`. Interrupts play no part: the code runs before they are on or in calls of one task.

### File layer

`Vfs` boots as `kinit` does: `initrd_init` walks the tar image and registers
`/initrd`, `modules_init` registers `/dev`, and the drivers register their nodes in the order
of `modules_init_devices` (`DriverInit`, one step a driver). Then programs make
system calls. A path is the sequence of its names; `vfs_find` compares the longer of
two lengths, so names have to be equal, and an empty name ends the search.
A path that goes on behind a device or file calls a null `walk`: `pc = "wild"`. So
does a write to `/` or `/dev`, which makes a node of the caller's
buffer. The ramdisk's memory is what each address holds: part of a header, an
original byte of a member, or a byte written to a member; `image` and `loaded` keep what
tar put there, and the properties compare the code's arithmetic with tar's layout, not
with itself. initrd.c's two tables, `headers[]` and the `nodes[]` behind it, have
`INITRD_HEADER_SIZE` entries each, 64, and neither index is tested (initrd.c:84, 127). With one
member more, `initrd_parse` stores header addresses over the first nodes, and
`initrd_create_nodes` stores the first nodes' names over those addresses before it follows
them: the boot goes astray (`pc = "wild"`), and what the memory holds afterwards is not
followed. `held` is what each program knows of its own handles.

Programs use the handles they were given; the code checks none (hazards at vfs.c:60). Today's
kernel has the call of `syscall_handler` commented out, so this is a model of
an interface that nothing yet reaches. The `lookup` of the three file systems is left
out, because `vfs_find_root` discards its result; what devices do with their bytes is left
to their drivers.

### Display

Two programs write one text memory: the kernel's `putch` and the terminal's
`tty_write`. `Screen` has `putch` as an operator, from one screen to the next: the
character's own change (`Placed`), then the wrap and the scroll (`Settled`).
`Display` has it again in its separate accesses to `csr_x`, `csr_y`, the memory and
the controller's ports, because the first timer interrupt after `task_init` falls between
any two of them, and `switch_task` then prints nine lines with the same `putch`
(task.c:133-141, once: `task_counter`). What is printed with interrupts off, that log and
all of the boot, is `pending`, and goes through `Screen`'s `putch` one character a step; nothing
else moves meanwhile. `erasing` says where in a backspace putch is, which calls itself for
the blank. `Memory` is the text and a row behind it, where a store at a cursor past
the edge lands; cells further away are not kept, but a store there sets `stray`.

The terminal's calls go through nodes of the device tree, which here are the
functions behind them. `vga_read_framebuffer`, `vga_write_framebuffer` and the `memcpy` of
`scroll` are one step each: the log can come before or after, not in the middle of such a
loop. `cursorOffset` is an unsigned short that wraps at `SHORT`. The hardware's cursor is a
selected register and two bytes (`crt`), so that interrupted port writes can be told apart.

### C library and formats

`CString` translates the string functions onto a memory from addresses to bytes; pointers
are addresses, and sums of unsigned numbers wrap at `WORD`. `memidx` and its kin return what the
C code returns when nothing is found, -1 as the largest word. `Format` is the loop of `kprintf`,
with the bullets of `%+`, `%!` and `%-`, the conversions, and `[null]`. `MCString` makes one
call of one function on every memory of a few bytes and keeps the memory before.

### Shell

`KShell` is the loop in which the machine ends. A step takes one character from the
keyboard's queue (which `KeyboardProofs` shows the ring to be) and does all of
`handle_char`: buffer, screen, and for a newline `shell_parse` with `strsplt` on the buffer
itself. What the code leaves open is a choice: the memory behind a full buffer
(`Behind`), the entries of `argv` that `strsplt` does not set, any word that is or was in the
buffer or an address that is not mapped (`Nowhere`), and what a lone `%` as a format prints
(`Garbage`). Its ends are "hang" (a fault, which is retried for ever), "smashed" (more words
than `argv` has entries) and "reset". A command that lists something prints one line. `sleep` is
`timer_wait`: the tick counter is chosen freely when it begins, followed
while it lasts, and wraps at `TICKS`.

## 3. The runs

| run | configuration | shows | result |
|---|---|---|---|
| keyboard | `MCKeyboard.cfg` | `TypeOK`; `ReadNotOvertaken`; `RingIsFifo` (refines `BoundedFifo`); `AcceptedIsRead` (liveness) | passes, 102,134 states |
| tasks | `MCTasks.cfg` | `TypeOK`; `ReadyListWhole`; `ParkedTasksResumable`; `ReturnsAreMatched`; `DirectoryFollowsTask`; `SchedulesRoundRobin` (refines `RoundRobin`); `ForkCompletes` (liveness) | passes, 388 states |
| tasks_rotation | `TasksRotation.cfg` | `EveryTaskRunsAgain` | violated |
| heap | `MCHeap.cfg` | `TypeOK`; `HeapTiles`; `HeapIsBacked`; `ServesRequests` (refines `Allocator`); `ExpandsEnough` | passes, 115,047 states |
| heap_footers | `HeapFooters.cfg` | `FootersLeadToHoles` | violated |
| heap_contract | `HeapContract.cfg` | `ContractionSparesBlocks` | violated |
| paging | `MCPaging.cfg` | `TypeOK`; `FrameHasOneOwner`; `IdentityMapped`; `KernelTablesLinked`; `TablesAreWalked`; `StacksAreOwn` | passes, 60,419 states |
| paging_frames | `PagingFrames.cfg` | `FirstFrameIsFree` | violated |
| files | `MCVfs.cfg` | `TypeOK`; `HandlesAreKept`; `FilesAreApart`; `ReadsOwnFile`; `NodesAreFound`; `OpenServes` | passes, 155,782 states |
| display | `MCDisplay.cfg` | `CursorOnScreen`; `StoresOnScreen`; `ShowsPaper` | passes, 1,054,034 states |
| strings | `MCString.cfg` | `SplitsIntoWords`; `EqualAsStrings`; `FindsOccurrence`; `NamesLastComponent`; `NumberReadsBack` | passes, 228,448 states |
| shell | `MCKShell.cfg` | `ImplementsCommandLine` (refines `CommandLine`); `EchoShowsLine`; `LinesAnswered` (liveness); `SleepsItsTime` | passes, 432,233 states |

**Keyboard.** Three slots (256 in the code) and five scancodes let the ring
fill, refuse, drain and wrap all around, with every interleaving; nothing in the
code depends on 256, and the theorems of section 4 hold for any size. The map has a
key without a character, and 5 and Enter, with % above the 5. Fairness: weak
fairness of the reader, because nothing but the shell itself stops `kshell_init`'s
loop; it demands no step of a shell that hangs. None of the handler. So
`AcceptedIsRead` promises that what is accepted is read, or that an earlier line or
`%` ended or hung the loop.

**Tasks.** Four tasks let tasks fork from the first, a middle and the last
place of the list, and fork again between; two nested interrupts
per stack show the nesting in `switch_task`'s tail; the tick counter wraps at 4.
`MaxNest` is a bound on the model: the code has no limit but its stack. Fairness: the
processor executes (weak fairness of each stretch of code), and the PIT keeps
ticking (weak fairness of the timer interrupt). Nobody has to call `fork` or
`switch_to_user_mode`.

The violation is a finding: when the timer first switches to a forked task it
resumes in `fork` and not in the interrupt path, so the interrupt is never
acknowledged and the timer stops. That is also why the passing run is small:
after such a switch there are no more.

**Heap.** Sizes and tags are the code's (4096, 12, 8). The initial heap
is eight pages with a minimum of seven, the ratio of 0x80000 to 0x70000, and the page tables
reach 22 pages. Six requests: a small one; an odd one, whose expansions are rounded up to a page;
a page-aligned one of three pages, which may have to expand; two and five pages and a bit, whose expansions leave the
heap's end inside a page; and exactly the whole heap (no split). Four calls of `alloc`, and any number of `free`, give
every combination of merge left, right and both; expansion by growing the last hole and from no
hole, to and from page boundaries and the middle of pages, with the last page left without a frame or not;
contraction from both; and each way in which a call does not come back.

`HeapTiles` and `ServesRequests` do not hold of every sequence of
calls, so the run `heap` uses `DesignSpec`, which keeps to the calls the
code serves within its own design (`Serviceable`, `Releasable` in `Heap`). It
leaves out:

1. a request that needs expansion when the heap has holes but its last block is live, or when
   it overreaches the address space: kheap.c adds the new memory to the endmost hole wherever it
   lies (326), and only prints that it is past its limit (145);
2. a release that would contract to 0x1000-bit sizes above the minimum (174, run
   `heap_contract`), or leave less than two tags below it;
3. a page-aligned request that does not leave room for two tags on either side, in the hole it fits in or in
   the one that the expansion makes: the hole is compared without the part cut off in front (209, 350);
4. joining, on the right, a hole that is not the last one: its footer keeps
   leading to the swallowed header (449, run `heap_footers`);
5. releasing the last block of the heap when nothing follows it: `free` reads a header
   at `end_address` (445), mostly in a page that is not present.

Expansions that are not rounded are within the design, although the comments at kheap.c:137 ("Get the
nearest following page boundary.") and 151 ("This should always be on a page boundary.") do not hold of
them. What they cost is `HeapIsBacked`: only the last page can be left without a frame, and
then the `alloc` that expanded does not get past the footer it writes there.

The other two heap runs use `Spec`, without those guards, with one request
size each and few calls. All five are reached from legal calls of `kmalloc` and
`kfree`. No fairness is assumed: every call of the C code is one step or
two, and `ExpandsEnough`, that `alloc` calls itself at most once, is an action
property. In today's kernel nobody calls `kfree`, so the parts of `free` are
reachable only through the function's interface.

**Paging.** The machine is the code's, scaled from 1024 entries to 32: a page is
the size of a table (4 bytes an entry), a directory two pages and a word,
and memory has as many frames as a page has bytes (4096 of 4096 in the code), so that
what straddles a page in the kernel does so here, and a frame's number taken for an
address falls into page 0 as there. The kernel's image ends at four
places around a page boundary, and the memory in which the bitmap is placed is
either zero or all ones behind the quarter that `vmm_init` clears (paging.c:243 asks
for a byte for each 32 frames). Four directories: the kernel's, the clone
made by `vmm_init`, a clone of that, and a clone after any allocation in between or of
another task's directory; frames and the heap's table run out within them. No
fairness is assumed, and nothing but safety is asked.

The heap of `paging` begins at page 524, with 11 pages: its table reaches to page 544, so that it holds
the initial heap, all the clones, and not everything that may be allocated besides; expansions come to its end with
and without room for another table, and some directories lie in pages the heap got later.

`paging` uses `KernelSpec`, the kernel as it is, without `kfree`. Two of its properties have an exception, which is
what the code does: the table made when the heap outgrows its first is missing in every directory but the
kernel's, and `KernelTablesLinked` says that the machine has stopped then; and
`physicalAddr`, which is what the processor gets, is where the directory's physical addresses are
only for directories in the heap's initial pages (`InitiallyMapped`, in `TablesAreWalked`), because
`clone_directory` takes the directory's three pages to lie in contiguous frames (section 5).
`paging_frames` uses `Spec`: when the heap contracts, `free_frame` passes a frame's
number where `clear_frame` expects an address, so frame 0, which is in use, is
free for the next `alloc_frame`.

**Files.** Five ramdisks (none, one with a directory, one with two members of one
name, one whose first file ends a byte into its second block, and one with four members, for which the tables' three entries are one too few) have
files of less than a block, exactly one, and a block and a byte; a block
has two bytes. Counts of one and four are inside and past every file. Two
slots for two programs fill the open table. The programs are symmetric, and only safety
is checked. Directories, devices without a read or without a write, a trailing slash, a
double slash, a missing name and a path through a device are among the paths.

**Display.** A screen of three rows of four with tabs of two, where the code has 25 of 80 and
tabs of 8: each of four characters can wrap, tab, step back and scroll, and starts bring the
cursor to the top, the middle and the last cell. Registers hold numbers below 5 and the offset wraps at
64, so that high and low byte both change. The log is two lines and comes once, between
any two accesses. Nothing but safety is asked. The three properties hold outside these cases,
which the code does not prevent:

1. the log falls into a backspace: `csr_x` is tested, and decremented twice
   (debug.c:70-74), so it can end at -1 (`hit = "erasing"`, all three properties);
2. the log finds the cursor past the right edge or below the last row, before `putch` has
   wrapped or scrolled (debug.c:96-102), and stores its first characters there (`hit = "off"`,
   `StoresOnScreen`);
3. the log falls anywhere else where `putch` has read what the log changes
   (`hit = "inside"`, `ShowsPaper`): the character or one of the log is lost;
4. a program's terminal under the log, which `tty_scroll` may write over with what it read
   before (`ShowsPaper`);
5. a backspace in the terminal's first cell: the unsigned offset wraps, and stores land behind
   the screen (tty.c:33; `StoresOnScreen`, `ShowsPaper`).

**Strings.** Six bytes of two letters, the separator and zero: every line of up to five
characters, at every offset, with every pair of overlapping strings. A word has
8 bits, so each number of `itoa` is tried, the most negative too, in each base.

**Shell.** A buffer of four characters, `argv` of two words, a screen of two rows of six, one
key waiting, five keys: lines shorter than the buffer, as long, and too long; more words than
`argv` has; a command without its argument; every command followed by another line. The
counter wraps at 4 and a sleep lasts 2, so targets wrap and do not. Fairness: the loop polls
(`Polls`), the timer ticks (`Ticks`), both weak; and strong fairness of `timer_wait`'s
exit (`Leaves`), because its loop looks at the counter thousands of times between two
ticks, so it cannot forever look only while the counter is below the target.
`LinesAnswered` excepts lines for which the code has no meaning (`Proper`), and
`ImplementsCommandLine` lets a line that fills the buffer run on into what stands behind
it: `shell_stack_push` drops the zero (kshell.c:31). Four
characters are too few for a line that chooses a core and has a word more than `argv` holds;
that case is in the proof.

`CHECK_DEADLOCK FALSE` is set in the runs: the number of keys, calls, characters and
requests is bounded, and the machine has states in which nothing more can happen
(`wild`, `fault`, `panic`, `hang`, an interrupt never acknowledged).

## 4. The proofs

All constants are arbitrary within the modules' assumptions: a ring of at least
one slot, scancodes below 256, a key map into characters; at least one task, any
nesting, any wrap of the counter; tables, heap and stacks of any size with the kernel
below the heap (`LayoutAssumption`, `HeapAboveKernel`), with what `vmm_init` places in the
quarter of memory whose bits it clears, with the heap's frames, and the heap's first pages in one table (`BootFits`)
that has room for a directory more and is not the last one (`HeapTableHasRoom`),
and the stack in tables of its own (`StackApart`); a screen of any
size with no backspace in the boot messages and the log (`TextAssumption`), an
offset that wraps anywhere (`ShortAssumption`) but holds any place on the screen and the row
below (`OffsetAssumption`: 65,536 and 2,080 in the code), any memory of bytes in which an address and -1
fit a word (`MemoryAssumption`, `WordAssumption`); a
sleep that fits the counter (`TimerAssumption`); a prompt that is printable and shorter than a row, replies that
end their line (`EchoAssumption`), words without a separator in them and one command that chooses a core (`WordsAssumption`); a heap of whole pages, page-aligned and in
the address space, with room for two tags in a page and a least size of at least two pages and at most the
initial one (`SizeAssumption`, `MinimumAssumption`: 0x80000 bytes, of which the heap keeps at
least 0x70000, in pages of 0x1000 with tags of 12 and 8), page tables that reach at least as far as the initial
heap (`TABLE_END`), and any requests (`RequestAssumption`); any number of programs, slots and paths, counts that are unsigned ints (`FileAssumption`), and any
tar image whose members have names (`ImageAssumption`: `initrd_parse` takes a header without one for the end). Images
with more than `INITRD_HEADER_SIZE` members are among them: they are the ones that are never mounted.

`KeyboardProofs`:

- `KeyboardTyped`, `ReaderNotOvertaken`: `Inv == TypeOK /\ ReadNotOvertaken` is
  inductive as it stands, once arithmetic on the ring is separated into lemmas
  (`CountAfterWrite`, `CountAfterRead`, `SlotAtInjective`): a write that is
  not refused adds one to `Count` and touches no waiting slot.
- `RingImplementsFifo`: initial states map to an empty queue; an
  accepted write is `Put`, a refused one `Refuse`, `ReadAdvance` is `Take` (here
  `ReadNotOvertaken` is what makes the copied `c` the head of the queue), and all other steps
  stutter.

`TasksProofs`: `TypeOK` and the run's other invariants are not
inductive. `IInv` adds when interrupts may be on (`FlagInv`), what has been set
up at each place of `task_init` (`PhaseInv`), which stacks hold frames, from which places
(`FramesInv`: an interrupt is only taken from a task's own code or from the
tail of another interrupt), what each struct and each saved eip says
(`StructsInv`), what `fork` knows at each of its steps (`ForkInv`) and the shape of
the list, `next = t + 1` up to the last (`ChainInv`). One lemma per action, one step per conjunct.
From it: `TasksTyped`, `ReadyListIsWhole`, `ParkedAreResumable`,
`ReturnsMatch`, `DirectoryIsCurrent`. The refinement of `RoundRobin` maps the walk from `ready_queue` to the
turns. `WalkIs` shows by the least counterexample that the walk is 1 to `LastLinked`
(with `HeadInv`: no head before the first task), and `StepIs` that a step keeps `LastLinked` and
`current_task`, starts the list, lengthens it by one, or goes on to the next or the first. From it `TakesTurns`.

`VfsProofs` has all that the `files` run checks:

- `HandlesKept`, `OpensServed`: `HandlesAreKept` speaks of slots through `vfs_get`; `IInv` adds that
  the slots of handles are in the table (`InUse`), because only then is a free slot
  nobody's. The loop of `vfs_open` ends at a least free slot if there is one (`FirstFreeSlot`).
- `FilesApart`, `ReadersSeeOwn`: `FilesInv` adds to the two properties where the headers are
  (`Parsed`), which nodes directories list (`TreeInv`), and that an open file is one of the image's (`OpenFiles`).
  `initrd_parse` finds exactly the headers that tar wrote, whatever the members' lengths (`ParseFinds`): a
  file's blocks are counted as quotient and remainder by the code and as a rounded-up quotient by
  tar (`BlocksOf`), and members follow each other without a gap or an overlap
  (`MembersInOrder`, `MembersCover`). What a call moves is then inside the file (`CellsInside`), and
  what stands there is the file's (`OwnBytes`). A ramdisk with too many members stops the boot
  before any file exists (`InitrdOverruns`), so the two theorems speak of ramdisks of at most
  `INITRD_HEADER_SIZE` members.
- `FilesTyped`: `TypesInv` beside the two invariants; that a path leads to a node that exists, to none,
  or into a null call is `FindsKnown`.
- `NodesFound`: a ramdisk is mounted exactly when it fits initrd.c's tables (`Parsed`). `BootInv` says what `/` and `/dev` list before each step of the boot (`Listed`, `DeviceList`).
  Each driver's nodes are the next of the list (`DriversList`), a directory finds the first entry of a
  name (`ChildIs`), and no two devices have one name (`ListNamed`), so the nodes that `tty_init` looks up are
  there when it does.

Start, the walk of the headers and the walk of a path are recursive functions. That a recursive function is one
is `Iterated`, and what it computes is shown by `UpTo`, induction with a set in the place of
the predicate: both come from the least counterexample (`LeastOf`).

`PagingProofs` begins with the directories: that every finished directory has the kernel's tables is not
inductive while one is being filled. `IInv` adds that `clone_directory`'s loop has given the
new directory each kernel table below its counter (`Partial`), that the source has them all
(`Linked`, the property itself, for every directory but the one being filled), and that directories are blocks
the heap has handed out, below `top`, while the kernel's lies below the heap (`OnHeap`,
`KernelBelowHeap`), so that making one overwrites none. `NextTableIsNext` is the loop's
step: no kernel table lies between the counter and the least table that
remains. Since the source has every kernel table under its own index, `CloneTable`, which makes a copy,
is never taken for one. The heap's late table is `JustMade` as long as the `fault` lasts that it ends in, which is
for ever, and until then the kernel's tables are those of `vmm_init`, which every directory has. From it
`TasksShareKernel`, with `kfree`, and `KernelTasksShareKernel` without.

Its second part has the rest of what the `paging` run checks, for `KernelSpec`. In the code
the heap starts at 0xC0000000 with 0x100000 bytes, 256 pages of a table of 1024, the stack is four
pages below 0xE0000000, and the image, bitmap, directory and two tables end far below
the 4 MB whose bits are cleared, with 1 MB for the heap; and after the heap's 256 pages its table has 768
entries left for a directory: that is what `BootFits`, `StackApart` and `HeapTableHasRoom` say.

- `FramesHaveOneOwner`: `FInv` says that frames of pages are marked and no two pages have one,
  frame 0, which the image's first page has, included; and that each table a directory names exists. The frames for n pages are the n
  first free ones; that no two pages get the same one is a fact about ranks in a finite set
  (`RankDiffers`, `EveryRank`), and that a free one is nobody's is the first conjunct.
- `PlacedStaysMapped`: `BInv` follows `vmm_init`. Before the loop of `MapPlaced` the bits of
  the whole quarter are clear, so its n-th page gets frame n; its own page table
  moves `placement_address` at most once, since all pages it visits have one table. Later,
  every step leaves the entries of the kernel's table alone (`RCore`).
- `ProcessorWalksTables`: tables are the two placed by `vmm_init`, mapped to themselves, or
  blocks of the heap, one page each (`Located`), and no step changes the frame of a heap
  page that has one. A table's block lies below `top`, so it has one (`Filled`). For
  `physicalAddr`, the loop of `AllocateHeap` is followed: the frames it takes are in a row (`InARow`), because
  those before them are taken and the bits of the quarter are clear (`FirstTaken`, `BootFits`), so two pages
  of a directory in the initial heap are as far apart in memory as in the heap (`Whole`). A step
  changes no address of a kernel page and adds entries that lead to where their table is (`MapStep`), the
  steps that end in `fault` among them (`Stands`), so both halves also hold there.
- `PagingTypes`: `TInv`; an entry's frame is a frame because the first free one is.
- `TasksOwnStacks`: `SInv` says that a table which is not the kernel's is in one directory (`Private`),
  that two finished directories have the same pages mapped in such tables (`Twinned`), and what
  `clone_directory` has copied so far (`Copying`). A directory the kernel's is cloned to has none (`Alone`).

These hold for `KernelSpec` only: with `kfree`, run `paging_frames` shows `FirstFrameIsFree` false.

`HeapProofs` has all that the `heap` run checks, for `DesignSpec`. `HeapTiles` is not inductive: it says
nothing while `alloc` is between its two calls, lets a block at the heap's end go without its
footer, and does not tie a block's size to its request. `IInv` is `Sound \/ Ended`. `Ended` says that a call has not come
back, and of the heap then only its types and `HeapIsBacked`. `Sound` is:

- `Whole(mem, Blocks, Holes, end)`: `HeapTiles` at all times, with a footer behind every block;
- `Listed`: the index holds each hole once;
- `Backed`: every page has a frame, up to an end between the least size and the address
  space's end, which may lie inside a page;
- `Answers`: each block has the room and the alignment its caller asked for;
- `Serving`: the request `alloc` is serving is within the design.

A step from `Sound` leads to `Sound`, or it is one from which no call comes back (`Left`): one of `ExpandStops`, or the
expansion behind which the footer's page has no frame. Since `Ended` is never left, and `free` and the carving
`alloc` only come to pages below the end (`BelowIsFramed`), `fault`, `astray`, `panic` and `nested` have no other
cause within the design.

`Whole` speaks of a memory, so most of the work is done without states. Each write of a tag keeps the tags
outside its range (`Keeps`), and with them the tiles outside it. Tiles are cut in two or
three (`CutTile`, `CarveTile`), joined (`JoinTiles`, `JoinTile`), or cut off at a new end (`CutHeap`). The hole
that `alloc` takes is used up, cut behind, or cut on both sides (`Filled`, `CutBehind`,
`CutAround`); a freed block stays alone, joins a hole before it, the last hole behind it, or both
(`FreedAlone`, `FreedJoined`, `FreedLast`, `FreedBeforeLast`). That `free` tests the right memory is
`HoleBeforeIs`: a footer that ends where a block starts belongs to the tile that does
(`TileBefore`), since no other tag can lie there. `ExpansionCovers` and `ContractionSpares` are the loops
over pages: an expansion from anywhere in a page covers all pages but perhaps the last. `AlignedFits` is the
comparison of `find_smallest_hole` for a page-aligned request, which its low-bit test makes one
without the part in front or with it (`AlignGap`). From it:

- `HeapInvariant`, and with it `HeapTyped`, `TheHeapTiles` and `TheHeapIsBacked`;
- `TheHeapServes`: `free` removes a block, the last step of `alloc` adds one that is disjoint from the
  others, aligned, and below `end`, and every other step leaves blocks where they are and `end`
  above them;
- `ExpandingIsEnough`: the last hole and the expansion together hold the request and its tags, and
  a page-aligned one with a hole on either side.

The ordered table by itself keeps its order, for any items and any predicate that compares them like
sizes: `InsertionKeepsOrder` and `RemovalKeepsOrder`, where nothing is less than what is in front of it
(`InOrder`). They hold while the predicate's answers stay the same, which the heap does not grant.

The heap's own theorems therefore do not use the order: its index is not in order of size
(section 5). Without the design, runs `heap_footers` and `heap_contract` show what breaks.

`DisplayProofs`: `CursorOnScreen` speaks of the rest between two characters. `IInv` follows `csr_x`
and `csr_y` through the accesses: what the register holds when it is about to be stored, that `csr_x` is at
most at the edge until the wrap, `csr_y` at most one row below until the scroll, and
what each stage of a backspace has left to do (`Plain`, `Backspacing`). Three lemmas show
that `Screen`'s `putch` brings any such screen back (`PutchReturns`): that is what happens when
the log falls into the middle of a `putch`, and why the rest of the interrupted one still
ends on the screen. `Texts` keeps backspaces out of what is pending. From it
`CursorStaysOnScreen`. For `StoresStayInText` two invariants are added: what `putch` has read and is about to store
through was made from a cursor on the screen, and the log, while it was harmless, begins and ends there
(`StoreInv`); the terminal's offset lies in the text when `tty_putc` runs and within a
row of it until `tty_scroll` has run, as long as no backspace found it at zero (`TermInv`).

`ShowsPaper` compares the screen with an endless page, on which a character is one change of one cell and
nothing scrolls; `Paper` is as much of it as the text can fill. The proof has two halves. The first is about
functions, without states: `Lies` says that a screen is a window of a page, and `PutchShows` that
`Screen`'s `putch` keeps it so, for each kind of character, with the wrap and the scroll; from it, since `kprintf` is a
fold, all that the kernel prints (`KernelPage`). `PutcViews` and `ScrollViews` are the same for the terminal, of
which the offset may be a row below the window before `tty_scroll`. The second half says that the accesses of
`putch`, with the log between them, do what `putch` does at once. `Goal` is the screen that all of the text would
make, `Now` the screen at hand with what is pending printed on it; `Whole` says at each access what remains
to be done to `Now` to reach `Goal`, `Wiping` the same inside a backspace, `Reads` what the register still
means, and `Turns` where a pending log may stand (a log at a place where nothing is half done leaves the
screen as if it had been printed before or behind the character). Where `hit` says the log was harmless, both
come to the same screen (`KernelInv`). `TtyInv` says that the terminal's text is a window of its page for pages
of every size that can hold it, `Ports` what the controller's registers hold between the four writes.
From it `ScreenShowsPaper`.

`StringProofs` has all that the `strings` run checks, for any memory that ends in a zero. Apart from the invariant
that a call works on the memory as it was (`Memory`), the work is about the functions. A string is where
its zero is (`Ends`, `HasEnd`, `StringIs`). Each loop of the C code is a fold; `FoldRuns` and its kin turn
a fold into the sequence of its states, which `UpTo` then goes through.

- `ComparesContents`: the place at which `strcmp` stops is the least that decides (`StrcmpIs`).
- `FindsTheOccurrence`: the states of a search say how many matches have been passed (`Looked`, `StopIs`), in the
  order of the addresses or against it.
- `NamesTheLastComponent`: `strcpy` copies one byte after the other, behind what it reads (`MemcpyIs`); `StartIs` is
  the index of the last separator, or -1, which wraps to the start of the path.
- `PrintsTheNumber`: `kprintf` takes its format a character at a time (`FormattedIs`). The digits of `itoa` come out last first;
  `BackwardsExists` and `BackwardsDigits` show that its recursion ends and that each digit is what
  the number left over is short of (`Left`), `ReversedReads` that turned round they read as the number.
- `SplitsTheLine`: after each place, what is cut, and that the words start behind the separators
  (`CutTo`, `Starts`); each word is then the text up to the next separator (`WordIs`), and joining them
  gives back the line (`JoinedIs`).

`KShellProofs`: while a sleep is on whose target did not wrap, the counter lacks
exactly the ticks the sleep still has to last (`Lacking`); `WrapsOnce` and `TargetOfNow` are the
arithmetic. From it `SleepLasts`.

For `EchoIsLine`, `EchoInv` says that the screen is one that printing leaves (`Screens`), that the cursor waits at
the left while a command runs, so that the next prompt starts there, and that the row shows
prompt and line, with the cursor behind them, while they have not been made to differ. `PutchDraws`, `PutchErases`
and `PutchNewline` are what `putch` does, scrolling included; `OneMoreDrawn` and `LastErased` what that means for a row.
`kprintf` is a fold, which recurses over sets of positions: `FoldExists` gives the function it recurses with, by
induction on the length with the set of lengths for which it is so (`UpTo`), and `KprintfRuns` the
screens in between.

For `RunsAsTyped`, the refinement of `CommandLine`, `Stored` says that there is no zero in the line while it is
typed. So the zero that a newline stores ends the line and nothing else (`RunAsTyped`). `strsplt` is a
fold over the places of the separators: `SplitIs` says, after each of them, what is cut and where the
first and second words begin, again with a set of lengths, and `ParsedIs` what the memory holds in the end. `SecondChosen` is the
argument: the second word that the parser compares is the one for which the line, as a text, is the
command, a separator and a core, with nothing or another separator behind. The proof found `CommandLine`
too strict: it had a line choose its core although it had more words than `argv`
has entries, where the code writes over its stack instead. The `shell` run is too small for such a line; a
buffer of six characters shows it. `CommandLine` now has `Crowded`.

Only model-checked: liveness (`AcceptedIsRead`, `ForkCompletes`, `LinesAnswered`), which is out of
the prover's reach. All the safety properties of the passing runs are theorems.

## 5. Findings

1. A forked task's first run never acknowledges the timer interrupt that
   switched to it (ktask/task.c:228, kbase/irq.c:49; run `tasks_rotation`).
2. `free` does not rewrite the footer of a hole joined on the right
   (kmm/kheap.c:449; run `heap_footers`).
3. `contract` keeps one bit instead of rounding, and can cut below live blocks
   (kmm/kheap.c:174; run `heap_contract`).
4. `free_frame` clears the bit of frame 0 instead of the frame it was given
   (kmm/paging.c:118; run `paging_frames`).

Seen while modelling, and kept in the models, without a run of their own: `fork` stores the child's
kernel stack in the parent (ktask/task.c:197); `expand` does not round to pages
(kmm/kheap.c:138), though its comments say so (137, 151), and may leave the last page without a frame; a directory's
`physicalAddr` assumes that its three pages lie in contiguous frames (kmm/paging.c:359), so that of a
directory in pages the heap got in two expansions the processor is given other memory; the page table that
`get_page` makes when the heap outgrows its first reaches `kernel_directory` only (kmm/paging.c:303); `find_smallest_hole` is to "find the smallest hole that will
fit" (kmm/kheap.c:198), and returns the first of an index that `alloc` and `free` leave out of
order when they change the size of a listed hole in place (kmm/kheap.c:327, 354, 438); the five cases listed under **Display** above;
`shell_stack_push` drops the zero of a full line (kcore/kshell.c:31); a typed `%` is a format
(kcore/kshell.c:249).

## 6. What is not modelled

- The file systems' `lookup` functions and `vfs_register_filesystem` (their result is
  discarded), `syscall_map` (reads an ELF header), `file.c` (its calls are commented out).
- `kcore/shell.c`, the shell of a program: it is built, but nothing calls `shell_init`, and the
  `file_read` and `file_write` it lives on have their bodies commented out.
- The copying half of `move_stack` (rewrites addresses inside one stack; the models
  name places, not addresses; its pages are in `Paging`), `dma_frame` (nothing calls it),
  `page_fault` (the call that would reach it is commented out), access rights of pages,
  `kbd_update_leds` (nothing calls it).
- What the shell's listing commands print, colours, the terminal's current directory,
  log.c's file.
- `strcat`, `strncmp`, `memset` and math.c: `strcat` only builds directory listings, `strncmp` and math.c
  have no caller, and clearing is part of the models that clear.
- The polling drivers (rtc, ata, serial, pci, io): whether their loops end depends on the device.
- Descriptor tables and the rest of the machine's setup (straight-line code; its order gives the
  initial states), `kmod/elf` (a comparison of magic bytes).
- `kcommon/time.c` and `kmod/akbd`: not in the Makefile's objects.

## 7. Plan

Done: 1. `BoundedFifo`, `Keyboard`; 2. `RoundRobin`, `Tasks`; 3. `OrderedTable`,
`Allocator`, `Heap`; 4. `Paging`; 5. `Vfs`; 6. `Screen`, `Display`, `CommandLine`, `KShell`;
7. `CString`, `Format`; and the proofs of section 4.

Left: models of the polling drivers, should they get timeouts.
