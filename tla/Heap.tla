-------------------------------- MODULE Heap --------------------------------
(***************************************************************************)
(* kmm/kheap.c: the kernel heap, one region of boundary-tagged blocks and   *)
(* holes, with the holes listed by size in an ordered table.                *)
(*                                                                          *)
(* Addresses are offsets from heap->start_address, which is page-aligned    *)
(* and above the first page.  mem is what the heap's memory holds of tags:  *)
(* the headers and footers with an intact magic, by address.  A tag stays   *)
(* until something is written over it; a block's owner writes over all of   *)
(* the block.  alloc calls itself after expand; each call is a step.        *)
(*                                                                          *)
(* A call may not come back.  An access to a page that is not present never *)
(* completes: the page fault's stub returns without calling a handler       *)
(* (isrs.s:285), to the same instruction.  A page that contract took the    *)
(* frame from is still marked present: an access goes astray, to frame 0.   *)
(* alloc_frame panics when no frame is left, which may be so at any page,   *)
(* as others take frames too.  And past the page tables that vmm_init       *)
(* made, get_page asks kmalloc_ap for one more: alloc is then called within *)
(* its own expansion.  The model ends where one of the four happens.        *)
(***************************************************************************)
EXTENDS Integers, OrderedTable

CONSTANTS
    PAGE,            \* page size, a power of two
    HDR, FTR,        \* sizeof(struct header), sizeof(struct footer)
    HEAP_MIN_SIZE,
    START,           \* heap->start_address
    InitialSize,     \* end_addr - start of create_heap
    TABLE_END,       \* how far the page tables reach that vmm_init made
    WORD,            \* unsigned arithmetic is modulo this
    Request,         \* the [size, page_align] the kernel asks for
    MaxAllocs        \* bound: calls of alloc in a behaviour

ASSUME SizeAssumption ==
    /\ {PAGE, HDR, FTR, HEAP_MIN_SIZE, START, InitialSize, TABLE_END, WORD} \subseteq Nat \ {0}
    /\ START % PAGE = 0 /\ InitialSize % PAGE = 0 /\ InitialSize <= TABLE_END
ASSUME RequestAssumption ==
    Request # {} /\ Request \subseteq [size : Nat, page_align : BOOLEAN] /\ MaxAllocs \in Nat

\* The least size is whole pages, and no more than create_heap starts with.
ASSUME MinimumAssumption ==
    /\ HDR + FTR <= PAGE
    /\ HEAP_MIN_SIZE % PAGE = 0 /\ 2 * PAGE <= HEAP_MIN_SIZE
    /\ HEAP_MIN_SIZE <= InitialSize /\ START + InitialSize <= WORD

VARIABLES
    mem,         \* the tags in memory
    index,       \* heap->index: the holes' headers
    end,         \* heap->end_address
    present,     \* pages of the region whose entry is marked present
    framed,      \* pages of the region whose entry holds a frame
    pc,          \* "idle", "alloc" within alloc, or a Stop
    req,         \* the request alloc is serving
    live,        \* history: caller's pointer -> the request it was the answer to
    allocs       \* calls of alloc so far

heapVars == <<mem, index, end, present, framed>>
vars == <<heapVars, pc, req, live, allocs>>

OVERHEAD == HDR + FTR
U(n) == n % WORD
Address(a) == U(START + a) - START         \* address arithmetic wraps, too
Page(a) == a \div PAGE
PagesOf(lo, hi) == Page(lo)..Page(hi - 1)

\* Where a call does not come back from.
Stop == {"fault", "astray", "panic", "nested"}

\* An access to one of the pages without a frame.
StopAt(pages) ==
    \E q \in pages \ framed' : pc' = IF q \in present' THEN "astray" ELSE "fault"

(***************************************************************************)
(* Tags.                                                                    *)
(***************************************************************************)

\* The tags, each of length len, that survive a write to lo..hi-1.
Outside(tags, len, lo, hi) ==
    [a \in {b \in DOMAIN tags : b + len <= lo \/ hi <= b} |-> tags[a]]

\* The tags once there is one more, at a.
With(tags, a, tag) == [b \in DOMAIN tags \cup {a} |-> IF b = a THEN tag ELSE tags[b]]

\* What is left when lo..hi-1 is written.
Overwritten(m, lo, hi) == [header |-> Outside(m.header, HDR, lo, hi),
                           footer |-> Outside(m.footer, FTR, lo, hi)]

AddHeader(m, a, is_hole, size) ==
    [m EXCEPT !.header = With(m.header, a, [is_hole |-> is_hole, size |-> size])]

AddFooter(m, a, h) == [m EXCEPT !.footer = With(m.footer, a, h)]

PutHeader(m, a, is_hole, size) == AddHeader(Overwritten(m, a, a + HDR), a, is_hole, size)

PutFooter(m, a, h) == AddFooter(Overwritten(m, a, a + FTR), a, h)

\* The caller writes all over its block.
PutBlock(m, a, size) ==
    AddFooter(AddHeader(Overwritten(m, a, a + size), a, FALSE, size), a + size - FTR, a)

FooterOf(a, size) == Address(a + size - FTR)

PutHole(m, a, size) == PutFooter(PutHeader(m, a, TRUE, size), FooterOf(a, size), a)

Size(h) == mem.header[h].size

IndexWithPointer(h, idx, m) == Append(idx, h + HDR)   \* mutant: the caller's pointer

\* The index with h inserted, once the tags are those of m.
IndexWith(h, idx, m) ==
    LET header_t_less_than ==
            [a, b \in Range(idx) \cup {h} |-> m.header[a].size < m.header[b].size]
    IN  insert_ordered_array(h, idx, header_t_less_than)

PositionOf(h, idx) ==
    IF \E i \in DOMAIN idx : idx[i] = h
    THEN CHOOSE i \in DOMAIN idx : idx[i] = h /\ \A j \in 1..(i - 1) : idx[j] # h
    ELSE Len(idx) + 1

TypeOK ==
    /\ DOMAIN mem = {"header", "footer"}
    /\ \A h \in DOMAIN mem.header : mem.header[h] \in [is_hole : BOOLEAN, size : Nat]
    /\ \A f \in DOMAIN mem.footer : mem.footer[f] \in Nat
    /\ index \in Seq(DOMAIN mem.header)
    /\ end \in Nat
    /\ framed \subseteq present
    /\ present \subseteq Nat
    /\ pc \in {"idle", "alloc"} \cup Stop
    /\ req \in Request
    /\ \A p \in DOMAIN live : live[p] \in Request
    /\ allocs \in 0..MaxAllocs

\* create_heap: one hole, listed, with a header and no footer.
create_heap ==
    /\ mem = [header |-> [h \in {0} |-> [is_hole |-> TRUE, size |-> InitialSize]],
              footer |-> <<>>]
    /\ index = <<0>>
    /\ end = InitialSize

Init ==
    /\ create_heap
    /\ present = PagesOf(0, InitialSize)
    /\ framed = present
    /\ pc = "idle"
    /\ req = CHOOSE r \in Request : TRUE
    /\ live = <<>>
    /\ allocs = 0

(***************************************************************************)
(* expand and contract.                                                     *)
(***************************************************************************)

ExpandedShort(new_size) ==                 \* mutant: header and footer not counted
    new_size - OVERHEAD

\* (new_size) & (0xFFFFF000 != 0) tests the lowest bit only.
ExpandedTo(new_size) ==
    IF new_size % 2 = 1 THEN (Page(new_size) * PAGE) + PAGE ELSE new_size

ExpansionPagesLate(new_size) ==            \* mutant: the loop starts a page late
    {Page(end + (k * PAGE)) : k \in {j \in 1..Page(new_size) : end + (j * PAGE) < new_size}}

\* The pages that expand's loop gives a frame.
ExpansionPages(new_size) ==
    {Page(end + (k * PAGE)) : k \in {j \in 0..Page(new_size) : end + (j * PAGE) < new_size}}

ContractedFar(new_size) ==                 \* mutant: no lower limit
    IF Page(new_size) % 2 = 1 THEN 2 * PAGE ELSE new_size

\* new_size & 0x1000 tests, and then keeps, the one bit of that weight.
ContractedTo(new_size) ==
    LET rounded == IF Page(new_size) % 2 = 1 THEN 2 * PAGE ELSE new_size
    IN  IF rounded < HEAP_MIN_SIZE THEN HEAP_MIN_SIZE ELSE rounded

\* The pages whose frame contract's loop gives back; their entries stay present.
ContractionPages(new_size) ==
    {Page(end - (k * PAGE)) : k \in {j \in 1..Page(end) : new_size < end - (j * PAGE)}}

(***************************************************************************)
(* alloc.                                                                   *)
(***************************************************************************)
AlignGap(h) == IF (h + HDR) % 2 = 1 THEN PAGE - ((h + HDR) % PAGE) ELSE 0

Fits(h, r) == Size(h) - (IF r.page_align THEN AlignGap(h) ELSE 0) >= r.size + OVERHEAD

\* Positions in the index of the holes that fit.
Fitting(r) == {i \in DOMAIN index : Fits(index[i], r)}

find_smallest_hole(r) == CHOOSE i \in Fitting(r) : \A j \in Fitting(r) : i <= j

Alloc(r) ==
    /\ pc = "idle"
    /\ allocs < MaxAllocs
    /\ allocs' = allocs + 1
    /\ req' = r
    /\ pc' = "alloc"
    /\ UNCHANGED <<heapVars, live>>

\* The endmost hole is taken to reach the end of the heap.
Endmost == CHOOSE h \in Range(index) : \A g \in Range(index) : g <= h

\* expand does not come back from its page q: alloc_frame finds no frame for it,
\* or get_page finds no table that reaches it.
ExpandStops ==
    LET pages == ExpansionPages(ExpandedTo(end + req.size + OVERHEAD))
    IN  /\ pc = "alloc"
        /\ Fitting(req) = {}
        /\ \E q \in pages \ framed :
              LET before == {p \in pages : p < q}
              IN  /\ \A p \in before : p * PAGE < TABLE_END
                  /\ framed' = framed \cup before
                  /\ present' = present \cup before
                  /\ pc' = IF q * PAGE < TABLE_END THEN "panic" ELSE "nested"
        /\ UNCHANGED <<mem, index, end, req, live, allocs>>

AllocExpand ==
    LET new_length == ExpandedTo(end + req.size + OVERHEAD)
        more == new_length - end
        hole == IF index = <<>> THEN end ELSE Endmost
        size == IF index = <<>> THEN more ELSE Size(Endmost) + more
        footer == FooterOf(hole, size)
        pages == PagesOf(hole, hole + HDR) \cup PagesOf(footer, footer + FTR)
    IN  /\ pc = "alloc"
        /\ Fitting(req) = {}
        /\ \A p \in ExpansionPages(new_length) : p * PAGE < TABLE_END
        /\ framed' = framed \cup ExpansionPages(new_length)
        /\ present' = present \cup ExpansionPages(new_length)
        /\ end' = new_length
        /\ IF pages \subseteq framed'
           THEN /\ mem' = PutHole(mem, hole, size)
                /\ index' = IF index = <<>> THEN IndexWith(hole, index, mem') ELSE index
                /\ UNCHANGED pc
           ELSE StopAt(pages) /\ UNCHANGED <<mem, index>>
        /\ UNCHANGED <<req, live, allocs>>

\* The hole at pos0 becomes, in this order, a hole in front (of a page-aligned
\* block only), the block, and a hole behind it (if anything is left).
AllocCarve ==
    LET i == find_smallest_hole(req)
        pos0 == index[i]
        want == req.size + OVERHEAD
        spare == Size(pos0) - want
        whole == spare < OVERHEAD
        new_size == IF whole THEN Size(pos0) ELSE want
        front == IF req.page_align THEN U(PAGE - (pos0 % PAGE) - HDR) ELSE 0
        pos == pos0 + (IF req.page_align THEN PAGE - (pos0 % PAGE) - HDR ELSE 0)
        behind == U(Size(pos0) - front - new_size)
        rest == pos + new_size
        m1 == IF req.page_align
              THEN PutFooter(PutHeader(mem, pos0, TRUE, front), pos - FTR, pos0)
              ELSE mem
        m2 == PutBlock(m1, pos, new_size)
        m3 == IF FooterOf(rest, behind) < end
              THEN PutHole(m2, rest, behind)
              ELSE PutHeader(m2, rest, TRUE, behind)
        kept == IF req.page_align THEN index ELSE remove_ordered_array(i, index)
        pages == PagesOf(pos0, rest) \cup (IF behind > 0 THEN PagesOf(rest, rest + HDR) ELSE {})
    IN  /\ pc = "alloc"
        /\ Fitting(req) # {}
        /\ IF pages \subseteq framed
           THEN /\ mem' = IF behind > 0 THEN m3 ELSE m2
                /\ index' = IF behind > 0 THEN IndexWith(rest, kept, m3) ELSE kept
                /\ live' = With(live, pos + HDR, req)
                /\ pc' = "idle"
           ELSE StopAt(pages) /\ UNCHANGED <<mem, index, live>>
        /\ UNCHANGED <<end, present, framed, req, allocs>>

(***************************************************************************)
(* free.                                                                    *)
(***************************************************************************)

\* The hole that ends where the block at h starts, if a footer there says so.
HoleBefore(h) ==
    {g \in {mem.footer[f] : f \in {h - FTR} \cap DOMAIN mem.footer} \cap DOMAIN mem.header :
        mem.header[g].is_hole}

HoleAfter(h) ==
    {g \in {h + Size(h)} \cap DOMAIN mem.header : mem.header[g].is_hole}

SetSize(m, h, size) == [m EXCEPT !.header[h] = [is_hole |-> TRUE, size |-> size]]

JoinedOwnFooter(h, before, after) ==       \* mutant: the block's footer keeps its header
    LET first == IF before # {} THEN CHOOSE g \in before : TRUE ELSE h
        total == Size(h) + (IF before # {} THEN Size(first) ELSE 0)
        grown == total + (IF after # {} THEN Size(h + Size(h)) ELSE 0)
    IN  SetSize(SetSize(mem, h, Size(h)), first, grown)

\* The tags once the block at h has been joined with the holes beside it: the
\* block's own footer is redirected to a hole before it, but the footer of a
\* hole after it is not.
Joined(h, before, after) ==
    LET first == IF before # {} THEN CHOOSE g \in before : TRUE ELSE h
        total == Size(h) + (IF before # {} THEN Size(first) ELSE 0)
        grown == total + (IF after # {} THEN Size(h + Size(h)) ELSE 0)
        m1 == SetSize(mem, h, Size(h))
        m2 == IF before # {} THEN PutFooter(m1, h + Size(h) - FTR, first) ELSE m1
    IN  SetSize(m2, first, grown)

free(p) ==
    LET h == p - HDR
        before == HoleBefore(h)
        after == HoleAfter(h)
        test_header == h + Size(h)
        header == IF before # {} THEN CHOOSE g \in before : TRUE ELSE h
        m1 == Joined(h, before, after)
        idx1 == IF after # {}
                THEN remove_ordered_array(PositionOf(test_header, index), index)
                ELSE index
        atEnd == test_header + (IF after # {} THEN Size(test_header) ELSE 0) = end
        new_length == ContractedTo(header)
        size == U(m1.header[header].size - (end - new_length))
        m2 == IF atEnd /\ size > 0 THEN PutHole(m1, header, size) ELSE m1
        idx2 == IF atEnd /\ size = 0 /\ PositionOf(test_header, idx1) \in DOMAIN idx1
                THEN remove_ordered_array(PositionOf(test_header, idx1), idx1)
                ELSE idx1
    IN  /\ pc = "idle"
        /\ p \in DOMAIN live
        /\ IF Page(test_header) \in framed
           THEN /\ mem' = m2
                /\ index' = IF before = {} THEN IndexWith(header, idx2, m2) ELSE idx2
                /\ end' = IF atEnd THEN new_length ELSE end
                /\ framed' = IF atEnd THEN framed \ ContractionPages(new_length) ELSE framed
                /\ live' = [q \in DOMAIN live \ {p} |-> live[q]]
                /\ UNCHANGED <<present, pc, req, allocs>>
           ELSE StopAt({Page(test_header)}) /\ UNCHANGED <<heapVars, req, live, allocs>>

Next ==
    \/ \E r \in Request : Alloc(r)
    \/ ExpandStops
    \/ AllocExpand
    \/ AllocCarve
    \/ \E p \in DOMAIN live : free(p)

Spec == Init /\ [][Next]_vars

(***************************************************************************)
(* The heap used within its design: callers avoid the calls that kheap.c    *)
(* serves by breaking its own tags.                                         *)
(***************************************************************************)
Blocks == {p - HDR : p \in DOMAIN live}
Holes == Range(index)

LastHole == {h \in Holes : h + Size(h) = end}

\* In a hole at h of that size, room for the hole in front of a page-aligned
\* block, the block, and a hole behind it.
AlignedRoom(h, size, r) ==
    LET front == PAGE - (h % PAGE) - HDR
        behind == size - front - r.size - OVERHEAD
    IN  front >= OVERHEAD /\ behind >= OVERHEAD

\* The heap either has room, or can grow at a hole at its end, or has no hole at
\* all; it does not overreach the address space; and a page-aligned block leaves
\* a hole on either side.
Serviceable(r) ==
    LET i == find_smallest_hole(r)
        new_length == ExpandedTo(end + r.size + OVERHEAD)
        hole == IF index = <<>> THEN end ELSE Endmost
    IN  IF Fitting(r) # {}
        THEN r.page_align => AlignedRoom(index[i], Size(index[i]), r)
        ELSE /\ START + new_length <= WORD
             /\ index # <<>> => Endmost \in LastHole
             /\ r.page_align => AlignedRoom(hole, new_length - hole, r)

\* p's block is not the last thing in the heap, joins no hole behind it but the
\* last one, and then leaves a hole with room for two tags below HEAP_MIN_SIZE.
Releasable(p) ==
    LET h == p - HDR
        header == IF HoleBefore(h) # {} THEN CHOOSE g \in HoleBefore(h) : TRUE ELSE h
    IN  /\ h + Size(h) < end
        /\ HoleAfter(h) \subseteq LastHole
        /\ HoleAfter(h) # {} => header + OVERHEAD <= HEAP_MIN_SIZE

DesignNext ==
    \/ \E r \in Request : Serviceable(r) /\ Alloc(r)
    \/ ExpandStops
    \/ AllocExpand
    \/ AllocCarve
    \/ \E p \in DOMAIN live : Releasable(p) /\ free(p)

DesignSpec == Init /\ [][DesignNext]_vars

(***************************************************************************)
(* Properties, of the heap between two calls.                               *)
(***************************************************************************)
\* Blocks and listed holes tile the heap: each is followed by another or by the
\* end, none overlaps another, each hole is listed once, and each has a footer
\* that leads back to it (but the hole at the end, to which create_heap gives
\* none).  So a merge finds the true neighbours and no memory is ever lost.
HeapTiles ==
    pc = "idle" =>
        /\ Blocks \cap Holes = {}
        /\ \A i, j \in DOMAIN index : index[i] = index[j] => i = j
        /\ 0 \in Blocks \cup Holes
        /\ \A h \in Blocks \cup Holes :
              /\ h \in DOMAIN mem.header
              /\ mem.header[h].is_hole <=> h \in Holes
              /\ Size(h) >= OVERHEAD
              /\ h + Size(h) \in Blocks \cup Holes \cup {end}
              /\ h + Size(h) < end =>
                    /\ h + Size(h) - FTR \in DOMAIN mem.footer
                    /\ mem.footer[h + Size(h) - FTR] = h
              /\ \A g \in Blocks \cup Holes : g > h => g >= h + Size(h)

\* After expanding and contracting, every page up to the heap's end has a frame;
\* but expand may leave out the last page (kheap.c:138 rounds odd sizes only, and
\* the loop at 155 goes on from wherever the heap ended), and then alloc does not
\* get past the footer it writes there.
HeapIsBacked ==
    /\ PagesOf(0, end) \ framed \subseteq {Page(end - 1)}
    /\ Page(end - 1) \notin framed => pc \in {"fault", "astray"}

Requests == INSTANCE Allocator WITH limit <- end

\* Callers get disjoint blocks inside the heap, as large and as aligned as they
\* asked for, and keep them until they free them: merging, expanding and
\* contracting never touch a live block.
ServesRequests == Requests!AllocatorSpec

\* alloc calls itself at most once: the expansion leaves a hole that fits.
ExpandsEnough == [][pc = "alloc" /\ pc' = "alloc" => Fitting(req)' # {}]_vars

\* kheap.c:449, "Rewrite it's footer to point to our header": after a block is
\* freed, the footer that ends a listed hole leads to that hole.
FootersLeadToHoles ==
    pc = "idle" =>
        \A h \in Holes : h + Size(h) - FTR \in DOMAIN mem.footer =>
                            mem.footer[h + Size(h) - FTR] = h

\* kheap.c:180, "Don't contract too far!": contracting cuts off no live block.
ContractionSparesBlocks == \A h \in Blocks : h + Size(h) <= end
=============================================================================
