----------------------------- MODULE KernelHeap ------------------------------
(***************************************************************************)
(* The kernel heap (src/memory/heap.c): one doubly linked list of blocks   *)
(* that tile the mapped part of the heap's address range, first fit, split *)
(* on allocation, coalesced on release, grown by whole chunks of pages.    *)
(*                                                                         *)
(* Addresses and sizes are counted in units of HEAP_ALIGN bytes from       *)
(* KHEAP_BASE.  The loop of expand_heap that maps one page after another   *)
(* is one action per page; nothing else runs on the heap in between, since *)
(* its callers are boot code and system calls, which run with interrupts   *)
(* off.  mapped_bytes is heap_end - heap_start and is not repeated.        *)
(***************************************************************************)
EXTENDS Integers, FiniteSets, FiniteSetsExt, Functions

CONSTANTS
    Align,          \* HEAP_ALIGN in bytes, 16
    Overhead,       \* block_overhead() in units, 2
    PageUnits,      \* VMM_PAGE_SIZE in units
    ChunkPages,     \* pages in KHEAP_CHUNK_SIZE
    HeapMax,        \* KHEAP_MAX_SIZE in units
    PtSpan,         \* heap pages one page table maps, 512
    FrameCounts,    \* numbers of frames the machine may have
    Requests        \* sizes in bytes that callers ask for

Chunk == ChunkPages * PageUnits

ASSUME UnitsAssumption ==
    /\ Align \in Nat \ {0} /\ Overhead \in Nat \ {0} /\ PageUnits \in Nat \ {0}
    /\ ChunkPages \in Nat \ {0} /\ HeapMax \in Nat /\ PtSpan \in Nat \ {0}
    /\ FrameCounts \subseteq Nat /\ Requests \subseteq Nat

NULL == -1

VARIABLES
    heap,           \* the list: blocks by address, its two ends, allocated_bytes
    heap_end,
    total_pages,    \* frames on the free list when the heap is set up
    frames,         \* those that still are
    mapped,         \* heap pages that are mapped
    tables,         \* page tables of the heap's range that exist
    growing,        \* the request expand_heap is working for, or Idle
    regions         \* history: units asked for at each address handed out

vars == <<heap, heap_end, total_pages, frames, mapped, tables, growing, regions>>

Idle == [units |-> 0, old |-> NULL, bytes |-> 0, done |-> 0]

align_up(n, m) == ((n + m - 1) \div m) * m

(* A request in bytes as kmalloc rounds it, in units.                      *)
units(size) == align_up(size, Align) \div Align

-----------------------------------------------------------------------------
(* The list.                                                               *)

EmptyHeap == [blocks |-> [b \in {} |-> 0], first |-> NULL, last |-> NULL,
              allocated |-> 0]

Header(use, size, prev, next) ==
    [use |-> use, size |-> size, prev |-> prev, next |-> next]

BlockEnd(bs, b) == b + Overhead + bs[b].size

(* Header hdr written at address b.                                        *)
Put(bs, b, hdr) == [c \in DOMAIN bs \cup {b} |-> IF c = b THEN hdr ELSE bs[c]]

(* block->next and block->prev of b, where b may be NULL.                  *)
SetNext(bs, b, next) == IF b = NULL THEN bs ELSE [bs EXCEPT ![b].next = next]
SetPrev(bs, b, prev) == IF b = NULL THEN bs ELSE [bs EXCEPT ![b].prev = prev]

append_block(h, b, size) ==
    [h EXCEPT !.blocks = Put(SetNext(h.blocks, h.last, b), b,
                             Header("free", size, h.last, NULL)),
              !.first = IF h.last = NULL THEN b ELSE h.first,
              !.last = b]

(* Mutant: a remainder of no payload at all is split off too.              *)
split_block_tight(h, b, n) ==
    LET hdr == h.blocks[b]
        split == b + Overhead + n
    IN  IF hdr.size < n + Overhead THEN h
        ELSE [h EXCEPT
               !.blocks = Put([SetPrev(h.blocks, hdr.next, split) EXCEPT
                                 ![b].size = n, ![b].next = split],
                              split,
                              Header("free", hdr.size - n - Overhead, b, hdr.next)),
               !.last = IF hdr.next = NULL THEN split ELSE h.last]

(* Mutant: the block after the remainder keeps its old prev.               *)
split_block_stale_prev(h, b, n) ==
    LET hdr == h.blocks[b]
        split == b + Overhead + n
    IN  IF hdr.size < n + Overhead + 1 THEN h
        ELSE [h EXCEPT
               !.blocks = Put([h.blocks EXCEPT ![b].size = n, ![b].next = split],
                              split,
                              Header("free", hdr.size - n - Overhead, b, hdr.next)),
               !.last = IF hdr.next = NULL THEN split ELSE h.last]

(* b keeps n units; the rest becomes a free block if it can hold one unit. *)
split_block(h, b, n) ==
    LET hdr == h.blocks[b]
        split == b + Overhead + n
    IN  IF hdr.size < n + Overhead + 1 THEN h
        ELSE [h EXCEPT
               !.blocks = Put([SetPrev(h.blocks, hdr.next, split) EXCEPT
                                 ![b].size = n, ![b].next = split],
                              split,
                              Header("free", hdr.size - n - Overhead, b, hdr.next)),
               !.last = IF hdr.next = NULL THEN split ELSE h.last]

(* Mutant: the next block is swallowed whether or not it is in use.        *)
coalesce_any(h, b) ==
    LET next == h.blocks[b].next
        after == h.blocks[next].next
    IN  IF next = NULL THEN h
        ELSE [h EXCEPT
               !.blocks = Restrict([SetPrev(h.blocks, after, b) EXCEPT
                                      ![b].size = @ + Overhead + h.blocks[next].size,
                                      ![b].next = after],
                                   DOMAIN h.blocks \ {next}),
               !.last = IF after = NULL THEN b ELSE h.last]

coalesce_with_next(h, b) ==
    LET next == h.blocks[b].next
        after == h.blocks[next].next
    IN  IF next = NULL THEN h
        ELSE IF h.blocks[next].use = "used" THEN h
        ELSE [h EXCEPT
               !.blocks = Restrict([SetPrev(h.blocks, after, b) EXCEPT
                                      ![b].size = @ + Overhead + h.blocks[next].size,
                                      ![b].next = after],
                                   DOMAIN h.blocks \ {next}),
               !.last = IF after = NULL THEN b ELSE h.last]

(* coalesce_with_next of the block before b, if there is one and it is free. *)
coalesce_with_prev(h, b) ==
    LET prev == h.blocks[b].prev
    IN  IF prev = NULL THEN h
        ELSE IF h.blocks[prev].use = "used" THEN h
        ELSE coalesce_with_next(h, prev)

(* kmalloc's last lines: split, mark, count.                               *)
taken(h, b, n) ==
    LET s == split_block(h, b, n)
    IN  [s EXCEPT !.blocks[b].use = "used",
                  !.allocated = @ + s.blocks[b].size]

(* Mutant: the block is marked free and its neighbours are left alone.     *)
released_only(h, b) ==
    [h EXCEPT !.blocks[b].use = "free", !.allocated = @ - h.blocks[b].size]

released(h, b) ==
    LET f == [h EXCEPT !.blocks[b].use = "free",
                       !.allocated = @ - h.blocks[b].size]
    IN  coalesce_with_prev(coalesce_with_next(f, b), b)

(* Mutant: the tail that is cut off stays counted as allocated.            *)
shrunk_uncounted(h, b, n) ==
    LET s == split_block(h, b, n)
        next == s.blocks[b].next
    IN  IF next = NULL THEN s
        ELSE IF s.blocks[next].use = "used" THEN s
        ELSE coalesce_with_next(s, next)

(* krealloc in place: the tail that is cut off joins a free block after it. *)
shrunk(h, b, n) ==
    LET s == split_block(h, b, n)
        next == s.blocks[b].next
        c == IF next = NULL THEN s
             ELSE IF s.blocks[next].use = "used" THEN s
             ELSE coalesce_with_next(s, next)
    IN  [c EXCEPT !.allocated = @ - (h.blocks[b].size - c.blocks[b].size)]

(* find_free_block: the list is in address order, so the first block that  *)
(* fits is the one of the lowest address.                                  *)
fits(h, b, n) == h.blocks[b].use = "free" /\ h.blocks[b].size >= n
find_free_block(h, b, n) ==
    /\ fits(h, b, n)
    /\ \A c \in DOMAIN h.blocks : fits(h, c, n) => b <= c
no_free_block(h, n) == \A b \in DOMAIN h.blocks : ~fits(h, b, n)

-----------------------------------------------------------------------------
(* Histories of what callers hold.                                         *)

Given(r, b, n) == [c \in DOMAIN r \cup {b} |-> IF c = b THEN n ELSE r[c]]
Taken(r, b) == Restrict(r, DOMAIN r \ {b})

-----------------------------------------------------------------------------
(* kheap_init                                                              *)
Init ==
    /\ heap = EmptyHeap
    /\ heap_end = 0
    /\ total_pages \in FrameCounts
    /\ frames = total_pages
    /\ mapped = {}
    /\ tables = {}
    /\ growing = Idle
    /\ regions = [b \in {} |-> 0]

(* The end of kmalloc(n) on list h, and of krealloc when it moves old.     *)
finish(h, n, old) ==
    \E b \in DOMAIN h.blocks :
        /\ find_free_block(h, b, n)
        /\ heap' = IF old = NULL THEN taken(h, b, n)
                   ELSE released(taken(h, b, n), old)
        /\ regions' = Given(IF old = NULL THEN regions ELSE Taken(regions, old), b, n)

expand_bytes(n) == align_up(n + Overhead, Chunk)

(* kmalloc of n units, for krealloc of the region old when that is not     *)
(* NULL.  Without a block that fits, expand_heap starts or refuses.        *)
allocate(n, old) ==
    \/ /\ finish(heap, n, old)
       /\ UNCHANGED <<total_pages, heap_end, frames, mapped, tables, growing>>
    \/ /\ no_free_block(heap, n)
       /\ heap_end + expand_bytes(n) <= HeapMax
       /\ growing' = [units |-> n, old |-> old, bytes |-> expand_bytes(n), done |-> 0]
       /\ UNCHANGED <<total_pages, heap, heap_end, frames, mapped, tables, regions>>
    \/ /\ no_free_block(heap, n)
       /\ heap_end + expand_bytes(n) > HeapMax
       /\ UNCHANGED vars

Kmalloc(size) ==
    /\ growing = Idle
    /\ IF size = 0 THEN UNCHANGED vars ELSE allocate(units(size), NULL)

Kfree(b) ==
    /\ growing = Idle
    /\ heap' = released(heap, b)
    /\ regions' = Taken(regions, b)
    /\ UNCHANGED <<total_pages, heap_end, frames, mapped, tables, growing>>

KreallocInPlace(b, size) ==
    /\ growing = Idle
    /\ size # 0
    /\ heap.blocks[b].size >= units(size)
    /\ heap' = shrunk(heap, b, units(size))
    /\ regions' = Given(regions, b, units(size))
    /\ UNCHANGED <<total_pages, heap_end, frames, mapped, tables, growing>>

KreallocMoves(b, size) ==
    /\ growing = Idle
    /\ size # 0
    /\ heap.blocks[b].size < units(size)
    /\ allocate(units(size), b)

-----------------------------------------------------------------------------
(* expand_heap                                                             *)

(* The page it maps next, and the tables that are missing for it, which    *)
(* walk_to_level_in_root creates from the top down: PDPT, PD, page table.  *)
next_page == (heap_end \div PageUnits) + growing.done
missing_tables(page) == {-2, -1, page \div PtSpan} \ tables

ExpandPage ==
    /\ growing.done * PageUnits < growing.bytes
    /\ frames >= 1 + Cardinality(missing_tables(next_page))
    /\ frames' = frames - 1 - Cardinality(missing_tables(next_page))
    /\ tables' = tables \cup missing_tables(next_page)
    /\ mapped' = mapped \cup {next_page}
    /\ growing' = [growing EXCEPT !.done = @ + 1]
    /\ UNCHANGED <<total_pages, heap, heap_end, regions>>

(* Mutant: the frame that could not be mapped is not given back.           *)
given_back_but_one == growing.done

(* The frames expand_heap returns when it fails on a later page: those     *)
(* rollback_heap_mapping unmaps, and the one in hand when vmm_map_page     *)
(* failed for lack of a table.                                             *)
given_back == growing.done + (IF frames = 0 THEN 0 ELSE 1)

(* What rollback_heap_mapping leaves mapped: the heap as it was.           *)
rollback_heap_mapping == {p \in mapped : p < heap_end \div PageUnits}

(* No frame for the page, or none for one of its tables.  The tables made  *)
(* so far stay; the request fails.                                         *)
ExpandFails ==
    /\ growing.done * PageUnits < growing.bytes
    /\ frames < 1 + Cardinality(missing_tables(next_page))
    /\ LET missing == missing_tables(next_page)
           made == {t \in missing :
                      Cardinality({u \in missing : u < t}) < frames - 1}
       IN  /\ tables' = tables \cup made
           /\ frames' = given_back
    /\ mapped' = rollback_heap_mapping
    /\ growing' = Idle
    /\ UNCHANGED <<total_pages, heap, heap_end, regions>>

(* All pages are mapped: the new block is appended, joined to a free block *)
(* before it, and the request that waited is served.                       *)
ExpandDone ==
    /\ growing # Idle
    /\ growing.done * PageUnits >= growing.bytes
    /\ heap_end' = heap_end + growing.bytes
    /\ LET h == append_block(heap, heap_end, growing.bytes - Overhead)
       IN  finish(coalesce_with_prev(h, heap_end), growing.units, growing.old)
    /\ growing' = Idle
    /\ UNCHANGED <<total_pages, frames, mapped, tables>>

Next ==
    \/ \E size \in Requests : Kmalloc(size)
    \/ \E b \in DOMAIN regions : Kfree(b)
    \/ \E b \in DOMAIN regions, size \in Requests :
          KreallocInPlace(b, size) \/ KreallocMoves(b, size)
    \/ ExpandPage
    \/ ExpandFails
    \/ ExpandDone

Spec == Init /\ [][Next]_vars

-----------------------------------------------------------------------------
(* Properties.                                                             *)

Blocks(h) == DOMAIN h.blocks
(* Blocks b and next are neighbours in the list exactly when next starts   *)
(* where b ends; the list starts at the start of the heap and ends at      *)
(* heap_end.  So the blocks tile the heap: none overlap, no unit is lost.  *)
TiledBy(h, end) ==
    /\ Blocks(h) = {} => h.first = NULL /\ h.last = NULL /\ end = 0
    /\ Blocks(h) # {} => /\ h.first = 0 /\ 0 \in Blocks(h)
                         /\ h.last \in Blocks(h)
    /\ \A b \in Blocks(h) :
          /\ IF b = h.last
             THEN h.blocks[b].next = NULL /\ BlockEnd(h.blocks, b) = end
             ELSE /\ h.blocks[b].next = BlockEnd(h.blocks, b)
                  /\ h.blocks[b].next \in Blocks(h)
                  /\ h.blocks[h.blocks[b].next].prev = b
          /\ IF b = 0
             THEN h.blocks[b].prev = NULL
             ELSE /\ h.blocks[b].prev \in Blocks(h)
                  /\ h.blocks[h.blocks[b].prev].next = b
    /\ \A b, c \in Blocks(h) : b < c => BlockEnd(h.blocks, b) <= c

Tiled == TiledBy(heap, heap_end)

(* Free space is never in two adjacent pieces: what could serve a request  *)
(* in one piece is in one piece (kheap_validate, heap.c:307).              *)
Coalesced ==
    \A b \in Blocks(heap) :
        LET next == heap.blocks[b].next
        IN  heap.blocks[b].use = "free" /\ next # NULL
               => heap.blocks[next].use = "used"

(* What SYSCALL_KERNEL_HEAP_STATUS reports as allocated is the sum of the  *)
(* blocks in use (kheap_validate, heap.c:311-318).                         *)
AllocatedIsSum ==
    heap.allocated =
        MapThenSumSet(LAMBDA b : heap.blocks[b].size,
                      {b \in Blocks(heap) : heap.blocks[b].use = "used"})

(* The blocks in use are exactly the regions callers hold, each at least   *)
(* as large as was asked for, and none smaller than one unit.              *)
RegionsBacked ==
    /\ DOMAIN regions = {b \in Blocks(heap) : heap.blocks[b].use = "used"}
    /\ \A b \in DOMAIN regions : heap.blocks[b].size >= regions[b]
    /\ \A b \in Blocks(heap) : heap.blocks[b].size >= 1

(* An expansion that fails half way is undone: no frame is lost or         *)
(* invented (each is free, backs a heap page or is a page table), and no   *)
(* page stays mapped for the next expansion to trip over.                  *)
FramesConserved ==
    /\ frames + Cardinality(mapped) + Cardinality(tables) = total_pages
    /\ mapped = 0 .. next_page - 1

Regions == INSTANCE Allocator WITH
    Limit <- HeapMax,
    regions <- [b \in DOMAIN regions |-> Overhead + regions[b]]

(* The heap keeps an allocator's promise for every region and its header.  *)
ServesRegions == Regions!Spec

=============================================================================
