---------------------------- MODULE AddressSpaces ----------------------------
(***************************************************************************)
(* Page frames, page tables and address spaces: src/memory/pmm.c, vmm.c,   *)
(* the loading of programs and process_sbrk of src/userspace/process.c,    *)
(* malloc of src/libc/user/stdlib.c,                                       *)
(* the growth of the kernel heap as far as it maps pages, and the access   *)
(* of system calls to user memory (src/userspace/syscall.c).               *)
(*                                                                         *)
(* A page table has two levels here: the root, whose upper half every      *)
(* address space gets a copy of, and tables of pages.  The two levels      *)
(* between them in the hardware are made and walked like the last one.     *)
(* Huge pages are left out: nothing maps one.  System calls run with       *)
(* interrupts off, so each is one action.                                  *)
(***************************************************************************)
EXTENDS Elf, SequencesExt, FiniteSetsExt

CONSTANTS
    TotalFrames,    \* frames on the free list at boot
    Entries,        \* entries in a table, 512
    Half,           \* first entry of the kernel's half of a root, 256
    KernelTop,      \* entry of the root the kernel heap is in
    KernelPages,    \* pages the kernel heap may have
    HeapTop,        \* entry of the root a program's heap is in
    HeapFirst,      \* its first page there
    HeapPages,      \* pages it may have
    StackPage,      \* where the page of the stack is mapped
    Increments,     \* units programs ask sbrk for
    Requests,       \* units programs ask malloc for
    MallocAlign,    \* USER_MALLOC_ALIGN
    HeaderUnits,    \* sizeof(struct allocation_header)
    Growth,         \* pages the kernel heap grows by for a buffer
    MaxProcesses

Index == 0 .. Entries - 1
Addresses == Index \X Index         \* pages, as entries of the two tables
Frames == 0 .. TotalFrames          \* frame 0 is the kernel's own root
KernelRoot == 0
None == -1
Slots == 0 .. MaxProcesses - 1

ASSUME SpacesAssumption ==
    /\ TotalFrames \in Nat /\ MaxProcesses \in Nat \ {0} /\ Entries \in Nat
    /\ Half \in Index /\ KernelTop \in Half .. Entries - 1
    /\ HeapTop \in 0 .. Half - 1 /\ StackPage \in Addresses /\ StackPage[1] < Half
    /\ KernelPages \in 0 .. Entries /\ HeapFirst \in Index
    /\ HeapPages \in 0 .. Entries - HeapFirst
    /\ MaxVaddr = Half * Entries * PageUnits - 1
    /\ Increments \subseteq Int /\ Requests \subseteq 0 .. Word - 1 /\ Growth \subseteq Nat
    /\ MallocAlign \in Nat \ {0} /\ Word % MallocAlign = 0
    /\ HeaderUnits \in 1 .. MallocAlign - 1

VARIABLES
    mem,        \* free_list; the tables and the data in each frame
    root,       \* pml4: the active address space
    space,      \* pml4_phys and heap_current of each process slot, its program
                \* and the blocks its malloc has returned
    chain,      \* slots of the processes, each waiting for the next
    heap_end,   \* pages of the kernel heap
    booted      \* userspace_init has tried to load init

vars == <<mem, root, space, chain, heap_end, booted>>

current == Last(chain)
NoTable == [i \in Index |-> None]
NoSpace == [pml4 |-> None, brk |-> 0, image |-> None, blocks |-> <<>>]
Units == 0 .. PageUnits - 1

(* What a unit of memory holds besides a unit of a file: what was there at *)
(* boot, a zero, or what the process in a slot wrote.                      *)
Junk == <<"junk">>
Zero == <<"zero">>
Written(slot) == <<"slot", slot>>

(* The page of linear number n: table_index drops the bits of an address   *)
(* above the root's.                                                       *)
Page(n) == <<(n \div Entries) % Entries, n % Entries>>
Number(a) == a[1] * Entries + a[2]

-----------------------------------------------------------------------------
(* Frames.  m is a memory, as mem; a result is a memory with what was      *)
(* asked for.                                                              *)

no_frame(m) == m.free = <<>>

pmm_alloc_page(m) ==
    IF no_frame(m) THEN [m |-> m, frame |-> None]
    ELSE [m |-> [m EXCEPT !.free = Tail(@)], frame |-> Head(m.free)]

pmm_free_page(m, frame) == [m EXCEPT !.free = <<frame>> \o @]

(* memset of a new page.                                                   *)
cleared(m, frame) == [m EXCEPT !.data[frame] = [u \in Units |-> Zero]]

(* memcpy of what the page gets from the file.                             *)
copied(m, frame, part) ==
    [m EXCEPT !.data[frame] = [u \in Units |-> IF u \in DOMAIN part THEN part[u] ELSE @[u]]]

-----------------------------------------------------------------------------
(* Tables.                                                                 *)

(* walk_to_existing_mapping from table r: the frame of page a.             *)
walk(m, r, a) ==
    IF m.table[r][a[1]] = None THEN None ELSE m.table[m.table[r][a[1]]][a[2]]

Mapped(m, r, a) == walk(m, r, a) # None

(* A table made by ensure_next_table.                                      *)
with_table(new, r, i) ==
    IF new.frame = None THEN [m |-> new.m, ok |-> FALSE]
    ELSE [m |-> [new.m EXCEPT !.table[new.frame] = NoTable, !.table[r][i] = new.frame],
          ok |-> TRUE]

ensure_next_table(m, r, i) ==
    IF m.table[r][i] # None THEN [m |-> m, ok |-> TRUE]
                            ELSE with_table(pmm_alloc_page(m), r, i)

(* The last level: a page that is mapped already is an error.              *)
set_page(w, r, a, frame) ==
    IF ~w.ok \/ Mapped(w.m, r, a) THEN [w EXCEPT !.ok = FALSE]
    ELSE [w EXCEPT !.m.table[w.m.table[r][a[1]]][a[2]] = frame]

map_page(m, r, a, frame) == set_page(ensure_next_table(m, r, a[1]), r, a, frame)

(* Mutant: the entry stays when its frame is given back.                   *)
unmap_nothing(m, r, a) == m

unmap_page(m, r, a) == [m EXCEPT !.table[m.table[r][a[1]]][a[2]] = None]

(* The root of a new address space, made while r is active.                *)
copy_kernel_half(m, frame, r) ==
    [m EXCEPT !.table[frame] = [i \in Index |-> IF i >= Half THEN m.table[r][i] ELSE None]]

(* A frame of zeros and a part of the file mapped at a: load_segment_page  *)
(* and, without the part, the loop of process_sbrk.  A frame that cannot   *)
(* be mapped is lost.                                                      *)
place(new, r, a, part) ==
    IF new.frame = None THEN [m |-> new.m, ok |-> FALSE]
    ELSE map_page(copied(cleared(new.m, new.frame), new.frame, part), r, a, new.frame)

(* The same for each of a sequence of page numbers, up to the first that   *)
(* fails; part says what each page gets.                                   *)
place_next(w, r, n, part) ==
    IF w.ok THEN place(pmm_alloc_page(w.m), r, Page(n), part) ELSE w
place_all(m, r, pages, part) ==
    LET after[k \in 0 .. Len(pages)] ==
          IF k = 0 THEN [m |-> m, ok |-> TRUE]
          ELSE place_next(after[k - 1], r, pages[k], part[pages[k]])
    IN  after[Len(pages)]

-----------------------------------------------------------------------------
(* The kernel heap.                                                        *)

KernelPage(n) == <<KernelTop, n>>

(* One round of rollback_heap_mapping, and all of it for the pages         *)
(* from .. to - 1.                                                         *)
give_back(m, r, a) == pmm_free_page(unmap_page(m, r, a), walk(m, r, a))

rollback(m, r, from, to) ==
    LET after[k \in 0 .. to - from] ==
          IF k = 0 THEN m ELSE give_back(after[k - 1], r, KernelPage(from + k - 1))
    IN  after[to - from]

grown(w, r, page, frame, from) ==
    IF w.ok THEN w
    ELSE [w EXCEPT !.m = rollback(pmm_free_page(@, frame), r, from, page)]

(* One page of expand_heap, which started at page from.                    *)
grow_page(new, r, page, from) ==
    IF new.frame = None THEN [m |-> rollback(new.m, r, from, page), ok |-> FALSE]
    ELSE grown(map_page(new.m, r, KernelPage(page), new.frame), r, page, new.frame, from)

grow_next(w, r, page, from) ==
    IF w.ok THEN grow_page(pmm_alloc_page(w.m), r, page, from) ELSE w
expand_heap(m, r, n) ==
    IF heap_end + n > KernelPages THEN [m |-> m, ok |-> FALSE]
    ELSE LET after[k \in 0 .. n] ==
               IF k = 0 THEN [m |-> m, ok |-> TRUE]
               ELSE grow_next(after[k - 1], r, heap_end + k - 1, heap_end)
         IN  after[n]

-----------------------------------------------------------------------------
(* Loading and running programs.                                           *)

load_user_segment(m, r, img, ph) ==
    IF ~ph.load THEN [m |-> m, ok |-> TRUE]
    ELSE IF segment_end(ph) < ph.vaddr THEN [m |-> m, ok |-> FALSE]
    ELSE place_all(m, r, segment_pages(ph),
                   [page \in Range(segment_pages(ph)) |-> page_part(img, ph, page)])

load_next(w, r, img, ph) == IF w.ok THEN load_user_segment(w.m, r, img, ph) ELSE w
load_user_image_segments(m, r, img) ==
    LET phdrs == Program[img].phdrs
        after[k \in 0 .. Len(phdrs)] ==
          IF k = 0 THEN [m |-> m, ok |-> TRUE]
          ELSE load_next(after[k - 1], r, img, phdrs[k])
    IN  after[Len(phdrs)]

(* The segments and the stack, in the space whose root is top.frame.       *)
load_pages(top, stack, img) ==
    LET w == load_user_image_segments(stack.m, top.frame, img)
    IN  IF \/ top.frame = None \/ stack.frame = None
           \/ ~elf64_validate_user_image(Program[img])
        THEN [m |-> stack.m, ok |-> FALSE]
        ELSE IF ~w.ok THEN w
        ELSE map_page(cleared(w.m, stack.frame), top.frame, StackPage, stack.frame)

(* vmm_create_address_space, with r active.                                *)
create_address_space(new, r) ==
    IF new.frame = None THEN new ELSE [new EXCEPT !.m = copy_kernel_half(@, new.frame, r)]

(* process_load_user_image_bytes; a load that fails keeps what it took.    *)
loaded(top, img) ==
    LET w == load_pages(top, pmm_alloc_page(top.m), img)
    IN  [m |-> w.m, ok |-> w.ok, root |-> top.frame, image |-> img]
load_user_image(m, img) == loaded(create_address_space(pmm_alloc_page(m), root), img)

(* Mutant: the buffer comes from elsewhere.                                *)
needs_not(n) == TRUE

(* kmalloc of a buffer for the file: the heap may have to grow for it, and *)
(* must when it is empty.                                                  *)
needs(n) == heap_end = 0 => n > 0

FreeSlots == Slots \ Range(chain)

(* The end of a launch: the new process runs, or its caller goes on.       *)
Enter(w) ==
    /\ mem' = w.m
    /\ IF w.ok THEN /\ chain' = Append(chain, Min(FreeSlots))
                    /\ space' = [space EXCEPT ![Min(FreeSlots)] =
                                   [NoSpace EXCEPT !.pml4 = w.root, !.image = w.image]]
                    /\ root' = w.root
               ELSE UNCHANGED <<chain, space, root>>

Refuse(m) == mem' = m /\ UNCHANGED <<root, space, chain>>

(* Buffer first, then the slot, then the load.                             *)
Launch(grow, img, n) ==
    \/ ~grow.ok /\ Refuse(grow.m) /\ UNCHANGED heap_end
    \/ grow.ok /\ FreeSlots = {} /\ Refuse(grow.m) /\ heap_end' = heap_end + n
    \/ /\ grow.ok /\ FreeSlots # {} /\ Enter(load_user_image(grow.m, img))
       /\ heap_end' = heap_end + n

(* process_create_filesystem_init, once; process_create_filesystem_process *)
(* and scheduler_enter_current for each program init and others run.       *)
RunProgram ==
    /\ booted => chain # <<>>
    /\ booted' = TRUE
    /\ \E img \in Images, n \in Growth :
          needs(n) /\ Launch(expand_heap(mem, root, n), img, n)

(* A program exits; nothing of it is given back.  The kernel stops when    *)
(* init does.                                                              *)
Exit ==
    /\ Len(chain) > 1
    /\ chain' = Front(chain)
    /\ root' = space[Last(Front(chain))].pml4
    /\ UNCHANGED <<mem, space, heap_end, booted>>

-----------------------------------------------------------------------------
(* What programs do.                                                       *)

HeapBase == Number(<<HeapTop, HeapFirst>>)
pages_of(units) == (units + PageUnits - 1) \div PageUnits

(* Mutant: the page the old break is in counts as new.                     *)
new_pages_rounded(old, new) ==
    [k \in 1 .. (new \div PageUnits) - pages_of(old) |-> HeapBase + pages_of(old) + k - 1]

(* The pages between two breaks.                                           *)
new_pages(old, new) ==
    [k \in 1 .. pages_of(new) - pages_of(old) |-> HeapBase + pages_of(old) + k - 1]

(* process_sbrk; one that fails keeps the pages it has mapped.             *)
process_sbrk(inc) ==
    IF inc <= 0 \/ space[current].brk + inc > HeapPages * PageUnits
    THEN [m |-> mem, ok |-> inc = 0]
    ELSE LET pages == new_pages(space[current].brk, space[current].brk + inc)
         IN  place_all(mem, root, pages, [page \in Range(pages) |-> <<>>])

Sbrk ==
    \E inc \in Increments :
        /\ chain # <<>>
        /\ \E w \in {process_sbrk(inc)} :
              /\ mem' = w.m
              /\ space' = IF w.ok THEN [space EXCEPT ![current].brk = @ + inc] ELSE space
        /\ UNCHANGED <<root, chain, heap_end, booted>>

(* align_up_size wraps: nothing is left of the largest sizes.              *)
aligned(size) == (((size + MallocAlign - 1) % Word) \div MallocAlign) * MallocAlign

(* Mutant: the header is not asked for.                                    *)
total_without_header(size) == aligned(size)

total(size) == (HeaderUnits + aligned(size)) % Word

(* A size_t as an int64_t.                                                 *)
signed(n) == IF n >= Word \div 2 THEN n - Word ELSE n

(* header->size, at the old break, through the active tables.              *)
write_header(m, brk) ==
    [m EXCEPT !.data[walk(m, root, Page(HeapBase + brk \div PageUnits))][brk % PageUnits] =
        Written(current)]

(* malloc: NULL for nothing and when sbrk fails.  calloc and realloc are   *)
(* malloc and a clearing or a copy of what was asked for; free does        *)
(* nothing.                                                                *)
Malloc ==
    \E size \in Requests :
        /\ chain # <<>> /\ size # 0
        /\ \E w \in {process_sbrk(signed(total(size)))} :
              IF w.ok
              THEN /\ mem' = write_header(w.m, space[current].brk)
                   /\ space' = [space EXCEPT ![current].brk = @ + total(size),
                                 ![current].blocks =
                                   Append(@, [at |-> space[current].brk + HeaderUnits,
                                              size |-> aligned(size), asked |-> size])]
              ELSE mem' = w.m /\ UNCHANGED space
        /\ UNCHANGED <<root, chain, heap_end, booted>>

UserPages(r) == {a \in (0 .. Half - 1) \X Index : Mapped(mem, r, a)}

(* The program writes to its memory, or copy_to_user does for it: page by  *)
(* page through the active tables.                                         *)
WriteUser ==
    /\ chain # <<>>
    /\ \E a \in UserPages(root) : 
          mem' = [mem EXCEPT !.data[walk(mem, root, a)] = [u \in Units |-> Written(current)]]
    /\ UNCHANGED <<root, space, chain, heap_end, booted>>

Init ==
    /\ mem = [free |-> [k \in 1 .. TotalFrames |-> k],
              table |-> [f \in Frames |-> NoTable],
              data |-> [f \in Frames |-> [u \in Units |-> Junk]]]
    /\ root = KernelRoot
    /\ space = [s \in Slots |-> NoSpace]
    /\ chain = <<>> /\ heap_end = 0 /\ booted = FALSE

Next == RunProgram \/ Exit \/ Sbrk \/ Malloc \/ WriteUser

Spec == Init /\ [][Next]_vars

-----------------------------------------------------------------------------
(* Properties.                                                             *)

Roots == {KernelRoot} \cup {space[s].pml4 : s \in Range(chain)}

(* The places a frame can be in: the roots, the tables under them and the  *)
(* pages in those; the kernel's half is counted once.                      *)
TablePlaces ==
    {p \in Roots \X Index : /\ mem.table[p[1]][p[2]] # None
                            /\ p[2] >= Half => p[1] = KernelRoot}
PagePlaces ==
    {p \in TablePlaces \X Index : mem.table[mem.table[p[1][1]][p[1][2]]][p[2]] # None}
Places == {<<"root", r>> : r \in Roots} \cup {<<"table", p>> : p \in TablePlaces}
            \cup {<<"page", p>> : p \in PagePlaces}
FrameAt(p) ==
    CASE p[1] = "root" -> p[2]
      [] p[1] = "table" -> mem.table[p[2][1]][p[2][2]]
      [] p[1] = "page" -> mem.table[mem.table[p[2][1][1]][p[2][1][2]]][p[2][2]]

(* No frame is in two places, whatever failed half way: not two pages, not *)
(* a page and a table, not two processes; and none of them is free.        *)
FramesOwnedOnce ==
    /\ \A p, q \in Places : FrameAt(p) = FrameAt(q) => p = q
    /\ \A p \in Places : FrameAt(p) \notin Range(mem.free)

(* The kernel heap is the same memory in every address space that can      *)
(* become active, all of it, though spaces copy the kernel's half of the   *)
(* root once and the heap grows in whichever space is active.              *)
KernelHeapEverywhere ==
    \A n \in 0 .. heap_end - 1 :
        /\ Mapped(mem, KernelRoot, KernelPage(n))
        /\ \A r \in Roots :
              walk(mem, r, KernelPage(n)) = walk(mem, KernelRoot, KernelPage(n))

(* What the file of a program says is at an address: a unit of the segment *)
(* that has one there, otherwise a zero.                                   *)
AtStart(img, x) ==
    LET here == {ph \in Loadable(Program[img]) : x \in ph.vaddr .. ph.vaddr + ph.filesz - 1}
    IN  IF here = {} THEN {Zero}
                     ELSE {<<"file", img, ph.offset + x - ph.vaddr>> : ph \in here}

(* The pages that get unchecked parts of a file.                           *)
StrayPages(img) == {Page(first_page(ph)) : ph \in Strays(Program[img])}

(* A process finds in its part of the addresses what its program's file    *)
(* has there, zeros, and what it wrote: never what another one or the      *)
(* machine left, and nothing from beyond the file, at whatever place in a  *)
(* page its segments begin and end.  With one exception: the page of an    *)
(* empty segment that begins inside a page.  elf64_validate_user_image     *)
(* passes over it, load_segment_page still copies p_filesz units from any  *)
(* p_offset, and what is there may be from beyond the file.                *)
OwnData ==
    \A s \in Range(chain) :
        \A a \in UserPages(space[s].pml4) \ StrayPages(space[s].image), u \in Units :
            mem.data[walk(mem, space[s].pml4, a)][u]
                \in {Written(s)} \cup AtStart(space[s].image, Number(a) * PageUnits + u)

(* What a process was promised is mapped in its own space: its entry       *)
(* point, its stack, every unit of its segments, and the heap up to the    *)
(* break sbrk reported.                                                    *)
PromisedIsMapped ==
    \A s \in Range(chain) :
        LET there(n) == Mapped(mem, space[s].pml4, Page(n))
            e == Program[space[s].image]
        IN  /\ there(Number(StackPage)) /\ there(e.entry \div PageUnits)
            /\ \A ph \in Loadable(e) : \A x \in ph.vaddr .. ph.vaddr + ph.memsz - 1 :
                  there(x \div PageUnits)
            /\ \A n \in 0 .. pages_of(space[s].brk) - 1 : there(HeapBase + n)

(* The blocks malloc returned, with their headers, are below the break and *)
(* none reaches into the next: whatever calls of sbrk failed or succeeded  *)
(* in between.  A block has what was asked for, unless that was within one *)
(* alignment of the largest number, where align_up_size wraps and malloc   *)
(* returns a block of nothing.                                             *)
BlocksApart ==
    \A s \in Range(chain) : LET b == space[s].blocks IN
        /\ \A i \in 1 .. Len(b) : /\ b[i].at + b[i].size <= space[s].brk
                                  /\ b[i].asked <= Word - MallocAlign => b[i].asked <= b[i].size
        /\ \A i \in 2 .. Len(b) : b[i - 1].at + b[i - 1].size <= b[i].at - HeaderUnits

=============================================================================
