# TLA+ models of whirliscope

whirliscope is a small x86_64 kernel with one user program at a time, an ext2
root file system held in memory and written back to a disk, and a shell that
runs as the first process. This directory holds TLA+ models of its parts, TLC
configurations that check them, and TLAPS proofs about most of them.
Paths below are relative to the repository's `src/`.

## The system

| Part | State | Operations | Works with |
| --- | --- | --- | --- |
| Processes and scheduler (`userspace/process.c`, `scheduler.c`, `userspace.c`, `main.c`) | process table, stack of blocking runs, current process, kernel return context, counters | boot, launch, run a program and wait for it, exit, timer tick | system calls, address spaces, page frames, file system |
| System call and interrupt entry (`arch/x86_64/idt.c`, `isr.S`) | the register frame on the stack | int 0x80, timer interrupt, exceptions, entering user code | scheduler |
| System call dispatch (`userspace/syscall.c`) | none of its own | 25 calls, path resolution, access to user memory | everything |
| Kernel heap (`memory/heap.c`) | list of blocks, mapped range, counters | kmalloc, krealloc, kfree, expansion | page frames, page tables |
| Page frames and page tables (`memory/pmm.c`, `vmm.c`, `userspace/address_space.c`) | free list, page tables, cr3 | allocate, free, map, unmap, create and activate an address space | heap, processes |
| ELF loader (`userspace/elf.c`) | none | validation of an image | processes |
| ext2 (`fs/ext2.c`) | the image: superblock, bitmaps, inodes, blocks | create, mkdir, unlink, rmdir, truncate, write, read, list, stat | root file system |
| Root file system (`fs/rootfs.c`, `drivers/block.c`, `ata.c`) | where the image lives, how it is written back | load, sync | ext2, disk |
| Keyboard (`drivers/keyboard.c`) | event ring, modifiers | interrupt, read an event, read a character | system calls, shell |
| Kernel log (`kernel/klog.c`) | ring of characters | append, tail | system calls |
| Console (`framebuffer/framebuffer.c`, `kernel/console.c`, `terminal.c`) | cursor, colours | put a character, scroll, clear | log, system calls |
| Shell and user library (`userspace/app/app.c`, `libc/user`) | line, history, malloc list | edit, run commands | system calls |

What is hard here. System calls run with interrupts off, so most of the kernel
is sequential; the difficulty is in long sequences of calls that must keep
linked structures consistent, in operations that fail half way and must undo
what they did, in slots and frames that are reused, in registers that pass
through several conversions, and in the one real interleaving: interrupts
between the steps of the boot sequence and while user code runs. Below the file
system there is a drive that can refuse or lose a sector, and power that can end
between any two. `PROJECT.json` lists each hazard with its line and the properties that would catch it.

## Modules

| Module | Models |
| --- | --- |
| `RunStack` | what launching programs promises: procedure calls with strict nesting, which return the status the program above exits with |
| `Scheduler` | boot, the process table, blocking runs, exit, interrupts, register conversions |
| `Allocator` | what a heap promises: disjoint regions of at least the size asked for |
| `KernelHeap` | the kernel heap and its expansion page by page |
| `FileTree` | what a file system promises: a tree of directories and files, and for each call what it does to the tree if it reports success and what if it reports an error |
| `Ext2` | inodes, block maps, bitmaps, counts and the calls that change them |
| `Ext2Dir` | the records of directory blocks |
| `UserPaths` | paths as programs write them, and their resolution |
| `Rootfs` | the system calls on files, the writeback to the disk, failures and restarts; extends `Ext2` and `UserPaths` |
| `Elf` | the checks of program files, and what their segments put in which page |
| `AddressSpaces` | page frames, page tables, loading, sbrk, malloc, mapping for the kernel heap; extends `Elf` |
| `Screen`, `TextConsole` | what a text screen promises, as operators and as a specification |
| `Console` | the framebuffer's text, deferred drawing, and the kernel log |
| `Keyboard` | scan codes, modifiers, the event ring and its readers |
| `Shell` | the shell's line, its history and what the screen shows of them |
| `MC...` | the values TLC uses for the constants of each |
| `Scheduler_proofs`, `KernelHeap_proofs`, `Ext2Dir_proofs`, `Rootfs_proofs`, `AddressSpaces_proofs`, `Keyboard_proofs`, `Shell_proofs` | theorems about the module each is named after; `Rootfs_proofs` has those about `Ext2` too, which `Rootfs` extends |
| `IndexLemmas` | sets of numbers have a least element and, if bounded, a greatest: the lemmas behind every induction in the proofs; sums over finite sets; division |

### Scheduler

One state per point at which something else can happen: `mode` says where the
kernel is ("boot", "waiting" for the timer, "prepared" to enter init, "user",
"returned" to `userspace_launch_init`, and the ways to stop). A system call is
one action, because the gate disables interrupts until `iretq`.

- `processes` is the process table, one record per slot with the state, pid,
  working directory, saved registers and page table; `blocking_runs` and
  `blocking_run_depth` are the stack of suspended callers; `current`,
  `return_context`, `next_pid` and the counters keep the names of the code.
- Page frames are a count: the free list is last in, first out and nothing is
  ever returned by this part, so the number of frames left also names the frame
  that is handed out next, and with it the address space of a new process.
- Registers are a function from the fields of `struct user_registers` to values;
  `SyscallFrame`, `registers_from_syscall_frame`,
  `syscall_frame_from_registers`, `saved_regs` and `entered` are those
  conversions, each with the fields it copies to which places. `left` records
  what each process had in its registers when it last ran. What a program
  passes to `exit` is a value in its `rdi`, and `Status` the number it stands
  for (`exit_status`); it reaches the caller in `rax`.
- `UserspaceInit`, `TimerWaitFails`, `PrepareLaunch`, `EnterInit` and
  `KmainEnds` are the stretches of `kmain` between which interrupts can come;
  `TimerIrq` is the interrupt, on kernel and on user code; `SysExit`,
  `SysChdir`, `RunPathRefused`, `RunPathLoadFails`, `RunPathLaunches` and
  `SysOther` are the system calls; `UserFault` is an exception in user code.

`load_takes` and `load_succeeds` say how many frames a load takes before it
fails or succeeds, whatever the order of segments; the loop over segments is
left out.

### KernelHeap

`heap` is the doubly linked list of blocks by address with its two ends and
`allocated_bytes`, in units of 16 bytes. `Kmalloc`, `KreallocInPlace`,
`KreallocMoves` and `Kfree` are the calls; `expand_heap` is one action per page
(`ExpandPage`), which may need page tables of its own, then `ExpandDone` or
`ExpandFails`, which rolls back. `frames`, `mapped` and `tables` are the page
frames, the pages and the page tables of the heap's range. `regions` remembers
what callers were given.

### Ext2 and Ext2Dir

`fs` is the image: the two bitmaps with the counts of the superblock and the
group descriptor (the driver changes both together), the inodes, and for each
block what it holds as file data, as a table of block numbers and as a directory.
Each call of the driver is an operator from an image to an image and a result,
with the same order of steps, so that what a failing call has already done
stays; the actions apply them. Block maps have direct blocks and one indirect
block. `cut_short` remembers that a write or truncate failed for want of space:
after that marked blocks may belong to no file. `last_call` is the call made
last with its arguments and its answer, which is what `FileTree` needs to say
whether the tree has changed as it should. `links_count` has 16 bits, and
`ext2_mkdir` does not look for its end; `MaxLinks` is a bound on directories in
one directory that is below it, so the wrap, which takes 65534 subdirectories,
is left out.

`Ext2Dir` keeps a directory's blocks as memories of 4-byte units in which
records begin: what a record leaves behind stays until it is overwritten, so a
walk that goes astray meets what the code would meet. In `Ext2` a directory
block is a set of entries of bounded size, which is what `Ext2Dir` shows it to
be as long as no removal joins records across a deleted one.

### Rootfs and UserPaths

`Rootfs` puts the calls of `Ext2` behind the system calls of `syscall.c` and in
front of a disk. `disk` is the image as the drive has it, `writing` the sector
the writeback at the end of a call is at, `mount` where the image in memory came
from, `cwd` the working directory. A call runs with interrupts off, so what it
does to the image is one step; then comes one step per sector, because power can
end between any two. Sectors are the counts, the two bitmaps, the inodes and the
blocks, in that order, which is the order of their numbers in an image of one
block group. A sector is written (`SectorWritten`); or the drive reports an
error or stays busy, the loop ends and the call fails, with the image changed
(`SectorRefused`); or the drive takes the data and does not keep them
(`SectorLost`), which the driver cannot know since it does not look at the
status behind the data and does not flush the drive's cache. A directory block
is two sectors, so it can be half new (`half`). `FsCreate` to `FsChdir` are the
calls; one that fails inside ext2 does not write back what it has changed.

`kept`, `touched`, `removed`, `lost` and `trouble` are history: the image of the
last complete writeback, what the calls since then were about, and whether a
call has reported an error since. `AckedOnDisk` says what success of a call
means for the disk, `UntouchedSurvive` and `NamesLead` what a machine that is
switched off now would find. They are stated of the disk at every moment; the
restart itself (`Stop`, `Boot`) is followed where the disk is a whole image,
old or new.

`UntouchedSurvive` excepts what is below a directory of which a block did not
get to the disk whole. That can be a new block: a directory that has grown has
it in its inode, which is written first, and until the block itself is written
the disk has there what it held before, which may be the entries of a directory
removed since. `NamesLead` speaks of all directories on the disk, those made
since the last complete writeback included, and of all their blocks but those
that did not get there: blocks a directory got since and that are still to come
or were lost, and blocks written by half (`WrittenBlocks`). What it excepts is
real. A directory that was just made has its inode on the disk, and may have its
name there, before its own block: a machine switched off in between finds the
block's old contents as the directory, with names that lead nowhere. An inode
whose sector the drive lost is missing under its name. And a crash in `rm` can
leave a name whose inode is gone, since inodes come first. The shell's `edit` is
two calls, a truncate to the new length and a write: a crash between them leaves
the old text, cut or extended with zeros.

`UserPaths` has paths as a flag and a sequence of parts, with the lengths the
code counts. `PathsResolved` compares the text-based resolution with walking
the directories part by part, also where the working directory has been removed
and made again, and the lengths the code adds up with that of the text from the
root on.

### AddressSpaces and Elf

`mem` holds the free list as the list it is, and for each frame the table and
the data in it; `root` is the active page table, `space` the page table, break,
program and malloc blocks of each process slot, `chain` the processes that wait
for one another, `heap_end` the pages of the kernel heap. Tables have two levels
instead of four: the root, whose upper half a new address space copies, and
tables of pages. The operators take a memory to a memory and a result, as in
`Ext2`, so that what a failing load or sbrk has done stays. `RunProgram` is the
launch of a program with the kernel buffer for its file, `Exit`, `Sbrk`,
`Malloc` and `WriteUser` what programs do.

`Elf` has a program file as a record of the header fields the code uses, and
the sums that wrap wrap (`Word`). Data are kept unit by unit, a page having
`PageUnits` of them; a unit of a file is named by the file and its offset, so
`OwnData` can say that every unit of a process is the one its file has for that
address. The checks pass over segments without memory (`elf.c:96`) and the
loader does not: one that begins inside a page gets that page, wherever its
address says, and `p_filesz` bytes from any `p_offset`, which may be from beyond
the file's buffer. Such files are among the programs of the run. `OwnData`
excepts the pages of these segments (`StrayPages`) and nothing else. A read
beyond the buffer at an address that has no page, which would stop the kernel,
is not followed; it gives `<<"beyond">>` like the others. Pages that such
segments put in the kernel's half are not among the program's (`UserPages`); one
in the area of the kernel heap makes each expansion that comes to it fail.

`Malloc` is the bump allocator of the user library; its
`free` does nothing, `calloc` and `realloc` work inside the blocks it returns.
Its sums wrap (`aligned`, `total`, `signed`): a request within one alignment of
the largest number gets a block of no size, which `BlocksApart` excepts from
"as large as was asked for".

### Console, Keyboard and Shell

`console` is the struct of that name with the cells in memory and the pixels,
which are kept per cell as what can be seen there; `klog` is the ring of the log.
Every call is one action, with its characters one after another as the code
handles them. `Console` is shown to implement `TextConsole`, in which there is
nothing but the picture: no copy, no batches, no deferred drawing.

`kbd` holds the variables of `keyboard.c`. The keys put bytes on `wire`, an
interrupt takes one (`KeyboardIrq`), and `ReadEvent` and `ReadChar` are what
system calls do; `pending` remembers the events accepted and not yet read.

`Shell` takes events one by one, as `Keyboard` delivers them, and writes to a
`Screen`, as `Console` provides it. `EnterCommand` stands for the commands: it
may clear the screen, set colours and print lines.

## Runs

| Run | Shows | Bounds |
| --- | --- | --- |
| `scheduler` | the chain of suspended processes, registers and address spaces survive every interleaving; `Scheduler` implements `RunStack` | 3 slots, 13 frames (enough for four launches of one image; loads of the other run out), two values for registers, which exit with different statuses, two images, the larger of which has segments that overlap, pids to 5, so slots are reused |
| `scheduler_live` | frames run out inside loads, overlapping segments, frames taken by the heap and sbrk; every suspended process runs again; boot ends | 3 slots, 11 frames, three images, pids to 4 |
| `kernel_heap` | the block list tiles the heap, no adjacent free blocks, counters right, no frame lost and no page left by a failed expansion; `KernelHeap` implements `Allocator` | 6 pages of 5 units in chunks of 2, 8 or 9 frames, so the third chunk fails for a page or for a page table; requests of 0, 1, 2, 3, 7 and 25 units, among them remainders too small to split and one that goes beyond the heap's limit |
| `ext2` | bitmaps, counts, maps, tree and link counts agree; `Ext2` implements `FileTree` | 5 blocks, 3 free inodes, blocks of 2 units, 1 direct and 2 indirect blocks, a directory in a directory, an empty image and one with a sparse file: calls run out of blocks and of inodes at each of their steps |
| `ext2_dir` | records form a chain that lists the names that are there | 2 blocks of 14 units, 4 names of two lengths, which do not all fit |
| `ext2_dir_rm` | a removal can leave the removed name in the directory, with an inode that is free | the same blocks, 5 names |
| `rootfs` | success of a call means the disk has the image, but for sectors the drive lost; what no call was about survives a crash at any point; no name in a block that got there leads to a missing inode unless something was removed; paths lead where walking them leads | 3 blocks of 1 unit, 2 free inodes, maps of one direct and one indirect block, directories of 2 entries a block, at most 3 links, files of length 0 or 1, 3 paths of up to 2 names reached by 13 written forms (with `.`, `..`, double and final slashes, and one too long for its buffer by one); one refused or lost sector until the disk is whole again; two devices, the second with the label |
| `address_spaces` | no frame has two owners, every address space has the whole kernel heap, a process finds what its file says, zeros or its own data, all it was promised is mapped, malloc's blocks are apart | 15 frames, which run out inside loads, sbrk and expansions; 2 processes, tables of 6 entries, pages of 2 units, heaps of 2 pages, a kernel heap of 3, numbers that wrap at 128, malloc requests of 0, 1, 100 and 127 units, of which the last two are negative or wrap; 8 programs: a segment that begins and ends inside a page and is longer than its part of the file, one where the heap begins, empty ones with parts beyond the file, in the kernel heap, elsewhere in the kernel's half and at an address that is cut to one of the heap, two segments in one page, a file cut short, an entry outside, an end that wraps, and no ELF file |
| `console` | the pixels are those of a text screen whenever a call returns; the log's tail; `Console` implements `TextConsole` | 2 by 2 cells, 2 colours, a log of 2 characters, 6 characters written one by one or in texts of 3 that scroll, erase and tab |
| `console_tab` | a tab behind the last tab stop of a row never ends | 4 columns, tab stops every 2 |
| `keyboard` | events are read once and in order; no modifier sticks | a ring of 3, a letter, an arrow, a shift and both control keys, 2 bytes in the controller |
| `shell` | the screen shows the line that will be run; the history | lines of 3 characters, a history of 2, rows of 6 columns, so that a full line wraps |

The bounds are small because the structures are: every path in the code
distinguishes none, one, or more than one of the things it works on (a free
block before and after, a direct and an indirect block, a block with room and
one without), and each of these occurs in its run. Every action fires in a
passing run.

No symmetry is used. `ext2` has a view without `last_call`, which no step
depends on; TLC still checks `ServesTree` on every step. Deadlock is checked except where the modelled system may
stop: `address_spaces` (init may fail to load), `console` and `console_tab`
(the bound on characters, and the tab that never ends) and `shell` (after `exit`). `Halted` is
the scheduler's stuttering after the machine has stopped.

### Fairness

`FairSpec` of `Scheduler` assumes weak fairness of the kernel's own steps, which
run straight through and contain one wait, for the timer, bounded by a count of
spins; and that every program eventually exits or faults, which is an
assumption on programs and not on the kernel. Timer interrupts and system calls
other than exit need no fairness. Without the second assumption
`SuspendedResumes` is false, as it should be: there is no preemption between
processes.

## What is proved

The theorems hold for every value of the constants that satisfies the `ASSUME`
of the module, which TLC evaluates in every run; they are named in
`PROJECT.json`. The assumptions say that sizes are numbers, that what the code
divides by is not zero, and a few facts about the code's own constants (a name
fits in a block, scan codes of different modifiers differ, the header of
malloc's blocks is smaller than its alignment). Of program files they say only
that the fields of their headers are 64-bit numbers. Four theorems about
`AddressSpaces` have a hypothesis on files of their own (below).

Loops are recursive functions in the models that are proved about. That such a
function is what its equation says is proved first for each (`VisitedIs`,
`PlaceAllIs`, `LoadIs`, ...), then what it computes, by the induction of
`IndexLemmas` (`Induction`: a set that has 0 and with k also k + 1 has all
numbers up to N). `IndexLemmas` also has sums over finite sets: what one element
more, less or changed does to them.

### Scheduler

For every number of slots and frames, every set of images and any register
contents:

- `TypeCorrect` (`TypeOK`): among others, the stack of blocking runs never
  overruns its array;
- `ChainOfProcesses` (`RunChain`): the live processes are one chain from init to
  the running one;
- `NoInternalPanic` (`NeverBroken`): no panic of the launch and exit paths is
  reachable;
- `RegistersPreserved` (`ContextPreserved`) and `ContextsSaved`
  (`SavedContexts`): a process gets back the registers it left;
- `OwnAddressSpaces` (`AddressSpaceOwned`) and `LiveFramesSpent`
  (`FramesSpent`): user code runs on its own page table, which nobody shares;
- `SuspendedStayAsTheyAre` (`SuspendedUntouched`): no step changes a suspended
  process or what is saved for it;
- `RefinesRunStack` (`RunsLikeCalls`): `Scheduler` implements `RunStack`; in
  particular a caller gets the status its program had in `rdi` when it exited.

Few of these are inductive. The invariant is
`IInv == TypeOK /\ Control /\ NeverBroken /\ Registers`, where `Control` adds to
`RunChain` what holds before init runs (`LaunchReady`), and `Registers` adds
`SavedContexts` to `ContextPreserved`. The stack cannot overflow because every
suspended process and the running one have slots of their own (`RunChain` makes
the map from depths to slots injective), and a launch has found one more: the
pigeonhole step is a lemma on cardinalities. Address spaces are apart because
those of live processes have left the free list, and a load is only given frames
that are still in it. The refinement maps the chain with the running process
on top to the stack of calls (`Frames`), and each action to a call, a return, a
computation, an answer, a start, a stop, or nothing; the invariant says what the
top and the rest of the stack are.

### KernelHeap

For every heap size, page size, alignment, chunk, number of frames and set of
requests:

- `BlocksTileTheHeap` (`Tiled`): blocks follow one another without gap or
  overlap, and the links agree in both directions;
- `FreeSpaceIsWhole` (`Coalesced`): no two neighbours are free;
- `HeldRegionsAreBacked` (`RegionsBacked`): what callers hold are the blocks in
  use, large enough;
- `NoFrameLost` (`FramesConserved`): an expansion that fails leaves neither a
  page nor a frame behind;
- `CountOfBytesIsExact` (`AllocatedIsSum`): the count of allocated bytes is the
  sum over the blocks in use;
- `ImplementsAllocator` (`ServesRegions`): `KernelHeap` implements `Allocator`.

The list is changed in three ways, a block split, a block merged with the next
and a chunk appended. For each a lemma says what happens to every single block
(`Split`, `Merged`, `Appended`), and others conclude from that alone that the
list still tiles the heap. The calls are compositions of the three. The
invariant `HeapInv` joins the shape of the list with the regions callers hold
and with what a call that waits for an expansion relies on (`Waiting`): its old
region is still there and the pages it asked for are below the limit. `FrameInv`
adds that the heap ends at a page boundary, so that the pages a failed expansion
gives back are those it mapped. The count needs for each of the three changes
how the sum over the blocks in use changes: a split moves units from one block
to a new one, a merge adds a free block's, an appended chunk is free.

### Ext2Dir

For every block length, set of names and number of blocks:

- `ChainsStayWhole` (`WellFormed`): the records of each block are a chain to its
  end, each with room for its name;
- `ListingIsExact` (`ListsWhatIsThere`): a directory lists the names added and
  not removed since, each once.

Both are stated for histories in which no removal joins records across a deleted
one; `ext2_dir_rm` shows that they fail otherwise. The walk over a block is a
recursive function (`visited`). That it has the value its equation says is
proved first (`VisitedIs`), then what it visits: if a set of positions tiles the
block, each record leading to the next position or the end, the walk visits
exactly that set (`TilesVisited`). Adding splits a record or takes a deleted
one's place, removing joins two or marks the first, and for each the new set of
positions is named and shown to tile the block. The invariant (`DirInv`) is that
every block is tiled by what the walk visits, that no name occurs twice, and
that the names are those of the history.

### Ext2

For every number of blocks and inodes, every size of a block, of the inode's map
and of a directory's block, all names, sizes and lengths:

- `BlocksHaveOneOwner` (`BlocksOwnedOnce`): no block is in two places of the
  maps of the inodes, and none that is in a map is free;
- `CountsOfBitmapsAreExact` (`CountsExact`): the counts of free blocks, free
  inodes and directories are right;
- `NamesFormATree` (`OneTree`): every inode in use but the root has one name, in
  a directory in use, and every name leads to an inode in use;
- `DirectoriesHaveTheirLinks` (`LinksSuffice`): a directory's link count covers
  its subdirectories;
- `NoBlockLeaks` (`BlocksAccounted`): unless a write or truncate ran out of
  space, every block that is marked is in the map of an inode;
- `ImplementsFileTree` (`ServesTree`): `Ext2` implements `FileTree`: a call that
  reports success has done to the tree what it is for, at the path and with the
  length it was given, and nothing else; one that reports an error has changed
  nothing, but for a write without space; `USER_ERR_INVAL` is the answer to
  calls the tree does not allow and to no other.

Besides those on the sizes there are three assumptions: a path is a sequence of
names and the path of its directory is one too (`PathsAssumption`), the mark for
a directory is no file's contents (`DirAssumption`), and the image at boot has at
most a sparse file in the root directory (`SparseAssumption`, which says what
`Sparse` stands for).

None of the five is inductive, and none can be proved without the others: that
the blocks a call takes belong to nobody needs that maps and bitmap agree, that
a directory grows by the block behind its last needs that it has all up to its
size, and that an inode which is freed leaves no name behind needs that it had
one. The invariant `Ext2Inv` says of the image (`Consistent`) that the places in
the maps (`Slots`: direct blocks, the indirect block, and what that holds) of
all inodes have different blocks, all marked; that the two bitmaps are counted;
that a directory has blocks up to its size and none beyond (`Full`); and that
the inodes are a tree (`IsTree`), where instead of a sum of entries it has that
an inode has one entry and a path that leads to it. `Accounted` is the part that
calls which run out of space may break.

The loops are described by what they do to one map: blocks were taken and are in
it once, what was there stays (`Grew`), or a tail of the map was given back
(`Dropped`); `Touched` says that another inode's map did not change. Both are
proved of one round and carried over all of them. A call that makes an inode
adds what the image has not seen before (`OneMore`), under a name
(`NamedIn`), or when a later step fails gives back what it took (`GivenBack`);
that the image then is as it was, but for the parent, which may have grown, is
the part of the proof that the error paths of `ext2_mkdir` need. Paths are
followed by a loop too: `Follow` says that a path leads where it led when all
names on it do.

The refinement maps an image to the function from the paths that lead somewhere
to what is there, the units of a file as a reader gets them or `Dir`, and
`last_call` to `call`. `FileTree` has only one exception to "as asked or not at
all": a write that fails for want of space. The file can have its new length
then, with zeros where the write did not get to. The invariant needs one fact
more than the other theorems: the blocks of a file beyond its end are blank
(`AllSpare`). Without it a file that was cut and grows again could show what it
had before. It holds since a truncate gives back the blocks behind the new end
and a block is blank when it is handed out; so are those that an extension which
failed half way has left in the indirect block. The rest of the last block need
not be blank: an extension clears it (`clear_tail`) before the size changes.
From it, each call is described by what
callers see: what a file has below its new size and zeros above (`Sized`), the
units that were written (`Filled`), a name that now leads somewhere, and all
others as before (`Made`), or one that no longer does (`Unmade`).

### Rootfs

`SuccessIsOnDisk` (`AckedOnDisk`), for every size of the image and any number of
refused and lost sectors: when a call has reported success the disk is the image
in memory but for sectors the drive lost. The invariant is that of the loop in
`ata_block_write`: behind the sector it is at, disk and image agree but for what
was lost (`Writeback`). The proof uses nothing of what ext2 does to the image.

### AddressSpaces

For every number of frames, processes and entries of a table, every page size
and size of the heaps, and every set of program files, the last four under the
hypothesis that empty loadable segments, which the checks pass over, have
addresses in the program's half (`EmptyInside`); they may have any part of the
file, or of what is beyond it. What segments elsewhere do is only model-checked.

- `AllocatedBlocksApart` (`BlocksApart`): malloc's blocks lie one behind the
  other below the break, whatever calls of sbrk fail in between. The invariant
  says it of every slot (`Packed`), those whose process has exited included;
- `EveryFrameOwnedOnce` (`FramesOwnedOnce`): no frame is in two places of the
  page tables, or in one and on the free list;
- `KernelHeapIsShared` (`KernelHeapEverywhere`): every space has the whole
  kernel heap, on the same frames;
- `MemoryIsOwnData` (`OwnData`): a process finds its file, zeros and what it
  wrote, but for the pages of empty segments;
- `PromisesAreKept` (`PromisedIsMapped`): its entry point, stack, segments and
  heap are mapped.

The invariant (`World`) rests on a ghost function from frames to owners: free,
held by the code that runs, the root r, the table at entry i of r, or page j of
it (`Owned`). A place that agrees with its frame's mark is the only one that
can; the function exists in every reachable state (`Sound`), and each operation
says how to change it. Frames that a failed load has lost keep the mark "held"
or belong to a root that no process has: the invariant speaks of the roots of
live processes only, so nothing is claimed of the rest but that they are not
free. The kernel's half of a root belongs to the kernel's root (`Holder`), which
is sound because no table is ever added to it once there is a second root: the
heap has a page then (`Active`), and all its pages are in one table of the last
level. That is the reason `needs` matters: if init could be loaded with an empty
heap, the table made later would be in one space only.

What operations do to the pages of others is said by `Kept` (what was mapped
still is, with its data) and `UserSame` (nothing was added in the program's
half), which compose. From `pmm_alloc_page` up, each has a lemma: `AllocSound`,
`FreeSound`, `EnsureSound`, `MapPageSound`, `GiveBackSound`, `NewRootSound`,
`PlaceSound`, `PlaceAllSound`, `SegmentSound`, `LoadSegmentsSound`, `LoadSound`,
`ExpandSound`, `SbrkSound`. For the contents, a page that is placed has zeros
under what `page_part` gives it (`Filled`); what the checks of the ELF header
say, in numbers that wrap, is turned into sums that do not (`NoWrap`, `Fits`);
and a page that was not mapped before is outside every segment, so that zeros
are what the file says of it (`NewPageZero`).

### Keyboard and Shell

- `ReadInOrder` (`KeysInOrder`): events are read once and in order, for every
  size of the ring; `ModifiersComeUp` (`NoStuckModifier`): no modifier sticks.
  For the second the invariant takes the bytes still on the wire into account
  (`Tracked`): if the last byte of a modifier on its way is a press, or the flag
  is set and none is on its way, then a key of it is down; and a prefix is
  followed by the byte it belongs to (`Aligned`).
- `HistoryIsKept` (`HistoryKept`), for every length of line and history.

### Only model-checked

- Liveness (`SuspendedResumes`, `InitStarts`): the prover has no fairness.
- What is stated with a fold over a text or a path: `LogTail`, `ShowsText`,
  `LineShown`, `PathsResolved`.
- What rests on disks that are half the old image and half the new one in
  `Rootfs` (`UntouchedSurvive`, `NamesLead`): such a disk is not consistent, and
  the lemmas about the calls of `Ext2` say nothing of it.

## Where code and words disagree

- The console expands a tab in a loop that waits for the next tab stop. In the
  last stretch of a row that is not a column, the cursor wraps before it is
  reached, and the loop starts over: the system call does not return, with
  interrupts off, and `cat` of a file with such a tab stops the machine
  (`console_tab`; `stuck` in `Console`).
- `remove_dir_entry` joins a record to the last one in use even if a deleted
  record lies between them (`ext2_dir_rm`). The joined record is then too short
  by the deleted one's length and ends before the removed record does. In the
  trace it ends where the removed record begins, which is still marked as used:
  the name stays in the directory, with an inode that has been freed. It takes a
  directory of more than one block, since the first block begins with ".".

Not turned into runs: the shell's help says `exit` returns to the kernel shell,
and the kernel panics; `resize_inode_data` clears the tail of a hole in block 0
of the image (`clear_tail` in `Ext2`), which with blocks of 4 KiB holds the
superblock, though the images the build makes have blocks of 1 KiB and no holes,
so what is lost there is the boot block; `malloc` aligns sizes to 16 bytes but
puts a header of 8 before each block, so that every other block is only aligned
to 8; a relative path that would fit once resolved is refused when it does not
fit together with the working directory; a mount that fails for want of group
descriptors leaves `ext2_mounted` true; a child's negative exit status is handed to its parent
as it is, though `abi.h` says that negative results are `USER_ERR_*` values;
a program file may have empty segments with parts of the file, or of what is
beyond it, at any address, also the kernel's, since the checks pass over them
and the loader does not; `malloc` of almost the largest number returns a block
of no size; `docs/userspace-abi.md` describes `APP_RUN` and `APP_COUNT`, which
`syscall.c` answers with an error; `ext2_mkdir` that fails in its last step
leaves the parent's link count raised (`LinksSuffice` says "at least"); a write
that runs out of space leaves blocks marked that no file has (`BlocksAccounted`
excepts it); a program's frames are never returned; a second load of init in
`userspace_launch_init` cannot happen.

The terminal has some of its own. Backspace does not go back over the end of a row, so a line that has filled its
row is no longer shown as it is (`spilled` in `Shell`). The shell's case for the
escape key is never taken: the event has a character, 27, and control characters
are ignored. When both keys of a modifier are down and one is released, the flag
is cleared. A failed `process_sbrk` leaves pages mapped above the break, and a
later one that comes to them fails.

## What is not modelled

Device programming (`serial.c`, `pic.c`, `gdt.c`, the probing of drives and the
registers of `ata.c`), pixel drawing, formatting and string functions have no state that
other parts depend on. Permission bits of pages, huge pages, which nothing maps,
and the TLB are left out of `AddressSpaces`; pixels of `Console` are kept per
cell. The memory map at boot is read once. More than one block
group in ext2, and time stamps, which the driver does not keep, are left out.
Sizes near 2^32 and 2^64, at which `align_up_size` of the kernel and
`offset + len` wrap, are not reached by any caller and are left out of
`KernelHeap` and `Ext2`, as is the wrap of link counts at 2^16; the sums of
`Elf` and of the user's `malloc` do wrap. What the
driver does with an image that a crash has left half old and half new, beyond
what is on the disk then, is not followed; nor are calls on the boot loader's
image, which are those of `Ext2` without a writeback. System calls that only
report something have no action.

## Plan

`NamesLead` of `Rootfs`, from the invariant of `Ext2` for the image in memory and
for the last one that was whole on the disk.
