-------------------------------- MODULE Ext2 ---------------------------------
(***************************************************************************)
(* The ext2 driver (src/fs/ext2.c): inodes, their block maps with one      *)
(* level of indirection, the two bitmaps with their counts, directories,   *)
(* and the calls that change them.  A call runs with interrupts off, so it *)
(* is one action, whatever it manages to do before it fails.  ext2_sync,   *)
(* with which every call ends, copies the image to the disk and does not   *)
(* change it: if it fails the call reports that and nothing is undone.     *)
(*                                                                         *)
(* Data: one block group; a block holds BlockUnits units of file data, or  *)
(* a table of block numbers, or directory entries.  How entries share a    *)
(* directory block is the subject of module Ext2Dir: here a block takes    *)
(* DirCapacity of them.  "." and ".." are left out, since the paths that   *)
(* reach the driver contain neither (resolve_path_for_current).            *)
(***************************************************************************)
EXTENDS Integers, FiniteSets, Sequences, SequencesExt, FiniteSetsExt

CONSTANTS
    Paths,          \* paths callers use, as sequences of names
    FirstInode,     \* first_ino of the superblock
    InodesCount,
    BlocksCount,
    BlockUnits,     \* block_size in units
    DirectBlocks,   \* EXT2_DIRECT_BLOCKS, 12
    PerIndirect,    \* block numbers in an indirect block
    DirCapacity,    \* entries in a directory block
    SuperblockUnit, \* unit of block 0 the superblock is in, -1 if in none
    Sparse,         \* files that start with a hole the image may come with
    Sizes,          \* sizes callers truncate to and offsets they write at
    Lengths,        \* numbers of units callers write
    MaxLinks,       \* bound on link counts, below 2^16 where links_count wraps
    Mark,           \* what callers write
    Dir             \* stands for a directory in the tree callers see

EXT2_ROOT_INODE == 2
USER_ERR_FAULT == -2
USER_ERR_INVAL == -3

Inodes == {EXT2_ROOT_INODE} \cup FirstInode .. InodesCount
Blocks == 1 .. BlocksCount - 1
MaxBlocks == DirectBlocks + PerIndirect

ASSUME Ext2Assumption ==
    /\ FirstInode \in Nat /\ FirstInode > EXT2_ROOT_INODE
    /\ InodesCount \in Nat /\ InodesCount >= FirstInode - 1
    /\ BlocksCount \in Nat /\ BlocksCount > 1
    /\ BlockUnits \in Nat \ {0} /\ DirectBlocks \in Nat \ {0}
    /\ PerIndirect \in Nat \ {0} /\ DirCapacity \in Nat \ {0}
    /\ SuperblockUnit \in Int /\ MaxLinks \in Nat
    /\ Sizes \subseteq Nat /\ Lengths \subseteq Nat

(* With a path, the directories on it can be named.                        *)
ASSUME PathsAssumption ==
    \A p \in Paths : p \in Seq(Range(p)) /\ (p # <<>> => Front(p) \in Paths \cup {<<>>})

ASSUME DirAssumption == Dir \notin Seq({0, Mark})

(* The image holds no more than a file of the root directory, and holes    *)
(* before the file's end only.                                             *)
ASSUME SparseAssumption ==
    \A s \in Sparse :
        /\ s.path \in Paths /\ Len(s.path) = 1 /\ InodesCount >= FirstInode
        /\ s.size \in Nat /\ s.first \in Nat /\ s.first * BlockUnits <= s.size

VARIABLES
    fs,             \* the image
    (* History variables.                                                  *)
    cut_short,      \* a write or truncate has failed for want of space
    last_call       \* the call made last, and what it returned

vars == <<fs, cut_short, last_call>>

-----------------------------------------------------------------------------
(* The image.                                                              *)

NoBlocks == [i \in 0 .. DirectBlocks |-> 0]
NoTable == [i \in 0 .. PerIndirect - 1 |-> 0]
ZeroData == [i \in 0 .. BlockUnits - 1 |-> 0]

(* block[0 .. DirectBlocks-1] are the direct blocks, block[DirectBlocks]   *)
(* is the indirect block.                                                  *)
EmptyInode == [mode |-> "none", size |-> 0, links |-> 0, blocks |-> 0,
               block |-> NoBlocks]

inode_is_dir(node) == node.mode = "dir"
inode_is_file(node) == node.mode = "file"

blocks_of(size) == (size + BlockUnits - 1) \div BlockUnits

write_inode(f, ino, node) == [f EXCEPT !.inode[ino] = node]

(* Block numbers in the map of an inode, the indirect block's own too.     *)
mapped_blocks(f, node) ==
    ({node.block[i] : i \in 0 .. DirectBlocks}
       \cup (IF node.block[DirectBlocks] = 0 THEN {}
             ELSE Range(f.indirect[node.block[DirectBlocks]]))) \ {0}

(* inode_allocated_blocks counts the entries of the map that are set.      *)
inode_allocated_blocks(f, node) ==
    LET table == node.block[DirectBlocks]
    IN  Cardinality({i \in 0 .. DirectBlocks : node.block[i] # 0})
        + (IF table = 0 THEN 0
           ELSE Cardinality({i \in 0 .. PerIndirect - 1 :
                               f.indirect[table][i] # 0}))
update_inode_block_count(f, node) ==
    [node EXCEPT !.blocks = inode_allocated_blocks(f, node)]

(* Mutant: the bit changes and the count does not.                         *)
mark_block_uncounted(f, b, used) ==
    [f EXCEPT !.block_bitmap = IF used THEN @ \cup {b} ELSE @ \ {b}]

mark_block_used(f, b, used) ==
    IF (b \in f.block_bitmap) = used THEN f
    ELSE [f EXCEPT
           !.block_bitmap = IF used THEN @ \cup {b} ELSE @ \ {b},
           !.free_blocks_count = IF ~used THEN @ + 1
                                 ELSE IF @ > 0 THEN @ - 1 ELSE 0]

mark_inode_used(f, ino, used, is_dir) ==
    IF (ino \in f.inode_bitmap) = used THEN f
    ELSE [f EXCEPT
           !.inode_bitmap = IF used THEN @ \cup {ino} ELSE @ \ {ino},
           !.free_inodes_count = IF ~used THEN @ + 1
                                 ELSE IF @ > 0 THEN @ - 1 ELSE 0,
           !.used_dirs_count = IF ~is_dir THEN @
                               ELSE IF used THEN @ + 1
                               ELSE IF @ > 0 THEN @ - 1 ELSE 0]

zeroed(f, b) == [f EXCEPT !.indirect[b] = NoTable, !.entries[b] = {},
                          !.data[b] = ZeroData]

(* Mutant: the count is trusted and the bitmap is not read.                *)
allocate_last_block(f) ==
    IF f.free_blocks_count = 0 THEN [fs |-> f, block |-> 0]
    ELSE LET b == BlocksCount - 1
         IN  [fs |-> zeroed(mark_block_used(f, b, TRUE), b), block |-> b]

(* The first clear bit, if the count says that there is one; 0 if not.     *)
allocate_block(f) ==
    LET clear == Blocks \ f.block_bitmap
    IN  IF f.free_blocks_count = 0 \/ clear = {} THEN [fs |-> f, block |-> 0]
        ELSE LET b == Min(clear)
             IN  [fs |-> zeroed(mark_block_used(f, b, TRUE), b), block |-> b]

allocate_inode(f, is_dir) ==
    LET clear == (FirstInode .. InodesCount) \ f.inode_bitmap
    IN  IF f.free_inodes_count = 0 \/ clear = {} THEN [fs |-> f, ino |-> 0]
        ELSE LET ino == Min(clear)
             IN  [fs |-> write_inode(mark_inode_used(f, ino, TRUE, is_dir),
                                     ino, EmptyInode),
                  ino |-> ino]

-----------------------------------------------------------------------------
(* Block maps.  node is the caller's copy of the inode; it counts only     *)
(* once write_inode is called.                                             *)

block_id_at(f, node, i) ==
    IF i < DirectBlocks THEN node.block[i]
    ELSE IF i - DirectBlocks < PerIndirect /\ node.block[DirectBlocks] # 0
    THEN f.indirect[node.block[DirectBlocks]][i - DirectBlocks]
    ELSE 0

Ok(f, node) == [fs |-> f, node |-> node, ok |-> TRUE]
NotOk(f, node) == [fs |-> f, node |-> node, ok |-> FALSE]

(* Block b becomes the i-th of the indirect block that table stands for.   *)
set_in_table(table, node, i, b) ==
    IF table.block = 0 THEN NotOk(table.fs, node)
    ELSE Ok([table.fs EXCEPT !.indirect[table.block][i] = b],
            [node EXCEPT !.block[DirectBlocks] = table.block])

(* Block b becomes the i-th of the file; an indirect block is made for it  *)
(* if there is none.                                                       *)
set_block_id_at(f, node, i, b) ==
    IF i < DirectBlocks THEN Ok(f, [node EXCEPT !.block[i] = b])
    ELSE IF i - DirectBlocks >= PerIndirect THEN NotOk(f, node)
    ELSE set_in_table(IF node.block[DirectBlocks] # 0
                      THEN [fs |-> f, block |-> node.block[DirectBlocks]]
                      ELSE allocate_block(f),
                      node, i - DirectBlocks, b)

(* After set_block_id_at(.., b): count it, or give b back.                 *)
counted_or_undone(r, b) ==
    IF r.ok THEN [r EXCEPT !.node = update_inode_block_count(r.fs, r.node)]
            ELSE [r EXCEPT !.fs = mark_block_used(r.fs, b, FALSE)]

use_block(new, node, i) ==
    IF new.block = 0 THEN NotOk(new.fs, node)
    ELSE counted_or_undone(set_block_id_at(new.fs, node, i, new.block), new.block)

ensure_file_block(f, node, i) ==
    IF block_id_at(f, node, i) # 0 THEN Ok(f, node)
                                   ELSE use_block(allocate_block(f), node, i)

(* ensure_file_block for the blocks from .. to - 1, up to the first that   *)
(* fails.                                                                  *)
ensure_file_blocks(f, node, from, to) ==
    LET upto[i \in from .. to] ==
          IF i = from THEN Ok(f, node)
          ELSE LET r == upto[i - 1]
               IN  IF r.ok THEN ensure_file_block(r.fs, r.node, i - 1) ELSE r
    IN  upto[to]

(* Mutant: the freed blocks stay in the map.                               *)
free_but_keep_mapped(f, node, keep) ==
    LET freed == {block_id_at(f, node, i) : i \in keep .. MaxBlocks - 1} \ {0}
    IN  Ok([f EXCEPT !.block_bitmap = @ \ freed,
                     !.free_blocks_count = @ + Cardinality(freed)], node)

(* The blocks of the file from the keep-th on are given back, and the      *)
(* indirect block if no block in it is kept.                               *)
free_inode_blocks(f, node, keep) ==
    LET table == node.block[DirectBlocks]
        indirect_keep == IF keep > DirectBlocks THEN keep - DirectBlocks ELSE 0
        direct == {node.block[i] : i \in keep .. DirectBlocks - 1} \ {0}
        indirect == IF table = 0 THEN {}
                    ELSE {f.indirect[table][i] :
                            i \in indirect_keep .. PerIndirect - 1} \ {0}
        freed == direct \cup indirect
                 \cup (IF table # 0 /\ keep <= DirectBlocks THEN {table} ELSE {})
        cleared == IF table = 0 THEN f
                   ELSE [f EXCEPT !.indirect[table] =
                           [i \in 0 .. PerIndirect - 1 |->
                              IF i >= indirect_keep THEN 0 ELSE @[i]]]
        left == [cleared EXCEPT
                   !.block_bitmap = @ \ freed,
                   !.free_blocks_count = @ + Cardinality(freed \cap f.block_bitmap)]
        kept == [node EXCEPT !.block =
                   [i \in 0 .. DirectBlocks |->
                      IF i >= keep /\ (i < DirectBlocks \/ keep <= DirectBlocks)
                      THEN 0 ELSE @[i]]]
    IN  Ok(left, update_inode_block_count(left, kept))

(* Mutant: what an old end of the file leaves in its block is not cleared. *)
keep_tail(f, node, old, new) == f

(* resize_inode_data clears the rest of the block the file ended in; if    *)
(* that is a hole, block_ptr takes its number 0 for block 0 of the image.  *)
clear_tail(f, node, old, new) ==
    LET b == block_id_at(f, node, old \div BlockUnits)
    IN  IF new <= old \/ old % BlockUnits = 0 THEN f
        ELSE IF b = 0
        THEN [f EXCEPT !.superblock = IF SuperblockUnit >= old % BlockUnits
                                      THEN "cleared" ELSE @]
        ELSE [f EXCEPT !.data[b] = [i \in 0 .. BlockUnits - 1 |->
                                      IF i >= old % BlockUnits THEN 0 ELSE @[i]]]

write_counted(f, ino, node) ==
    write_inode(f, ino, update_inode_block_count(f, node))

(* Once the blocks are there: the tail and the size.                       *)
set_size(r, ino, old, new) ==
    IF ~r.ok THEN r
    ELSE [r EXCEPT !.fs = write_counted(clear_tail(r.fs, r.node, old, new), ino,
                                        [r.node EXCEPT !.size = new])]

resize_inode_data(f, ino, new) ==
    LET node == f.inode[ino]
        old == blocks_of(node.size)
    IN  IF new > MaxBlocks * BlockUnits THEN NotOk(f, node)
        ELSE set_size(IF blocks_of(new) > old
                      THEN ensure_file_blocks(f, node, old, blocks_of(new))
                      ELSE IF blocks_of(new) < old
                      THEN free_inode_blocks(f, node, blocks_of(new))
                      ELSE Ok(f, node),
                      ino, node.size, new)

-----------------------------------------------------------------------------
(* Directories.                                                            *)

dir_blocks(f, node) ==
    {block_id_at(f, node, i) : i \in 0 .. blocks_of(node.size) - 1} \ {0}
dir_entries(f, node) == UNION {f.entries[b] : b \in dir_blocks(f, node)}

find_in_dir(f, ino, name) ==
    LET hits == {e \in dir_entries(f, f.inode[ino]) : e.name = name}
    IN  IF ~inode_is_dir(f.inode[ino]) \/ hits = {} THEN 0
        ELSE (CHOOSE e \in hits : TRUE).ino

path_lookup(f, path) ==
    LET reached[k \in 0 .. Len(path)] ==
          IF k = 0 THEN EXT2_ROOT_INODE
          ELSE LET ino == reached[k - 1]
               IN  IF ino = 0 THEN 0 ELSE find_in_dir(f, ino, path[k])
    IN  reached[Len(path)]

(* The inode of the directory a path's last name is in; 0 for the root.    *)
parent_lookup(f, path) ==
    LET parent == path_lookup(f, Front(path))
    IN  IF path = <<>> THEN 0
        ELSE IF parent = 0 THEN 0
        ELSE IF inode_is_dir(f.inode[parent]) THEN parent ELSE 0

(* The entry goes to block i of the directory, which has count blocks.     *)
put_entry(r, ino, entry, i, count) ==
    IF ~r.ok THEN r
    ELSE [r EXCEPT !.fs = write_counted(
             [r.fs EXCEPT !.entries[block_id_at(r.fs, r.node, i)] = @ \cup {entry}],
             ino, [r.node EXCEPT !.size = count * BlockUnits])]

(* node is the caller's copy of the directory's inode.  The entry goes to  *)
(* the first block with room, or to a new one.                             *)
add_dir_entry(f, node, ino, entry) ==
    LET count == IF blocks_of(node.size) = 0 THEN 1 ELSE blocks_of(node.size)
        roomy == {i \in 0 .. count - 1 :
                    Cardinality(f.entries[block_id_at(f, node, i)]) < DirCapacity}
    IN  IF roomy # {}
        THEN put_entry(Ok(f, node), ino, entry, Min(roomy), count)
        ELSE put_entry(ensure_file_block(f, node, count), ino, entry, count, count + 1)

remove_dir_entry(f, ino, name) ==
    [f EXCEPT !.entries = [b \in Blocks |->
        IF b \in dir_blocks(f, f.inode[ino])
        THEN {e \in f.entries[b] : e.name # name} ELSE @[b]]]

-----------------------------------------------------------------------------
(* The calls.                                                              *)

Failed(f, error) == [fs |-> f, result |-> error]
Done(f) == [fs |-> f, result |-> 0]

named_or_undone(r, ino) ==
    IF r.ok THEN Done(r.fs)
    ELSE Failed(mark_inode_used(r.fs, ino, FALSE, FALSE), USER_ERR_FAULT)

(* node is the parent's inode as it was looked up.                         *)
create_in(new, parent, node, name) ==
    IF new.ino = 0 THEN Failed(new.fs, USER_ERR_FAULT)
    ELSE named_or_undone(
           add_dir_entry(write_inode(new.fs, new.ino,
                           [EmptyInode EXCEPT !.mode = "file", !.links = 1]),
                         node, parent, [name |-> name, ino |-> new.ino]),
           new.ino)

ext2_create_file(f, path) ==
    LET parent == parent_lookup(f, path)
    IN  IF path_lookup(f, path) # 0 \/ parent = 0 THEN Failed(f, USER_ERR_INVAL)
        ELSE create_in(allocate_inode(f, FALSE), parent, f.inode[parent], Last(path))

(* Mutant: the block for the entries is not given back on failure.         *)
mkdir_undo_inode(f, ino, block) ==
    IF ino = 0 THEN f ELSE mark_inode_used(f, ino, FALSE, TRUE)

(* What ext2_mkdir gives back when it fails.                               *)
mkdir_undo(f, ino, block) ==
    LET g == IF ino = 0 THEN f ELSE mark_inode_used(f, ino, FALSE, TRUE)
    IN  IF block = 0 THEN g ELSE mark_block_used(g, block, FALSE)

(* Mutant: the parent's new ".." link is not counted.                      *)
unlinked(node) == node

(* parent.links_count++                                                    *)
linked(node) == [node EXCEPT !.links = @ + 1]

mkdir_named_or_undone(r, ino, block) ==
    IF r.ok THEN Done(r.fs) ELSE Failed(mkdir_undo(r.fs, ino, block), USER_ERR_FAULT)

(* first is the new directory's block and the image with it, above the     *)
(* parent's inode with its new link.                                       *)
mkdir_in(first, ino, parent, above, name) ==
    IF ino = 0 \/ first.block = 0
    THEN Failed(mkdir_undo(first.fs, ino, first.block), USER_ERR_FAULT)
    ELSE LET node == [EmptyInode EXCEPT !.mode = "dir", !.size = BlockUnits,
                                        !.links = 2, !.block[0] = first.block]
         IN  mkdir_named_or_undone(
               add_dir_entry(write_inode(write_counted(first.fs, ino, node),
                                         parent, above),
                             above, parent, [name |-> name, ino |-> ino]),
               ino, first.block)

ext2_mkdir(f, path) ==
    LET parent == parent_lookup(f, path)
        new == allocate_inode(f, TRUE)
    IN  IF path_lookup(f, path) # 0 \/ parent = 0 THEN Failed(f, USER_ERR_INVAL)
        ELSE mkdir_in(allocate_block(new.fs), new.ino, parent,
                      linked(f.inode[parent]), Last(path))

(* The end of unlink and rmdir: blocks, inode and its bit.                 *)
free_inode(f, ino, is_dir) ==
    mark_inode_used(write_inode(free_inode_blocks(f, f.inode[ino], 0).fs,
                                ino, EmptyInode),
                    ino, FALSE, is_dir)

ext2_unlink(f, path) ==
    LET parent == parent_lookup(f, path)
        ino == path_lookup(f, path)
    IN  IF parent = 0 \/ ino = 0 THEN Failed(f, USER_ERR_INVAL)
        ELSE IF ~inode_is_file(f.inode[ino]) THEN Failed(f, USER_ERR_INVAL)
        ELSE Done(free_inode(remove_dir_entry(f, parent, Last(path)), ino, FALSE))

(* Mutant: a directory with entries is taken for an empty one.             *)
dir_always_empty(f, node) == TRUE

dir_is_empty(f, node) == dir_entries(f, node) = {}

ext2_rmdir(f, path) ==
    LET parent == parent_lookup(f, path)
        ino == path_lookup(f, path)
        removed == remove_dir_entry(f, parent, Last(path))
        left == [removed EXCEPT !.inode[parent].links = IF @ > 0 THEN @ - 1 ELSE 0]
    IN  IF parent = 0 \/ ino = 0 THEN Failed(f, USER_ERR_INVAL)
        ELSE IF ~inode_is_dir(f.inode[ino]) THEN Failed(f, USER_ERR_INVAL)
        ELSE IF ~dir_is_empty(f, f.inode[ino]) THEN Failed(f, USER_ERR_INVAL)
        ELSE Done(free_inode(left, ino, TRUE))

done_or_fault(r) == IF r.ok THEN Done(r.fs) ELSE Failed(r.fs, USER_ERR_FAULT)

ext2_truncate_file(f, path, size) ==
    LET ino == path_lookup(f, path)
    IN  IF ino = 0 THEN Failed(f, USER_ERR_INVAL)
        ELSE IF ~inode_is_file(f.inode[ino]) THEN Failed(f, USER_ERR_INVAL)
        ELSE done_or_fault(resize_inode_data(f, ino, size))

(* Block i of the file gets its part of the units from .. to - 1.          *)
copied(r, i, from, to) ==
    IF ~r.ok THEN r
    ELSE [r EXCEPT !.fs.data[block_id_at(r.fs, r.node, i)] =
            [u \in 0 .. BlockUnits - 1 |->
                IF i * BlockUnits + u \in from .. to - 1 THEN Mark ELSE @[u]]]

(* One round of the loop: make the block if it is missing, and copy.       *)
write_block(r, i, from, to) ==
    IF ~r.ok THEN r
    ELSE copied(ensure_file_block(r.fs, r.node, i), i, from, to)

write_blocks(f, node, from, to) ==
    LET first == from \div BlockUnits
        upto[i \in first .. blocks_of(to)] ==
          IF i = first THEN Ok(f, node)
          ELSE write_block(upto[i - 1], i - 1, from, to)
    IN  upto[blocks_of(to)]

(* When the loop cannot make a block, what it copied stays and the inode   *)
(* is not written.                                                         *)
wrote(r, ino, len) ==
    IF ~r.ok THEN Failed(r.fs, USER_ERR_FAULT)
    ELSE [fs |-> write_inode(r.fs, ino, r.node), result |-> len]

write_resized(r, ino, len, offset) ==
    IF ~r.ok THEN Failed(r.fs, USER_ERR_FAULT)
    ELSE wrote(write_blocks(r.fs, r.fs.inode[ino], offset, offset + len), ino, len)

ext2_write_file(f, path, len, offset) ==
    LET ino == path_lookup(f, path)
    IN  IF ino = 0 THEN Failed(f, USER_ERR_INVAL)
        ELSE IF ~inode_is_file(f.inode[ino]) \/ offset > f.inode[ino].size
        THEN Failed(f, USER_ERR_INVAL)
        ELSE write_resized(IF offset + len > f.inode[ino].size
                           THEN resize_inode_data(f, ino, offset + len)
                           ELSE Ok(f, f.inode[ino]),
                           ino, len, offset)

-----------------------------------------------------------------------------
(* The image at boot, made on another machine: a root directory, and       *)
(* perhaps one file some of whose blocks are holes.                        *)

EmptyImage ==
    LET root == [EmptyInode EXCEPT !.mode = "dir", !.size = BlockUnits,
                                   !.links = 2, !.blocks = 1, !.block[0] = 1]
    IN  [block_bitmap |-> {1}, free_blocks_count |-> BlocksCount - 2,
         inode_bitmap |-> {EXT2_ROOT_INODE},
         free_inodes_count |-> InodesCount - FirstInode + 1,
         used_dirs_count |-> 1,
         inode |-> [ino \in Inodes |-> IF ino = EXT2_ROOT_INODE THEN root
                                                              ELSE EmptyInode],
         indirect |-> [b \in Blocks |-> NoTable],
         entries |-> [b \in Blocks |-> {}],
         data |-> [b \in Blocks |-> ZeroData],
         superblock |-> "intact"]

(* The file's blocks from the first-th on are there, full of marks.        *)
ImageWith(path, size, first) ==
    LET made == ext2_create_file(EmptyImage, path).fs
        ino == path_lookup(made, path)
        w == write_blocks(made, [made.inode[ino] EXCEPT !.size = size],
                          first * BlockUnits, size)
    IN  write_inode(w.fs, ino, w.node)

(* What callers know of a call: size or offset in at.                      *)
CallOf(op, path, at, len, r) ==
    [op |-> op, path |-> path, at |-> at, len |-> len, result |-> r.result]

Init ==
    /\ fs \in {EmptyImage} \cup {ImageWith(s.path, s.size, s.first) : s \in Sparse}
    /\ cut_short = FALSE
    /\ last_call = CallOf("none", <<>>, 0, 0, Done(fs))

Call(op, path, r) ==
    /\ fs' = r.fs
    /\ last_call' = CallOf(op, path, 0, 0, r)
    /\ UNCHANGED cut_short
CallForSpace(op, path, at, len, r) ==
    /\ fs' = r.fs
    /\ last_call' = CallOf(op, path, at, len, r)
    /\ cut_short' = (cut_short \/ r.result = USER_ERR_FAULT)

CreateFile == \E path \in Paths : Call("create", path, ext2_create_file(fs, path))
Mkdir == /\ \A ino \in Inodes : fs.inode[ino].links < MaxLinks
         /\ \E path \in Paths : Call("mkdir", path, ext2_mkdir(fs, path))
Unlink == \E path \in Paths : Call("unlink", path, ext2_unlink(fs, path))
Rmdir == \E path \in Paths : Call("rmdir", path, ext2_rmdir(fs, path))
Truncate == \E path \in Paths, size \in Sizes :
    CallForSpace("truncate", path, size, 0, ext2_truncate_file(fs, path, size))
Write == \E path \in Paths, offset \in Sizes, len \in Lengths :
    CallForSpace("write", path, offset, len, ext2_write_file(fs, path, len, offset))

Next == CreateFile \/ Mkdir \/ Unlink \/ Rmdir \/ Truncate \/ Write

Spec == Init /\ [][Next]_vars

-----------------------------------------------------------------------------
(* Properties.                                                             *)

Live == fs.inode_bitmap
LiveDirs == {ino \in Live : inode_is_dir(fs.inode[ino])}
Entries(ino) == dir_entries(fs, fs.inode[ino])
Referenced == UNION {mapped_blocks(fs, fs.inode[ino]) : ino \in Live}

(* No block is in two places of the maps of the inodes in use, and none    *)
(* that is in a map may be handed out again.                               *)
BlocksOwnedOnce ==
    /\ Referenced \subseteq fs.block_bitmap
    /\ MapThenSumSet(LAMBDA ino : inode_allocated_blocks(fs, fs.inode[ino]), Live)
          = Cardinality(Referenced)

(* The counts allocate_block and allocate_inode trust, and that            *)
(* SYSCALL_FS_STATUS reports, are those of the bitmaps.                    *)
CountsExact ==
    /\ fs.free_blocks_count = Cardinality(Blocks \ fs.block_bitmap)
    /\ fs.free_inodes_count = Cardinality(Inodes \ fs.inode_bitmap)
    /\ fs.used_dirs_count = Cardinality(LiveDirs)

(* The inodes in use form a tree: each but the root has one entry, in a    *)
(* directory in use, and every entry leads to one that is not the root.    *)
OneTree ==
    /\ {path_lookup(fs, p) : p \in Paths} \ {0, EXT2_ROOT_INODE} = Live \ {EXT2_ROOT_INODE}
    /\ MapThenSumSet(LAMBDA ino : Cardinality(Entries(ino)), LiveDirs)
          = Cardinality(Live) - 1
    /\ \A ino \in LiveDirs : \A e \in Entries(ino) : e.ino \in Live \ {EXT2_ROOT_INODE}

(* A directory's link count covers "." and the ".." of its subdirectories. *)
(* It may be too high: ext2_mkdir that fails on its last step leaves the   *)
(* parent's raised.                                                        *)
LinksSuffice ==
    \A ino \in LiveDirs :
        fs.inode[ino].links >=
            2 + Cardinality({e \in Entries(ino) : e.ino \in LiveDirs})

(* As long as no write or truncate ran out of space, every block that is   *)
(* marked is in a file or a directory, whatever else failed, and the block *)
(* counts stat would show are right.                                       *)
BlocksAccounted ==
    ~cut_short =>
        /\ fs.block_bitmap = Referenced
        /\ \A ino \in Live :
              fs.inode[ino].blocks = inode_allocated_blocks(fs, fs.inode[ino])

(* What a reader of the file sees: holes read as zeros.                    *)
file_data(f, node) ==
    [k \in 1 .. node.size |->
        LET b == block_id_at(f, node, (k - 1) \div BlockUnits)
        IN  IF b = 0 THEN 0 ELSE f.data[b][(k - 1) % BlockUnits]]

Visible == {p \in Paths : path_lookup(fs, p) # 0}
Node(p) == fs.inode[path_lookup(fs, p)]

Tree == INSTANCE FileTree WITH
    tree <- [p \in Visible |-> IF inode_is_dir(Node(p)) THEN Dir
                                                       ELSE file_data(fs, Node(p))],
    call <- last_call

(* Callers see a tree of files.  A call that reports success has made the  *)
(* change it is for, of the length and at the path it was given, and no    *)
(* other; one that reports USER_ERR_INVAL was none that the tree allows;   *)
(* one that reports USER_ERR_FAULT, for want of space, was no removal.  A  *)
(* call that failed has changed nothing callers can see, but for a write   *)
(* without space, which may have been done in part of the units it was     *)
(* for.                                                                    *)
ServesTree == Tree!Spec

=============================================================================
