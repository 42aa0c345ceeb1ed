---------------------------- MODULE Rootfs_proofs -----------------------------
(***************************************************************************)
(* Proofs about the file system: modules Ext2 and Rootfs.                  *)
(*                                                                         *)
(* Ext2: what the five invariants of the image say holds for every size of *)
(* the file system.  The inductive invariant Ext2Inv speaks of places: the *)
(* direct blocks of an inode, its indirect block, and what that holds.  No *)
(* two places in use have the same block; a directory's blocks are those   *)
(* up to its size; and every inode is reached by one path.  A call on a    *)
(* file takes blocks for one inode (Grew) or gives some back (Dropped) and *)
(* touches no other (Touched); one that makes an inode adds what the image *)
(* has not seen (OneMore) or gives it back (GivenBack).                    *)
(*                                                                         *)
(* That Ext2 implements FileTree needs one fact more, that the blocks of a *)
(* file beyond its end are blank (AllSpare).  Each call is described by    *)
(* what callers see of it: a file resized (Sized) or written (Filled), a   *)
(* name made (Made) or gone (Unmade).                                      *)
(*                                                                         *)
(* Rootfs: a call that reports success has its changes on the disk,        *)
(* whatever the calls of Ext2 make of the image and however often the      *)
(* drive fails.  The argument is that of the loop in ata_block_write: the  *)
(* sectors behind the one it is at are those of the image, but for what    *)
(* the drive lost.                                                         *)
(***************************************************************************)
EXTENDS Rootfs, IndexLemmas

(* The fields of an image. *)
DirNames == UNION {Range(p) : p \in Paths}
Table == [0 .. PerIndirect - 1 -> Blocks \cup {0}]
InodeType == [mode : {"none", "file", "dir"}, size : Nat, links : Nat, blocks : Nat,
              block : [0 .. DirectBlocks -> Blocks \cup {0}]]
EntrySets == {S \in SUBSET [name : DirNames, ino : Inodes] : IsFiniteSet(S)}
Data == [0 .. BlockUnits - 1 -> {0, Mark}]
Image == [block_bitmap : SUBSET Blocks, free_blocks_count : Nat,
          inode_bitmap : SUBSET Inodes, free_inodes_count : Nat, used_dirs_count : Nat,
          inode : [Inodes -> InodeType], indirect : [Blocks -> Table],
          entries : [Blocks -> EntrySets], data : [Blocks -> Data],
          superblock : {"intact", "cleared"}]

(* The places of a block map: the direct blocks, the indirect block, and   *)
(* what that has; the place of the i-th block of a file.                   *)
Slots == 0 .. MaxBlocks
slot(f, node, k) ==
    IF k <= DirectBlocks THEN node.block[k]
    ELSE IF node.block[DirectBlocks] = 0 THEN 0
    ELSE f.indirect[node.block[DirectBlocks]][k - DirectBlocks - 1]
place(i) == IF i < DirectBlocks THEN i ELSE i + 1
at(f, ino, k) == slot(f, f.inode[ino], k)

Owned(f) ==
    /\ \A i \in f.inode_bitmap : \A k \in Slots :
          at(f, i, k) # 0 => at(f, i, k) \in f.block_bitmap
    /\ \A i, j \in f.inode_bitmap : \A k, l \in Slots :
          at(f, i, k) # 0 /\ at(f, i, k) = at(f, j, l) => i = j /\ k = l

Dirs(f) == {ino \in f.inode_bitmap : f.inode[ino].mode = "dir"}
BlocksCounted(f) == f.free_blocks_count = Cardinality(Blocks \ f.block_bitmap)
InodesCounted(f) ==
    /\ f.free_inodes_count = Cardinality(Inodes \ f.inode_bitmap)
    /\ f.used_dirs_count = Cardinality(Dirs(f))

(* A directory has blocks up to its size and none beyond. *)
Fills(f, node) ==
    \E n \in 1 .. MaxBlocks :
        /\ node.size = n * BlockUnits
        /\ \A i \in 0 .. MaxBlocks - 1 : (slot(f, node, place(i)) # 0) <=> (i < n)
Full(f) == \A d \in Dirs(f) : Fills(f, f.inode[d])

Ents(f, d) == dir_entries(f, f.inode[d])
Subdirs(f, d) == {e \in Ents(f, d) : e.ino \in Dirs(f)}
IsTree(f) ==
    /\ EXT2_ROOT_INODE \in Dirs(f)
    /\ \A i \in f.inode_bitmap : f.inode[i].mode # "none"
    /\ \A d \in Dirs(f) : \A e \in Ents(f, d) : e.ino \in f.inode_bitmap \ {EXT2_ROOT_INODE}
    /\ \A d, c \in Dirs(f) : \A e \in Ents(f, d), x \in Ents(f, c) : e.ino = x.ino => d = c /\ e = x
    /\ \A d \in Dirs(f) : \A e, x \in Ents(f, d) : e.name = x.name => e = x
    /\ \A i \in f.inode_bitmap \ {EXT2_ROOT_INODE} : \E p \in Paths : path_lookup(f, p) = i
    /\ \A d \in Dirs(f) : f.inode[d].links >= 2 + Cardinality(Subdirs(f, d))

Sound(f) == f \in Image /\ Owned(f) /\ BlocksCounted(f) /\ Full(f)
Consistent(f) == Sound(f) /\ InodesCounted(f) /\ IsTree(f)

exact(f, node) == node.blocks = inode_allocated_blocks(f, node)
Accounted(f) ==
    /\ \A b \in f.block_bitmap : \E i \in f.inode_bitmap, k \in Slots : at(f, i, k) = b
    /\ \A i \in f.inode_bitmap : exact(f, f.inode[i])

Ext2Inv == Consistent(fs) /\ (~cut_short => Accounted(fs)) /\ cut_short \in BOOLEAN

-----------------------------------------------------------------------------
(* Block maps. *)

LEMMA Dimensions ==
    /\ MaxBlocks \in Nat /\ DirectBlocks \in Nat \ {0} /\ PerIndirect \in Nat \ {0}
    /\ MaxBlocks = DirectBlocks + PerIndirect /\ DirectBlocks < MaxBlocks
    /\ BlockUnits \in Nat \ {0}
    /\ 0 \notin Blocks /\ Blocks \subseteq Nat /\ IsFiniteSet(Blocks)
    /\ EXT2_ROOT_INODE \in Inodes /\ 0 \notin Inodes /\ Inodes \subseteq Nat
    /\ IsFiniteSet(Inodes) /\ FirstInode .. InodesCount \subseteq Inodes
    /\ EXT2_ROOT_INODE \notin FirstInode .. InodesCount
    /\ EmptyInode \in InodeType /\ NoTable \in Table /\ {} \in EntrySets /\ ZeroData \in Data
  <1>1. /\ MaxBlocks \in Nat /\ DirectBlocks \in Nat \ {0} /\ PerIndirect \in Nat \ {0}
        /\ MaxBlocks = DirectBlocks + PerIndirect /\ DirectBlocks < MaxBlocks
        /\ BlockUnits \in Nat \ {0}
    BY Ext2Assumption DEF MaxBlocks
  <1>2. 0 \notin Blocks /\ Blocks \subseteq Nat BY Ext2Assumption DEF Blocks
  <1>3. IsFiniteSet(Blocks) BY Ext2Assumption, FS_Interval DEF Blocks
  <1>4. IsFiniteSet(Inodes)
    <2>1. IsFiniteSet(FirstInode .. InodesCount) BY Ext2Assumption, FS_Interval
    <2>2. IsFiniteSet({EXT2_ROOT_INODE}) BY FS_Singleton
    <2> QED BY <2>1, <2>2, FS_Union DEF Inodes
  <1>5. /\ EXT2_ROOT_INODE \in Inodes /\ 0 \notin Inodes /\ Inodes \subseteq Nat
        /\ FirstInode .. InodesCount \subseteq Inodes
        /\ EXT2_ROOT_INODE \notin FirstInode .. InodesCount
    BY Ext2Assumption DEF Inodes, EXT2_ROOT_INODE
  <1>6. EmptyInode \in InodeType BY DEF EmptyInode, InodeType, NoBlocks
  <1>7. NoTable \in Table BY DEF NoTable, Table
  <1>8. {} \in EntrySets BY FS_EmptySet DEF EntrySets
  <1>9. ZeroData \in Data BY DEF ZeroData, Data
  <1> QED BY <1>1, <1>2, <1>3, <1>4, <1>5, <1>6, <1>7, <1>8, <1>9

(* The fields of an image. *)
LEMMA Fields ==
    ASSUME NEW f \in Image
    PROVE  /\ f.block_bitmap \in SUBSET Blocks /\ f.free_blocks_count \in Nat
           /\ f.inode_bitmap \in SUBSET Inodes /\ f.free_inodes_count \in Nat
           /\ f.used_dirs_count \in Nat
           /\ f.inode \in [Inodes -> InodeType] /\ f.indirect \in [Blocks -> Table]
           /\ f.entries \in [Blocks -> EntrySets]
           /\ f.data \in [Blocks -> Data] /\ f.superblock \in {"intact", "cleared"}
           /\ IsFiniteSet(f.block_bitmap) /\ IsFiniteSet(f.inode_bitmap)
  <1>1. /\ f.block_bitmap \in SUBSET Blocks /\ f.free_blocks_count \in Nat
        /\ f.inode_bitmap \in SUBSET Inodes /\ f.free_inodes_count \in Nat
        /\ f.used_dirs_count \in Nat
        /\ f.inode \in [Inodes -> InodeType] /\ f.indirect \in [Blocks -> Table]
        /\ f.entries \in [Blocks -> EntrySets]
        /\ f.data \in [Blocks -> Data] /\ f.superblock \in {"intact", "cleared"}
    BY DEF Image
  <1>2. IsFiniteSet(f.block_bitmap) /\ IsFiniteSet(f.inode_bitmap)
    BY <1>1, Dimensions, FS_Subset
  <1> QED BY <1>1, <1>2

LEMMA SlotType ==
    ASSUME NEW f \in Image, NEW node \in InodeType, NEW k \in Slots
    PROVE  slot(f, node, k) \in Blocks \cup {0}
  <1>1. k \in Nat /\ k <= MaxBlocks BY Dimensions DEF Slots
  <1>2. CASE k <= DirectBlocks
    BY <1>1, <1>2, Dimensions DEF slot, InodeType
  <1>3. CASE ~(k <= DirectBlocks)
    <2>1. k - DirectBlocks - 1 \in 0 .. PerIndirect - 1 /\ DirectBlocks \in 0 .. DirectBlocks
      BY <1>1, <1>3, Dimensions
    <2>2. node.block[DirectBlocks] \in Blocks \cup {0} BY <2>1 DEF InodeType
    <2>3. CASE node.block[DirectBlocks] = 0
      BY <1>3, <2>3 DEF slot
    <2>4. CASE node.block[DirectBlocks] # 0
      <3>1. f.indirect[node.block[DirectBlocks]] \in Table BY <2>2, <2>4, Fields
      <3> QED BY <1>3, <2>1, <2>4, <3>1 DEF slot, Table
    <2> QED BY <2>3, <2>4
  <1> QED BY <1>2, <1>3

(* The i-th block of a file is at its place. *)
LEMMA Places ==
    /\ \A i \in 0 .. MaxBlocks - 1 : place(i) \in Slots /\ place(i) # DirectBlocks
    /\ \A i, j \in 0 .. MaxBlocks - 1 : place(i) = place(j) => i = j
    /\ \A k \in Slots : k # DirectBlocks => \E i \in 0 .. MaxBlocks - 1 : k = place(i)
    /\ 0 \in 0 .. MaxBlocks - 1 /\ place(0) = 0
  <1>1. \A i \in 0 .. MaxBlocks - 1 : place(i) \in Slots /\ place(i) # DirectBlocks
    BY Dimensions DEF place, Slots
  <1>2. \A i, j \in 0 .. MaxBlocks - 1 : place(i) = place(j) => i = j
    BY Dimensions DEF place
  <1>3. ASSUME NEW k \in Slots, k # DirectBlocks PROVE \E i \in 0 .. MaxBlocks - 1 : k = place(i)
    <2>1. CASE k < DirectBlocks
      BY <2>1, Dimensions DEF place, Slots
    <2>2. CASE ~(k < DirectBlocks)
      BY <1>3, <2>2, Dimensions DEF place, Slots
    <2> QED BY <2>1, <2>2
  <1>4. 0 \in 0 .. MaxBlocks - 1 /\ place(0) = 0 BY Dimensions DEF place
  <1> QED BY <1>1, <1>2, <1>3, <1>4

LEMMA BlockAt ==
    ASSUME NEW f, NEW node, NEW i \in Nat
    PROVE  block_id_at(f, node, i) = IF i < MaxBlocks THEN slot(f, node, place(i)) ELSE 0
  <1>1. CASE i < DirectBlocks
    BY <1>1, Dimensions DEF place, block_id_at, slot
  <1>2. CASE ~(i < DirectBlocks)
    BY <1>2, Dimensions DEF place, block_id_at, slot
  <1> QED BY <1>1, <1>2


-----------------------------------------------------------------------------
(* Cardinalities. *)

-----------------------------------------------------------------------------
(* What the maps hold. *)

taken(f, node) == {k \in Slots : slot(f, node, k) # 0}

LEMMA SlotsFinite == IsFiniteSet(Slots) /\ \A f, node : IsFiniteSet(taken(f, node))
  <1>1. IsFiniteSet(Slots) BY Dimensions, FS_Interval DEF Slots
  <1>2. \A f, node : taken(f, node) \in SUBSET Slots BY DEF taken
  <1> QED BY <1>1, <1>2, FS_Subset

(* inode_allocated_blocks counts the places that are taken. *)
LEMMA AllocatedIs ==
    ASSUME NEW f \in Image, NEW node \in InodeType
    PROVE  inode_allocated_blocks(f, node) = Cardinality(taken(f, node))
  <1> DEFINE table == node.block[DirectBlocks]
             A == {i \in 0 .. DirectBlocks : node.block[i] # 0}
             B == {i \in 0 .. PerIndirect - 1 : f.indirect[table][i] # 0}
             up == [i \in B |-> i + DirectBlocks + 1]
             C == {up[i] : i \in B}
  <1>1. IsFiniteSet(A) /\ IsFiniteSet(B)
    <2>1. IsFiniteSet(0 .. DirectBlocks) /\ IsFiniteSet(0 .. PerIndirect - 1)
      BY Dimensions, FS_Interval
    <2>2. A \in SUBSET (0 .. DirectBlocks) /\ B \in SUBSET (0 .. PerIndirect - 1) OBVIOUS
    <2> HIDE DEF A, B
    <2> QED BY <2>1, <2>2, FS_Subset
  <1>2. CASE table = 0
    <2>1. taken(f, node) = A BY Dimensions, <1>2 DEF taken, slot, Slots
    <2>2. inode_allocated_blocks(f, node) = Cardinality(A) + 0
      BY <1>2 DEF inode_allocated_blocks
    <2>3. Cardinality(A) \in Nat BY <1>1, FS_CardinalityType
    <2> HIDE DEF A
    <2> QED BY <2>1, <2>2, <2>3
  <1>3. CASE table # 0
    <2>1. \A i \in B : up[i] = i + DirectBlocks + 1 OBVIOUS
    <2>2. \A i, j \in B : up[i] = up[j] => i = j BY <2>1, Dimensions
    <2>3. IsFiniteSet(C) /\ Cardinality(C) = Cardinality(B)
      <3> HIDE DEF B, up
      <3> QED BY <1>1, <2>2, CardOfImage
    <2>4. taken(f, node) = A \cup C
      <3>1. ASSUME NEW k \in taken(f, node) PROVE k \in A \cup C
        <4>1. k \in Nat /\ k <= MaxBlocks /\ slot(f, node, k) # 0
          BY Dimensions DEF taken, Slots
        <4>2. CASE k <= DirectBlocks
          BY <4>1, <4>2, Dimensions DEF slot
        <4>3. CASE ~(k <= DirectBlocks)
          BY <4>1, <4>3, Dimensions, <1>3 DEF slot
        <4> QED BY <4>2, <4>3
      <3>2. A \subseteq taken(f, node) BY Dimensions DEF taken, slot, Slots
      <3>3. ASSUME NEW i \in B PROVE up[i] \in taken(f, node)
        <4>1. /\ i \in 0 .. PerIndirect - 1 /\ up[i] = i + DirectBlocks + 1
              /\ up[i] \in Slots /\ ~(up[i] <= DirectBlocks) /\ up[i] - DirectBlocks - 1 = i
          BY <2>1, Dimensions DEF Slots
        <4> HIDE DEF up
        <4>2. f.indirect[table][i] # 0 OBVIOUS
        <4> QED BY <1>3, <4>1, <4>2 DEF taken, slot
      <3> HIDE DEF A, B, up
      <3> QED BY <3>1, <3>2, <3>3
    <2>5. A \cap C = {}
      <3>1. ASSUME NEW i \in B PROVE up[i] \notin A
        BY <2>1, Dimensions
      <3> HIDE DEF A, B, up
      <3> QED BY <3>1
    <2>6. inode_allocated_blocks(f, node) = Cardinality(A) + Cardinality(B)
      BY <1>3 DEF inode_allocated_blocks
    <2> HIDE DEF A, B, C
    <2>7. Cardinality(A \cup C) = Cardinality(A) + Cardinality(C) - Cardinality({})
      BY <1>1, <2>3, <2>5, FS_Union
    <2>8. Cardinality({}) = 0 /\ Cardinality(A) \in Nat /\ Cardinality(C) \in Nat
      BY <1>1, <2>3, FS_EmptySet, FS_CardinalityType
    <2> QED BY <2>3, <2>4, <2>6, <2>7, <2>8
  <1> QED BY <1>2, <1>3

LEMMA MappedIs ==
    ASSUME NEW f \in Image, NEW node \in InodeType
    PROVE  mapped_blocks(f, node) = {slot(f, node, k) : k \in taken(f, node)}
  <1> DEFINE table == node.block[DirectBlocks]
             M == {slot(f, node, k) : k \in taken(f, node)}
  <1>1. ASSUME NEW b \in mapped_blocks(f, node) PROVE b \in M
    <2>0. b # 0 BY DEF mapped_blocks
    <2>1. CASE \E i \in 0 .. DirectBlocks : b = node.block[i]
      <3>1. PICK i \in 0 .. DirectBlocks : b = node.block[i]
        BY <2>1
      <3>2. i \in Slots /\ slot(f, node, i) = b BY <3>1, Dimensions DEF Slots, slot
      <3> QED BY <2>0, <3>2 DEF taken
    <2>2. CASE ~\E i \in 0 .. DirectBlocks : b = node.block[i]
      <3>1. table # 0 /\ b \in Range(f.indirect[table]) BY <2>2 DEF mapped_blocks
      <3>2. table \in Blocks BY Dimensions, <3>1 DEF InodeType
      <3>3. f.indirect[table] \in Table BY <3>2, Fields
      <3>4. PICK i \in 0 .. PerIndirect - 1 : b = f.indirect[table][i]
        BY <3>1, <3>3 DEF Range, Table
      <3>5. /\ i + DirectBlocks + 1 \in Slots /\ ~(i + DirectBlocks + 1 <= DirectBlocks)
            /\ (i + DirectBlocks + 1) - DirectBlocks - 1 = i
        BY Dimensions DEF Slots
      <3>6. slot(f, node, i + DirectBlocks + 1) = b BY <3>1, <3>4, <3>5 DEF slot
      <3> QED BY <2>0, <3>5, <3>6 DEF taken
    <2> QED BY <2>1, <2>2
  <1>2. ASSUME NEW k \in taken(f, node) PROVE slot(f, node, k) \in mapped_blocks(f, node)
    <2>1. k \in Nat /\ k <= MaxBlocks /\ slot(f, node, k) # 0
      BY Dimensions DEF taken, Slots
    <2>2. CASE k <= DirectBlocks
      BY <2>1, <2>2, Dimensions DEF slot, mapped_blocks
    <2>3. CASE ~(k <= DirectBlocks)
      <3>1. k - DirectBlocks - 1 \in 0 .. PerIndirect - 1 BY <2>1, <2>3, Dimensions
      <3>2. table # 0 /\ slot(f, node, k) = f.indirect[table][k - DirectBlocks - 1]
        BY <2>1, <2>3 DEF slot
      <3>3. table \in Blocks BY Dimensions, <3>2 DEF InodeType
      <3>4. f.indirect[table] \in Table BY <3>3, Fields
      <3>5. slot(f, node, k) \in Range(f.indirect[table])
        BY <3>1, <3>2, <3>4 DEF Range, Table
      <3> QED BY <2>1, <3>2, <3>5 DEF mapped_blocks
    <2> QED BY <2>2, <2>3
  <1> HIDE DEF M
  <1>3. mapped_blocks(f, node) \subseteq M BY <1>1
  <1>4. M \subseteq mapped_blocks(f, node) BY <1>2 DEF M
  <1> QED BY <1>3, <1>4 DEF M


-----------------------------------------------------------------------------
(* Taking blocks and giving them back. *)

(* What the calls on blocks leave alone. *)
SameInodes(f, g) ==
    /\ g.inode = f.inode /\ g.inode_bitmap = f.inode_bitmap
    /\ g.free_inodes_count = f.free_inodes_count /\ g.used_dirs_count = f.used_dirs_count

LEMMA BlockFreed ==
    ASSUME NEW f \in Image, BlocksCounted(f), NEW b \in Blocks
    PROVE  LET g == mark_block_used(f, b, FALSE)
           IN  /\ g \in Image /\ BlocksCounted(g) /\ SameInodes(f, g)
               /\ g.block_bitmap = f.block_bitmap \ {b}
               /\ g.indirect = f.indirect /\ g.entries = f.entries
  <1> DEFINE g == mark_block_used(f, b, FALSE)
  <1>1. CASE b \notin f.block_bitmap
    <2>1. g = f
      <3>1. (b \in f.block_bitmap) = FALSE BY <1>1
      <3> QED BY <3>1, Zenon DEF mark_block_used
    <2>2. f.block_bitmap = f.block_bitmap \ {b} BY <1>1
    <2> QED BY <2>1, <2>2 DEF SameInodes
  <1>2. CASE b \in f.block_bitmap
    <2>1. g = [f EXCEPT !.block_bitmap = IF FALSE THEN @ \cup {b} ELSE @ \ {b},
                        !.free_blocks_count = IF ~FALSE THEN @ + 1
                                              ELSE IF @ > 0 THEN @ - 1 ELSE 0]
      BY <1>2, Zenon DEF mark_block_used
    <2>2. g = [f EXCEPT !.block_bitmap = @ \ {b}, !.free_blocks_count = @ + 1] BY <2>1
    <2>3. /\ g.block_bitmap = f.block_bitmap \ {b}
          /\ g.free_blocks_count = f.free_blocks_count + 1
          /\ g.indirect = f.indirect /\ g.entries = f.entries /\ SameInodes(f, g)
      BY <2>2 DEF Image, SameInodes
    <2>4. g \in Image
      <3>1. f.free_blocks_count + 1 \in Nat /\ f.block_bitmap \ {b} \in SUBSET Blocks
        BY Fields
      <3> HIDE DEF g
      <3> QED BY <2>2, <3>1 DEF Image
    <2>5. BlocksCounted(g)
      <3>1. Blocks \ g.block_bitmap = (Blocks \ f.block_bitmap) \cup {b} /\ b \notin Blocks \ f.block_bitmap
        BY <1>2, <2>3
      <3>2. IsFiniteSet(Blocks \ f.block_bitmap) BY Dimensions, FS_Difference
      <3> QED BY <2>3, <3>1, <3>2, FS_AddElement, ZenonT(60) DEF BlocksCounted
    <2> QED BY <2>3, <2>4, <2>5
  <1> QED BY <1>1, <1>2

(* A block that is handed out was free and is blank. *)
Handed(f, g, b) ==
    /\ b \in Blocks \ f.block_bitmap /\ g.block_bitmap = f.block_bitmap \cup {b}
    /\ g.indirect = [f.indirect EXCEPT ![b] = NoTable]
    /\ g.entries = [f.entries EXCEPT ![b] = {}]

LEMMA BlockTaken ==
    ASSUME NEW f \in Image, BlocksCounted(f)
    PROVE  LET r == allocate_block(f)
           IN  /\ r.block = 0 => r.fs = f
               /\ r.block # 0 => /\ r.fs \in Image /\ BlocksCounted(r.fs) /\ SameInodes(f, r.fs)
                                 /\ Handed(f, r.fs, r.block)
  <1> DEFINE r == allocate_block(f)
             clear == Blocks \ f.block_bitmap
             b == Min(clear)
             m == mark_block_used(f, b, TRUE)
  <1>1. CASE f.free_blocks_count = 0 \/ clear = {}
    BY <1>1 DEF allocate_block
  <1>2. CASE ~(f.free_blocks_count = 0 \/ clear = {})
    <2>1. r = [fs |-> zeroed(m, b), block |-> b] BY <1>2 DEF allocate_block
    <2>2. b \in clear
      <3>1. clear \in SUBSET Nat /\ clear # {} BY <1>2, Dimensions
      <3> HIDE DEF clear
      <3> QED BY <3>1, MinIsLeast
    <2> HIDE DEF b
    <2>3. m = [f EXCEPT !.block_bitmap = @ \cup {b}, !.free_blocks_count = @ - 1]
      <3>1. (b \in f.block_bitmap) # TRUE BY <2>2
      <3>2. m = [f EXCEPT !.block_bitmap = IF TRUE THEN @ \cup {b} ELSE @ \ {b},
                          !.free_blocks_count = IF ~TRUE THEN @ + 1
                                                ELSE IF @ > 0 THEN @ - 1 ELSE 0]
        BY <3>1, Zenon DEF mark_block_used
      <3>3. f.free_blocks_count > 0 BY Fields, <1>2
      <3> HIDE DEF m
      <3> QED BY <3>2, <3>3
    <2>4. /\ m.block_bitmap = f.block_bitmap \cup {b}
          /\ m.free_blocks_count = f.free_blocks_count - 1
          /\ m.indirect = f.indirect /\ m.entries = f.entries /\ SameInodes(f, m)
      <3> HIDE DEF m
      <3> QED BY <2>3 DEF Image, SameInodes
    <2>5. m \in Image
      <3>1. f.free_blocks_count - 1 \in Nat BY Fields, <1>2
      <3> HIDE DEF m
      <3> QED BY <2>2, <2>3, <3>1 DEF Image
    <2>6. BlocksCounted(m)
      <3>1. Blocks \ m.block_bitmap = (Blocks \ f.block_bitmap) \ {b} /\ b \in Blocks \ f.block_bitmap
        BY <2>2, <2>4
      <3>2. IsFiniteSet(Blocks \ f.block_bitmap) BY Dimensions, FS_Difference
      <3> QED BY <2>4, <3>1, <3>2, FS_RemoveElement, ZenonT(60) DEF BlocksCounted
    <2> HIDE DEF m
    <2> DEFINE z == zeroed(m, b)
    <2>7. /\ z.indirect = [m.indirect EXCEPT ![b] = NoTable] /\ z.entries = [m.entries EXCEPT ![b] = {}]
          /\ SameInodes(m, z) /\ z.block_bitmap = m.block_bitmap
          /\ z.free_blocks_count = m.free_blocks_count
      BY <2>5 DEF zeroed, Image, SameInodes
    <2>8. z \in Image BY <2>2, <2>5, Dimensions DEF zeroed, Image
    <2> HIDE DEF z
    <2>9. BlocksCounted(z) /\ SameInodes(f, z)
      BY <2>4, <2>6, <2>7 DEF BlocksCounted, SameInodes
    <2>10. Handed(f, z, b) BY <2>2, <2>4, <2>7 DEF Handed
    <2>11. r.fs = z /\ r.block = b BY <2>1 DEF z
    <2> HIDE DEF r
    <2>12. b # 0 BY <2>2, Dimensions
    <2> QED BY <2>8, <2>9, <2>10, <2>11, <2>12 DEF r
  <1> QED BY <1>1, <1>2


-----------------------------------------------------------------------------
(* A map that grows. *)

Within(f, node) == \A k \in Slots : slot(f, node, k) # 0 => slot(f, node, k) \in f.block_bitmap

(* From image f and the copy node of an inode, blocks were taken and put   *)
(* into the map: what was there stays, and what is new is there once.      *)
Fresh(f, g) == g.block_bitmap \ f.block_bitmap
Grew(f, node, g, n) ==
    /\ g \in Image /\ n \in InodeType /\ BlocksCounted(g) /\ SameInodes(f, g)
    /\ n.mode = node.mode /\ n.size = node.size /\ n.links = node.links
    /\ f.block_bitmap \subseteq g.block_bitmap
    /\ \A b \in f.block_bitmap : g.entries[b] = f.entries[b]
    /\ \A b \in f.block_bitmap : b # node.block[DirectBlocks] => g.indirect[b] = f.indirect[b]
    /\ \A b \in Fresh(f, g) : g.entries[b] = {} /\ \E k \in Slots : slot(g, n, k) = b
    /\ \A k \in Slots : slot(f, node, k) # 0 => slot(g, n, k) = slot(f, node, k)
    /\ \A k \in Slots : slot(f, node, k) = 0 => slot(g, n, k) = 0 \/ slot(g, n, k) \in Fresh(f, g)
    /\ \A k, l \in Slots : slot(g, n, k) \in Fresh(f, g) /\ slot(g, n, k) = slot(g, n, l) => k = l
    /\ exact(f, node) => exact(g, n)

LEMMA GrewNot ==
    ASSUME NEW f \in Image, BlocksCounted(f), NEW node \in InodeType
    PROVE  Grew(f, node, f, node)
  BY DEF Grew, SameInodes, Fresh

LEMMA GrewWithin ==
    ASSUME NEW f, NEW node, NEW g, NEW n, Within(f, node), Grew(f, node, g, n)
    PROVE  Within(g, n)
  <1> SUFFICES ASSUME NEW k \in Slots, slot(g, n, k) # 0 PROVE slot(g, n, k) \in g.block_bitmap
    BY DEF Within
  <1>1. CASE slot(f, node, k) # 0
    BY <1>1 DEF Within, Grew
  <1>2. CASE slot(f, node, k) = 0
    BY <1>2 DEF Grew, Fresh
  <1> QED BY <1>1, <1>2

LEMMA TableSlot == DirectBlocks \in Slots /\ \A f, node : slot(f, node, DirectBlocks) = node.block[DirectBlocks]
  BY Dimensions DEF Slots, slot

LEMMA GrewMore ==
    ASSUME NEW f, NEW m, NEW g, NEW n, NEW h, NEW o, Within(f, m),
           Grew(f, m, g, n), Grew(g, n, h, o)
    PROVE  Grew(f, m, h, o)
  <1>1. /\ h \in Image /\ o \in InodeType /\ BlocksCounted(h) /\ SameInodes(f, h)
        /\ o.mode = m.mode /\ o.size = m.size /\ o.links = m.links
        /\ exact(f, m) => exact(h, o)
    BY DEF Grew, SameInodes
  <1>2. /\ f.block_bitmap \subseteq g.block_bitmap /\ g.block_bitmap \subseteq h.block_bitmap
        /\ Fresh(f, h) = Fresh(f, g) \cup Fresh(g, h)
        /\ Fresh(f, g) \subseteq g.block_bitmap
        /\ \A b \in Fresh(g, h) : b \notin g.block_bitmap
    BY DEF Grew, Fresh
  <1>3. \A b \in f.block_bitmap : h.entries[b] = f.entries[b] BY <1>2 DEF Grew
  <1>4. ASSUME NEW b \in f.block_bitmap, b # m.block[DirectBlocks]
        PROVE  h.indirect[b] = f.indirect[b]
    <2>1. g.indirect[b] = f.indirect[b] /\ b \in g.block_bitmap BY <1>2, <1>4 DEF Grew
    <2>2. b # n.block[DirectBlocks]
      <3>1. CASE m.block[DirectBlocks] # 0
        BY <3>1, TableSlot, <1>4 DEF Grew
      <3>2. CASE m.block[DirectBlocks] = 0
        BY <3>2, TableSlot, <1>4 DEF Grew, Fresh
      <3> QED BY <3>1, <3>2
    <2> QED BY <2>1, <2>2 DEF Grew
  <1>5. ASSUME NEW b \in Fresh(f, h)
        PROVE  h.entries[b] = {} /\ \E k \in Slots : slot(h, o, k) = b
    <2>1. CASE b \in Fresh(g, h)
      BY <2>1 DEF Grew
    <2>2. CASE b \in Fresh(f, g)
      <3>1. b \in g.block_bitmap /\ g.entries[b] = {} BY <1>2, <2>2 DEF Grew
      <3>2. PICK k \in Slots : slot(g, n, k) = b
        BY <2>2 DEF Grew
      <3>3. b # 0 BY Fields, <3>1, Dimensions DEF Grew
      <3>4. slot(h, o, k) = b BY <3>2, <3>3 DEF Grew
      <3>5. h.entries[b] = {} BY <3>1 DEF Grew
      <3> QED BY <3>4, <3>5
    <2> QED BY <1>2, <2>1, <2>2
  <1>6. \A k \in Slots : slot(f, m, k) # 0 => slot(h, o, k) = slot(f, m, k) BY DEF Grew
  <1>7. ASSUME NEW k \in Slots, slot(f, m, k) = 0
        PROVE  slot(h, o, k) = 0 \/ slot(h, o, k) \in Fresh(f, h)
    <2>1. slot(g, n, k) = 0 \/ slot(g, n, k) \in Fresh(f, g) BY <1>7 DEF Grew
    <2>2. CASE slot(g, n, k) = 0
      BY <1>2, <2>2 DEF Grew
    <2>3. CASE slot(g, n, k) # 0
      BY <2>3, <1>2, <2>1 DEF Grew
    <2> QED BY <2>2, <2>3
  <1>8. ASSUME NEW k \in Slots, NEW l \in Slots,
               slot(h, o, k) \in Fresh(f, h), slot(h, o, k) = slot(h, o, l)
        PROVE  k = l
    <2>1. CASE slot(h, o, k) \in Fresh(g, h)
      BY <1>8, <2>1 DEF Grew
    <2>2. CASE slot(h, o, k) \notin Fresh(g, h)
      <3>1. slot(h, o, k) \in Fresh(f, g) BY <1>2, <1>8, <2>2
      <3>2. ASSUME NEW j \in Slots, slot(h, o, j) = slot(h, o, k) PROVE slot(g, n, j) = slot(h, o, k)
        <4>0. slot(h, o, k) # 0 BY Fields, <1>2, <3>1, Dimensions DEF Grew
        <4>1. CASE slot(g, n, j) # 0
          BY <3>2, <4>1 DEF Grew
        <4>2. CASE slot(g, n, j) = 0
          BY <3>2, <4>0, <4>2, <2>2 DEF Grew
        <4> QED BY <4>1, <4>2
      <3>3. slot(g, n, k) = slot(h, o, k) /\ slot(g, n, l) = slot(h, o, k) BY <1>8, <3>2
      <3> QED BY <3>1, <3>3 DEF Grew
    <2> QED BY <2>1, <2>2
  <1> QED BY <1>1, <1>2, <1>3, <1>4, <1>5, <1>6, <1>7, <1>8 DEF Grew

(* The block count of the copy is brought up to date. *)
LEMMA Recounted ==
    ASSUME NEW g \in Image, NEW n \in InodeType
    PROVE  LET m == update_inode_block_count(g, n)
           IN  /\ m \in InodeType /\ m.block = n.block /\ m.mode = n.mode
               /\ m.size = n.size /\ m.links = n.links /\ exact(g, m)
               /\ \A k \in Slots : slot(g, m, k) = slot(g, n, k)
  <1> DEFINE m == update_inode_block_count(g, n)
             c == inode_allocated_blocks(g, n)
  <1>1. c \in Nat BY AllocatedIs, SlotsFinite, FS_CardinalityType
  <1>2. m = [n EXCEPT !.blocks = c] BY DEF update_inode_block_count
  <1> HIDE DEF m, c
  <1>3. /\ m \in InodeType /\ m.block = n.block /\ m.mode = n.mode
        /\ m.size = n.size /\ m.links = n.links /\ m.blocks = c
    BY <1>1, <1>2 DEF InodeType
  <1>4. \A k \in Slots : slot(g, m, k) = slot(g, n, k) BY <1>3 DEF slot
  <1>5. inode_allocated_blocks(g, m) = c BY <1>3 DEF c, inode_allocated_blocks
  <1> QED BY <1>3, <1>4, <1>5 DEF exact, m


(* One block goes to its place, perhaps with an indirect block before it. *)
LEMMA GrewByOne ==
    ASSUME NEW f \in Image, NEW node \in InodeType, Within(f, node),
           NEW g \in Image, NEW n \in InodeType, BlocksCounted(g), SameInodes(f, g),
           n.mode = node.mode, n.size = node.size, n.links = node.links,
           f.block_bitmap \subseteq g.block_bitmap,
           \A b \in f.block_bitmap : g.entries[b] = f.entries[b],
           \A b \in f.block_bitmap : b # node.block[DirectBlocks] => g.indirect[b] = f.indirect[b],
           \A b \in Fresh(f, g) : g.entries[b] = {},
           NEW p \in Slots, p # DirectBlocks, slot(f, node, p) = 0,
           NEW a \in Blocks, NEW t \in Blocks \cup {0}, a # t,
           \/ t = slot(f, node, DirectBlocks) /\ Fresh(f, g) = {a}
           \/ slot(f, node, DirectBlocks) = 0 /\ Fresh(f, g) = {a, t},
           \A k \in Slots : slot(g, n, k) = IF k = p THEN a
                                            ELSE IF k = DirectBlocks THEN t ELSE slot(f, node, k)
    PROVE  LET m == update_inode_block_count(g, n)
           IN  /\ Grew(f, node, g, m)
               /\ slot(g, m, p) # 0
               /\ \A k \in Slots \ {p, DirectBlocks} : slot(g, m, k) = slot(f, node, k)
  <1> DEFINE m == update_inode_block_count(g, n)
  <1>1. /\ m \in InodeType /\ m.mode = n.mode
        /\ m.size = n.size /\ m.links = n.links /\ exact(g, m)
        /\ \A k \in Slots : slot(g, m, k) = slot(g, n, k)
    BY Recounted
  <1> HIDE DEF m
  <1>2. /\ slot(g, m, p) = a /\ slot(g, m, DirectBlocks) = t
        /\ \A k \in Slots \ {p, DirectBlocks} : slot(g, m, k) = slot(f, node, k)
    BY <1>1, TableSlot
  <1>3. a # 0 /\ 0 \notin f.block_bitmap /\ 0 \notin Fresh(f, g)
    BY Fields, Dimensions DEF Fresh
  <1>4. \A k \in Slots : slot(f, node, k) \notin Fresh(f, g) BY <1>3 DEF Within, Fresh
  <1>5. \A b \in Fresh(f, g) : \E k \in Slots : slot(g, m, k) = b BY <1>2, TableSlot
  <1>6. ASSUME NEW k \in Slots, slot(f, node, k) # 0 PROVE slot(g, m, k) = slot(f, node, k)
    BY <1>2, <1>3, <1>6
  <1>7. ASSUME NEW k \in Slots, slot(f, node, k) = 0
        PROVE  slot(g, m, k) = 0 \/ slot(g, m, k) \in Fresh(f, g)
    BY <1>2, <1>7
  <1>8. ASSUME NEW k \in Slots, NEW l \in Slots,
               slot(g, m, k) \in Fresh(f, g), slot(g, m, k) = slot(g, m, l)
        PROVE  k = l
    BY <1>2, <1>4, <1>8
  <1>9. Grew(f, node, g, m) BY <1>1, <1>5, <1>6, <1>7, <1>8 DEF Grew
  <1> QED BY <1>2, <1>3, <1>9 DEF m

(* A block that is taken and put back changes no map. *)
LEMMA GrewUndone ==
    ASSUME NEW f \in Image, BlocksCounted(f), NEW node \in InodeType, Within(f, node),
           NEW h \in Image, BlocksCounted(h), SameInodes(f, h), NEW a, Handed(f, h, a)
    PROVE  LET g == mark_block_used(h, a, FALSE)
           IN  /\ Grew(f, node, g, node) /\ g.block_bitmap = f.block_bitmap
               /\ \A k \in Slots : slot(g, node, k) = slot(f, node, k)
  <1> DEFINE g == mark_block_used(h, a, FALSE)
  <1>1. /\ g \in Image /\ BlocksCounted(g) /\ SameInodes(h, g)
        /\ g.block_bitmap = h.block_bitmap \ {a}
        /\ g.indirect = h.indirect /\ g.entries = h.entries
    BY BlockFreed DEF Handed
  <1> HIDE DEF g
  <1>2. g.block_bitmap = f.block_bitmap /\ Fresh(f, g) = {} BY <1>1 DEF Handed, Fresh
  <1>3. \A b \in f.block_bitmap : b \in Blocks /\ g.entries[b] = f.entries[b] /\ g.indirect[b] = f.indirect[b]
    BY Fields, <1>1 DEF Handed
  <1>4. ASSUME NEW k \in Slots PROVE slot(g, node, k) = slot(f, node, k)
    BY TableSlot, <1>3 DEF Within, slot
  <1>5. inode_allocated_blocks(g, node) = inode_allocated_blocks(f, node)
    <2>1. taken(g, node) = taken(f, node) BY <1>4 DEF taken
    <2> QED BY <1>1, <2>1, AllocatedIs
  <1>6. SameInodes(f, g) BY <1>1 DEF SameInodes
  <1>7. Grew(f, node, g, node) BY <1>1, <1>2, <1>3, <1>4, <1>5, <1>6 DEF Grew, exact
  <1> QED BY <1>2, <1>4, <1>7 DEF g


(* What ensure_file_block and the loops around it return. *)
Result(r) == r = [fs |-> r.fs, node |-> r.node, ok |-> r.ok] /\ r.ok \in BOOLEAN

(* The direct blocks. *)
LEMMA PutDirect ==
    ASSUME NEW f \in Image, NEW node \in InodeType, Within(f, node),
           NEW h \in Image, BlocksCounted(h), SameInodes(f, h), NEW a, Handed(f, h, a),
           NEW i \in 0 .. DirectBlocks - 1, slot(f, node, i) = 0
    PROVE  LET m == update_inode_block_count(h, [node EXCEPT !.block[i] = a])
           IN  /\ Grew(f, node, h, m) /\ slot(h, m, i) # 0
               /\ \A k \in Slots \ {i, DirectBlocks} : slot(h, m, k) = slot(f, node, k)
  <1> DEFINE n == [node EXCEPT !.block[i] = a]
             t == node.block[DirectBlocks]
  <1>0. /\ i \in Slots /\ i # DirectBlocks /\ i \in 0 .. DirectBlocks /\ DirectBlocks \in 0 .. DirectBlocks
        /\ i <= DirectBlocks
    BY Dimensions DEF Slots
  <1>1. a \in Blocks /\ a \notin f.block_bitmap /\ Fresh(f, h) = {a} /\ f.block_bitmap \subseteq h.block_bitmap
    BY DEF Handed, Fresh
  <1>2. n.block = [node.block EXCEPT ![i] = a] /\ n \in InodeType
        /\ n.mode = node.mode /\ n.size = node.size /\ n.links = node.links
    BY <1>1 DEF InodeType
  <1> HIDE DEF n
  <1>3. node.block \in [0 .. DirectBlocks -> Blocks \cup {0}] BY DEF InodeType
  <1>4. \A k \in 0 .. DirectBlocks : n.block[k] = IF k = i THEN a ELSE node.block[k]
    BY <1>2, <1>3
  <1>5. t \in Blocks \cup {0} /\ (t # 0 => t \in f.block_bitmap) /\ n.block[DirectBlocks] = t
        /\ t = slot(f, node, DirectBlocks)
    BY <1>0, <1>3, <1>4, TableSlot DEF Within
  <1>6. /\ \A b \in f.block_bitmap : h.entries[b] = f.entries[b] /\ h.indirect[b] = f.indirect[b]
        /\ h.entries[a] = {}
    BY Fields, <1>1 DEF Handed
  <1> HIDE DEF t
  <1>7. ASSUME NEW k \in Slots
        PROVE  slot(h, n, k) = IF k = i THEN a ELSE IF k = DirectBlocks THEN t ELSE slot(f, node, k)
    <2>1. CASE k <= DirectBlocks
      BY <2>1, Dimensions, <1>0, <1>4, <1>5 DEF Slots, slot
    <2>2. CASE ~(k <= DirectBlocks)
      BY <1>0, <2>2, Dimensions, <1>5, <1>6 DEF slot, t
    <2> QED BY <2>1, <2>2
  <1>8. a # t BY <1>1, <1>5, Dimensions
  <1>9. /\ \A b \in f.block_bitmap : h.entries[b] = f.entries[b]
        /\ \A b \in f.block_bitmap : b # node.block[DirectBlocks] => h.indirect[b] = f.indirect[b]
        /\ \A b \in Fresh(f, h) : h.entries[b] = {}
    BY <1>1, <1>6
  <1> DEFINE m == update_inode_block_count(h, n)
  <1>10. /\ Grew(f, node, h, m) /\ slot(h, m, i) # 0
         /\ \A k \in Slots \ {i, DirectBlocks} : slot(h, m, k) = slot(f, node, k)
    <2> HIDE DEF m
    <2>1. \A k \in Slots : slot(h, n, k) = IF k = i THEN a
                                            ELSE IF k = DirectBlocks THEN t ELSE slot(f, node, k)
      BY <1>7
    <2>2. t = slot(f, node, DirectBlocks) /\ Fresh(f, h) = {a} BY <1>1, <1>5
    <2>3. a \in Blocks /\ t \in Blocks \cup {0} /\ n \in InodeType
          /\ n.mode = node.mode /\ n.size = node.size /\ n.links = node.links
          /\ f.block_bitmap \subseteq h.block_bitmap /\ i \in Slots /\ i # DirectBlocks
      BY <1>0, <1>1, <1>2, <1>5
    <2> QED BY <1>8, <1>9, <2>1, <2>2, <2>3, GrewByOne, SMTT(60) DEF m
  <1> QED BY <1>10 DEF n

(* The indirect ones.  h is the image the new block a and, if there was    *)
(* none, the indirect block t were taken in.                               *)
Supplied(f, node, h, a, t) ==
    /\ h \in Image /\ BlocksCounted(h) /\ SameInodes(f, h)
    /\ a \in Blocks /\ t \in Blocks /\ a # t /\ a \notin f.block_bitmap
    /\ f.block_bitmap \subseteq h.block_bitmap
    /\ \/ t = node.block[DirectBlocks] /\ Fresh(f, h) = {a}
       \/ node.block[DirectBlocks] = 0 /\ Fresh(f, h) = {a, t} /\ h.indirect[t] = NoTable
    /\ \A b \in f.block_bitmap : h.entries[b] = f.entries[b] /\ h.indirect[b] = f.indirect[b]
    /\ \A b \in Fresh(f, h) : h.entries[b] = {}

PutAt(f, node, j, g, m) ==
    /\ Grew(f, node, g, m) /\ slot(g, m, j + DirectBlocks + 1) # 0
    /\ \A k \in Slots \ {j + DirectBlocks + 1, DirectBlocks} : slot(g, m, k) = slot(f, node, k)

LEMMA PutIndirect ==
    ASSUME NEW f \in Image, NEW node \in InodeType, Within(f, node),
           NEW h, NEW a, NEW t, Supplied(f, node, h, a, t),
           NEW j \in 0 .. PerIndirect - 1, slot(f, node, j + DirectBlocks + 1) = 0
    PROVE  LET g == [h EXCEPT !.indirect[t][j] = a]
           IN  PutAt(f, node, j, g, update_inode_block_count(g, [node EXCEPT !.block[DirectBlocks] = t]))
  <1> /\ h \in Image /\ BlocksCounted(h) /\ SameInodes(f, h)
      /\ a \in Blocks /\ t \in Blocks /\ a # t /\ a \notin f.block_bitmap
      /\ f.block_bitmap \subseteq h.block_bitmap
      /\ \/ t = node.block[DirectBlocks] /\ Fresh(f, h) = {a}
         \/ node.block[DirectBlocks] = 0 /\ Fresh(f, h) = {a, t} /\ h.indirect[t] = NoTable
      /\ \A b \in f.block_bitmap : h.entries[b] = f.entries[b] /\ h.indirect[b] = f.indirect[b]
      /\ \A b \in Fresh(f, h) : h.entries[b] = {}
    BY DEF Supplied
  <1> DEFINE g == [h EXCEPT !.indirect[t][j] = a]
             n == [node EXCEPT !.block[DirectBlocks] = t]
             p == j + DirectBlocks + 1
  <1>0. p \in Slots /\ p # DirectBlocks /\ DirectBlocks \in 0 .. DirectBlocks /\ ~(p <= DirectBlocks)
        /\ p - DirectBlocks - 1 = j
    BY Dimensions DEF Slots
  <1> HIDE DEF p
  <1>1. h.indirect \in [Blocks -> Table] /\ h.indirect[t] \in Table BY Fields
  <1>2. g.indirect = [h.indirect EXCEPT ![t] = [h.indirect[t] EXCEPT ![j] = a]]
        /\ g.block_bitmap = h.block_bitmap /\ g.entries = h.entries
        /\ SameInodes(h, g) /\ g.free_blocks_count = h.free_blocks_count
    BY DEF Image, SameInodes
  <1>3. g \in Image
    <2>1. [h.indirect EXCEPT ![t] = [h.indirect[t] EXCEPT ![j] = a]] \in [Blocks -> Table]
      BY <1>1 DEF Table
    <2>2. g = [h EXCEPT !.indirect = [h.indirect EXCEPT ![t] = [h.indirect[t] EXCEPT ![j] = a]]]
      BY DEF Image
    <2> HIDE DEF g
    <2> QED BY <2>1, <2>2 DEF Image
  <1> HIDE DEF g
  <1>4. \A b \in Blocks : b # t => g.indirect[b] = h.indirect[b] BY <1>1, <1>2
  <1>5. \A x \in 0 .. PerIndirect - 1 : g.indirect[t][x] = IF x = j THEN a ELSE h.indirect[t][x]
    BY <1>1, <1>2 DEF Table
  <1>6. /\ n.block = [node.block EXCEPT ![DirectBlocks] = t] /\ n \in InodeType
        /\ n.mode = node.mode /\ n.size = node.size /\ n.links = node.links
    BY DEF InodeType
  <1> HIDE DEF n
  <1>7. node.block \in [0 .. DirectBlocks -> Blocks \cup {0}] BY DEF InodeType
  <1>8. \A k \in 0 .. DirectBlocks : n.block[k] = IF k = DirectBlocks THEN t ELSE node.block[k]
    BY <1>6, <1>7
  <1>9. t # 0 BY Dimensions
  <1>10. ASSUME NEW k \in Slots
         PROVE  slot(g, n, k) = IF k = p THEN a ELSE IF k = DirectBlocks THEN t ELSE slot(f, node, k)
    <2>1. CASE k <= DirectBlocks
      BY <1>0, <2>1, Dimensions, <1>8 DEF Slots, slot
    <2>2. CASE ~(k <= DirectBlocks)
      <3>1. k - DirectBlocks - 1 \in 0 .. PerIndirect - 1 /\ k # DirectBlocks
            /\ (k - DirectBlocks - 1 = j <=> k = p)
        BY <2>2, Dimensions DEF Slots, p
      <3>2. n.block[DirectBlocks] = t BY <1>0, <1>8
      <3>3. slot(g, n, k) = IF k = p THEN a ELSE h.indirect[t][k - DirectBlocks - 1]
        BY <1>5, <1>9, <2>2, <3>1, <3>2 DEF slot
      <3>4. h.indirect[t][k - DirectBlocks - 1] = slot(f, node, k)
        <4>1. CASE t = node.block[DirectBlocks]
          BY <1>9, <4>1, TableSlot, <2>2 DEF Within, slot
        <4>2. CASE t # node.block[DirectBlocks]
          BY <4>2, <2>2, <3>1 DEF slot, NoTable
        <4> QED BY <4>1, <4>2
      <3> QED BY <3>1, <3>3, <3>4
    <2> QED BY <2>1, <2>2
  <1>11. Fresh(f, g) = Fresh(f, h) /\ BlocksCounted(g) /\ SameInodes(f, g)
    BY <1>2 DEF Fresh, BlocksCounted, SameInodes
  <1>12. \A b \in f.block_bitmap : b # node.block[DirectBlocks] => g.indirect[b] = f.indirect[b]
    BY Fields, <1>4 DEF Fresh
  <1>13. slot(f, node, DirectBlocks) = node.block[DirectBlocks] /\ slot(f, node, p) = 0
    BY TableSlot DEF p
  <1> DEFINE m == update_inode_block_count(g, n)
  <1>14. /\ \A b \in f.block_bitmap : g.entries[b] = f.entries[b]
         /\ \A b \in Fresh(f, g) : g.entries[b] = {}
         /\ f.block_bitmap \subseteq g.block_bitmap /\ t \in Blocks \cup {0}
    BY <1>2, <1>11
  <1>15. \/ t = slot(f, node, DirectBlocks) /\ Fresh(f, g) = {a}
         \/ slot(f, node, DirectBlocks) = 0 /\ Fresh(f, g) = {a, t}
    BY <1>11, <1>13
  <1>16. /\ Grew(f, node, g, m) /\ slot(g, m, p) # 0
         /\ \A k \in Slots \ {p, DirectBlocks} : slot(g, m, k) = slot(f, node, k)
    <2> HIDE DEF m
    <2> QED BY <1>0, <1>3, <1>6, <1>10, <1>11, <1>12, <1>13, <1>14, <1>15, GrewByOne, SMTT(60) DEF m
  <1> QED BY <1>16 DEF PutAt, g, n, p


(* ensure_file_block: the block is there afterwards and no other is new,   *)
(* or nothing has changed.                                                 *)
Ensured(f, node, i, r) ==
    /\ Result(r) /\ Grew(f, node, r.fs, r.node)
    /\ r.ok => /\ i < MaxBlocks /\ slot(r.fs, r.node, place(i)) # 0
               /\ \A k \in Slots \ {place(i), DirectBlocks} : slot(r.fs, r.node, k) = slot(f, node, k)
    /\ ~r.ok => /\ r.node = node /\ r.fs.block_bitmap = f.block_bitmap
                /\ \A k \in Slots : slot(r.fs, node, k) = slot(f, node, k)

LEMMA EnsureBlock ==
    ASSUME NEW f \in Image, BlocksCounted(f), NEW node \in InodeType, Within(f, node), NEW i \in Nat
    PROVE  Ensured(f, node, i, ensure_file_block(f, node, i))
  <1> DEFINE r == ensure_file_block(f, node, i)
             new == allocate_block(f)
             a == new.block
             h == new.fs
             t == node.block[DirectBlocks]
             p == place(i)
  <1>0. Grew(f, node, f, node) BY GrewNot
  <1>1. CASE block_id_at(f, node, i) # 0
    <2>1. r = [fs |-> f, node |-> node, ok |-> TRUE] BY <1>1 DEF ensure_file_block, Ok
    <2>2. i < MaxBlocks /\ slot(f, node, p) # 0 BY <1>1, BlockAt
    <2> HIDE DEF r, p
    <2> QED BY <1>0, <2>1, <2>2 DEF Ensured, Result, r, p
  <1>2. CASE block_id_at(f, node, i) = 0 /\ a = 0
    <2>1. h = f BY <1>2, BlockTaken
    <2>2. r = [fs |-> h, node |-> node, ok |-> FALSE]
      BY <1>2 DEF ensure_file_block, use_block, NotOk
    <2> HIDE DEF r, p, h
    <2> QED BY <1>0, <2>1, <2>2 DEF Ensured, Result, r, p
  <1>3. CASE block_id_at(f, node, i) = 0 /\ a # 0
    <2>1. h \in Image /\ BlocksCounted(h) /\ SameInodes(f, h) /\ Handed(f, h, a)
      BY <1>3, BlockTaken
    <2> DEFINE s == set_block_id_at(h, node, i, a)
    <2>2. r = counted_or_undone(s, a) BY <1>3 DEF ensure_file_block, use_block
    <2> HIDE DEF h, a, r, new
    <2>3. ASSUME s = [fs |-> h, node |-> node, ok |-> FALSE]
          PROVE  Ensured(f, node, i, r)
      <3> DEFINE g == mark_block_used(h, a, FALSE)
      <3>1. r = [fs |-> g, node |-> node, ok |-> FALSE]
        <4> HIDE DEF s
        <4> QED BY <2>2, <2>3 DEF counted_or_undone
      <3>2. /\ Grew(f, node, g, node) /\ g.block_bitmap = f.block_bitmap
            /\ \A k \in Slots : slot(g, node, k) = slot(f, node, k)
        BY <2>1, GrewUndone, ZenonT(60)
      <3> HIDE DEF g
      <3> QED BY <3>1, <3>2 DEF Ensured, Result
    <2>4. CASE i < DirectBlocks
      <3> DEFINE n == [node EXCEPT !.block[i] = a]
                 m == update_inode_block_count(h, n)
      <3>1. s = [fs |-> h, node |-> n, ok |-> TRUE] BY <2>4 DEF set_block_id_at, Ok
      <3>2. r = [fs |-> h, node |-> m, ok |-> TRUE]
        <4> HIDE DEF s, n
        <4> QED BY <2>2, <3>1 DEF counted_or_undone
      <3>3. i \in 0 .. DirectBlocks - 1 /\ i < MaxBlocks /\ p = i
        BY <2>4, Dimensions DEF place
      <3>4. slot(f, node, i) = 0 BY <1>3, <3>3, BlockAt
      <3>5. /\ Grew(f, node, h, m) /\ slot(h, m, i) # 0
            /\ \A k \in Slots \ {i, DirectBlocks} : slot(h, m, k) = slot(f, node, k)
        BY <2>1, <3>3, <3>4, PutDirect
      <3> HIDE DEF m, p
      <3> QED BY <3>2, <3>3, <3>5 DEF Ensured, Result, p, r
    <2>5. CASE ~(i < DirectBlocks) /\ i - DirectBlocks >= PerIndirect
      BY <2>5, <2>3 DEF set_block_id_at, NotOk, r
    <2>6. CASE ~(i < DirectBlocks) /\ ~(i - DirectBlocks >= PerIndirect)
      <3> DEFINE j == i - DirectBlocks
                 table == IF t # 0 THEN [fs |-> h, block |-> t] ELSE allocate_block(h)
                 u == table.block
                 e == table.fs
      <3>0. /\ j \in 0 .. PerIndirect - 1 /\ i < MaxBlocks /\ p = j + DirectBlocks + 1
        BY <2>6, Dimensions DEF place
      <3>1. s = set_in_table(table, node, j, a) BY <2>6 DEF set_block_id_at
      <3>2. slot(f, node, j + DirectBlocks + 1) = 0 BY <1>3, <3>0, BlockAt
      <3>3. /\ a \in Blocks /\ a \notin f.block_bitmap
            /\ h.block_bitmap = f.block_bitmap \cup {a}
            /\ \A b \in f.block_bitmap : h.entries[b] = f.entries[b] /\ h.indirect[b] = f.indirect[b]
            /\ h.entries[a] = {}
        BY Fields, <2>1 DEF Handed
      <3>4. CASE t # 0
        <4>1. u = t /\ e = h BY <3>4
        <4>2. t \in Blocks /\ t \in f.block_bitmap BY <3>4, TableSlot, Fields DEF Within
        <4>3. a # t /\ Fresh(f, h) = {a} /\ f.block_bitmap \subseteq h.block_bitmap
          BY <3>3, <4>2 DEF Fresh
        <4> DEFINE g == [h EXCEPT !.indirect[t][j] = a]
                   n == [node EXCEPT !.block[DirectBlocks] = t]
                   m == update_inode_block_count(g, n)
        <4>4. PutAt(f, node, j, g, m)
          <5> HIDE DEF j
          <5>1. Supplied(f, node, h, a, t) BY <2>1, <3>3, <4>2, <4>3 DEF Supplied
          <5> QED BY <3>0, <3>2, <5>1, PutIndirect
        <4>5. s = [fs |-> g, node |-> n, ok |-> TRUE]
          <5> HIDE DEF table, s, j
          <5>1. s = [fs |-> [e EXCEPT !.indirect[u][j] = a],
                     node |-> [node EXCEPT !.block[DirectBlocks] = u], ok |-> TRUE]
            BY <3>1, <3>4, <4>1 DEF set_in_table, Ok
          <5> HIDE DEF u, e
          <5> QED BY <4>1, <5>1
        <4>6. r = [fs |-> g, node |-> m, ok |-> TRUE]
          <5> HIDE DEF s, g, n
          <5> QED BY <2>2, <4>5 DEF counted_or_undone
        <4> HIDE DEF m, g, p, j
        <4> QED BY <3>0, <4>4, <4>6 DEF PutAt, Ensured, Result, p, r
      <3>5. CASE t = 0 /\ u = 0
        <4>1. table = allocate_block(h) /\ e = h
          <5>1. table = allocate_block(h) BY <3>5
          <5> HIDE DEF table
          <5> QED BY <2>1, <3>5, <5>1, BlockTaken
        <4>2. s = [fs |-> h, node |-> node, ok |-> FALSE]
          <5> HIDE DEF table, s, j
          <5> QED BY <3>1, <3>5, <4>1 DEF set_in_table, NotOk
        <4> QED BY <2>3, <4>2 DEF r
      <3>6. CASE t = 0 /\ u # 0
        <4>1. /\ table = allocate_block(h) /\ e \in Image /\ BlocksCounted(e)
              /\ SameInodes(h, e) /\ Handed(h, e, u)
          <5>1. table = allocate_block(h) BY <3>6
          <5> HIDE DEF table
          <5> QED BY <2>1, <3>6, <5>1, BlockTaken
        <4> HIDE DEF table
        <4>2. s = [fs |-> [e EXCEPT !.indirect[u][j] = a],
                   node |-> [node EXCEPT !.block[DirectBlocks] = u], ok |-> TRUE]
          <5> HIDE DEF s, j
          <5> QED BY <3>1, <3>6 DEF set_in_table, Ok
        <4> HIDE DEF u, e
        <4>3. /\ u \in Blocks /\ u # a /\ u \notin f.block_bitmap /\ e.block_bitmap = f.block_bitmap \cup {a, u}
              /\ Fresh(f, e) = {a, u} /\ e.indirect[u] = NoTable
              /\ \A b \in f.block_bitmap : e.entries[b] = f.entries[b] /\ e.indirect[b] = f.indirect[b]
              /\ \A b \in Fresh(f, e) : e.entries[b] = {}
              /\ SameInodes(f, e) /\ f.block_bitmap \subseteq e.block_bitmap
          <5>1. /\ h.block_bitmap \in SUBSET Blocks /\ h.entries \in [Blocks -> EntrySets]
                /\ h.indirect \in [Blocks -> Table]
            BY <2>1, Fields
          <5>2. u \in Blocks /\ u # a /\ u \notin f.block_bitmap /\ e.block_bitmap = f.block_bitmap \cup {a, u}
            BY <3>3, <4>1 DEF Handed
          <5>3. Fresh(f, e) = {a, u} BY <3>3, <5>2 DEF Fresh
          <5>4. \A b \in Blocks : /\ e.entries[b] = IF b = u THEN {} ELSE h.entries[b]
                                  /\ e.indirect[b] = IF b = u THEN NoTable ELSE h.indirect[b]
            BY <4>1, <5>1 DEF Handed
          <5>5. \A b \in f.block_bitmap : b \in Blocks /\ b # u BY <3>3, <5>1, <5>2
          <5>6. SameInodes(f, e) BY <2>1, <4>1 DEF SameInodes
          <5> QED BY <3>3, <5>2, <5>3, <5>4, <5>5, <5>6
        <4> DEFINE g == [e EXCEPT !.indirect[u][j] = a]
                   n == [node EXCEPT !.block[DirectBlocks] = u]
                   m == update_inode_block_count(g, n)
        <4>4. PutAt(f, node, j, g, m)
          <5> HIDE DEF j
          <5>1. Supplied(f, node, e, a, u) BY <3>3, <3>6, <4>1, <4>3 DEF Supplied
          <5> QED BY <3>0, <3>2, <5>1, PutIndirect
        <4>6. r = [fs |-> g, node |-> m, ok |-> TRUE]
          <5> HIDE DEF s, g, n
          <5> QED BY <2>2, <4>2 DEF counted_or_undone, g, n
        <4> HIDE DEF m, g, p, j
        <4> QED BY <3>0, <4>4, <4>6 DEF PutAt, Ensured, Result, p, r
      <3> QED BY <3>4, <3>5, <3>6
    <2> HIDE DEF s
    <2> QED BY <2>4, <2>5, <2>6 DEF r
  <1> QED BY <1>1, <1>2, <1>3


-----------------------------------------------------------------------------
(* The loops. *)

(* The recursive function in ensure_file_blocks is the one it says. *)
LEMMA EnsureLoop ==
    ASSUME NEW f, NEW node, NEW from \in Nat, NEW to \in Nat, from <= to
    PROVE  \E g : /\ ensure_file_blocks(f, node, from, to) = g[to] /\ g[from] = Ok(f, node)
                  /\ \A k \in from + 1 .. to : g[k] = (IF g[k - 1].ok THEN ensure_file_block(g[k - 1].fs, g[k - 1].node, k - 1) ELSE g[k - 1])
  <1> DEFINE low == from
             high == to
             N == high - low
             Round(g, k) == IF k = low THEN Ok(f, node) ELSE (IF g[k - 1].ok THEN ensure_file_block(g[k - 1].fs, g[k - 1].node, k - 1) ELSE g[k - 1])
             Has == {n \in Nat : \E g : g = [k \in low .. low + n |-> Round(g, k)]}
  <1>1. N \in Nat /\ low \in Nat /\ high \in Nat /\ low + N = high /\ low <= high OBVIOUS
  <1> HIDE DEF N, low, high
  <1>2. 0 \in Has
    <2> DEFINE g == [k \in low .. low + 0 |-> Ok(f, node)]
    <2>0. \A k \in low .. low + 0 : k = low BY <1>1
    <2>1. g = [k \in low .. low + 0 |-> Round(g, k)] BY <2>0
    <2> QED BY <2>1
  <1>3. \A n \in 0 .. N - 1 : n \in Has => n + 1 \in Has
    <2> SUFFICES ASSUME NEW n \in 0 .. N - 1, n \in Has PROVE n + 1 \in Has
      OBVIOUS
    <2>1. PICK g : g = [k \in low .. low + n |-> Round(g, k)]
      OBVIOUS
    <2>2. n \in Nat /\ low + (n + 1) = (low + n) + 1 BY <1>1
    <2> DEFINE h == [k \in low .. low + (n + 1) |-> IF k = low + (n + 1) THEN Round(g, k) ELSE g[k]]
    <2>3. \A k \in low .. low + n : h[k] = g[k] BY <1>1, <2>2
    <2>4. h[low + (n + 1)] = Round(g, low + (n + 1)) BY <1>1, <2>2
    <2>5. \A k \in low .. low + n : g[k] = Round(g, k)
      <3> HIDE DEF Round
      <3> QED BY <2>1
    <2>6. h = [k \in low .. low + (n + 1) |-> h[k]] OBVIOUS
    <2> HIDE DEF h
    <2>7. \A k \in low .. low + (n + 1) : Round(h, k) = Round(g, k)
      <3> TAKE k \in low .. low + (n + 1)
      <3>1. k # low => k - 1 \in low .. low + n BY <1>1, <2>2
      <3>2. k # low => h[k - 1] = g[k - 1] BY <2>3, <3>1
      <3> QED BY <3>2
    <2> HIDE DEF Round
    <2>8. \A k \in low .. low + (n + 1) : h[k] = Round(h, k)
      <3> TAKE k \in low .. low + (n + 1)
      <3>1. k = low + (n + 1) \/ k \in low .. low + n BY <1>1, <2>2
      <3> QED BY <2>3, <2>4, <2>5, <2>7, <3>1
    <2>9. h = [k \in low .. low + (n + 1) |-> Round(h, k)] BY <2>6, <2>8
    <2> QED BY <2>2, <2>9
  <1> HIDE DEF Has
  <1>4. N \in Has BY <1>1, <1>2, <1>3, Induction
  <1> USE DEF Has
  <1> DEFINE u == CHOOSE g : g = [k \in low .. high |-> Round(g, k)]
  <1>5. u = [k \in low .. high |-> Round(u, k)]
    <2> HIDE DEF Round
    <2> QED BY <1>1, <1>4
  <1>6. ensure_file_blocks(f, node, from, to) = u[high]
    BY Zenon DEF ensure_file_blocks, low, high
  <1> HIDE DEF u
  <1>7. \A k \in low .. high : u[k] = Round(u, k) BY <1>5
  <1>8. u[low] = Ok(f, node)
    <2>1. low \in low .. high BY <1>1
    <2>2. u[low] = Round(u, low)
      <3> HIDE DEF Round
      <3> QED BY <1>7, <2>1
    <2> QED BY <2>2, Zenon
  <1>9. ASSUME NEW k \in low + 1 .. high
        PROVE  u[k] = (IF u[k - 1].ok THEN ensure_file_block(u[k - 1].fs, u[k - 1].node, k - 1) ELSE u[k - 1])
    <2>1. k \in low .. high /\ k # low BY <1>1
    <2>2. u[k] = Round(u, k)
      <3> HIDE DEF Round
      <3> QED BY <1>7, <2>1
    <2> QED BY <2>1, <2>2, Zenon
  <1> QED BY <1>6, <1>8, <1>9 DEF low, high

(* And that in write_blocks. *)
LEMMA WriteLoop ==
    ASSUME NEW f, NEW node, NEW from \in Nat, NEW to \in Nat,
           from \div BlockUnits \in Nat, blocks_of(to) \in Nat, from \div BlockUnits <= blocks_of(to)
    PROVE  \E g : /\ write_blocks(f, node, from, to) = g[blocks_of(to)] /\ g[from \div BlockUnits] = Ok(f, node)
                  /\ \A k \in from \div BlockUnits + 1 .. blocks_of(to) : g[k] = write_block(g[k - 1], k - 1, from, to)
  <1> DEFINE low == from \div BlockUnits
             high == blocks_of(to)
             N == high - low
             Round(g, k) == IF k = low THEN Ok(f, node) ELSE write_block(g[k - 1], k - 1, from, to)
             Has == {n \in Nat : \E g : g = [k \in low .. low + n |-> Round(g, k)]}
  <1>1. N \in Nat /\ low \in Nat /\ high \in Nat /\ low + N = high /\ low <= high OBVIOUS
  <1> HIDE DEF N, low, high
  <1>2. 0 \in Has
    <2> DEFINE g == [k \in low .. low + 0 |-> Ok(f, node)]
    <2>0. \A k \in low .. low + 0 : k = low BY <1>1
    <2>1. g = [k \in low .. low + 0 |-> Round(g, k)] BY <2>0
    <2> QED BY <2>1
  <1>3. \A n \in 0 .. N - 1 : n \in Has => n + 1 \in Has
    <2> SUFFICES ASSUME NEW n \in 0 .. N - 1, n \in Has PROVE n + 1 \in Has
      OBVIOUS
    <2>1. PICK g : g = [k \in low .. low + n |-> Round(g, k)]
      OBVIOUS
    <2>2. n \in Nat /\ low + (n + 1) = (low + n) + 1 BY <1>1
    <2> DEFINE h == [k \in low .. low + (n + 1) |-> IF k = low + (n + 1) THEN Round(g, k) ELSE g[k]]
    <2>3. \A k \in low .. low + n : h[k] = g[k] BY <1>1, <2>2
    <2>4. h[low + (n + 1)] = Round(g, low + (n + 1)) BY <1>1, <2>2
    <2>5. \A k \in low .. low + n : g[k] = Round(g, k)
      <3> HIDE DEF Round
      <3> QED BY <2>1
    <2>6. h = [k \in low .. low + (n + 1) |-> h[k]] OBVIOUS
    <2> HIDE DEF h
    <2>7. \A k \in low .. low + (n + 1) : Round(h, k) = Round(g, k)
      <3> TAKE k \in low .. low + (n + 1)
      <3>1. k # low => k - 1 \in low .. low + n BY <1>1, <2>2
      <3>2. k # low => h[k - 1] = g[k - 1] BY <2>3, <3>1
      <3> QED BY <3>2
    <2> HIDE DEF Round
    <2>8. \A k \in low .. low + (n + 1) : h[k] = Round(h, k)
      <3> TAKE k \in low .. low + (n + 1)
      <3>1. k = low + (n + 1) \/ k \in low .. low + n BY <1>1, <2>2
      <3> QED BY <2>3, <2>4, <2>5, <2>7, <3>1
    <2>9. h = [k \in low .. low + (n + 1) |-> Round(h, k)] BY <2>6, <2>8
    <2> QED BY <2>2, <2>9
  <1> HIDE DEF Has
  <1>4. N \in Has
    <2>1. \A n \in 0 .. N : n \in Has BY <1>1, <1>2, <1>3, Induction
    <2>2. N \in 0 .. N BY <1>1
    <2> QED BY <2>1, <2>2
  <1> USE DEF Has
  <1> DEFINE u == CHOOSE g : g = [k \in low .. high |-> Round(g, k)]
  <1>5. u = [k \in low .. high |-> Round(u, k)]
    <2> HIDE DEF Round
    <2> QED BY <1>1, <1>4
  <1>6. write_blocks(f, node, from, to) = u[high] BY Zenon DEF write_blocks, low, high
  <1> HIDE DEF u
  <1>7. \A k \in low .. high : u[k] = Round(u, k) BY <1>5
  <1>8. u[low] = Ok(f, node)
    <2>1. low \in low .. high BY <1>1
    <2>2. u[low] = Round(u, low)
      <3> HIDE DEF Round
      <3> QED BY <1>7, <2>1
    <2> QED BY <2>2, Zenon
  <1>9. ASSUME NEW k \in low + 1 .. high
        PROVE  u[k] = write_block(u[k - 1], k - 1, from, to)
    <2>1. k \in low .. high /\ k # low BY <1>1
    <2>2. u[k] = Round(u, k)
      <3> HIDE DEF Round
      <3> QED BY <1>7, <2>1
    <2> QED BY <2>1, <2>2, Zenon
  <1> QED BY <1>6, <1>8, <1>9 DEF low, high


(* Images that differ in file data only. *)
SameMaps(g, h) ==
    /\ SameInodes(g, h) /\ h.block_bitmap = g.block_bitmap /\ h.free_blocks_count = g.free_blocks_count
    /\ h.indirect = g.indirect /\ h.entries = g.entries

LEMMA SameSlots ==
    ASSUME NEW g, NEW h, h.indirect = g.indirect, NEW n
    PROVE  /\ \A k : slot(h, n, k) = slot(g, n, k)
           /\ inode_allocated_blocks(h, n) = inode_allocated_blocks(g, n)
  BY DEF slot, inode_allocated_blocks

LEMMA GrewData ==
    ASSUME NEW f, NEW node, NEW g, NEW n, Grew(f, node, g, n), NEW h \in Image, SameMaps(g, h)
    PROVE  Grew(f, node, h, n)
  <1>1. /\ \A k : slot(h, n, k) = slot(g, n, k)
        /\ inode_allocated_blocks(h, n) = inode_allocated_blocks(g, n)
    BY SameSlots DEF SameMaps
  <1>2. Fresh(f, h) = Fresh(f, g) /\ BlocksCounted(h) /\ SameInodes(f, h)
    BY DEF Grew, SameMaps, Fresh, BlocksCounted, SameInodes
  <1>3. /\ h.block_bitmap = g.block_bitmap /\ h.indirect = g.indirect /\ h.entries = g.entries
    BY DEF SameMaps
  <1>4. exact(g, n) => exact(h, n) BY <1>1 DEF exact
  <1> QED BY <1>1, <1>2, <1>3, <1>4 DEF Grew

LEMMA Copied ==
    ASSUME NEW r, Result(r), r.fs \in Image, NEW i, NEW from, NEW to
    PROVE  LET c == copied(r, i, from, to)
           IN  Result(c) /\ c.ok = r.ok /\ c.node = r.node /\ c.fs \in Image /\ SameMaps(r.fs, c.fs)
  <1> DEFINE c == copied(r, i, from, to)
  <1>1. CASE ~r.ok
    <2>1. c = r BY <1>1 DEF copied
    <2> QED BY <2>1 DEF SameMaps, SameInodes
  <1>2. CASE r.ok
    <2> DEFINE b == block_id_at(r.fs, r.node, i)
               D == [u \in 0 .. BlockUnits - 1 |->
                       IF i * BlockUnits + u \in from .. to - 1 THEN Mark ELSE r.fs.data[b][u]]
               g == [r.fs EXCEPT !.data[b] = D]
    <2>1. c = [r EXCEPT !.fs = g] BY <1>2 DEF copied, Result
    <2>2. g = [r.fs EXCEPT !.data = [r.fs.data EXCEPT ![b] = D]] BY DEF Image
    <2>3. [r.fs.data EXCEPT ![b] = D] \in [Blocks -> Data]
      <3>1. r.fs.data \in [Blocks -> Data] BY Fields
      <3>2. b \in Blocks => D \in Data BY <3>1 DEF Data
      <3> HIDE DEF D, b
      <3> QED BY <3>1, <3>2
    <2> HIDE DEF D, b, g
    <2>4. g \in Image /\ SameMaps(r.fs, g) BY <2>2, <2>3 DEF Image, SameMaps, SameInodes
    <2>5. c.fs = g /\ c.ok = r.ok /\ c.node = r.node /\ Result(c) BY <2>1 DEF Result
    <2> QED BY <2>4, <2>5
  <1> QED BY <1>1, <1>2

LEMMA EnsureBlocks ==
    ASSUME NEW f \in Image, BlocksCounted(f), NEW node \in InodeType, Within(f, node),
           NEW from \in Nat, NEW to \in Nat, from <= to
    PROVE  LET r == ensure_file_blocks(f, node, from, to)
           IN  Result(r) /\ Grew(f, node, r.fs, r.node)
  <1> DEFINE Good(r) == Result(r) /\ Grew(f, node, r.fs, r.node)
  <1>1. PICK g : /\ ensure_file_blocks(f, node, from, to) = g[to] /\ g[from] = Ok(f, node)
                 /\ \A k \in from + 1 .. to :
                       g[k] = (IF g[k - 1].ok THEN ensure_file_block(g[k - 1].fs, g[k - 1].node, k - 1) ELSE g[k - 1])
    BY EnsureLoop
  <1> DEFINE S == {n \in Nat : Good(g[from + n])}
  <1>2. 0 \in S
    <2>1. Good(Ok(f, node)) BY GrewNot DEF Ok, Result
    <2>2. from + 0 = from OBVIOUS
    <2> HIDE DEF Good
    <2> QED BY <1>1, <2>1, <2>2
  <1>3. ASSUME NEW n \in 0 .. (to - from) - 1, n \in S PROVE n + 1 \in S
    <2> DEFINE k == from + (n + 1)
               p == g[k - 1]
    <2>1. k \in from + 1 .. to /\ k - 1 = from + n /\ k - 1 \in Nat /\ n + 1 \in Nat
      OBVIOUS
    <2>2. Good(p)
      <3> HIDE DEF k, Good
      <3> QED BY <1>3, <2>1
    <2> HIDE DEF k
    <2>3. g[k] = (IF p.ok THEN ensure_file_block(p.fs, p.node, k - 1) ELSE p)
      BY <1>1, <2>1
    <2> HIDE DEF p
    <2>4. CASE ~p.ok
      <3> HIDE DEF Good
      <3>1. g[k] = p BY <2>3, <2>4
      <3> QED BY <2>1, <2>2, <3>1 DEF k
    <2>5. CASE p.ok
      <3>1. g[k] = ensure_file_block(p.fs, p.node, k - 1) BY <2>3, <2>5
      <3>2. Within(p.fs, p.node) /\ p.fs \in Image /\ p.node \in InodeType /\ BlocksCounted(p.fs)
        BY <2>2, GrewWithin DEF Grew
      <3>3. Ensured(p.fs, p.node, k - 1, g[k]) BY <2>1, <3>1, <3>2, EnsureBlock
      <3>4. Result(g[k]) /\ Grew(p.fs, p.node, g[k].fs, g[k].node) BY <3>3 DEF Ensured
      <3>5. Grew(f, node, g[k].fs, g[k].node) BY <2>2, <3>4, GrewMore
      <3>6. Good(g[k]) BY <3>4, <3>5
      <3> HIDE DEF Good
      <3> QED BY <2>1, <3>6 DEF k
    <2> QED BY <2>4, <2>5
  <1> HIDE DEF S
  <1>4. to - from \in S BY <1>2, <1>3, Induction
  <1>5. from + (to - from) = to OBVIOUS
  <1>6. Good(g[to])
    <2> HIDE DEF Good
    <2> QED BY <1>4, <1>5 DEF S
  <1> QED BY <1>1, <1>6

LEMMA WriteBlocks ==
    ASSUME NEW f \in Image, BlocksCounted(f), NEW node \in InodeType, Within(f, node),
           NEW from \in Nat, NEW to \in Nat,
           from \div BlockUnits \in Nat, blocks_of(to) \in Nat, from \div BlockUnits <= blocks_of(to)
    PROVE  LET r == write_blocks(f, node, from, to)
           IN  Result(r) /\ Grew(f, node, r.fs, r.node)
  <1> DEFINE Good(r) == Result(r) /\ Grew(f, node, r.fs, r.node)
             low == from \div BlockUnits
             high == blocks_of(to)
  <1>1. PICK g : /\ write_blocks(f, node, from, to) = g[high] /\ g[low] = Ok(f, node)
                 /\ \A k \in low + 1 .. high : g[k] = write_block(g[k - 1], k - 1, from, to)
    BY WriteLoop
  <1>0. low \in Nat /\ high \in Nat /\ low <= high OBVIOUS
  <1> HIDE DEF low, high
  <1> DEFINE S == {n \in Nat : Good(g[low + n])}
  <1>2. 0 \in S
    <2>1. Good(Ok(f, node)) BY GrewNot DEF Ok, Result
    <2>2. low + 0 = low BY <1>0
    <2> HIDE DEF Good
    <2> QED BY <1>1, <2>1, <2>2
  <1>3. ASSUME NEW n \in 0 .. (high - low) - 1, n \in S PROVE n + 1 \in S
    <2> DEFINE k == low + (n + 1)
               p == g[k - 1]
    <2>1. k \in low + 1 .. high /\ k - 1 = low + n /\ k - 1 \in Nat /\ n + 1 \in Nat
      BY <1>0
    <2>2. Good(p)
      <3> HIDE DEF k, Good
      <3> QED BY <1>3, <2>1
    <2> HIDE DEF k
    <2>3. g[k] = write_block(p, k - 1, from, to) BY <1>1, <2>1
    <2> HIDE DEF p
    <2>4. CASE ~p.ok
      <3> HIDE DEF Good
      <3>1. g[k] = p BY <2>3, <2>4 DEF write_block
      <3> QED BY <2>1, <2>2, <3>1 DEF k
    <2>5. CASE p.ok
      <3> DEFINE e == ensure_file_block(p.fs, p.node, k - 1)
                 c == copied(e, k - 1, from, to)
      <3>1. g[k] = c BY <2>3, <2>5 DEF write_block
      <3>2. Within(p.fs, p.node) /\ p.fs \in Image /\ p.node \in InodeType /\ BlocksCounted(p.fs)
        BY <2>2, GrewWithin DEF Grew
      <3>3. Ensured(p.fs, p.node, k - 1, e) BY <2>1, <3>2, EnsureBlock
      <3> HIDE DEF e
      <3>4. Result(e) /\ Grew(p.fs, p.node, e.fs, e.node) /\ e.fs \in Image
        BY <3>3 DEF Ensured, Grew
      <3>5. Grew(f, node, e.fs, e.node) BY <2>2, <3>4, GrewMore
      <3>6. Result(c) /\ c.node = e.node /\ c.fs \in Image /\ SameMaps(e.fs, c.fs)
        BY <3>4, Copied
      <3> HIDE DEF c
      <3>7. Good(c) BY <3>5, <3>6, GrewData
      <3> HIDE DEF Good
      <3> QED BY <2>1, <3>1, <3>7 DEF k
    <2> QED BY <2>4, <2>5
  <1> HIDE DEF S
  <1>4. high - low \in S BY <1>0, <1>2, <1>3, Induction
  <1>5. low + (high - low) = high BY <1>0
  <1>6. Good(g[high])
    <2> HIDE DEF Good
    <2> QED BY <1>4, <1>5 DEF S
  <1> QED BY <1>1, <1>6


-----------------------------------------------------------------------------
(* The copy is written back, or is not. *)

Others(f, h, ino) ==
    \A i \in f.inode_bitmap \ {ino} :
        h.inode[i] = f.inode[i] /\ \A k \in Slots : at(h, i, k) = at(f, i, k)

SameBlocks(f, g) ==
    /\ g.block_bitmap = f.block_bitmap /\ g.free_blocks_count = f.free_blocks_count
    /\ g.indirect = f.indirect /\ g.entries = f.entries

LEMMA InodeWritten ==
    ASSUME NEW g \in Image, NEW ino \in Inodes, NEW n \in InodeType
    PROVE  LET h == write_inode(g, ino, n)
           IN  /\ h \in Image /\ h.inode = [g.inode EXCEPT ![ino] = n] /\ h.inode[ino] = n
               /\ \A i \in Inodes \ {ino} : h.inode[i] = g.inode[i]
               /\ h.block_bitmap = g.block_bitmap /\ h.free_blocks_count = g.free_blocks_count
               /\ h.inode_bitmap = g.inode_bitmap /\ h.free_inodes_count = g.free_inodes_count
               /\ h.used_dirs_count = g.used_dirs_count
               /\ h.indirect = g.indirect /\ h.entries = g.entries
  <1> DEFINE h == write_inode(g, ino, n)
  <1>1. g.inode \in [Inodes -> InodeType] BY Fields
  <1>2. h = [g EXCEPT !.inode = [g.inode EXCEPT ![ino] = n]] BY DEF write_inode, Image
  <1>3. [g.inode EXCEPT ![ino] = n] \in [Inodes -> InodeType] BY <1>1
  <1> HIDE DEF h
  <1>4. /\ h \in Image /\ h.inode = [g.inode EXCEPT ![ino] = n]
        /\ h.block_bitmap = g.block_bitmap /\ h.free_blocks_count = g.free_blocks_count
        /\ h.inode_bitmap = g.inode_bitmap /\ h.free_inodes_count = g.free_inodes_count
        /\ h.used_dirs_count = g.used_dirs_count
        /\ h.indirect = g.indirect /\ h.entries = g.entries
    BY <1>2, <1>3 DEF Image
  <1>5. h.inode[ino] = n /\ \A i \in Inodes \ {ino} : h.inode[i] = g.inode[i]
    BY <1>1, <1>4
  <1> QED BY <1>4, <1>5 DEF h

InodeSet(g, ino, n, h) ==
    /\ h \in Image /\ h.inode[ino] = n /\ \A i \in Inodes \ {ino} : h.inode[i] = g.inode[i]
    /\ SameBlocks(g, h) /\ h.inode_bitmap = g.inode_bitmap
    /\ h.free_inodes_count = g.free_inodes_count /\ h.used_dirs_count = g.used_dirs_count

LEMMA InodeIsSet ==
    ASSUME NEW g \in Image, NEW ino \in Inodes, NEW n \in InodeType
    PROVE  InodeSet(g, ino, n, write_inode(g, ino, n))
  <1> DEFINE h == write_inode(g, ino, n)
  <1>1. /\ h \in Image /\ h.inode = [g.inode EXCEPT ![ino] = n] /\ h.inode[ino] = n
        /\ \A i \in Inodes \ {ino} : h.inode[i] = g.inode[i]
        /\ h.block_bitmap = g.block_bitmap /\ h.free_blocks_count = g.free_blocks_count
        /\ h.inode_bitmap = g.inode_bitmap /\ h.free_inodes_count = g.free_inodes_count
        /\ h.used_dirs_count = g.used_dirs_count
        /\ h.indirect = g.indirect /\ h.entries = g.entries
    BY InodeWritten
  <1> HIDE DEF h
  <1>2. InodeSet(g, ino, n, h) BY <1>1 DEF InodeSet, SameBlocks
  <1> QED BY <1>2 DEF h

(* The inode as it was before its copy grew. *)
LEMMA StaleSlots ==
    ASSUME NEW f, NEW node, NEW g, NEW n, Grew(f, node, g, n), NEW k \in Slots
    PROVE  slot(g, node, k) = 0 \/ slot(g, node, k) = slot(g, n, k)
  <1>1. CASE k <= DirectBlocks
    BY <1>1 DEF slot, Grew
  <1>2. CASE ~(k <= DirectBlocks) /\ node.block[DirectBlocks] = 0
    BY <1>2 DEF slot
  <1>3. CASE ~(k <= DirectBlocks) /\ node.block[DirectBlocks] # 0
    BY <1>3, TableSlot DEF Grew, slot
  <1> QED BY <1>1, <1>2, <1>3

LEMMA Rewritten ==
    ASSUME NEW f \in Image, Owned(f), NEW ino \in f.inode_bitmap, NEW node \in InodeType,
           node.block = f.inode[ino].block, NEW g, NEW n, Grew(f, node, g, n),
           NEW m \in InodeType, m.block = node.block \/ m.block = n.block
    PROVE  LET h == write_inode(g, ino, m)
           IN  /\ h \in Image /\ Owned(h) /\ BlocksCounted(h) /\ Others(f, h, ino)
               /\ h.inode[ino] = m /\ \A k \in Slots : at(h, ino, k) = slot(g, m, k)
               /\ h.inode_bitmap = f.inode_bitmap /\ h.free_inodes_count = f.free_inodes_count
               /\ h.used_dirs_count = f.used_dirs_count
               /\ h.block_bitmap = g.block_bitmap /\ h.indirect = g.indirect /\ h.entries = g.entries
  <1> DEFINE h == write_inode(g, ino, m)
             live == f.inode_bitmap
  <1>0. g \in Image /\ live \in SUBSET Inodes /\ ino \in Inodes /\ SameInodes(f, g)
        /\ f.inode \in [Inodes -> InodeType]
    BY Fields DEF Grew
  <1>1. /\ h \in Image /\ h.inode = [g.inode EXCEPT ![ino] = m] /\ h.inode[ino] = m
        /\ \A i \in Inodes \ {ino} : h.inode[i] = f.inode[i]
        /\ h.block_bitmap = g.block_bitmap /\ h.free_blocks_count = g.free_blocks_count
        /\ h.inode_bitmap = live /\ h.free_inodes_count = f.free_inodes_count
        /\ h.used_dirs_count = f.used_dirs_count
        /\ h.indirect = g.indirect /\ h.entries = g.entries
    BY <1>0, InodeWritten DEF SameInodes
  <1> HIDE DEF h
  <1>2. BlocksCounted(h) BY <1>1 DEF Grew, BlocksCounted
  <1>3. /\ \A k \in Slots : at(f, ino, k) = slot(f, node, k)
        /\ \A k \in Slots : at(h, ino, k) = slot(g, m, k)
    BY <1>1, SameSlots DEF at, slot
  <1>4. \A k \in Slots : at(h, ino, k) = 0 \/ at(h, ino, k) = slot(g, n, k)
    <2>1. CASE m.block = node.block
      BY <2>1, <1>3, StaleSlots DEF slot
    <2>2. CASE m.block = n.block
      BY <2>2, <1>3 DEF slot
    <2> QED BY <2>1, <2>2
  <1>5. ASSUME NEW i \in live \ {ino}, NEW k \in Slots PROVE at(h, i, k) = at(f, i, k)
    <2>1. h.inode[i] = f.inode[i] /\ f.inode[i] \in InodeType BY <1>0, <1>1
    <2> DEFINE t == f.inode[i].block[DirectBlocks]
    <2>2. CASE t = 0 \/ k <= DirectBlocks
      BY <2>1, <2>2 DEF at, slot
    <2>3. CASE t # 0 /\ ~(k <= DirectBlocks)
      <3>1. t \in f.block_bitmap BY <2>3, TableSlot DEF Owned, at
      <3>2. t # node.block[DirectBlocks] BY <1>3, TableSlot, <2>3 DEF at, Owned
      <3>3. h.indirect[t] = f.indirect[t] BY <1>1, <3>1, <3>2 DEF Grew
      <3> QED BY <2>1, <2>3, <3>3 DEF at, slot
    <2> QED BY <2>2, <2>3
  <1>6. Others(f, h, ino) BY <1>0, <1>1, <1>5 DEF Others
  <1>7. 0 \notin f.block_bitmap /\ 0 \notin Fresh(f, g)
    BY <1>0, Fields, Dimensions DEF Fresh
  <1>8. ASSUME NEW k \in Slots, at(h, ino, k) # 0
        PROVE  \/ at(h, ino, k) = at(f, ino, k)
               \/ at(h, ino, k) \in Fresh(f, g)
    BY <1>4, <1>8, <1>3 DEF Grew
  <1>9. ASSUME NEW i \in live, NEW k \in Slots, at(h, i, k) # 0
        PROVE  at(h, i, k) \in h.block_bitmap
    BY <1>1, <1>5, <1>8, <1>9 DEF Grew, Fresh, Owned
  <1>10. ASSUME NEW i \in live, NEW j \in live, NEW k \in Slots, NEW l \in Slots,
                at(h, i, k) # 0, at(h, i, k) = at(h, j, l)
         PROVE  i = j /\ k = l
    <2>1. ASSUME NEW a \in live, NEW x \in Slots, at(h, a, x) # 0
          PROVE  at(h, a, x) \notin Fresh(f, g) => at(h, a, x) = at(f, a, x)
      BY <1>5, <1>8, <2>1
    <2>2. CASE at(h, i, k) \in Fresh(f, g)
      BY <1>7, <1>5, <1>10, <2>2, <1>4 DEF Owned, Fresh, Grew
    <2>3. CASE at(h, i, k) \notin Fresh(f, g)
      <3>1. at(h, i, k) = at(f, i, k) /\ at(h, j, l) = at(f, j, l) BY <1>10, <2>1, <2>3
      <3>2. at(f, i, k) # 0 /\ at(f, i, k) = at(f, j, l) BY <1>10, <3>1
      <3> HIDE DEF live
      <3> QED BY <3>2 DEF Owned, live
    <2> QED BY <2>2, <2>3
  <1>11. Owned(h) BY <1>1, <1>9, <1>10 DEF Owned
  <1> QED BY <1>1, <1>2, <1>3, <1>6, <1>11 DEF h


-----------------------------------------------------------------------------
(* free_inode_blocks. *)

keeps(k, keep) == IF k = DirectBlocks THEN keep > DirectBlocks
                  ELSE IF k < DirectBlocks THEN k < keep ELSE k - 1 < keep

Dropped(f, node, keep) == {slot(f, node, k) : k \in {k \in Slots : ~keeps(k, keep)}} \ {0}

LEMMA FreedBlocks ==
    ASSUME NEW f \in Image, Owned(f), BlocksCounted(f), NEW ino \in f.inode_bitmap, NEW keep \in Nat
    PROVE  LET node == f.inode[ino]
               r == free_inode_blocks(f, node, keep)
               g == r.fs
               n == r.node
           IN  /\ Result(r) /\ r.ok /\ g \in Image /\ BlocksCounted(g) /\ SameInodes(f, g)
               /\ n \in InodeType /\ n.mode = node.mode /\ n.size = node.size /\ n.links = node.links
               /\ exact(g, n) /\ g.entries = f.entries
               /\ g.block_bitmap = f.block_bitmap \ Dropped(f, node, keep)
               /\ \A k \in Slots : slot(g, n, k) = IF keeps(k, keep) THEN slot(f, node, k) ELSE 0
               /\ \A i \in f.inode_bitmap \ {ino} : \A k \in Slots : slot(g, f.inode[i], k) = at(f, i, k)
  <1> DEFINE node == f.inode[ino]
             r == free_inode_blocks(f, node, keep)
             table == node.block[DirectBlocks]
             ik == IF keep > DirectBlocks THEN keep - DirectBlocks ELSE 0
             direct == {node.block[i] : i \in keep .. DirectBlocks - 1} \ {0}
             indirect == IF table = 0 THEN {}
                         ELSE {f.indirect[table][i] : i \in ik .. PerIndirect - 1} \ {0}
             freed == direct \cup indirect
                      \cup (IF table # 0 /\ keep <= DirectBlocks THEN {table} ELSE {})
             row == [i \in 0 .. PerIndirect - 1 |-> IF i >= ik THEN 0 ELSE f.indirect[table][i]]
             cleared == IF table = 0 THEN f ELSE [f EXCEPT !.indirect[table] = row]
             left == [cleared EXCEPT
                        !.block_bitmap = @ \ freed,
                        !.free_blocks_count = @ + Cardinality(freed \cap f.block_bitmap)]
             map == [i \in 0 .. DirectBlocks |->
                       IF i >= keep /\ (i < DirectBlocks \/ keep <= DirectBlocks)
                       THEN 0 ELSE node.block[i]]
             held == [node EXCEPT !.block = map]
  <1>0. /\ f.inode_bitmap \in SUBSET Inodes /\ f.inode \in [Inodes -> InodeType]
        /\ f.indirect \in [Blocks -> Table] /\ f.block_bitmap \in SUBSET Blocks
        /\ IsFiniteSet(f.block_bitmap) /\ f.free_blocks_count \in Nat
    BY Fields
  <1>1. node \in InodeType BY <1>0
  <1>2. node.block \in [0 .. DirectBlocks -> Blocks \cup {0}] BY <1>1 DEF InodeType
  <1>3. r = Ok(left, update_inode_block_count(left, held)) BY DEF free_inode_blocks
  <1> HIDE DEF r, node
  <1>4. table \in Blocks \cup {0} /\ (table # 0 => f.indirect[table] \in Table) /\ ik \in Nat
    <2>1. DirectBlocks \in 0 .. DirectBlocks /\ ik \in Nat BY Dimensions
    <2>2. table \in Blocks \cup {0} BY <1>2, <2>1
    <2> QED BY <1>0, <2>1, <2>2
  <1>5. map \in [0 .. DirectBlocks -> Blocks \cup {0}] /\ (table # 0 => row \in Table)
    BY <1>2, <1>4 DEF Table
  <1>6. freed = Dropped(f, node, keep)
    <2>1. ASSUME NEW b \in freed PROVE b \in Dropped(f, node, keep)
      <3>1. CASE b \in direct
        <4>1. PICK i \in keep .. DirectBlocks - 1 : b = node.block[i] /\ b # 0
          BY <3>1
        <4>2. i \in Slots /\ ~keeps(i, keep) /\ slot(f, node, i) = b
          BY <4>1, Dimensions DEF Slots, keeps, slot
        <4> QED BY <4>1, <4>2 DEF Dropped
      <3>2. CASE b \in indirect
        <4>1. table # 0 BY <3>2
        <4>2. PICK i \in ik .. PerIndirect - 1 : b = f.indirect[table][i] /\ b # 0
          BY <3>2, <4>1
        <4>3. /\ i + DirectBlocks + 1 \in Slots /\ ~(i + DirectBlocks + 1 <= DirectBlocks)
              /\ (i + DirectBlocks + 1) - DirectBlocks - 1 = i
              /\ ~keeps(i + DirectBlocks + 1, keep)
          BY <1>4, Dimensions DEF Slots, keeps
        <4>4. slot(f, node, i + DirectBlocks + 1) = b BY <4>1, <4>2, <4>3 DEF slot
        <4> QED BY <4>2, <4>3, <4>4 DEF Dropped
      <3>3. CASE b \notin direct /\ b \notin indirect
        BY <3>3, TableSlot, Dimensions DEF keeps, Dropped
      <3> QED BY <3>1, <3>2, <3>3
    <2>2. ASSUME NEW k \in Slots, ~keeps(k, keep), slot(f, node, k) # 0 PROVE slot(f, node, k) \in freed
      <3>0. k \in Nat /\ k <= MaxBlocks BY Dimensions DEF Slots
      <3>1. CASE k < DirectBlocks
        BY <2>2, <3>0, <3>1, Dimensions DEF keeps, slot
      <3>2. CASE k = DirectBlocks
        BY <2>2, <3>2, TableSlot, Dimensions DEF keeps
      <3>3. CASE k > DirectBlocks
        BY <2>2, <3>0, <3>3, Dimensions DEF keeps, slot
      <3> QED BY <3>0, <3>1, <3>2, <3>3, Dimensions
    <2> HIDE DEF freed
    <2> QED BY <2>1, <2>2 DEF Dropped
  <1>7. freed \subseteq f.block_bitmap
    <2>1. \A k \in Slots : slot(f, node, k) # 0 => slot(f, node, k) \in f.block_bitmap
      BY DEF Owned, at, node
    <2> HIDE DEF freed
    <2> QED BY <1>6, <2>1 DEF Dropped
  <1> HIDE DEF freed, row, map
  <1>8. /\ left.block_bitmap = f.block_bitmap \ freed
        /\ left.free_blocks_count = f.free_blocks_count + Cardinality(freed)
        /\ left.entries = f.entries /\ SameInodes(f, left)
        /\ left.indirect = (IF table = 0 THEN f.indirect ELSE [f.indirect EXCEPT ![table] = row])
        /\ left \in Image
    <2>1. freed \cap f.block_bitmap = freed /\ IsFiniteSet(freed) BY <1>0, <1>7, FS_Subset
    <2>2. Cardinality(freed) \in Nat BY <2>1, FS_CardinalityType
    <2>3. CASE table = 0
      <3>1. left = [f EXCEPT !.block_bitmap = @ \ freed, !.free_blocks_count = @ + Cardinality(freed)]
        BY <2>1, <2>3
      <3>2. f.block_bitmap \ freed \in SUBSET Blocks /\ f.free_blocks_count + Cardinality(freed) \in Nat
        BY <1>0, <2>2
      <3> HIDE DEF left
      <3> QED BY <2>3, <3>1, <3>2 DEF Image, SameInodes
    <2>4. CASE table # 0
      <3> DEFINE ind == [f.indirect EXCEPT ![table] = row]
      <3>1. [f EXCEPT !.indirect[table] = row] = [f EXCEPT !.indirect = ind] BY DEF Image
      <3>2. left = [f EXCEPT !.indirect = ind, !.block_bitmap = f.block_bitmap \ freed,
                             !.free_blocks_count = f.free_blocks_count + Cardinality(freed)]
        <4>1. cleared = [f EXCEPT !.indirect = ind] BY <2>4, <3>1
        <4> HIDE DEF cleared
        <4> QED BY <2>1, <4>1 DEF Image
      <3>3. /\ f.block_bitmap \ freed \in SUBSET Blocks /\ f.free_blocks_count + Cardinality(freed) \in Nat
            /\ ind \in [Blocks -> Table]
        <4>1. f.block_bitmap \ freed \in SUBSET Blocks /\ f.free_blocks_count + Cardinality(freed) \in Nat
          BY <1>0, <2>2
        <4>2. row \in Table BY <1>5, <2>4
        <4> HIDE DEF table
        <4>3. ind \in [Blocks -> Table] BY <1>0, <4>2
        <4> QED BY <4>1, <4>3
      <3> HIDE DEF left, ind
      <3>4. /\ left.block_bitmap = f.block_bitmap \ freed
            /\ left.free_blocks_count = f.free_blocks_count + Cardinality(freed)
            /\ left.entries = f.entries /\ SameInodes(f, left)
            /\ left.indirect = ind
            /\ left \in Image
        BY <3>2, <3>3 DEF Image, SameInodes
      <3> QED BY <2>4, <3>4 DEF ind
    <2> QED BY <2>3, <2>4
  <1> HIDE DEF left
  <1>9. BlocksCounted(left)
    <2>1. Blocks \ left.block_bitmap = (Blocks \ f.block_bitmap) \cup freed
      BY <1>0, <1>7, <1>8
    <2>2. (Blocks \ f.block_bitmap) \cap freed = {} BY <1>7
    <2>3. IsFiniteSet(freed) /\ IsFiniteSet(Blocks \ f.block_bitmap)
      BY <1>0, <1>7, Dimensions, FS_Subset, FS_Difference
    <2>4. Cardinality((Blocks \ f.block_bitmap) \cup freed)
            = Cardinality(Blocks \ f.block_bitmap) + Cardinality(freed) - Cardinality({})
      BY <2>2, <2>3, FS_Union
    <2>5. Cardinality({}) = 0 /\ Cardinality(freed) \in Nat /\ Cardinality(Blocks \ f.block_bitmap) \in Nat
      BY <2>3, FS_EmptySet, FS_CardinalityType
    <2>6. Cardinality(Blocks \ left.block_bitmap) = Cardinality(Blocks \ f.block_bitmap) + Cardinality(freed)
      <3> DEFINE a == Cardinality(Blocks \ f.block_bitmap)
                 b == Cardinality(freed)
                 c == Cardinality((Blocks \ f.block_bitmap) \cup freed)
      <3>1. c = a + b - Cardinality({}) /\ Cardinality({}) = 0 /\ a \in Nat /\ b \in Nat
        BY <2>4, <2>5
      <3>2. Cardinality(Blocks \ left.block_bitmap) = c BY <2>1, Zenon
      <3> HIDE DEF a, b, c
      <3>3. c = a + b BY <3>1
      <3> QED BY <3>2, <3>3 DEF a, b
    <2>7. left.free_blocks_count = f.free_blocks_count + Cardinality(freed) BY <1>8
    <2> QED BY <2>6, <2>7 DEF BlocksCounted
  <1>10. /\ held \in InodeType /\ held.block = map /\ held.mode = node.mode
         /\ held.size = node.size /\ held.links = node.links
    BY <1>1, <1>5 DEF InodeType
  <1> HIDE DEF held
  <1>11. ASSUME NEW k \in Slots
         PROVE  slot(left, held, k) = IF keeps(k, keep) THEN slot(f, node, k) ELSE 0
    <2>0. k \in Nat /\ k <= MaxBlocks BY Dimensions DEF Slots
    <2>1. CASE k <= DirectBlocks
      BY <1>10, <2>0, <2>1, Dimensions DEF slot, keeps, map
    <2>2. CASE ~(k <= DirectBlocks)
      <3> DEFINE j == k - DirectBlocks - 1
      <3>1. j \in 0 .. PerIndirect - 1 /\ DirectBlocks \in 0 .. DirectBlocks
        BY <2>0, <2>2, Dimensions
      <3>2. map[DirectBlocks] = IF keep <= DirectBlocks THEN 0 ELSE table
        BY <3>1, Dimensions DEF map
      <3>3. CASE keep <= DirectBlocks
        BY <2>0, <2>2, <3>3, Dimensions, <1>10, <3>2 DEF keeps, slot
      <3>4. CASE ~(keep <= DirectBlocks) /\ table = 0
        BY <1>10, <2>2, <3>2, <3>4 DEF slot
      <3>5. CASE ~(keep <= DirectBlocks) /\ table # 0
        BY <1>10, <2>2, <3>2, <3>5, <1>0, <1>4, <1>8, <2>0, Dimensions, <3>1 DEF slot, keeps, row
      <3> QED BY <3>3, <3>4, <3>5
    <2> QED BY <2>1, <2>2
  <1>12. ASSUME NEW i \in f.inode_bitmap \ {ino}, NEW k \in Slots
         PROVE  slot(left, f.inode[i], k) = at(f, i, k)
    <2> DEFINE t == f.inode[i].block[DirectBlocks]
    <2>1. CASE t = 0 \/ k <= DirectBlocks
      BY <2>1 DEF at, slot
    <2>2. CASE t # 0 /\ ~(k <= DirectBlocks)
      <3>1. t # table BY TableSlot, <2>2 DEF at, node, Owned
      <3>2. t \in Blocks BY <2>2, TableSlot, <1>0 DEF Owned, at
      <3>3. left.indirect[t] = f.indirect[t] BY <1>0, <1>8, <3>1, <3>2
      <3> QED BY <2>2, <3>3 DEF at, slot
    <2> QED BY <2>1, <2>2
  <1> DEFINE n == update_inode_block_count(left, held)
  <1>13. /\ n \in InodeType /\ n.mode = held.mode
         /\ n.size = held.size /\ n.links = held.links /\ exact(left, n)
         /\ \A k \in Slots : slot(left, n, k) = slot(left, held, k)
    BY <1>8, <1>10, Recounted
  <1> HIDE DEF n
  <1>14. r.fs = left /\ r.node = n /\ r.ok /\ Result(r) BY <1>3 DEF Ok, Result, n
  <1>15. /\ Result(r) /\ r.ok /\ r.fs \in Image /\ BlocksCounted(r.fs) /\ SameInodes(f, r.fs)
         /\ r.node \in InodeType /\ r.node.mode = node.mode /\ r.node.size = node.size /\ r.node.links = node.links
         /\ exact(r.fs, r.node) /\ r.fs.entries = f.entries
         /\ r.fs.block_bitmap = f.block_bitmap \ Dropped(f, node, keep)
         /\ \A k \in Slots : slot(r.fs, r.node, k) = IF keeps(k, keep) THEN slot(f, node, k) ELSE 0
         /\ \A i \in f.inode_bitmap \ {ino} : \A k \in Slots : slot(r.fs, f.inode[i], k) = at(f, i, k)
    BY <1>6, <1>8, <1>9, <1>10, <1>11, <1>12, <1>13, <1>14
  <1> QED BY <1>15 DEF r, node


-----------------------------------------------------------------------------
(* What changes when the map of one inode does. *)

Touched(f, h, ino) ==
    /\ h \in Image /\ Owned(h) /\ BlocksCounted(h) /\ Others(f, h, ino)
    /\ h.inode_bitmap = f.inode_bitmap /\ h.free_inodes_count = f.free_inodes_count
    /\ h.used_dirs_count = f.used_dirs_count
    /\ h.inode[ino].mode = f.inode[ino].mode /\ h.inode[ino].links = f.inode[ino].links
    /\ \A i \in f.inode_bitmap \ {ino} : \A k \in Slots :
          at(f, i, k) # 0 => h.entries[at(f, i, k)] = f.entries[at(f, i, k)]

LEMMA SameInodeWritten ==
    ASSUME NEW g \in Image, NEW ino \in Inodes
    PROVE  write_inode(g, ino, g.inode[ino]) = g
  <1>1. g.inode \in [Inodes -> InodeType] BY Fields
  <1>2. [g.inode EXCEPT ![ino] = g.inode[ino]] = g.inode BY <1>1
  <1>3. write_inode(g, ino, g.inode[ino]) = [g EXCEPT !.inode = [g.inode EXCEPT ![ino] = g.inode[ino]]]
    BY DEF write_inode, Image
  <1>4. [g EXCEPT !.inode = g.inode] = g BY DEF Image
  <1> QED BY <1>2, <1>3, <1>4

LEMMA AccountedIf ==
    ASSUME NEW f \in Image, NEW h \in Image, NEW ino, Others(f, h, ino), Accounted(f),
           h.inode_bitmap = f.inode_bitmap, ino \in f.inode_bitmap => exact(h, h.inode[ino]),
           \A b \in h.block_bitmap :
              \/ ino \in f.inode_bitmap /\ \E k \in Slots : at(h, ino, k) = b
              \/ b \in f.block_bitmap /\ \A k \in Slots : ino \in f.inode_bitmap => at(f, ino, k) # b
    PROVE  Accounted(h)
  <1>0. f.inode \in [Inodes -> InodeType] /\ h.inode \in [Inodes -> InodeType] /\ f.inode_bitmap \in SUBSET Inodes
    BY Fields
  <1>1. ASSUME NEW b \in h.block_bitmap
        PROVE  \E i \in h.inode_bitmap, k \in Slots : at(h, i, k) = b
    <2>1. CASE ino \in f.inode_bitmap /\ \E k \in Slots : at(h, ino, k) = b
      BY <2>1
    <2>2. CASE b \in f.block_bitmap /\ \A k \in Slots : ino \in f.inode_bitmap => at(f, ino, k) # b
      <3>1. PICK i \in f.inode_bitmap, k \in Slots : at(f, i, k) = b
        BY <2>2 DEF Accounted
      <3>2. i # ino BY <2>2, <3>1
      <3>3. at(h, i, k) = b BY <3>1, <3>2 DEF Others
      <3> QED BY <3>1, <3>3
    <2> QED BY <2>1, <2>2
  <1>2. ASSUME NEW i \in f.inode_bitmap PROVE exact(h, h.inode[i])
    <2>1. CASE i = ino
      BY <2>1
    <2>2. CASE i # ino
      <3>1. h.inode[i] = f.inode[i] /\ f.inode[i] \in InodeType BY <1>0, <2>2 DEF Others
      <3>2. taken(h, f.inode[i]) = taken(f, f.inode[i])
        BY <2>2, <3>1 DEF Others, at, taken
      <3>3. exact(f, f.inode[i]) BY DEF Accounted
      <3> QED BY <3>1, <3>2, <3>3, AllocatedIs DEF exact
    <2> QED BY <2>1, <2>2
  <1> QED BY <1>1, <1>2 DEF Accounted

(* The copy that grew is written back, with whatever size. *)
LEMMA GrownTouched ==
    ASSUME NEW f \in Image, Owned(f), NEW ino \in f.inode_bitmap, NEW node \in InodeType,
           node.block = f.inode[ino].block, NEW g, NEW n, Grew(f, node, g, n),
           NEW m \in InodeType, m.block = node.block \/ m.block = n.block,
           m.mode = f.inode[ino].mode, m.links = f.inode[ino].links
    PROVE  LET h == write_inode(g, ino, m)
           IN  /\ Touched(f, h, ino)
               /\ m.block = n.block /\ exact(g, m) /\ Accounted(f) => Accounted(h)
  <1> DEFINE h == write_inode(g, ino, m)
  <1>1. /\ h \in Image /\ Owned(h) /\ BlocksCounted(h) /\ Others(f, h, ino)
        /\ h.inode[ino] = m /\ \A k \in Slots : at(h, ino, k) = slot(g, m, k)
        /\ h.inode_bitmap = f.inode_bitmap /\ h.free_inodes_count = f.free_inodes_count
        /\ h.used_dirs_count = f.used_dirs_count
        /\ h.block_bitmap = g.block_bitmap /\ h.indirect = g.indirect /\ h.entries = g.entries
    BY Rewritten
  <1> HIDE DEF h
  <1>2. ASSUME NEW i \in f.inode_bitmap \ {ino}, NEW k \in Slots, at(f, i, k) # 0
        PROVE  h.entries[at(f, i, k)] = f.entries[at(f, i, k)]
    BY <1>2, <1>1 DEF Owned, Grew
  <1>3. Touched(f, h, ino) BY <1>1, <1>2 DEF Touched
  <1>4. ASSUME m.block = n.block, exact(g, m), Accounted(f) PROVE Accounted(h)
    <2>1. exact(h, h.inode[ino]) BY <1>1, <1>4, SameSlots DEF exact
    <2>2. \A k \in Slots : at(h, ino, k) = slot(g, n, k) /\ at(f, ino, k) = slot(f, node, k)
      BY <1>1, <1>4 DEF at, slot
    <2>3. ASSUME NEW b \in h.block_bitmap
          PROVE  \/ \E k \in Slots : at(h, ino, k) = b
                 \/ b \in f.block_bitmap /\ \A k \in Slots : at(f, ino, k) # b
      <3>0. b # 0 BY <1>1, Fields, Dimensions
      <3>1. CASE b \in f.block_bitmap
        BY <2>2, <3>0, <3>1 DEF Grew
      <3>2. CASE b \notin f.block_bitmap
        <4>1. b \in Fresh(f, g) BY <1>1, <3>2 DEF Fresh
        <4> QED BY <2>2, <4>1 DEF Grew
      <3> QED BY <3>1, <3>2
    <2> QED BY <1>1, <1>4, <2>1, <2>3, AccountedIf
  <1> QED BY <1>3, <1>4 DEF h

(* And so is the one that lost blocks. *)
LEMMA ShrunkTouched ==
    ASSUME NEW f \in Image, Owned(f), BlocksCounted(f), NEW ino \in f.inode_bitmap, NEW keep \in Nat,
           NEW g \in Image, SameMaps(free_inode_blocks(f, f.inode[ino], keep).fs, g),
           NEW m \in InodeType, m.block = free_inode_blocks(f, f.inode[ino], keep).node.block,
           m.mode = f.inode[ino].mode, m.links = f.inode[ino].links
    PROVE  LET h == write_inode(g, ino, m)
           IN  /\ Touched(f, h, ino)
               /\ exact(g, m) /\ Accounted(f) => Accounted(h)
  <1> DEFINE h == write_inode(g, ino, m)
             node == f.inode[ino]
             r == free_inode_blocks(f, node, keep)
  <1>1. /\ r.fs \in Image /\ BlocksCounted(r.fs) /\ SameInodes(f, r.fs) /\ r.fs.entries = f.entries
        /\ r.fs.block_bitmap = f.block_bitmap \ Dropped(f, node, keep)
        /\ \A k \in Slots : slot(r.fs, r.node, k) = IF keeps(k, keep) THEN slot(f, node, k) ELSE 0
        /\ \A i \in f.inode_bitmap \ {ino} : \A k \in Slots : slot(r.fs, f.inode[i], k) = at(f, i, k)
    BY FreedBlocks
  <1>2. SameMaps(r.fs, g) /\ m.block = r.node.block OBVIOUS
  <1> HIDE DEF r
  <1>3. /\ BlocksCounted(g) /\ SameInodes(f, g) /\ g.entries = f.entries
        /\ g.block_bitmap = f.block_bitmap \ Dropped(f, node, keep) /\ g.indirect = r.fs.indirect
    BY <1>1, <1>2, SMTT(30) DEF SameMaps, BlocksCounted, SameInodes
  <1>4. /\ \A k \in Slots : slot(g, m, k) = IF keeps(k, keep) THEN at(f, ino, k) ELSE 0
        /\ \A i \in f.inode_bitmap \ {ino} : \A k \in Slots : slot(g, f.inode[i], k) = at(f, i, k)
    BY <1>2, <1>3, SameSlots, <1>1 DEF slot, at
  <1>5. ino \in Inodes /\ f.inode_bitmap \in SUBSET Inodes BY Fields
  <1>6. /\ h \in Image /\ h.inode[ino] = m
        /\ \A i \in Inodes \ {ino} : h.inode[i] = f.inode[i]
        /\ h.block_bitmap = g.block_bitmap /\ h.free_blocks_count = g.free_blocks_count
        /\ h.inode_bitmap = f.inode_bitmap /\ h.free_inodes_count = f.free_inodes_count
        /\ h.used_dirs_count = f.used_dirs_count
        /\ h.indirect = g.indirect /\ h.entries = f.entries
    <2>1. /\ h \in Image /\ h.inode = [g.inode EXCEPT ![ino] = m] /\ h.inode[ino] = m
          /\ \A i \in Inodes \ {ino} : h.inode[i] = g.inode[i]
          /\ h.block_bitmap = g.block_bitmap /\ h.free_blocks_count = g.free_blocks_count
          /\ h.inode_bitmap = g.inode_bitmap /\ h.free_inodes_count = g.free_inodes_count
          /\ h.used_dirs_count = g.used_dirs_count
          /\ h.indirect = g.indirect /\ h.entries = g.entries
      BY <1>5, InodeWritten, Zenon
    <2> HIDE DEF h
    <2> QED BY <1>3, <2>1 DEF SameInodes
  <1> HIDE DEF h
  <1>7. /\ \A k \in Slots : at(h, ino, k) = IF keeps(k, keep) THEN at(f, ino, k) ELSE 0
        /\ \A i \in f.inode_bitmap \ {ino} : \A k \in Slots : at(h, i, k) = at(f, i, k)
    BY <1>6, SameSlots, <1>5, <1>4, SMTT(30) DEF at
  <1>8. ASSUME NEW i \in f.inode_bitmap, NEW k \in Slots, at(h, i, k) # 0
        PROVE  at(h, i, k) = at(f, i, k) /\ (i = ino => keeps(k, keep))
    BY <1>7, <1>8
  <1>9. ASSUME NEW i \in f.inode_bitmap, NEW k \in Slots, at(h, i, k) # 0
        PROVE  at(h, i, k) \in h.block_bitmap
    <2>1. at(f, i, k) \in f.block_bitmap /\ at(f, i, k) # 0 BY <1>8, <1>9 DEF Owned
    <2>2. ASSUME NEW l \in Slots, ~keeps(l, keep), slot(f, node, l) = at(f, i, k) PROVE FALSE
      BY <2>2, <2>1, <1>8, <1>9 DEF at, Owned
    <2>3. at(f, i, k) \notin Dropped(f, node, keep) BY <2>2 DEF Dropped
    <2> QED BY <1>3, <1>6, <1>8, <1>9, <2>1, <2>3
  <1>10. Owned(h)
    <2>1. ASSUME NEW i \in f.inode_bitmap, NEW j \in f.inode_bitmap, NEW k \in Slots, NEW l \in Slots,
                 at(h, i, k) # 0, at(h, i, k) = at(h, j, l)
          PROVE  i = j /\ k = l
      BY <1>8, <2>1 DEF Owned
    <2> QED BY <1>6, <1>9, <2>1 DEF Owned
  <1>11. BlocksCounted(h) /\ Others(f, h, ino)
    BY <1>3, <1>6, <1>5, <1>7 DEF BlocksCounted, Others
  <1>12. Touched(f, h, ino) BY <1>6, <1>10, <1>11 DEF Touched
  <1>13. ASSUME exact(g, m), Accounted(f) PROVE Accounted(h)
    <2>1. exact(h, h.inode[ino]) BY <1>6, <1>13, SameSlots DEF exact
    <2>2. ASSUME NEW b \in h.block_bitmap
          PROVE  \/ \E k \in Slots : at(h, ino, k) = b
                 \/ b \in f.block_bitmap /\ \A k \in Slots : at(f, ino, k) # b
      <3>1. b \in f.block_bitmap /\ b \notin Dropped(f, node, keep) /\ b # 0
        BY Fields, <1>3, <1>6, Dimensions
      <3>2. ASSUME NEW k \in Slots, at(f, ino, k) = b PROVE at(h, ino, k) = b
        BY <3>1, <3>2, <1>7 DEF Dropped, at
      <3> QED BY <3>1, <3>2
    <2> QED BY <1>6, <1>11, <1>13, <2>1, <2>2, AccountedIf
  <1> QED BY <1>12, <1>13 DEF h


-----------------------------------------------------------------------------
(* Sizes and blocks. *)

LEMMA BlocksOf ==
    /\ \A size \in Nat : blocks_of(size) \in Nat
    /\ \A n \in Nat : n * BlockUnits \in Nat /\ blocks_of(n * BlockUnits) = n
    /\ \A from, to \in Nat : from <= to =>
          from \div BlockUnits \in Nat /\ from \div BlockUnits <= blocks_of(to)
  <1> DEFINE U == BlockUnits
  <1>0. U \in Nat \ {0} BY Dimensions
  <1>1. ASSUME NEW size \in Nat
        PROVE  blocks_of(size) \in Nat /\ size <= blocks_of(size) * U
    <2> DEFINE n == size + U - 1
               q == n \div U
    <2>1. n \in Nat /\ n = size + U - 1 BY <1>0
    <2> HIDE DEF n
    <2>2. q \in Nat /\ n % U \in 0 .. U - 1 /\ n = q * U + (n % U) BY <1>0, <2>1, DivMod
    <2>3. blocks_of(size) = q BY DEF blocks_of, n
    <2> HIDE DEF q, U
    <2>4. q * U \in Nat /\ n % U <= U - 1 /\ n % U \in Nat BY <1>0, <2>2, Z3
    <2>5. size <= q * U
      <3> DEFINE y == q * U
                 z == n % U
      <3>1. y \in Nat /\ z \in Nat /\ z <= U - 1 /\ n = y + z BY <2>2, <2>4
      <3> HIDE DEF y, z
      <3>2. size <= y BY <1>0, <2>1, <3>1
      <3> QED BY <3>2 DEF y
    <2> QED BY <2>2, <2>3, <2>5
  <1>2. ASSUME NEW n \in Nat PROVE n * U \in Nat /\ blocks_of(n * U) = n
    <2>1. U - 1 \in 0 .. U - 1 /\ n * U \in Nat BY <1>0, Z3
    <2>2. (n * U + (U - 1)) \div U = n BY <1>0, <2>1, DivUnique
    <2>3. n * U + U - 1 = n * U + (U - 1) BY <1>0, <2>1
    <2> QED BY <2>1, <2>2, <2>3 DEF blocks_of
  <1>3. ASSUME NEW from \in Nat, NEW to \in Nat, from <= to
        PROVE  from \div U \in Nat /\ from \div U <= blocks_of(to)
    <2> DEFINE q == from \div U
               p == blocks_of(to)
    <2>1. q \in Nat /\ from % U \in 0 .. U - 1 /\ from = q * U + (from % U)
      BY <1>0, DivMod
    <2>2. p \in Nat /\ to <= p * U BY <1>1
    <2> HIDE DEF q, p
    <2>3. p < q => p * U + U <= q * U /\ q * U \in Nat /\ p * U \in Nat
      BY <1>0, <2>1, <2>2, Z3
    <2>4. q * U \in Nat /\ p * U \in Nat BY <1>0, <2>1, <2>2, Z3
    <2>5. q * U <= from
      <3> DEFINE y == q * U
                 z == from % U
      <3>1. y \in Nat /\ z \in Nat /\ from = y + z BY <1>0, <2>1, <2>4
      <3> HIDE DEF y, z
      <3>2. y <= from BY <3>1
      <3> QED BY <3>2 DEF y
    <2>6. ~(p < q)
      <3> DEFINE y == q * U
                 z == p * U
      <3>1. y \in Nat /\ z \in Nat /\ y <= from /\ to <= z /\ (p < q => z + U <= y)
        BY <2>2, <2>3, <2>4, <2>5
      <3> HIDE DEF y, z, U
      <3> QED BY <1>0, <1>3, <3>1
    <2> QED BY <2>1, <2>2, <2>6 DEF q, p
  <1> QED BY <1>1, <1>2, <1>3

(* The blocks of a file that may hold something. *)
Leaves(f, node) == {k \in Slots \ {DirectBlocks} : slot(f, node, k) # 0}

(* Entries are in the blocks of the map. *)
LEMMA EntriesAre ==
    ASSUME NEW f \in Image, NEW node \in InodeType, Fills(f, node)
    PROVE  /\ blocks_of(node.size) \in 1 .. MaxBlocks /\ node.size = blocks_of(node.size) * BlockUnits
           /\ \A i \in 0 .. MaxBlocks - 1 : (slot(f, node, place(i)) # 0) <=> (i < blocks_of(node.size))
           /\ dir_blocks(f, node) = {slot(f, node, k) : k \in Leaves(f, node)}
           /\ dir_entries(f, node) = UNION {f.entries[slot(f, node, k)] : k \in Leaves(f, node)}
  <1>1. PICK n \in 1 .. MaxBlocks :
            /\ node.size = n * BlockUnits
            /\ \A i \in 0 .. MaxBlocks - 1 : (slot(f, node, place(i)) # 0) <=> (i < n)
    BY DEF Fills
  <1>2. blocks_of(node.size) = n BY <1>1, Dimensions, BlocksOf
  <1>3. dir_blocks(f, node) = {slot(f, node, k) : k \in Leaves(f, node)}
    <2>1. ASSUME NEW i \in 0 .. n - 1
          PROVE  \E k \in Leaves(f, node) : block_id_at(f, node, i) = slot(f, node, k)
      BY Dimensions, BlockAt, <1>1, Places DEF Leaves
    <2>2. ASSUME NEW k \in Leaves(f, node)
          PROVE  slot(f, node, k) # 0 /\ \E i \in 0 .. n - 1 : block_id_at(f, node, i) = slot(f, node, k)
      <3>1. PICK i \in 0 .. MaxBlocks - 1 : k = place(i)
        BY Places DEF Leaves
      <3>2. slot(f, node, k) # 0 BY DEF Leaves
      <3>3. i \in 0 .. n - 1 /\ i \in Nat /\ i < MaxBlocks BY <1>1, <3>1, <3>2, Dimensions
      <3> QED BY <3>1, <3>2, <3>3, BlockAt
    <2>3. dir_blocks(f, node) = {block_id_at(f, node, i) : i \in 0 .. n - 1} \ {0}
      BY <1>2 DEF dir_blocks
    <2>4. \A k \in Leaves(f, node) : slot(f, node, k) # 0 BY DEF Leaves
    <2> QED BY <2>1, <2>2, <2>3, <2>4
  <1>4. dir_entries(f, node) = UNION {f.entries[slot(f, node, k)] : k \in Leaves(f, node)}
    BY <1>3 DEF dir_entries
  <1> QED BY <1>1, <1>2, <1>3, <1>4


-----------------------------------------------------------------------------
(* Paths. *)

(* The recursive function in path_lookup. *)
LEMMA LookupLoop ==
    ASSUME NEW f, NEW path, Len(path) \in Nat
    PROVE  \E g : /\ path_lookup(f, path) = g[Len(path)] /\ g[0] = EXT2_ROOT_INODE
                  /\ \A k \in 0 + 1 .. Len(path) : g[k] = (IF g[k - 1] = 0 THEN 0 ELSE find_in_dir(f, g[k - 1], path[k]))
  <1> DEFINE low == 0
             high == Len(path)
             N == high - low
             Round(g, k) == IF k = low THEN EXT2_ROOT_INODE ELSE (IF g[k - 1] = 0 THEN 0 ELSE find_in_dir(f, g[k - 1], path[k]))
             Has == {n \in Nat : \E g : g = [k \in low .. low + n |-> Round(g, k)]}
  <1>1. N \in Nat /\ low \in Nat /\ high \in Nat /\ low + N = high /\ low <= high OBVIOUS
  <1> HIDE DEF N, low, high
  <1>2. 0 \in Has
    <2> DEFINE g == [k \in low .. low + 0 |-> EXT2_ROOT_INODE]
    <2>0. \A k \in low .. low + 0 : k = low BY <1>1
    <2>1. g = [k \in low .. low + 0 |-> Round(g, k)] BY <2>0
    <2> QED BY <2>1
  <1>3. \A n \in 0 .. N - 1 : n \in Has => n + 1 \in Has
    <2> SUFFICES ASSUME NEW n \in 0 .. N - 1, n \in Has PROVE n + 1 \in Has
      OBVIOUS
    <2>1. PICK g : g = [k \in low .. low + n |-> Round(g, k)]
      OBVIOUS
    <2>2. n \in Nat /\ low + (n + 1) = (low + n) + 1 BY <1>1
    <2> DEFINE h == [k \in low .. low + (n + 1) |-> IF k = low + (n + 1) THEN Round(g, k) ELSE g[k]]
    <2>3. \A k \in low .. low + n : h[k] = g[k] BY <1>1, <2>2
    <2>4. h[low + (n + 1)] = Round(g, low + (n + 1)) BY <1>1, <2>2
    <2>5. \A k \in low .. low + n : g[k] = Round(g, k)
      <3> HIDE DEF Round
      <3> QED BY <2>1
    <2>6. h = [k \in low .. low + (n + 1) |-> h[k]] OBVIOUS
    <2> HIDE DEF h
    <2>7. \A k \in low .. low + (n + 1) : Round(h, k) = Round(g, k)
      <3> TAKE k \in low .. low + (n + 1)
      <3>1. k # low => k - 1 \in low .. low + n BY <1>1, <2>2
      <3>2. k # low => h[k - 1] = g[k - 1] BY <2>3, <3>1
      <3> QED BY <3>2
    <2> HIDE DEF Round
    <2>8. \A k \in low .. low + (n + 1) : h[k] = Round(h, k)
      <3> TAKE k \in low .. low + (n + 1)
      <3>1. k = low + (n + 1) \/ k \in low .. low + n BY <1>1, <2>2
      <3> QED BY <2>3, <2>4, <2>5, <2>7, <3>1
    <2>9. h = [k \in low .. low + (n + 1) |-> Round(h, k)] BY <2>6, <2>8
    <2> QED BY <2>2, <2>9
  <1> HIDE DEF Has
  <1>4. N \in Has
    <2>1. \A n \in 0 .. N : n \in Has BY <1>1, <1>2, <1>3, Induction
    <2>2. N \in 0 .. N BY <1>1
    <2> QED BY <2>1, <2>2
  <1> USE DEF Has
  <1> DEFINE u == CHOOSE g : g = [k \in low .. high |-> Round(g, k)]
  <1>5. u = [k \in low .. high |-> Round(u, k)]
    <2> HIDE DEF Round
    <2> QED BY <1>1, <1>4
  <1>6. path_lookup(f, path) = u[high] BY Zenon DEF path_lookup, low, high
  <1> HIDE DEF u
  <1>7. \A k \in low .. high : u[k] = Round(u, k) BY <1>5
  <1>8. u[low] = EXT2_ROOT_INODE
    <2>1. low \in low .. high BY <1>1
    <2>2. u[low] = Round(u, low)
      <3> HIDE DEF Round
      <3> QED BY <1>7, <2>1
    <2> QED BY <2>2, Zenon
  <1>9. ASSUME NEW k \in low + 1 .. high
        PROVE  u[k] = (IF u[k - 1] = 0 THEN 0 ELSE find_in_dir(f, u[k - 1], path[k]))
    <2>1. k \in low .. high /\ k # low BY <1>1
    <2>2. u[k] = Round(u, k)
      <3> HIDE DEF Round
      <3> QED BY <1>7, <2>1
    <2> QED BY <2>1, <2>2, Zenon
  <1> QED BY <1>6, <1>8, <1>9 DEF low, high

LEMMA LookupRoot == ASSUME NEW f PROVE path_lookup(f, <<>>) = EXT2_ROOT_INODE
  <1>1. Len(<<>>) = 0 OBVIOUS
  <1>2. PICK g : path_lookup(f, <<>>) = g[0] /\ g[0] = EXT2_ROOT_INODE
    BY <1>1, LookupLoop
  <1> QED BY <1>2

(* A name is looked up in the directory the rest of the path leads to. *)
LEMMA LookupLast ==
    ASSUME NEW f, NEW S, NEW path \in Seq(S), path # <<>>
    PROVE  LET up == path_lookup(f, Front(path))
           IN  path_lookup(f, path) = IF up = 0 THEN 0 ELSE find_in_dir(f, up, Last(path))
  <1> DEFINE n == Len(path)
             q == Front(path)
  <1>1. n \in Nat \ {0} /\ n - 1 \in Nat /\ Last(path) = path[n] BY DEF Last
  <1>2. Len(q) = n - 1 /\ \A k \in 1 .. n - 1 : q[k] = path[k]
    <2> DEFINE m == n - 1
               s == SubSeq(path, 1, m)
    <2>1. q = s /\ m \in Nat /\ m <= Len(path) BY <1>1 DEF Front
    <2> HIDE DEF m, n, q
    <2>2. s = [k \in 1 .. m |-> path[k]] BY <2>1
    <2>3. Len(s) = m /\ \A k \in 1 .. m : s[k] = path[k] BY <2>1, <2>2
    <2> QED BY <2>1, <2>3 DEF m
  <1>3. PICK g : /\ path_lookup(f, path) = g[n] /\ g[0] = EXT2_ROOT_INODE
                 /\ \A k \in 0 + 1 .. n : g[k] = (IF g[k - 1] = 0 THEN 0 ELSE find_in_dir(f, g[k - 1], path[k]))
    BY <1>1, LookupLoop
  <1>4. PICK h : /\ path_lookup(f, q) = h[n - 1] /\ h[0] = EXT2_ROOT_INODE
                 /\ \A k \in 0 + 1 .. n - 1 : h[k] = (IF h[k - 1] = 0 THEN 0 ELSE find_in_dir(f, h[k - 1], q[k]))
    <2> HIDE DEF q, n
    <2> QED BY <1>1, <1>2, LookupLoop, SMTT(30)
  <1> HIDE DEF q, n
  <1> DEFINE Same == {k \in Nat : h[k] = g[k]}
  <1>5. 0 \in Same BY <1>3, <1>4
  <1>6. \A k \in 0 .. (n - 1) - 1 : k \in Same => k + 1 \in Same
    <2> SUFFICES ASSUME NEW k \in 0 .. (n - 1) - 1, k \in Same PROVE k + 1 \in Same
      OBVIOUS
    <2>1. k + 1 \in 0 + 1 .. n /\ k + 1 \in 0 + 1 .. n - 1 /\ k + 1 \in 1 .. n - 1 /\ (k + 1) - 1 = k /\ k + 1 \in Nat
      BY <1>1
    <2>2. g[k + 1] = (IF g[(k + 1) - 1] = 0 THEN 0 ELSE find_in_dir(f, g[(k + 1) - 1], path[k + 1]))
      BY <1>3, <2>1
    <2>3. h[k + 1] = (IF h[(k + 1) - 1] = 0 THEN 0 ELSE find_in_dir(f, h[(k + 1) - 1], q[k + 1]))
      BY <1>4, <2>1
    <2>4. h[k] = g[k] /\ q[k + 1] = path[k + 1] BY <1>2, <2>1
    <2> QED BY <2>1, <2>2, <2>3, <2>4
  <1> HIDE DEF Same
  <1>7. n - 1 \in Same
    <2>1. \A k \in 0 .. n - 1 : k \in Same BY <1>1, <1>5, <1>6, Induction
    <2>2. n - 1 \in 0 .. n - 1 BY <1>1
    <2> QED BY <2>1, <2>2
  <1>8. h[n - 1] = g[n - 1] BY <1>7 DEF Same
  <1>9. n \in 0 + 1 .. n BY <1>1
  <1>10. g[n] = (IF g[n - 1] = 0 THEN 0 ELSE find_in_dir(f, g[n - 1], path[n]))
    BY <1>3, <1>9
  <1> QED BY <1>1, <1>3, <1>4, <1>8, <1>10 DEF q

(* Paths lead to inodes in use, and none back to the root. *)
LEMMA LookupLive ==
    ASSUME NEW f, NEW live, NEW path, Len(path) \in Nat, EXT2_ROOT_INODE \in live,
           \A d \in live : \A name : find_in_dir(f, d, name) \in (live \ {EXT2_ROOT_INODE}) \cup {0}
    PROVE  path_lookup(f, path) \in live \cup {0}
  <1> DEFINE n == Len(path)
  <1>1. PICK g : /\ path_lookup(f, path) = g[n] /\ g[0] = EXT2_ROOT_INODE
                 /\ \A k \in 0 + 1 .. n : g[k] = (IF g[k - 1] = 0 THEN 0 ELSE find_in_dir(f, g[k - 1], path[k]))
    BY LookupLoop
  <1> DEFINE Good == {k \in Nat : g[k] \in live \cup {0}}
  <1>2. 0 \in Good BY <1>1
  <1>3. n \in Nat OBVIOUS
  <1> HIDE DEF n
  <1>4. \A k \in 0 .. n - 1 : k \in Good => k + 1 \in Good
    <2> SUFFICES ASSUME NEW k \in 0 .. n - 1, k \in Good PROVE k + 1 \in Good
      OBVIOUS
    <2>1. k + 1 \in 0 + 1 .. n /\ (k + 1) - 1 = k /\ k + 1 \in Nat BY <1>3
    <2>2. g[k + 1] = (IF g[k] = 0 THEN 0 ELSE find_in_dir(f, g[k], path[k + 1]))
      BY <1>1, <2>1
    <2>3. CASE g[k] = 0
      BY <2>1, <2>2, <2>3
    <2>4. CASE g[k] # 0
      BY <2>4, <2>1, <2>2
    <2> QED BY <2>3, <2>4
  <1>5. n \in Good
    <2> HIDE DEF Good
    <2>1. \A k \in 0 .. n : k \in Good BY <1>2, <1>3, <1>4, Induction
    <2>2. n \in 0 .. n BY <1>3
    <2> QED BY <2>1, <2>2
  <1> QED BY <1>1, <1>5

(* A path that does not end at x leads where it led, if every name that    *)
(* did not lead to x does, and nothing is below x.                         *)
Follows(f, g, x, live) ==
    /\ EXT2_ROOT_INODE \in live
    /\ \A d \in live : \A name : find_in_dir(f, d, name) \in live \cup {0}
    /\ \A name : x = 0 \/ find_in_dir(f, x, name) = 0
    /\ \A d \in live : \A name :
          find_in_dir(f, d, name) # 0 /\ find_in_dir(f, d, name) # x
            => find_in_dir(g, d, name) = find_in_dir(f, d, name)

LEMMA Follow ==
    ASSUME NEW f, NEW g, NEW x, NEW live, Follows(f, g, x, live), NEW path, Len(path) \in Nat,
           path_lookup(f, path) # 0, path_lookup(f, path) # x
    PROVE  path_lookup(g, path) = path_lookup(f, path)
  <1> USE DEF Follows
  <1> DEFINE n == Len(path)
  <1>1. PICK a : /\ path_lookup(f, path) = a[n] /\ a[0] = EXT2_ROOT_INODE
                 /\ \A k \in 0 + 1 .. n : a[k] = (IF a[k - 1] = 0 THEN 0 ELSE find_in_dir(f, a[k - 1], path[k]))
    BY LookupLoop
  <1>2. PICK b : /\ path_lookup(g, path) = b[n] /\ b[0] = EXT2_ROOT_INODE
                 /\ \A k \in 0 + 1 .. n : b[k] = (IF b[k - 1] = 0 THEN 0 ELSE find_in_dir(g, b[k - 1], path[k]))
    BY LookupLoop
  <1> DEFINE Good == {k \in Nat : a[k] \in live \cup {0} /\ (a[k] \notin {0, x} => b[k] = a[k])}
  <1>3. 0 \in Good BY <1>1, <1>2
  <1>4. n \in Nat OBVIOUS
  <1> HIDE DEF n
  <1>5. \A k \in 0 .. n - 1 : k \in Good => k + 1 \in Good
    <2> SUFFICES ASSUME NEW k \in 0 .. n - 1, k \in Good PROVE k + 1 \in Good
      OBVIOUS
    <2>1. k + 1 \in 0 + 1 .. n /\ (k + 1) - 1 = k /\ k + 1 \in Nat BY <1>4
    <2>2. a[k + 1] = (IF a[k] = 0 THEN 0 ELSE find_in_dir(f, a[k], path[k + 1]))
      BY <1>1, <2>1
    <2>3. b[k + 1] = (IF b[k] = 0 THEN 0 ELSE find_in_dir(g, b[k], path[k + 1]))
      BY <1>2, <2>1
    <2>4. CASE a[k] = 0
      BY <2>1, <2>2, <2>4
    <2>5. CASE a[k] # 0
      <3>1. a[k] \in live /\ a[k + 1] = find_in_dir(f, a[k], path[k + 1]) BY <2>2, <2>5
      <3>2. a[k + 1] \in live \cup {0} BY <3>1
      <3>3. ASSUME a[k + 1] \notin {0, x} PROVE b[k + 1] = a[k + 1]
        BY <2>5, <3>1, <3>3, <2>3
      <3> QED BY <2>1, <3>2, <3>3
    <2> QED BY <2>4, <2>5
  <1>6. n \in Good
    <2> HIDE DEF Good
    <2>1. \A k \in 0 .. n : k \in Good BY <1>3, <1>4, <1>5, Induction
    <2>2. n \in 0 .. n BY <1>4
    <2> QED BY <2>1, <2>2
  <1> QED BY <1>1, <1>2, <1>6


-----------------------------------------------------------------------------
(* The tree. *)

LEMMA EntsFinite ==
    ASSUME NEW f \in Image, NEW node \in InodeType, Fills(f, node)
    PROVE  /\ IsFiniteSet(dir_entries(f, node))
           /\ dir_entries(f, node) \in SUBSET [name : DirNames, ino : Inodes]
  <1> DEFINE L == Leaves(f, node)
             E == [k \in L |-> f.entries[slot(f, node, k)]]
             R == {E[k] : k \in L}
  <1>1. IsFiniteSet(L) BY SlotsFinite, FS_Subset DEF Leaves
  <1>2. \A k \in L : E[k] \in EntrySets
    <2> TAKE k \in L
    <2>1. k \in Slots /\ slot(f, node, k) # 0 BY DEF Leaves
    <2>2. slot(f, node, k) \in Blocks BY <2>1, SlotType
    <2>3. f.entries \in [Blocks -> EntrySets] BY Fields
    <2> QED BY <2>2, <2>3
  <1>3. dir_entries(f, node) = UNION R BY EntriesAre
  <1> HIDE DEF L, E
  <1>4. IsFiniteSet(R)
    <2>1. E \in [L -> R] /\ \A t \in R : \E k \in L : E[k] = t BY DEF E
    <2>2. E \in Surjection(L, R) BY <2>1 DEF Surjection
    <2> QED BY <1>1, <2>2, FS_Surjection DEF ExistsSurjection
  <1>5. \A S \in R : IsFiniteSet(S) /\ S \in SUBSET [name : DirNames, ino : Inodes]
    BY <1>2 DEF EntrySets
  <1> HIDE DEF R
  <1>6. IsFiniteSet(UNION R) BY <1>4, <1>5, FS_UNION
  <1> QED BY <1>3, <1>5, <1>6

(* What the links of a directory are compared with. *)
LEMMA SubdirsFinite ==
    ASSUME NEW f \in Image, Full(f), NEW d \in Dirs(f)
    PROVE  /\ IsFiniteSet(Ents(f, d)) /\ Ents(f, d) \in SUBSET [name : DirNames, ino : Inodes]
           /\ IsFiniteSet(Subdirs(f, d)) /\ Cardinality(Subdirs(f, d)) \in Nat
           /\ f.inode[d] \in InodeType /\ f.inode[d].links \in Nat /\ Fills(f, f.inode[d])
  <1>1. d \in f.inode_bitmap /\ f.inode_bitmap \in SUBSET Inodes /\ f.inode \in [Inodes -> InodeType]
    BY Fields DEF Dirs
  <1>2. f.inode[d] \in InodeType BY <1>1
  <1>3. f.inode[d].links \in Nat BY <1>2 DEF InodeType
  <1>4. Fills(f, f.inode[d]) BY DEF Full
  <1>5. IsFiniteSet(Ents(f, d)) /\ Ents(f, d) \in SUBSET [name : DirNames, ino : Inodes]
    BY <1>2, <1>4, EntsFinite DEF Ents
  <1>6. Subdirs(f, d) \in SUBSET Ents(f, d) BY DEF Subdirs
  <1>7. IsFiniteSet(Subdirs(f, d)) /\ Cardinality(Subdirs(f, d)) \in Nat
    BY <1>5, <1>6, FS_Subset, FS_CardinalityType
  <1> QED BY <1>2, <1>3, <1>4, <1>5, <1>7

LEMMA FindIs ==
    ASSUME NEW f, NEW d, NEW name
    PROVE  /\ find_in_dir(f, d, name) # 0 =>
                /\ f.inode[d].mode = "dir"
                /\ \E e \in Ents(f, d) : e.name = name /\ e.ino = find_in_dir(f, d, name)
           /\ \A e \in Ents(f, d) :
                f.inode[d].mode = "dir" /\ e.name = name /\ (\A x \in Ents(f, d) : x.name = name => x = e)
                  => find_in_dir(f, d, name) = e.ino
           /\ (\A e \in Ents(f, d) : e.name # name) => find_in_dir(f, d, name) = 0
  <1> DEFINE hits == {e \in dir_entries(f, f.inode[d]) : e.name = name}
             c == CHOOSE e \in hits : TRUE
  <1>1. find_in_dir(f, d, name) = IF f.inode[d].mode # "dir" \/ hits = {} THEN 0 ELSE c.ino
    BY DEF find_in_dir, inode_is_dir
  <1>2. hits # {} => c \in hits OBVIOUS
  <1>3. \A e : e \in hits <=> e \in Ents(f, d) /\ e.name = name BY DEF Ents
  <1> HIDE DEF hits, c
  <1> QED BY <1>1, <1>2, <1>3

LEMMA TreeFind ==
    ASSUME NEW f \in Image, Full(f), IsTree(f)
    PROVE  /\ \A d \in Dirs(f) : \A e \in Ents(f, d) :
                 find_in_dir(f, d, e.name) = e.ino /\ e.ino # 0
           /\ \A d \in f.inode_bitmap : \A name :
                 find_in_dir(f, d, name) \in (f.inode_bitmap \ {EXT2_ROOT_INODE}) \cup {0}
           /\ \A d \in f.inode_bitmap : \A name : find_in_dir(f, d, name) # 0 => d \in Dirs(f)
           /\ \A path : Len(path) \in Nat => path_lookup(f, path) \in f.inode_bitmap \cup {0}
  <1>1. ASSUME NEW d \in Dirs(f), NEW e \in Ents(f, d)
        PROVE  find_in_dir(f, d, e.name) = e.ino /\ e.ino # 0
    BY SubdirsFinite, FindIs, Dimensions DEF Dirs, IsTree
  <1>2. ASSUME NEW d \in f.inode_bitmap, NEW name, find_in_dir(f, d, name) # 0
        PROVE  d \in Dirs(f) /\ find_in_dir(f, d, name) \in f.inode_bitmap \ {EXT2_ROOT_INODE}
    <2>1. d \in Dirs(f) BY <1>2, FindIs DEF Dirs
    <2>2. PICK e \in Ents(f, d) : e.ino = find_in_dir(f, d, name)
      BY <1>2, FindIs
    <2>3. e.ino \in f.inode_bitmap \ {EXT2_ROOT_INODE} BY <2>1 DEF IsTree
    <2> QED BY <2>1, <2>2, <2>3
  <1>3. EXT2_ROOT_INODE \in f.inode_bitmap BY DEF IsTree, Dirs
  <1>4. \A d \in f.inode_bitmap : \A name :
            find_in_dir(f, d, name) \in (f.inode_bitmap \ {EXT2_ROOT_INODE}) \cup {0}
    BY <1>2
  <1>5. ASSUME NEW path, Len(path) \in Nat PROVE path_lookup(f, path) \in f.inode_bitmap \cup {0}
    BY <1>3, <1>4, <1>5, LookupLive
  <1> QED BY <1>1, <1>2, <1>4, <1>5

LEMMA PathLen == ASSUME NEW p \in Paths PROVE Len(p) \in Nat /\ p \in Seq(Range(p))
  BY PathsAssumption

(* Nothing callers can name has changed. *)
LEMMA TreeSame ==
    ASSUME NEW f \in Image, Full(f), IsTree(f), NEW g \in Image,
           g.inode_bitmap = f.inode_bitmap,
           \A i \in f.inode_bitmap : g.inode[i].mode = f.inode[i].mode /\ g.inode[i].links >= f.inode[i].links,
           \A d \in Dirs(f) : Ents(g, d) = Ents(f, d)
    PROVE  IsTree(g) /\ Dirs(g) = Dirs(f)
  <1>1. Dirs(g) = Dirs(f) BY DEF Dirs
  <1>2. ASSUME NEW d \in f.inode_bitmap, NEW name, find_in_dir(f, d, name) # 0
        PROVE  find_in_dir(g, d, name) = find_in_dir(f, d, name)
    <2>1. d \in Dirs(f) BY <1>2, TreeFind
    <2>2. PICK e \in Ents(f, d) : e.name = name /\ e.ino = find_in_dir(f, d, name)
      BY <1>2, FindIs
    <2>3. \A x \in Ents(g, d) : x.name = name => x = e BY <2>1, <2>2 DEF IsTree
    <2>4. g.inode[d].mode = "dir" /\ e \in Ents(g, d) BY <1>1, <2>1, <2>2 DEF Dirs
    <2> QED BY <2>2, <2>3, <2>4, FindIs
  <1>3. ASSUME NEW i \in f.inode_bitmap \ {EXT2_ROOT_INODE} PROVE \E p \in Paths : path_lookup(g, p) = i
    <2>1. PICK p \in Paths : path_lookup(f, p) = i
      BY DEF IsTree
    <2>2. i # 0 BY Fields, Dimensions
    <2>3. EXT2_ROOT_INODE \in f.inode_bitmap BY DEF IsTree, Dirs
    <2>4. Follows(f, g, 0, f.inode_bitmap) BY <1>2, <2>3, TreeFind DEF Follows
    <2>5. path_lookup(g, p) = path_lookup(f, p) BY <2>1, <2>2, <2>4, PathLen, Follow
    <2> QED BY <2>1, <2>5
  <1>4. ASSUME NEW d \in Dirs(g) PROVE g.inode[d].links >= 2 + Cardinality(Subdirs(g, d))
    <2>1. d \in f.inode_bitmap /\ d \in Inodes /\ d \in Dirs(f) /\ g.inode[d] \in InodeType
      BY <1>1, Fields DEF Dirs
    <2>2. Subdirs(g, d) = Subdirs(f, d) BY <1>1, <2>1 DEF Subdirs
    <2>3. f.inode[d].links \in Nat /\ Cardinality(Subdirs(f, d)) \in Nat
      BY <2>1, SubdirsFinite
    <2>5. f.inode[d].links >= 2 + Cardinality(Subdirs(f, d)) BY <2>1 DEF IsTree
    <2>4. g.inode[d].links \in Nat /\ g.inode[d].links >= f.inode[d].links
      BY <2>1 DEF InodeType
    <2> QED BY <2>2, <2>3, <2>4, <2>5
  <1>5. IsTree(g) BY <1>1, <1>3, <1>4 DEF IsTree
  <1> QED BY <1>1, <1>5


(* A new inode x is in use, under a name in the directory parent. *)
NamedIn(f, g, x, path, parent) ==
    /\ x \in Inodes \ f.inode_bitmap /\ g.inode_bitmap = f.inode_bitmap \cup {x}
    /\ \A i \in f.inode_bitmap : g.inode[i].mode = f.inode[i].mode
    /\ g.inode[x].mode \in {"file", "dir"}
    /\ parent \in Dirs(f) /\ parent = path_lookup(f, Front(path)) /\ path_lookup(f, path) = 0
    /\ \A d \in Dirs(f) \ {parent} : Ents(g, d) = Ents(f, d)
    /\ Ents(g, parent) = Ents(f, parent) \cup {[name |-> Last(path), ino |-> x]}
    /\ g.inode[x].mode = "dir" => Ents(g, x) = {} /\ g.inode[x].links >= 2
    /\ \A d \in Dirs(f) : g.inode[d].links >= f.inode[d].links
    /\ g.inode[x].mode = "dir" => g.inode[parent].links >= f.inode[parent].links + 1

LEMMA TreeAdd ==
    ASSUME NEW f \in Image, Full(f), IsTree(f), NEW g \in Image, NEW x, NEW path \in Paths, path # <<>>,
           NEW parent, NamedIn(f, g, x, path, parent)
    PROVE  IsTree(g) /\ Dirs(g) = Dirs(f) \cup (IF g.inode[x].mode = "dir" THEN {x} ELSE {})
  <1> DEFINE live == f.inode_bitmap
             new == [name |-> Last(path), ino |-> x]
             above == Front(path)
  <1>1. /\ x \in Inodes \ live /\ g.inode_bitmap = live \cup {x}
        /\ \A i \in live : g.inode[i].mode = f.inode[i].mode
        /\ g.inode[x].mode \in {"file", "dir"}
        /\ parent \in Dirs(f) /\ parent = path_lookup(f, above) /\ path_lookup(f, path) = 0
        /\ \A d \in Dirs(f) \ {parent} : Ents(g, d) = Ents(f, d)
        /\ Ents(g, parent) = Ents(f, parent) \cup {new}
    BY DEF NamedIn
  <1>2. Dirs(g) = Dirs(f) \cup (IF g.inode[x].mode = "dir" THEN {x} ELSE {})
    BY <1>1 DEF Dirs
  <1>3. live \in SUBSET Inodes /\ x # 0 /\ 0 \notin live /\ Dirs(f) \subseteq live /\ EXT2_ROOT_INODE \in Dirs(f)
    BY Fields, <1>1, Dimensions DEF Dirs, IsTree
  <1>4. new.name = Last(path) /\ new.ino = x OBVIOUS
  <1> HIDE DEF new
  <1>5. /\ path \in Seq(Range(path)) /\ Len(path) \in Nat /\ Len(above) \in Nat
    BY PathLen DEF Front
  <1>6. \A e \in Ents(f, parent) : e.name # Last(path)
    BY <1>1, <1>3, <1>5, LookupLast, TreeFind
  <1> HIDE DEF above
  <1>7. \A d \in Dirs(g) : \A e \in Ents(g, d) : (e = new /\ d = parent) \/ (d \in Dirs(f) /\ e \in Ents(f, d))
    BY <1>1, <1>2 DEF NamedIn
  <1>8. \A d \in Dirs(f) : \A e \in Ents(f, d) : e.ino \in live \ {EXT2_ROOT_INODE} /\ e.ino # x
    BY <1>1 DEF IsTree
  <1>9. /\ EXT2_ROOT_INODE \in Dirs(g)
        /\ \A i \in g.inode_bitmap : g.inode[i].mode # "none"
        /\ \A d \in Dirs(g) : \A e \in Ents(g, d) : e.ino \in g.inode_bitmap \ {EXT2_ROOT_INODE}
    BY <1>1, <1>3, <1>2, <1>4, <1>7, <1>8 DEF IsTree
  <1>10. ASSUME NEW d \in Dirs(g), NEW c \in Dirs(g), NEW e \in Ents(g, d), NEW y \in Ents(g, c), e.ino = y.ino
         PROVE  d = c /\ e = y
    <2>1. CASE e = new /\ d = parent
      BY <1>4, <1>8, <1>10, <2>1, <1>7
    <2>2. CASE d \in Dirs(f) /\ e \in Ents(f, d)
      BY <1>4, <1>8, <1>10, <2>2, <1>7 DEF IsTree
    <2> QED BY <1>7, <2>1, <2>2
  <1>11. ASSUME NEW d \in Dirs(g), NEW e \in Ents(g, d), NEW y \in Ents(g, d), e.name = y.name
         PROVE  e = y
    <2>1. CASE e = new /\ d = parent
      BY <1>4, <1>6, <1>7, <1>11, <2>1
    <2>2. CASE d \in Dirs(f) /\ e \in Ents(f, d)
      <3>1. CASE y = new /\ d = parent
        BY <1>4, <1>6, <1>11, <2>2, <3>1
      <3>2. CASE y \in Ents(f, d)
        BY <1>11, <2>2, <3>2 DEF IsTree
      <3> QED BY <1>7, <3>1, <3>2
    <2> QED BY <1>7, <2>1, <2>2
  <1>12. Follows(f, g, 0, live)
    <2>1. ASSUME NEW d \in live, NEW name, find_in_dir(f, d, name) # 0
          PROVE  find_in_dir(g, d, name) = find_in_dir(f, d, name)
      <3>1. d \in Dirs(f) /\ d \in Dirs(g) BY <1>2, <2>1, TreeFind
      <3>2. PICK e \in Ents(f, d) : e.name = name /\ e.ino = find_in_dir(f, d, name)
        BY <2>1, FindIs
      <3>3. e \in Ents(g, d) BY <1>1, <3>1, <3>2
      <3>4. \A y \in Ents(g, d) : y.name = name => y = e BY <1>11, <3>1, <3>2, <3>3
      <3>5. g.inode[d].mode = "dir" BY <3>1 DEF Dirs
      <3> QED BY <3>2, <3>3, <3>4, <3>5, FindIs
    <2> QED BY <1>3, <2>1, TreeFind DEF Follows
  <1>13. ASSUME NEW i \in g.inode_bitmap \ {EXT2_ROOT_INODE} PROVE \E p \in Paths : path_lookup(g, p) = i
    <2>1. CASE i \in live
      <3>1. PICK p \in Paths : path_lookup(f, p) = i
        BY <2>1 DEF IsTree
      <3>2. path_lookup(g, p) = i BY <1>3, <1>12, <2>1, <3>1, PathLen, Follow
      <3> QED BY <3>2
    <2>2. CASE i = x
      <3>1. path_lookup(g, above) = parent /\ parent # 0
        BY <1>1, <1>3, <1>5, <1>12, Follow
      <3>2. path_lookup(g, path) = find_in_dir(g, parent, Last(path))
        BY <1>5, <3>1, LookupLast DEF above
      <3>3. new \in Ents(g, parent) /\ parent \in Dirs(g) /\ g.inode[parent].mode = "dir"
        BY <1>1, <1>2 DEF Dirs
      <3>4. \A y \in Ents(g, parent) : y.name = Last(path) => y = new BY <1>4, <1>11, <3>3
      <3>5. find_in_dir(g, parent, Last(path)) = x BY <1>4, <3>3, <3>4, FindIs
      <3> QED BY <2>2, <3>2, <3>5
    <2> QED BY <1>1, <2>1, <2>2
  <1>14. ASSUME NEW d \in Dirs(g) PROVE g.inode[d].links >= 2 + Cardinality(Subdirs(g, d))
    <2>1. CASE d \in Dirs(f)
      <3>1. /\ f.inode[d].links \in Nat /\ Cardinality(Subdirs(f, d)) \in Nat /\ IsFiniteSet(Subdirs(f, d))
        BY <2>1, SubdirsFinite
      <3>2. f.inode[d].links >= 2 + Cardinality(Subdirs(f, d)) BY <2>1 DEF IsTree
      <3>3. g.inode[d].links \in Nat /\ g.inode[d].links >= f.inode[d].links
        BY <1>3, <2>1, Fields DEF NamedIn, InodeType
      <3>4. CASE d = parent /\ g.inode[x].mode = "dir"
        <4>1. Subdirs(g, d) = Subdirs(f, d) \cup {new}
          BY <1>1, <1>2, <1>4, <1>8, <3>4 DEF Subdirs
        <4>2. new \notin Subdirs(f, d) BY <1>1, <1>4, <1>8, <3>4 DEF Subdirs
        <4>3. Cardinality(Subdirs(g, d)) = Cardinality(Subdirs(f, d)) + 1
          BY <3>1, <4>1, <4>2, FS_AddElement
        <4>4. g.inode[d].links >= f.inode[d].links + 1 BY <3>4 DEF NamedIn
        <4> QED BY <3>1, <3>2, <3>3, <4>3, <4>4
      <3>5. CASE ~(d = parent /\ g.inode[x].mode = "dir")
        <4>1. \A e : e \in Subdirs(g, d) <=> e \in Subdirs(f, d)
          <5>1. CASE d = parent
            BY <1>1, <1>2, <1>3, <3>5, <5>1, <1>4 DEF Subdirs
          <5>2. CASE d # parent
            BY <1>1, <1>2, <1>8, <2>1, <5>2 DEF Subdirs
          <5> QED BY <5>1, <5>2
        <4>2. Subdirs(g, d) = Subdirs(f, d) BY <4>1
        <4> QED BY <3>1, <3>2, <3>3, <4>2
      <3> QED BY <3>4, <3>5
    <2>2. CASE d \notin Dirs(f)
      <3>1. d = x /\ g.inode[x].mode = "dir" BY <1>2, <2>2
      <3>2. Ents(g, x) = {} /\ g.inode[x].links >= 2 BY <3>1 DEF NamedIn
      <3>3. Subdirs(g, d) = {} BY <3>1, <3>2 DEF Subdirs
      <3>4. Cardinality(Subdirs(g, d)) = 0 BY <3>3, FS_EmptySet
      <3> QED BY <3>1, <3>2, <3>4
    <2> QED BY <2>1, <2>2
  <1>15. /\ \A d, c \in Dirs(g) : \A e \in Ents(g, d), y \in Ents(g, c) : e.ino = y.ino => d = c /\ e = y
         /\ \A d \in Dirs(g) : \A e, y \in Ents(g, d) : e.name = y.name => e = y
    BY <1>10, <1>11
  <1>16. IsTree(g) BY <1>9, <1>13, <1>14, <1>15 DEF IsTree
  <1> QED BY <1>2, <1>16


(* The inode x and its entry are gone; nothing was below it. *)
RemovedFrom(f, g, x, parent, gone) ==
    /\ x \in f.inode_bitmap /\ g.inode_bitmap = f.inode_bitmap \ {x}
    /\ \A i \in g.inode_bitmap : g.inode[i].mode = f.inode[i].mode
    /\ x \in Dirs(f) => Ents(f, x) = {}
    /\ parent \in Dirs(f) /\ gone \in Ents(f, parent) /\ gone.ino = x
    /\ \A d \in Dirs(f) \ {parent, x} : Ents(g, d) = Ents(f, d)
    /\ Ents(g, parent) = Ents(f, parent) \ {gone}
    /\ \A d \in Dirs(f) \ {parent, x} : g.inode[d].links >= f.inode[d].links
    /\ x \in Dirs(f) => g.inode[parent].links >= f.inode[parent].links - 1
    /\ x \notin Dirs(f) => g.inode[parent].links >= f.inode[parent].links

LEMMA TreeRemove ==
    ASSUME NEW f \in Image, Full(f), IsTree(f), NEW g \in Image, NEW x,
           NEW parent, NEW gone, RemovedFrom(f, g, x, parent, gone)
    PROVE  IsTree(g) /\ Dirs(g) = Dirs(f) \ {x}
  <1> DEFINE live == f.inode_bitmap
  <1>1. /\ x \in live /\ g.inode_bitmap = live \ {x}
        /\ \A i \in g.inode_bitmap : g.inode[i].mode = f.inode[i].mode
        /\ x \in Dirs(f) => Ents(f, x) = {}
        /\ parent \in Dirs(f) /\ gone \in Ents(f, parent) /\ gone.ino = x
        /\ \A d \in Dirs(f) \ {parent, x} : Ents(g, d) = Ents(f, d)
        /\ Ents(g, parent) = Ents(f, parent) \ {gone}
    BY DEF RemovedFrom
  <1>2. Dirs(g) = Dirs(f) \ {x} BY <1>1 DEF Dirs
  <1>3. live \in SUBSET Inodes /\ x # 0 /\ 0 \notin live /\ Dirs(f) \subseteq live /\ EXT2_ROOT_INODE \in Dirs(f)
    BY Fields, <1>1, Dimensions DEF Dirs, IsTree
  <1>4. parent # x /\ x # EXT2_ROOT_INODE BY <1>1 DEF IsTree
  <1>5. \A d \in Dirs(g) : d \in Dirs(f) /\ \A e : e \in Ents(g, d) <=> e \in Ents(f, d) /\ e # gone
    <2> SUFFICES ASSUME NEW d \in Dirs(g), NEW e PROVE d \in Dirs(f) /\ (e \in Ents(g, d) <=> e \in Ents(f, d) /\ e # gone)
      OBVIOUS
    <2>1. d \in Dirs(f) /\ d # x BY <1>2
    <2>2. CASE d = parent
      BY <1>1, <2>1, <2>2
    <2>3. CASE d # parent
      BY <1>1, <2>1, <2>3 DEF IsTree
    <2> QED BY <2>2, <2>3
  <1>6. \A d \in Dirs(f) : \A e \in Ents(f, d) : e.ino \in live \ {EXT2_ROOT_INODE} /\ (e # gone => e.ino # x)
    <2> SUFFICES ASSUME NEW d \in Dirs(f), NEW e \in Ents(f, d)
                 PROVE  e.ino \in live \ {EXT2_ROOT_INODE} /\ (e # gone => e.ino # x)
      OBVIOUS
    <2>1. e.ino \in live \ {EXT2_ROOT_INODE} BY DEF IsTree
    <2>2. e.ino = gone.ino => e = gone BY <1>1 DEF IsTree
    <2> QED BY <1>1, <2>1, <2>2
  <1>7. /\ EXT2_ROOT_INODE \in Dirs(g)
        /\ \A i \in g.inode_bitmap : g.inode[i].mode # "none"
        /\ \A d \in Dirs(g) : \A e \in Ents(g, d) : e.ino \in g.inode_bitmap \ {EXT2_ROOT_INODE}
    BY <1>1, <1>2, <1>3, <1>4, <1>5, <1>6 DEF IsTree
  <1>8. /\ \A d, c \in Dirs(g) : \A e \in Ents(g, d), y \in Ents(g, c) : e.ino = y.ino => d = c /\ e = y
        /\ \A d \in Dirs(g) : \A e, y \in Ents(g, d) : e.name = y.name => e = y
    BY <1>5 DEF IsTree
  <1>9. Follows(f, g, x, live)
    <2>1. ASSUME NEW d \in live, NEW name, find_in_dir(f, d, name) # 0, find_in_dir(f, d, name) # x
          PROVE  find_in_dir(g, d, name) = find_in_dir(f, d, name)
      <3>1. d \in Dirs(f) BY <2>1, TreeFind
      <3>2. PICK e \in Ents(f, d) : e.name = name /\ e.ino = find_in_dir(f, d, name)
        BY <2>1, FindIs
      <3>3. d \in Dirs(g) /\ e # gone BY <1>1, <1>2, <2>1, <3>1, <3>2
      <3>4. e \in Ents(g, d) BY <1>5, <3>2, <3>3
      <3>5. \A y \in Ents(g, d) : y.name = name => y = e BY <1>8, <3>2, <3>3, <3>4
      <3>6. g.inode[d].mode = "dir" BY <3>3 DEF Dirs
      <3> QED BY <3>2, <3>4, <3>5, <3>6, FindIs
    <2>2. ASSUME NEW name PROVE find_in_dir(f, x, name) = 0
      BY <1>1, FindIs, TreeFind
    <2> QED BY <1>3, <2>1, <2>2, TreeFind DEF Follows
  <1>10. ASSUME NEW i \in g.inode_bitmap \ {EXT2_ROOT_INODE} PROVE \E p \in Paths : path_lookup(g, p) = i
    <2>1. i \in live \ {EXT2_ROOT_INODE} /\ i # x /\ i # 0 BY <1>1, <1>3
    <2>2. PICK p \in Paths : path_lookup(f, p) = i
      BY <2>1 DEF IsTree
    <2>3. path_lookup(g, p) = i BY <1>9, <2>1, <2>2, PathLen, Follow
    <2> QED BY <2>3
  <1>11. ASSUME NEW d \in Dirs(g) PROVE g.inode[d].links >= 2 + Cardinality(Subdirs(g, d))
    <2>0. d \in Dirs(f) /\ d # x BY <1>2
    <2>1. /\ f.inode[d].links \in Nat /\ Cardinality(Subdirs(f, d)) \in Nat /\ IsFiniteSet(Subdirs(f, d))
      BY <2>0, SubdirsFinite
    <2>2. f.inode[d].links >= 2 + Cardinality(Subdirs(f, d)) BY <2>0 DEF IsTree
    <2>3. g.inode[d].links \in Nat BY <1>3, <2>0, Fields DEF InodeType
    <2>4. Subdirs(g, d) = Subdirs(f, d) \ {gone} BY <1>2, <1>5, <1>6, <2>0 DEF Subdirs
    <2>5. CASE d = parent /\ x \in Dirs(f)
      <3>1. gone \in Subdirs(f, d) BY <1>1, <2>5 DEF Subdirs
      <3>2. Cardinality(Subdirs(g, d)) = Cardinality(Subdirs(f, d)) - 1
        BY <2>1, <2>4, <3>1, FS_RemoveElement
      <3>3. g.inode[d].links >= f.inode[d].links - 1 BY <2>5 DEF RemovedFrom
      <3> QED BY <2>1, <2>2, <2>3, <3>2, <3>3
    <2>6. CASE ~(d = parent /\ x \in Dirs(f))
      <3>1. gone \notin Subdirs(f, d) BY <1>1, <2>0, <2>6 DEF IsTree, Subdirs
      <3>2. Subdirs(g, d) = Subdirs(f, d) BY <2>4, <3>1
      <3>3. g.inode[d].links >= f.inode[d].links BY <2>0, <2>6 DEF RemovedFrom
      <3> QED BY <2>1, <2>2, <2>3, <3>2, <3>3
    <2> QED BY <2>5, <2>6
  <1>12. IsTree(g) BY <1>7, <1>8, <1>10, <1>11 DEF IsTree
  <1> QED BY <1>2, <1>12


-----------------------------------------------------------------------------
(* Files. *)

(* A directory whose map and blocks are the same has the same entries. *)
LEMMA SameEnts ==
    ASSUME NEW f \in Image, NEW m \in InodeType, Fills(f, m),
           NEW h \in Image, NEW n \in InodeType, n.size = m.size,
           \A k \in Slots : slot(h, n, k) = slot(f, m, k)
    PROVE  /\ Fills(h, n)
           /\ (\A k \in Leaves(f, m) : h.entries[slot(f, m, k)] = f.entries[slot(f, m, k)])
                => dir_entries(h, n) = dir_entries(f, m)
  <1>1. Fills(h, n) BY Places DEF Fills
  <1>2. Leaves(h, n) = Leaves(f, m) BY DEF Leaves
  <1>3. \A k \in Leaves(f, m) : slot(h, n, k) = slot(f, m, k) BY DEF Leaves
  <1>4. /\ dir_entries(f, m) = UNION {f.entries[slot(f, m, k)] : k \in Leaves(f, m)}
        /\ dir_entries(h, n) = UNION {h.entries[slot(h, n, k)] : k \in Leaves(f, m)}
    BY <1>1, <1>2, EntriesAre
  <1>5. ASSUME \A k \in Leaves(f, m) : h.entries[slot(f, m, k)] = f.entries[slot(f, m, k)]
        PROVE  dir_entries(h, n) = dir_entries(f, m)
    BY <1>3, <1>5, <1>4
  <1> QED BY <1>1, <1>5

(* The directories but d are what they were. *)
LEMMA OtherDirs ==
    ASSUME NEW f \in Image, Full(f), NEW h, NEW ino, Touched(f, h, ino)
    PROVE  \A d \in Dirs(f) \ {ino} : Fills(h, h.inode[d]) /\ Ents(h, d) = Ents(f, d) /\ h.inode[d] = f.inode[d]
  <1> SUFFICES ASSUME NEW d \in Dirs(f) \ {ino}
               PROVE  Fills(h, h.inode[d]) /\ Ents(h, d) = Ents(f, d) /\ h.inode[d] = f.inode[d]
    OBVIOUS
  <1>1. h \in Image /\ d \in f.inode_bitmap \ {ino} BY DEF Touched, Dirs
  <1>2. f.inode[d] \in InodeType /\ Fills(f, f.inode[d]) BY SubdirsFinite
  <1>3. h.inode[d] = f.inode[d] /\ \A k \in Slots : slot(h, f.inode[d], k) = slot(f, f.inode[d], k)
    BY <1>1 DEF Touched, Others, at
  <1>4. \A k \in Leaves(f, f.inode[d]) : h.entries[slot(f, f.inode[d], k)] = f.entries[slot(f, f.inode[d], k)]
    BY <1>1 DEF Touched, Leaves, at
  <1>5. Fills(h, f.inode[d]) /\ dir_entries(h, f.inode[d]) = dir_entries(f, f.inode[d])
    BY <1>1, <1>2, <1>3, <1>4, SameEnts
  <1> QED BY <1>3, <1>5 DEF Ents

(* Whatever happens to the map of a file, the tree is the same. *)
LEMMA FileTouched ==
    ASSUME NEW f, Consistent(f), NEW h, NEW ino \in f.inode_bitmap \ Dirs(f), Touched(f, h, ino)
    PROVE  Consistent(h)
  <1>1. f \in Image /\ Full(f) /\ IsTree(f) /\ InodesCounted(f) BY DEF Consistent, Sound
  <1>2. h \in Image /\ Owned(h) /\ BlocksCounted(h) /\ h.inode_bitmap = f.inode_bitmap
        /\ h.free_inodes_count = f.free_inodes_count /\ h.used_dirs_count = f.used_dirs_count
    BY DEF Touched
  <1>3. \A d \in Dirs(f) : Fills(h, h.inode[d]) /\ Ents(h, d) = Ents(f, d)
    BY <1>1, OtherDirs
  <1>4. ASSUME NEW i \in f.inode_bitmap
        PROVE  h.inode[i].mode = f.inode[i].mode /\ h.inode[i].links >= f.inode[i].links
    <2>1. h.inode[i].mode = f.inode[i].mode /\ h.inode[i].links = f.inode[i].links
      BY <1>4 DEF Touched, Others
    <2>2. i \in Inodes /\ f.inode \in [Inodes -> InodeType] BY <1>1, Fields
    <2>3. f.inode[i] \in InodeType BY <2>2
    <2>4. f.inode[i].links \in Nat BY <2>3 DEF InodeType
    <2> QED BY <2>1, <2>4
  <1>5. IsTree(h) /\ Dirs(h) = Dirs(f) BY <1>1, <1>2, <1>3, <1>4, TreeSame
  <1>6. Full(h) BY <1>3, <1>5 DEF Full
  <1>7. InodesCounted(h) BY <1>1, <1>2, <1>5 DEF InodesCounted
  <1> QED BY <1>2, <1>5, <1>6, <1>7 DEF Consistent, Sound

LEMMA ClearTail ==
    ASSUME NEW g \in Image, NEW n \in InodeType, NEW old \in Nat, NEW new
    PROVE  clear_tail(g, n, old, new) \in Image /\ SameMaps(g, clear_tail(g, n, old, new))
  <1> DEFINE c == clear_tail(g, n, old, new)
             b == block_id_at(g, n, old \div BlockUnits)
             D == [i \in 0 .. BlockUnits - 1 |-> IF i >= old % BlockUnits THEN 0 ELSE g.data[b][i]]
  <1>1. b \in Blocks \cup {0}
    <2>1. old \div BlockUnits \in Nat BY Dimensions, DivMod
    <2>2. ASSUME NEW i \in Nat PROVE block_id_at(g, n, i) \in Blocks \cup {0}
      BY Dimensions, BlockAt, Places, SlotType
    <2> QED BY <2>1, <2>2
  <1>2. CASE new <= old \/ old % BlockUnits = 0
    <2>1. c = g BY <1>2 DEF clear_tail
    <2> QED BY <2>1 DEF SameMaps, SameInodes
  <1>3. CASE ~(new <= old \/ old % BlockUnits = 0) /\ b = 0
    <2> DEFINE sb == IF SuperblockUnit >= old % BlockUnits THEN "cleared" ELSE g.superblock
    <2>1. c = [g EXCEPT !.superblock = sb] BY <1>3 DEF clear_tail, Image
    <2>2. sb \in {"intact", "cleared"} BY Fields
    <2> HIDE DEF sb, c
    <2>3. c \in Image /\ SameMaps(g, c) BY <2>1, <2>2 DEF Image, SameMaps, SameInodes
    <2> QED BY <2>3 DEF c
  <1>4. CASE ~(new <= old \/ old % BlockUnits = 0) /\ b # 0
    <2>1. c = [g EXCEPT !.data[b] = D] BY <1>4 DEF clear_tail, Image
    <2>2. [g EXCEPT !.data[b] = D] = [g EXCEPT !.data = [g.data EXCEPT ![b] = D]]
      BY DEF Image
    <2>3. [g.data EXCEPT ![b] = D] \in [Blocks -> Data]
      <3>1. g.data \in [Blocks -> Data] BY Fields
      <3>2. D \in Data BY <1>1, <1>4, <3>1 DEF Data
      <3> HIDE DEF D, b
      <3> QED BY <3>1, <3>2
    <2> HIDE DEF D, b, c
    <2>4. c \in Image /\ SameMaps(g, c)
      BY <2>1, <2>2, <2>3 DEF Image, SameMaps, SameInodes
    <2> QED BY <2>4 DEF c
  <1> QED BY <1>2, <1>3, <1>4


LEMMA LiveNode ==
    ASSUME NEW f \in Image, Owned(f), NEW ino \in f.inode_bitmap
    PROVE  /\ ino \in Inodes /\ f.inode[ino] \in InodeType /\ Within(f, f.inode[ino])
           /\ f.inode[ino].size \in Nat /\ f.inode[ino].links \in Nat
  <1>1. ino \in Inodes /\ f.inode \in [Inodes -> InodeType] BY Fields
  <1>2. f.inode[ino] \in InodeType BY <1>1
  <1>3. Within(f, f.inode[ino]) BY DEF Owned, Within, at
  <1> QED BY <1>1, <1>2, <1>3 DEF InodeType

(* What became of the image and the inode, and that no block is lost if    *)
(* the step succeeds.                                                      *)
Resized(f, ino, r) ==
    /\ Result(r) /\ Touched(f, r.fs, ino)
    /\ r.ok /\ Accounted(f) => Accounted(r.fs)

(* A copy that is not written back. *)
LEMMA NotWritten ==
    ASSUME NEW f \in Image, Owned(f), NEW ino \in f.inode_bitmap,
           NEW g, NEW n, Grew(f, f.inode[ino], g, n)
    PROVE  Touched(f, g, ino)
  <1>1. ino \in Inodes /\ f.inode[ino] \in InodeType BY LiveNode
  <1>2. g \in Image /\ g.inode = f.inode BY DEF Grew, SameInodes
  <1>3. write_inode(g, ino, f.inode[ino]) = g BY <1>1, <1>2, SameInodeWritten
  <1>4. Touched(f, write_inode(g, ino, f.inode[ino]), ino) BY <1>1, GrownTouched
  <1> QED BY <1>3, <1>4

LEMMA SetSize ==
    ASSUME NEW f \in Image, Owned(f), BlocksCounted(f), NEW ino \in f.inode_bitmap, NEW new \in Nat,
           NEW r, Result(r),
           \/ Grew(f, f.inode[ino], r.fs, r.node)
           \/ r.ok /\ \E keep \in Nat : r = free_inode_blocks(f, f.inode[ino], keep)
    PROVE  Resized(f, ino, set_size(r, ino, f.inode[ino].size, new))
  <1> DEFINE node == f.inode[ino]
             s == set_size(r, ino, node.size, new)
  <1>1. ino \in Inodes /\ node \in InodeType /\ node.size \in Nat BY LiveNode
  <1>2. CASE ~r.ok
    BY <1>2, NotWritten DEF set_size, Resized
  <1>3. CASE r.ok
    <2> DEFINE c == clear_tail(r.fs, r.node, node.size, new)
               n == [r.node EXCEPT !.size = new]
               m == update_inode_block_count(c, n)
               h == write_inode(c, ino, m)
    <2>1. /\ r.fs \in Image /\ r.node \in InodeType
          /\ r.node.mode = node.mode /\ r.node.links = node.links
      <3>1. CASE Grew(f, f.inode[ino], r.fs, r.node)
        BY <3>1 DEF Grew
      <3>2. CASE \E keep \in Nat : r = free_inode_blocks(f, f.inode[ino], keep)
        BY <3>2, FreedBlocks
      <3> QED BY <3>1, <3>2
    <2>2. c \in Image /\ SameMaps(r.fs, c) BY <1>1, <2>1, ClearTail
    <2>3. n \in InodeType /\ n.mode = node.mode /\ n.links = node.links /\ n.block = r.node.block
      BY <2>1 DEF InodeType
    <2> HIDE DEF c, n
    <2>4. /\ m \in InodeType /\ m.block = n.block /\ m.mode = n.mode
          /\ m.links = n.links /\ exact(c, m)
      BY <2>2, <2>3, Recounted
    <2>5. s = [r EXCEPT !.fs = h] BY <1>3 DEF set_size, write_counted, c, n
    <2>6. s.fs = h /\ s.ok = r.ok /\ Result(s) BY <2>5 DEF Result
    <2> HIDE DEF m, h, s
    <2>7. Touched(f, h, ino) /\ (Accounted(f) => Accounted(h))
      <3>1. CASE Grew(f, f.inode[ino], r.fs, r.node)
        BY <2>2, <3>1, GrewData, <2>3, <2>4, <1>1, GrownTouched DEF h
      <3>2. CASE \E keep \in Nat : r = free_inode_blocks(f, f.inode[ino], keep)
        <4>1. PICK keep \in Nat : r = free_inode_blocks(f, f.inode[ino], keep)
          BY <3>2
        <4>2. m.block = r.node.block /\ m.mode = f.inode[ino].mode /\ m.links = f.inode[ino].links
          BY <2>3, <2>4
        <4> QED BY <2>2, <2>4, <4>1, <4>2, ShrunkTouched DEF h
      <3> QED BY <3>1, <3>2
    <2> QED BY <2>6, <2>7 DEF Resized, s
  <1> QED BY <1>2, <1>3

LEMMA Resize ==
    ASSUME NEW f \in Image, Owned(f), BlocksCounted(f), NEW ino \in f.inode_bitmap, NEW new \in Nat
    PROVE  Resized(f, ino, resize_inode_data(f, ino, new))
  <1> DEFINE node == f.inode[ino]
             old == blocks_of(node.size)
             to == blocks_of(new)
             r == resize_inode_data(f, ino, new)
  <1>1. ino \in Inodes /\ node \in InodeType /\ node.size \in Nat /\ Within(f, node)
    BY LiveNode
  <1>2. old \in Nat /\ to \in Nat BY <1>1, BlocksOf
  <1>3. Grew(f, node, f, node) BY <1>1, GrewNot
  <1>4. Result(Ok(f, node)) /\ Result(NotOk(f, node)) /\ Ok(f, node).fs = f /\ Ok(f, node).node = node
        /\ NotOk(f, node).fs = f /\ NotOk(f, node).node = node /\ ~NotOk(f, node).ok
    BY DEF Result, Ok, NotOk
  <1>5. CASE new > MaxBlocks * BlockUnits
    BY <1>5, <1>3, NotWritten, <1>4 DEF resize_inode_data, Resized
  <1>6. CASE ~(new > MaxBlocks * BlockUnits)
    <2>1. CASE to > old
      <3> DEFINE e == ensure_file_blocks(f, node, old, to)
      <3>1. r = set_size(e, ino, node.size, new) BY <1>6, <2>1 DEF resize_inode_data
      <3>2. old <= to BY <1>2, <2>1
      <3>3. Result(e) /\ Grew(f, node, e.fs, e.node)
        <4> HIDE DEF old, to
        <4> QED BY <1>1, <1>2, <3>2, EnsureBlocks
      <3> HIDE DEF e
      <3>4. Resized(f, ino, set_size(e, ino, node.size, new)) BY <3>3, SetSize
      <3> QED BY <3>1, <3>4
    <2>2. CASE ~(to > old) /\ to < old
      <3> DEFINE e == free_inode_blocks(f, node, to)
      <3>1. r = set_size(e, ino, node.size, new) BY <1>6, <2>2 DEF resize_inode_data
      <3>2. Result(e) /\ e.ok
        <4> HIDE DEF to
        <4> QED BY <1>2, FreedBlocks
      <3>3. \E keep \in Nat : e = free_inode_blocks(f, f.inode[ino], keep) BY <1>2
      <3> HIDE DEF e
      <3>4. Resized(f, ino, set_size(e, ino, node.size, new)) BY <3>2, <3>3, SetSize
      <3> QED BY <3>1, <3>4
    <2>3. CASE ~(to > old) /\ ~(to < old)
      <3> DEFINE e == Ok(f, node)
      <3>1. r = set_size(e, ino, node.size, new) BY <1>6, <2>3 DEF resize_inode_data
      <3>2. Result(e) /\ Grew(f, node, e.fs, e.node) BY <1>3, <1>4
      <3> HIDE DEF e
      <3>4. Resized(f, ino, set_size(e, ino, node.size, new)) BY <3>2, SetSize
      <3> QED BY <3>1, <3>4
    <2> QED BY <2>1, <2>2, <2>3
  <1> QED BY <1>5, <1>6


(* What a call that needs space leaves: a consistent image, and one with   *)
(* no block lost unless it reports that it failed.                         *)
AsPromised(f, r) ==
    /\ Consistent(r.fs)
    /\ r.result # USER_ERR_FAULT /\ Accounted(f) => Accounted(r.fs)

LEMMA Returned ==
    ASSUME NEW f, NEW e
    PROVE  /\ Failed(f, e).fs = f /\ Failed(f, e).result = e
           /\ Done(f).fs = f /\ Done(f).result = 0 /\ USER_ERR_FAULT # 0
           /\ \A n \in Nat : n # USER_ERR_FAULT
  BY DEF Failed, Done, USER_ERR_FAULT

LEMMA FileAt ==
    ASSUME NEW f, Consistent(f), NEW path \in Paths, path_lookup(f, path) # 0,
           inode_is_file(f.inode[path_lookup(f, path)])
    PROVE  path_lookup(f, path) \in f.inode_bitmap \ Dirs(f)
  <1>1. f \in Image /\ Full(f) /\ IsTree(f) BY DEF Consistent, Sound
  <1>2. path_lookup(f, path) \in f.inode_bitmap BY <1>1, TreeFind, PathLen
  <1> QED BY <1>2 DEF Dirs, inode_is_file

LEMMA Truncated ==
    ASSUME NEW f, Consistent(f), NEW path \in Paths, NEW size \in Nat
    PROVE  AsPromised(f, ext2_truncate_file(f, path, size))
  <1> DEFINE ino == path_lookup(f, path)
             r == resize_inode_data(f, ino, size)
             t == ext2_truncate_file(f, path, size)
  <1>1. f \in Image /\ Owned(f) /\ BlocksCounted(f) BY DEF Consistent, Sound
  <1>2. CASE ino = 0 \/ ~inode_is_file(f.inode[ino])
    BY <1>2, Returned DEF ext2_truncate_file, AsPromised
  <1>3. CASE ~(ino = 0 \/ ~inode_is_file(f.inode[ino]))
    <2>1. t = done_or_fault(r) BY <1>3 DEF ext2_truncate_file
    <2>2. ino \in f.inode_bitmap \ Dirs(f) BY <1>3, FileAt
    <2>3. Result(r) /\ Touched(f, r.fs, ino) /\ (r.ok /\ Accounted(f) => Accounted(r.fs))
      <3> HIDE DEF ino
      <3> QED BY <1>1, <2>2, Resize DEF Resized
    <2> HIDE DEF r
    <2>4. Consistent(r.fs) BY <2>2, <2>3, FileTouched
    <2>5. t.fs = r.fs /\ (t.result # USER_ERR_FAULT => r.ok)
      BY <2>1, Returned DEF done_or_fault
    <2> QED BY <2>3, <2>4, <2>5 DEF AsPromised
  <1> QED BY <1>2, <1>3

LEMMA FileWritten ==
    ASSUME NEW f, Consistent(f), NEW path \in Paths, NEW len \in Nat, NEW offset \in Nat
    PROVE  AsPromised(f, ext2_write_file(f, path, len, offset))
  <1> DEFINE ino == path_lookup(f, path)
             node == f.inode[ino]
             end == offset + len
             t == ext2_write_file(f, path, len, offset)
  <1>1. f \in Image /\ Owned(f) /\ BlocksCounted(f) BY DEF Consistent, Sound
  <1>2. CASE ino = 0 \/ ~inode_is_file(node) \/ offset > node.size
    BY <1>2, Returned DEF ext2_write_file, AsPromised
  <1>3. CASE ~(ino = 0 \/ ~inode_is_file(node) \/ offset > node.size)
    <2> DEFINE r == IF end > node.size THEN resize_inode_data(f, ino, end) ELSE Ok(f, node)
    <2>1. t = write_resized(r, ino, len, offset) BY <1>3 DEF ext2_write_file
    <2>2. ino \in f.inode_bitmap \ Dirs(f) BY <1>3, FileAt
    <2>3. Resized(f, ino, r)
      <3>1. CASE end > node.size
        <4>1. end \in Nat OBVIOUS
        <4> HIDE DEF ino, end
        <4>2. Resized(f, ino, resize_inode_data(f, ino, end)) BY <1>1, <2>2, <4>1, Resize
        <4> QED BY <3>1, <4>2
      <3>2. CASE ~(end > node.size)
        <4>1. r = Ok(f, node) /\ Result(r) /\ r.fs = f BY <3>2 DEF Ok, Result
        <4>2. node \in InodeType BY <1>1, <2>2, LiveNode
        <4>3. Grew(f, node, f, node) BY <1>1, <4>2, GrewNot
        <4>4. Touched(f, f, ino) BY <1>1, <2>2, <4>3, NotWritten
        <4> QED BY <4>1, <4>4 DEF Resized
      <3> QED BY <3>1, <3>2
    <2> HIDE DEF r, node, ino
    <2>4. Consistent(r.fs) /\ Result(r) /\ Touched(f, r.fs, ino)
      BY <2>2, <2>3, FileTouched DEF Resized
    <2>5. CASE ~r.ok
      BY <2>1, <2>5, <2>4, Returned DEF write_resized, AsPromised
    <2>6. CASE r.ok
      <3> DEFINE g == r.fs
                 m == g.inode[ino]
                 w == write_blocks(g, m, offset, end)
                 h == write_inode(w.fs, ino, w.node)
      <3>1. g \in Image /\ Owned(g) /\ BlocksCounted(g) /\ ino \in g.inode_bitmap \ Dirs(g)
        BY <2>4, <2>2 DEF Touched, Consistent, Sound, Dirs
      <3>2. t = wrote(w, ino, len) BY <2>1, <2>6 DEF write_resized
      <3> HIDE DEF g
      <3>3. m \in InodeType /\ Within(g, m) BY <3>1, LiveNode
      <3>4. end \in Nat /\ offset <= end OBVIOUS
      <3> HIDE DEF end, m
      <3>5. offset \div BlockUnits \in Nat /\ blocks_of(end) \in Nat /\ offset \div BlockUnits <= blocks_of(end)
        BY <3>4, BlocksOf
      <3>6. Result(w) /\ Grew(g, m, w.fs, w.node) BY <3>1, <3>3, <3>4, <3>5, WriteBlocks
      <3> HIDE DEF w
      <3>7. CASE ~w.ok
        <4>1. t = Failed(w.fs, USER_ERR_FAULT) BY <3>2, <3>7 DEF wrote
        <4>2. Touched(g, w.fs, ino) BY <3>1, <3>6, NotWritten DEF m
        <4>3. Consistent(w.fs) BY <2>4, <3>1, <4>2, FileTouched DEF g
        <4> QED BY <4>1, <4>3, Returned DEF AsPromised
      <3>8. CASE w.ok
        <4>1. t.fs = h BY <3>2, <3>8 DEF wrote
        <4>2. w.node \in InodeType /\ w.node.mode = g.inode[ino].mode /\ w.node.links = g.inode[ino].links
              /\ (exact(g, m) => exact(w.fs, w.node))
          BY <3>6 DEF Grew, m
        <4>3. m.block = g.inode[ino].block BY DEF m
        <4> HIDE DEF h
        <4>4. Touched(g, h, ino) /\ (exact(w.fs, w.node) /\ Accounted(g) => Accounted(h))
          BY <3>1, <3>3, <3>6, <4>2, <4>3, GrownTouched DEF h
        <4>5. Consistent(h) BY <2>4, <3>1, <4>4, FileTouched DEF g
        <4>6. Accounted(f) => Accounted(h)
          BY <2>3, <2>6, <3>1, <4>2, <4>4 DEF Resized, g, Accounted, m
        <4> QED BY <4>1, <4>5, <4>6 DEF AsPromised
      <3> QED BY <3>7, <3>8
    <2> QED BY <2>5, <2>6
  <1> QED BY <1>2, <1>3


-----------------------------------------------------------------------------
(* Inodes. *)

FreeCounted(f) == f.free_inodes_count = Cardinality(Inodes \ f.inode_bitmap)

LEMMA InodeFreed ==
    ASSUME NEW f \in Image, FreeCounted(f), NEW x \in f.inode_bitmap, NEW is_dir \in BOOLEAN
    PROVE  LET g == mark_inode_used(f, x, FALSE, is_dir)
           IN  /\ g \in Image /\ FreeCounted(g) /\ SameBlocks(f, g) /\ g.inode = f.inode
               /\ g.inode_bitmap = f.inode_bitmap \ {x}
               /\ g.used_dirs_count = IF ~is_dir THEN f.used_dirs_count
                                      ELSE IF f.used_dirs_count > 0 THEN f.used_dirs_count - 1 ELSE 0
  <1> DEFINE g == mark_inode_used(f, x, FALSE, is_dir)
             B == f.inode_bitmap \ {x}
             c == f.free_inodes_count + 1
             u == IF ~is_dir THEN f.used_dirs_count
                  ELSE IF f.used_dirs_count > 0 THEN f.used_dirs_count - 1 ELSE 0
  <1>1. g = [f EXCEPT !.inode_bitmap = B, !.free_inodes_count = c, !.used_dirs_count = u]
    BY DEF mark_inode_used, Image
  <1>2. f.inode_bitmap \in SUBSET Inodes /\ f.free_inodes_count \in Nat /\ f.used_dirs_count \in Nat
    BY Fields
  <1>3. B \in SUBSET Inodes /\ c \in Nat /\ u \in Nat BY <1>2
  <1>4. c = Cardinality(Inodes \ B)
    <2>1. Inodes \ B = (Inodes \ f.inode_bitmap) \cup {x} /\ x \notin Inodes \ f.inode_bitmap
      BY <1>2
    <2>2. IsFiniteSet(Inodes \ f.inode_bitmap) BY Dimensions, FS_Subset
    <2> HIDE DEF B
    <2> QED BY <2>1, <2>2, FS_AddElement, SMTT(30) DEF FreeCounted
  <1> HIDE DEF B, c, u, g
  <1>5. /\ g \in Image /\ SameBlocks(f, g) /\ g.inode = f.inode /\ g.inode_bitmap = B
        /\ g.used_dirs_count = u /\ g.free_inodes_count = c
    BY <1>1, <1>3 DEF Image, SameBlocks
  <1> QED BY <1>4, <1>5 DEF FreeCounted, B, u, g

(* An inode that is handed out was free and is blank. *)
HandedInode(f, g, x, is_dir) ==
    /\ g \in Image /\ FreeCounted(g) /\ SameBlocks(f, g)
    /\ x \in (FirstInode .. InodesCount) \ f.inode_bitmap
    /\ g.inode_bitmap = f.inode_bitmap \cup {x}
    /\ g.inode[x] = EmptyInode /\ \A i \in Inodes \ {x} : g.inode[i] = f.inode[i]
    /\ g.used_dirs_count = IF is_dir THEN f.used_dirs_count + 1 ELSE f.used_dirs_count

LEMMA InodeTaken ==
    ASSUME NEW f \in Image, FreeCounted(f), NEW is_dir \in BOOLEAN
    PROVE  LET r == allocate_inode(f, is_dir)
           IN  /\ r.ino = 0 => r.fs = f
               /\ r.ino # 0 => HandedInode(f, r.fs, r.ino, is_dir)
               /\ (FirstInode .. InodesCount) \ f.inode_bitmap # {} => r.ino # 0
  <1> DEFINE clear == (FirstInode .. InodesCount) \ f.inode_bitmap
             r == allocate_inode(f, is_dir)
             x == Min(clear)
             h == mark_inode_used(f, x, TRUE, is_dir)
             g == write_inode(h, x, EmptyInode)
             free == Inodes \ f.inode_bitmap
  <1>1. IsFiniteSet(free) /\ clear \subseteq free BY Dimensions, FS_Subset
  <1>2. CASE f.free_inodes_count = 0 \/ clear = {}
    <2>1. r = [fs |-> f, ino |-> 0] BY <1>2 DEF allocate_inode
    <2>2. clear = {}
      <3>1. f.free_inodes_count = 0 => free = {}
        <4> HIDE DEF free
        <4> QED BY <1>1, FS_EmptySet DEF FreeCounted, free
      <3> QED BY <1>1, <1>2, <3>1
    <2> QED BY <2>1, <2>2
  <1>3. CASE ~(f.free_inodes_count = 0 \/ clear = {})
    <2>1. r.fs = g /\ r.ino = x BY <1>3 DEF allocate_inode
    <2>2. x \in clear
      <3>1. clear \in SUBSET Nat BY Ext2Assumption
      <3> HIDE DEF clear
      <3> QED BY <1>3, <3>1, MinIsLeast
    <2> DEFINE B == f.inode_bitmap \cup {x}
               c == f.free_inodes_count - 1
               u == IF is_dir THEN f.used_dirs_count + 1 ELSE f.used_dirs_count
    <2>3. f.inode_bitmap \in SUBSET Inodes /\ f.free_inodes_count \in Nat /\ f.used_dirs_count \in Nat
      BY Fields
    <2>4. x \in Inodes /\ x \notin f.inode_bitmap /\ x # 0 BY <2>2, Dimensions
    <2> HIDE DEF x
    <2>5. h = [f EXCEPT !.inode_bitmap = B, !.free_inodes_count = c, !.used_dirs_count = u]
      <3>1. f.free_inodes_count > 0 BY <1>3, <2>3
      <3> QED BY <2>4, <3>1 DEF mark_inode_used, Image
    <2>6. B \in SUBSET Inodes /\ c \in Nat /\ u \in Nat BY <1>3, <2>3, <2>4
    <2>7. c = Cardinality(Inodes \ B)
      <3>1. Inodes \ B = free \ {x} /\ x \in free BY <2>4
      <3> HIDE DEF B, free
      <3>2. Cardinality(free \ {x}) = Cardinality(free) - 1
        BY <1>1, <3>1, FS_RemoveElement
      <3> QED BY <3>1, <3>2 DEF FreeCounted, free
    <2> HIDE DEF B, c, u, h
    <2>8. /\ h \in Image /\ SameBlocks(f, h) /\ h.inode = f.inode /\ h.inode_bitmap = B
          /\ h.used_dirs_count = u /\ h.free_inodes_count = c
      BY <2>5, <2>6 DEF Image, SameBlocks
    <2>9. EmptyInode \in InodeType BY Dimensions
    <2>10. /\ g \in Image /\ g.inode = [h.inode EXCEPT ![x] = EmptyInode] /\ g.inode[x] = EmptyInode
           /\ \A i \in Inodes \ {x} : g.inode[i] = h.inode[i]
           /\ g.block_bitmap = h.block_bitmap /\ g.free_blocks_count = h.free_blocks_count
           /\ g.inode_bitmap = h.inode_bitmap /\ g.free_inodes_count = h.free_inodes_count
           /\ g.used_dirs_count = h.used_dirs_count
           /\ g.indirect = h.indirect /\ g.entries = h.entries
      BY <2>4, <2>8, <2>9, InodeWritten, Zenon
    <2> HIDE DEF g
    <2>11. HandedInode(f, g, x, is_dir)
      BY <2>8, <2>10, <2>7, <2>2 DEF SameBlocks, FreeCounted, HandedInode, B, u
    <2> HIDE DEF r
    <2>12. r.ino # 0 /\ HandedInode(f, r.fs, r.ino, is_dir) BY <2>1, <2>4, <2>11
    <2> QED BY <2>12 DEF r
  <1> QED BY <1>2, <1>3


-----------------------------------------------------------------------------
(* Steps on the way to a new inode. *)

(* The inodes of f have their maps and their entries in g, and perhaps     *)
(* more links.                                                             *)
Like(f, g) ==
    /\ \A i \in f.inode_bitmap :
          /\ g.inode[i].mode = f.inode[i].mode /\ g.inode[i].size = f.inode[i].size
          /\ g.inode[i].blocks = f.inode[i].blocks /\ g.inode[i].links >= f.inode[i].links
          /\ \A k \in Slots : at(g, i, k) = at(f, i, k)
    /\ \A b \in f.block_bitmap : g.entries[b] = f.entries[b]

LEMMA LikeMore ==
    ASSUME NEW f \in Image, NEW g \in Image, NEW h \in Image, Like(f, g), Like(g, h),
           f.inode_bitmap \subseteq g.inode_bitmap, f.block_bitmap \subseteq g.block_bitmap
    PROVE  Like(f, h)
  <1>1. ASSUME NEW i \in f.inode_bitmap PROVE h.inode[i].links >= f.inode[i].links
    <2>1. i \in Inodes /\ f.inode \in [Inodes -> InodeType] /\ g.inode \in [Inodes -> InodeType]
          /\ h.inode \in [Inodes -> InodeType]
      BY Fields
    <2>2. f.inode[i] \in InodeType /\ g.inode[i] \in InodeType /\ h.inode[i] \in InodeType
      BY <2>1
    <2>3. f.inode[i].links \in Nat /\ g.inode[i].links \in Nat /\ h.inode[i].links \in Nat
      BY <2>2 DEF InodeType
    <2>4. g.inode[i].links >= f.inode[i].links /\ h.inode[i].links >= g.inode[i].links
      BY DEF Like
    <2> QED BY <2>3, <2>4
  <1> QED BY <1>1 DEF Like

LEMMA LikeNodes ==
    ASSUME NEW f \in Image, Owned(f), NEW g \in Image, Like(f, g), NEW i \in f.inode_bitmap
    PROVE  /\ f.inode[i] \in InodeType /\ g.inode[i] \in InodeType
           /\ exact(f, f.inode[i]) => exact(g, g.inode[i])
           /\ Fills(f, f.inode[i]) => Fills(g, g.inode[i]) /\ Ents(g, i) = Ents(f, i)
  <1>1. i \in Inodes /\ f.inode \in [Inodes -> InodeType] /\ g.inode \in [Inodes -> InodeType]
    BY Fields
  <1>2. f.inode[i] \in InodeType /\ g.inode[i] \in InodeType BY <1>1
  <1>3. /\ g.inode[i].blocks = f.inode[i].blocks /\ g.inode[i].size = f.inode[i].size
        /\ \A k \in Slots : slot(g, g.inode[i], k) = slot(f, f.inode[i], k)
    BY DEF Like, at
  <1>4. taken(g, g.inode[i]) = taken(f, f.inode[i]) BY <1>3 DEF taken
  <1>5. exact(f, f.inode[i]) => exact(g, g.inode[i])
    BY <1>2, <1>3, <1>4, AllocatedIs DEF exact
  <1>6. ASSUME Fills(f, f.inode[i]) PROVE Fills(g, g.inode[i]) /\ Ents(g, i) = Ents(f, i)
    <2>1. \A k \in Leaves(f, f.inode[i]) : g.entries[slot(f, f.inode[i], k)] = f.entries[slot(f, f.inode[i], k)]
      <3> TAKE k \in Leaves(f, f.inode[i])
      <3>1. slot(f, f.inode[i], k) \in f.block_bitmap BY DEF Leaves, Owned, at
      <3> QED BY <3>1 DEF Like
    <2> QED BY <1>2, <1>3, <1>6, <2>1, SameEnts DEF Ents
  <1> QED BY <1>2, <1>5, <1>6

LEMMA AccountedLike ==
    ASSUME NEW f \in Image, Owned(f), NEW g \in Image, Like(f, g), Accounted(f),
           g.inode_bitmap = f.inode_bitmap, g.block_bitmap = f.block_bitmap
    PROVE  Accounted(g)
  <1>1. \A i \in g.inode_bitmap : exact(g, g.inode[i]) BY LikeNodes DEF Accounted
  <1>2. \A b \in g.block_bitmap : \E i \in g.inode_bitmap, k \in Slots : at(g, i, k) = b
    BY DEF Accounted, Like
  <1> QED BY <1>1, <1>2 DEF Accounted

(* A call that fails and gives back what it took. *)
LEMMA GivenBack ==
    ASSUME NEW f, Consistent(f), NEW g \in Image, Like(f, g), BlocksCounted(g), FreeCounted(g),
           g.inode_bitmap = f.inode_bitmap, g.block_bitmap = f.block_bitmap,
           g.used_dirs_count = f.used_dirs_count
    PROVE  Consistent(g) /\ (Accounted(f) => Accounted(g))
  <1>1. f \in Image /\ Full(f) /\ IsTree(f) /\ InodesCounted(f) /\ Owned(f)
    BY DEF Consistent, Sound
  <1>2. \A i \in f.inode_bitmap : \A k \in Slots : at(g, i, k) = at(f, i, k) BY DEF Like
  <1>3. Owned(g) BY <1>1, <1>2 DEF Owned
  <1>4. \A d \in Dirs(f) : Fills(g, g.inode[d]) /\ Ents(g, d) = Ents(f, d)
    <2> TAKE d \in Dirs(f)
    <2>1. d \in f.inode_bitmap /\ Fills(f, f.inode[d]) BY <1>1 DEF Dirs, Full
    <2> QED BY <1>1, <2>1, LikeNodes
  <1>5. IsTree(g) /\ Dirs(g) = Dirs(f) BY <1>1, <1>4, TreeSame DEF Like
  <1>6. Full(g) BY <1>4, <1>5 DEF Full
  <1>7. InodesCounted(g) BY <1>1, <1>5 DEF InodesCounted, FreeCounted
  <1>8. Accounted(f) => Accounted(g) BY <1>1, AccountedLike
  <1> QED BY <1>3, <1>5, <1>6, <1>7, <1>8 DEF Consistent, Sound

(* An inode more, with blocks that were free. *)
OneMore(f, g, x) ==
    /\ g \in Image /\ BlocksCounted(g) /\ Like(f, g)
    /\ x \in Inodes \ f.inode_bitmap /\ g.inode_bitmap = f.inode_bitmap \cup {x}
    /\ f.block_bitmap \subseteq g.block_bitmap
    /\ \A k \in Slots : at(g, x, k) # 0 => at(g, x, k) \in Fresh(f, g)
    /\ \A k, l \in Slots : at(g, x, k) # 0 /\ at(g, x, k) = at(g, x, l) => k = l
    /\ \A b \in Fresh(f, g) : \E k \in Slots : at(g, x, k) = b
    /\ g.inode[x].mode = "dir" => Fills(g, g.inode[x])
    /\ exact(g, g.inode[x])

LEMMA InodeAdded ==
    ASSUME NEW f, Sound(f), NEW g, NEW x, OneMore(f, g, x)
    PROVE  /\ Sound(g) /\ (Accounted(f) => Accounted(g))
           /\ Dirs(f) \subseteq Dirs(g)
           /\ \A d \in Dirs(f) : Ents(g, d) = Ents(f, d)
  <1>1. f \in Image /\ Owned(f) /\ Full(f) BY DEF Sound
  <1>2. /\ g \in Image /\ BlocksCounted(g) /\ Like(f, g)
        /\ x \in Inodes \ f.inode_bitmap /\ g.inode_bitmap = f.inode_bitmap \cup {x}
        /\ f.block_bitmap \subseteq g.block_bitmap
        /\ \A k \in Slots : at(g, x, k) # 0 => at(g, x, k) \in Fresh(f, g)
        /\ \A k, l \in Slots : at(g, x, k) # 0 /\ at(g, x, k) = at(g, x, l) => k = l
        /\ \A b \in Fresh(f, g) : \E k \in Slots : at(g, x, k) = b
    BY DEF OneMore
  <1>3. \A i \in f.inode_bitmap : \A k \in Slots : at(g, i, k) = at(f, i, k)
    BY <1>2 DEF Like
  <1>4. \A i \in f.inode_bitmap : \A k \in Slots : at(g, i, k) # 0 => at(g, i, k) \in f.block_bitmap
    BY <1>1, <1>3 DEF Owned
  <1>5. \A b \in Fresh(f, g) : b \in g.block_bitmap /\ b \notin f.block_bitmap
    BY DEF Fresh
  <1>6. Owned(g)
    <2>1. ASSUME NEW i \in g.inode_bitmap, NEW k \in Slots, at(g, i, k) # 0 PROVE at(g, i, k) \in g.block_bitmap
      BY <1>2, <1>4, <1>5, <2>1
    <2>2. ASSUME NEW i \in g.inode_bitmap, NEW j \in g.inode_bitmap, NEW k \in Slots, NEW l \in Slots,
                 at(g, i, k) # 0, at(g, i, k) = at(g, j, l)
          PROVE  i = j /\ k = l
      <3>1. CASE i = x /\ j = x
        BY <1>2, <2>2, <3>1
      <3>2. CASE i \in f.inode_bitmap /\ j \in f.inode_bitmap
        BY <1>3, <2>2, <3>2, <1>1 DEF Owned
      <3>3. CASE i = x /\ j \in f.inode_bitmap
        BY <1>2, <1>4, <2>2, <3>3, <1>5
      <3>4. CASE j = x /\ i \in f.inode_bitmap
        BY <1>2, <1>4, <2>2, <3>4, <1>5
      <3> QED BY <1>2, <3>1, <3>2, <3>3, <3>4
    <2> QED BY <2>1, <2>2 DEF Owned
  <1>7. \A d \in Dirs(f) : d \in Dirs(g) /\ Fills(g, g.inode[d]) /\ Ents(g, d) = Ents(f, d)
    <2> TAKE d \in Dirs(f)
    <2>1. d \in f.inode_bitmap /\ Fills(f, f.inode[d]) /\ f.inode[d].mode = "dir"
      BY <1>1 DEF Dirs, Full
    <2>2. g.inode[d].mode = "dir" BY <1>2, <2>1 DEF Like
    <2> QED BY <1>1, <1>2, <2>1, <2>2, LikeNodes DEF Dirs
  <1>8. Full(g)
    <2>1. ASSUME NEW d \in Dirs(g) PROVE Fills(g, g.inode[d])
      <3>1. CASE d = x
        BY <3>1 DEF OneMore, Dirs
      <3>2. CASE d \in f.inode_bitmap
        BY <1>2, <3>2, <1>7 DEF Dirs, Like
      <3> QED BY <1>2, <3>1, <3>2 DEF Dirs
    <2> QED BY <2>1 DEF Full
  <1>9. Accounted(f) => Accounted(g)
    <2> SUFFICES ASSUME Accounted(f) PROVE Accounted(g)
      OBVIOUS
    <2>1. ASSUME NEW i \in g.inode_bitmap PROVE exact(g, g.inode[i])
      <3>1. CASE i = x
        BY <3>1 DEF OneMore
      <3>2. CASE i \in f.inode_bitmap
        BY <1>1, <1>2, <3>2, LikeNodes DEF Accounted
      <3> QED BY <1>2, <3>1, <3>2
    <2>2. ASSUME NEW b \in g.block_bitmap PROVE \E i \in g.inode_bitmap, k \in Slots : at(g, i, k) = b
      <3>1. CASE b \in f.block_bitmap
        <4>1. PICK i \in f.inode_bitmap, k \in Slots : at(f, i, k) = b
          BY <3>1 DEF Accounted
        <4> QED BY <1>2, <1>3, <4>1
      <3>2. CASE b \notin f.block_bitmap
        BY <3>2, <1>2 DEF Fresh
      <3> QED BY <3>1, <3>2
    <2> QED BY <2>1, <2>2 DEF Accounted
  <1> QED BY <1>2, <1>6, <1>7, <1>8, <1>9 DEF Sound


-----------------------------------------------------------------------------
(* add_dir_entry. *)

EntriesIn(f, node) == UNION {f.entries[slot(f, node, k)] : k \in Leaves(f, node)}

LEMMA GrewEnts ==
    ASSUME NEW f, NEW node, Within(f, node), NEW g, NEW n, Grew(f, node, g, n)
    PROVE  EntriesIn(g, n) = EntriesIn(f, node)
  <1>1. ASSUME NEW k \in Leaves(f, node)
        PROVE  k \in Leaves(g, n) /\ g.entries[slot(g, n, k)] = f.entries[slot(f, node, k)]
    BY DEF Leaves, Within, Grew
  <1>2. ASSUME NEW k \in Leaves(g, n), k \notin Leaves(f, node) PROVE g.entries[slot(g, n, k)] = {}
    BY <1>2 DEF Leaves, Grew
  <1> QED BY <1>1, <1>2 DEF EntriesIn

LEMMA EntryPut ==
    ASSUME NEW g \in Image, NEW b \in Blocks, NEW entry \in [name : DirNames, ino : Inodes]
    PROVE  LET e == [g EXCEPT !.entries[b] = @ \cup {entry}]
           IN  /\ e \in Image /\ SameInodes(g, e)
               /\ e.block_bitmap = g.block_bitmap /\ e.free_blocks_count = g.free_blocks_count
               /\ e.indirect = g.indirect
               /\ e.entries[b] = g.entries[b] \cup {entry}
               /\ \A c \in Blocks \ {b} : e.entries[c] = g.entries[c]
  <1> DEFINE S == g.entries[b] \cup {entry}
             E == [g.entries EXCEPT ![b] = S]
             e == [g EXCEPT !.entries[b] = @ \cup {entry}]
  <1>1. g.entries \in [Blocks -> EntrySets] BY Fields
  <1>2. S \in EntrySets BY <1>1, FS_AddElement DEF EntrySets
  <1>3. e = [g EXCEPT !.entries = E] BY DEF Image
  <1> HIDE DEF S
  <1>4. E \in [Blocks -> EntrySets] /\ E[b] = S /\ \A c \in Blocks \ {b} : E[c] = g.entries[c]
    BY <1>1, <1>2
  <1> HIDE DEF E, e
  <1>5. /\ e \in Image /\ SameInodes(g, e) /\ e.entries = E
        /\ e.block_bitmap = g.block_bitmap /\ e.free_blocks_count = g.free_blocks_count
        /\ e.indirect = g.indirect
    BY <1>3, <1>4 DEF Image, SameInodes
  <1> QED BY <1>4, <1>5 DEF S, e

(* What add_dir_entry returns: the directory has the entry, or it could    *)
(* not be added and nothing has changed.                                   *)
EntryAdded(f, d, entry, r) ==
    /\ Result(r)
    /\ Touched(f, r.fs, d) /\ Fills(r.fs, r.fs.inode[d])
    /\ Accounted(f) => Accounted(r.fs)
    /\ r.ok => Ents(r.fs, d) = Ents(f, d) \cup {entry}
    /\ ~r.ok => /\ Like(f, r.fs) /\ r.fs.block_bitmap = f.block_bitmap /\ SameInodes(f, r.fs)

LEMMA PutEntry ==
    ASSUME NEW f, Sound(f), NEW d \in Dirs(f), NEW R, Result(R), R.ok, Grew(f, f.inode[d], R.fs, R.node),
           NEW entry \in [name : DirNames, ino : Inodes],
           NEW count \in 1 .. MaxBlocks, NEW i \in 0 .. count - 1,
           \A j \in 0 .. MaxBlocks - 1 : slot(R.fs, R.node, place(j)) # 0 <=> j < count
    PROVE  EntryAdded(f, d, entry, put_entry(R, d, entry, i, count)) /\ put_entry(R, d, entry, i, count).ok
  <1> DEFINE g == R.fs
             n == R.node
             node == f.inode[d]
             b == block_id_at(g, n, i)
             e == [g EXCEPT !.entries[b] = @ \cup {entry}]
             o == [n EXCEPT !.size = count * BlockUnits]
             m == update_inode_block_count(e, o)
             h == write_inode(e, d, m)
             h0 == write_inode(g, d, m)
             p == place(i)
             r == put_entry(R, d, entry, i, count)
  <1>1. f \in Image /\ Owned(f) /\ Full(f) /\ d \in f.inode_bitmap BY DEF Sound, Dirs
  <1>2. d \in Inodes /\ node \in InodeType /\ Within(f, node) /\ Fills(f, node) /\ node.links \in Nat
    BY <1>1, LiveNode DEF Full
  <1>3. g \in Image /\ n \in InodeType /\ n.mode = node.mode /\ n.links = node.links /\ SameInodes(f, g)
    BY DEF Grew
  <1>4. i \in 0 .. MaxBlocks - 1 /\ i < count /\ i \in Nat /\ i < MaxBlocks BY Dimensions
  <1>5. p \in Slots /\ p # DirectBlocks BY <1>4, Places
  <1>6. b = slot(g, n, p) /\ slot(g, n, p) # 0 /\ b \in Blocks
    BY <1>4, BlockAt, <1>3, <1>5, SlotType
  <1>7. r = [R EXCEPT !.fs = h] BY DEF put_entry, write_counted
  <1>8. Result(r) /\ r.ok /\ r.fs = h BY <1>7 DEF Result
  <1> HIDE DEF r, b, p
  <1>9. /\ e \in Image /\ SameInodes(g, e)
        /\ e.block_bitmap = g.block_bitmap /\ e.free_blocks_count = g.free_blocks_count
        /\ e.indirect = g.indirect
        /\ e.entries[b] = g.entries[b] \cup {entry}
        /\ \A c \in Blocks \ {b} : e.entries[c] = g.entries[c]
    BY <1>3, <1>6, EntryPut
  <1> HIDE DEF e
  <1>10. o \in InodeType /\ o.block = n.block /\ o.mode = node.mode /\ o.links = node.links
         /\ o.size = count * BlockUnits
    <2>1. count * BlockUnits \in Nat BY Dimensions, BlocksOf
    <2> QED BY <1>3, <2>1 DEF InodeType
  <1> HIDE DEF o
  <1>11. /\ m \in InodeType /\ m.block = n.block /\ m.mode = node.mode /\ m.links = node.links
         /\ m.size = count * BlockUnits /\ exact(e, m)
    BY <1>9, <1>10, Recounted
  <1> HIDE DEF m
  <1>12. exact(g, m) /\ \A k : slot(g, m, k) = slot(g, n, k)
    BY <1>9, <1>11, SameSlots DEF exact, slot
  <1>13. Touched(f, h0, d) /\ (Accounted(f) => Accounted(h0))
    BY <1>1, <1>2, <1>11, <1>12, GrownTouched
  <1>14. InodeSet(g, d, m, h0) BY <1>2, <1>3, <1>11, InodeIsSet
  <1>15. InodeSet(e, d, m, h) BY <1>2, <1>9, <1>11, InodeIsSet
  <1> HIDE DEF h, h0
  <1>16. /\ h.inode = h0.inode /\ h.block_bitmap = h0.block_bitmap /\ h.free_blocks_count = h0.free_blocks_count
         /\ h.inode_bitmap = h0.inode_bitmap /\ h.free_inodes_count = h0.free_inodes_count
         /\ h.used_dirs_count = h0.used_dirs_count /\ h.indirect = h0.indirect
         /\ h0.inode_bitmap = f.inode_bitmap
         /\ h0.entries = g.entries /\ h.entries = e.entries /\ h.inode[d] = m /\ h0.indirect = g.indirect
         /\ h \in Image
    <2>1. h \in Image /\ h0 \in Image BY <1>14, <1>15 DEF InodeSet
    <2>2. h.inode \in [Inodes -> InodeType] /\ h0.inode \in [Inodes -> InodeType]
      BY <2>1, Fields
    <2>3. \A j \in Inodes : h.inode[j] = h0.inode[j]
      BY <1>9, <1>14, <1>15 DEF InodeSet, SameInodes
    <2>4. h.inode = h0.inode BY <2>2, <2>3
    <2> QED BY <1>3, <1>9, <1>14, <1>15, <2>1, <2>4 DEF InodeSet, SameBlocks, SameInodes
  <1>17. \A j, k : at(h, j, k) = at(h0, j, k) BY <1>16, SMTT(30) DEF at, slot
  <1>18. at(h0, d, p) = b /\ \A k : at(h, d, k) = slot(g, n, k) /\ at(h0, d, k) = slot(g, n, k)
    <2>1. \A k : at(h0, d, k) = slot(g, m, k) BY <1>16 DEF at, slot
    <2> QED BY <1>6, <1>12, <1>17, <2>1
  <1>19. Touched(f, h, d)
    <2>1. ASSUME NEW j \in f.inode_bitmap \ {d}, NEW k \in Slots, at(f, j, k) # 0
          PROVE  h.entries[at(f, j, k)] = f.entries[at(f, j, k)]
      <3>1. at(h0, j, k) = at(f, j, k) /\ h0.entries[at(f, j, k)] = f.entries[at(f, j, k)]
        BY <1>13, <2>1 DEF Touched, Others
      <3>2. Owned(h0) BY <1>13 DEF Touched
      <3>3. at(f, j, k) # b BY <1>1, <1>16, <1>5, <1>18, <2>1, <3>1, <3>2 DEF Owned
      <3>4. at(f, j, k) \in Blocks BY <1>1, <2>1, Fields DEF Owned
      <3> QED BY <1>9, <1>16, <3>1, <3>3, <3>4
    <2>2. Owned(h) BY <1>13, <1>16, <1>17 DEF Touched, Owned
    <2>3. BlocksCounted(h) /\ Others(f, h, d)
      BY <1>13, <1>16, <1>17 DEF Touched, BlocksCounted, Others
    <2> QED BY <1>13, <1>16, <2>1, <2>2, <2>3 DEF Touched
  <1>20. Accounted(f) => Accounted(h)
    <2> SUFFICES ASSUME Accounted(h0) PROVE Accounted(h)
      BY <1>13
    <2>1. \A j \in h.inode_bitmap : exact(h, h.inode[j])
      BY <1>16, SameSlots DEF exact, Accounted
    <2>2. \A c \in h.block_bitmap : \E j \in h.inode_bitmap, k \in Slots : at(h, j, k) = c
      BY <1>16, <1>17 DEF Accounted
    <2> QED BY <2>1, <2>2 DEF Accounted
  <1>21. Fills(h, h.inode[d]) BY <1>18, <1>11, <1>16 DEF at, Fills
  <1>22. Ents(h, d) = Ents(f, d) \cup {entry}
    <2>1. Ents(f, d) = UNION {g.entries[slot(g, n, k)] : k \in Leaves(g, n)}
      <3>1. Ents(f, d) = UNION {f.entries[slot(f, node, k)] : k \in Leaves(f, node)}
        BY <1>1, <1>2, EntriesAre DEF Ents
      <3>2. EntriesIn(g, n) = EntriesIn(f, node) BY <1>2, GrewEnts
      <3> QED BY <3>1, <3>2 DEF EntriesIn
    <2>2. h.inode[d] = m /\ Leaves(h, m) = Leaves(g, n) /\ \A k \in Leaves(g, n) : slot(h, m, k) = slot(g, n, k)
      BY <1>16, <1>18 DEF Leaves, at
    <2>3. Ents(h, d) = UNION {h.entries[slot(h, m, k)] : k \in Leaves(h, m)}
      BY <1>11, <1>16, <1>21, <2>2, EntriesAre DEF Ents
    <2>4. p \in Leaves(g, n) /\ slot(g, n, p) = b BY <1>5, <1>6 DEF Leaves
    <2>5. \A k \in Leaves(g, n) : slot(g, n, k) \in Blocks BY <1>3, SlotType DEF Leaves
    <2>6. \A k \in Leaves(g, n) : h.entries[slot(h, m, k)]
                = IF slot(g, n, k) = b THEN g.entries[slot(g, n, k)] \cup {entry} ELSE g.entries[slot(g, n, k)]
      BY <1>9, <1>16, <2>2, <2>5
    <2>7. \A y : (\E k \in Leaves(g, n) : y \in h.entries[slot(h, m, k)])
                   <=> y = entry \/ \E k \in Leaves(g, n) : y \in g.entries[slot(g, n, k)]
      BY <2>4, <2>6
    <2>8. \A y : y \in Ents(h, d) <=> y = entry \/ y \in Ents(f, d)
      BY <2>1, <2>2, <2>3, <2>7
    <2> QED BY <2>8
  <1>23. EntryAdded(f, d, entry, r) BY <1>8, <1>19, <1>20, <1>21, <1>22 DEF EntryAdded
  <1> QED BY <1>8, <1>23 DEF r


LEMMA AddEntry ==
    ASSUME NEW f, Sound(f), NEW d \in Dirs(f), NEW entry \in [name : DirNames, ino : Inodes]
    PROVE  LET r == add_dir_entry(f, f.inode[d], d, entry)
           IN  /\ EntryAdded(f, d, entry, r)
               /\ (\E i \in 0 .. blocks_of(f.inode[d].size) - 1 :
                     Cardinality(f.entries[block_id_at(f, f.inode[d], i)]) < DirCapacity) => r.ok
  <1> DEFINE node == f.inode[d]
             n == blocks_of(node.size)
             roomy == {i \in 0 .. n - 1 : Cardinality(f.entries[block_id_at(f, node, i)]) < DirCapacity}
             r == add_dir_entry(f, node, d, entry)
  <1>1. f \in Image /\ Owned(f) /\ Full(f) /\ BlocksCounted(f) /\ d \in f.inode_bitmap
    BY DEF Sound, Dirs
  <1>2. d \in Inodes /\ node \in InodeType /\ Within(f, node) /\ Fills(f, node)
    BY <1>1, LiveNode DEF Full
  <1>3. n \in 1 .. MaxBlocks /\ \A j \in 0 .. MaxBlocks - 1 : (slot(f, node, place(j)) # 0) <=> (j < n)
    BY <1>1, <1>2, EntriesAre
  <1>4. n \in Nat /\ n # 0 BY <1>3, Dimensions
  <1>5. CASE roomy # {}
    <2> DEFINE R == Ok(f, node)
    <2>1. r = put_entry(R, d, entry, Min(roomy), n) BY <1>4, <1>5 DEF add_dir_entry
    <2>2. Min(roomy) \in 0 .. n - 1
      <3>1. roomy \in SUBSET Nat BY <1>4
      <3>2. Min(roomy) \in roomy
        <4> HIDE DEF roomy
        <4> QED BY <1>5, <3>1, MinIsLeast
      <3> QED BY <3>2
    <2>3. Result(R) /\ R.ok /\ R.fs = f /\ R.node = node BY DEF Ok, Result
    <2>4. Grew(f, node, f, node) BY <1>1, <1>2, GrewNot
    <2> HIDE DEF R, roomy, n
    <2>5. EntryAdded(f, d, entry, put_entry(R, d, entry, Min(roomy), n)) /\ put_entry(R, d, entry, Min(roomy), n).ok
      BY <1>3, <2>2, <2>3, <2>4, PutEntry
    <2> QED BY <2>1, <2>5
  <1>6. CASE roomy = {}
    <2> DEFINE R == ensure_file_block(f, node, n)
    <2>1. r = put_entry(R, d, entry, n, n + 1) BY <1>4, <1>6 DEF add_dir_entry
    <2>2. ~(\E i \in 0 .. n - 1 : Cardinality(f.entries[block_id_at(f, node, i)]) < DirCapacity)
      BY <1>6
    <2> HIDE DEF roomy, n
    <2>3. Ensured(f, node, n, R) BY <1>1, <1>2, <1>4, EnsureBlock
    <2> HIDE DEF R
    <2>4. Result(R) /\ Grew(f, node, R.fs, R.node) BY <2>3 DEF Ensured
    <2>5. CASE R.ok
      <3>1. /\ n < MaxBlocks /\ slot(R.fs, R.node, place(n)) # 0
            /\ \A k \in Slots \ {place(n), DirectBlocks} : slot(R.fs, R.node, k) = slot(f, node, k)
        BY <2>3, <2>5 DEF Ensured
      <3>2. n + 1 \in 1 .. MaxBlocks /\ n \in 0 .. (n + 1) - 1 /\ n \in 0 .. MaxBlocks - 1
        BY <1>4, <3>1, Dimensions
      <3>3. ASSUME NEW j \in 0 .. MaxBlocks - 1 PROVE slot(R.fs, R.node, place(j)) # 0 <=> j < n + 1
        <4>1. CASE j = n
          BY <1>4, <3>1, <4>1
        <4>2. CASE j # n
          BY <3>2, <4>2, Places, <3>1, <1>4, Dimensions, <1>3
        <4> QED BY <4>1, <4>2
      <3>4. EntryAdded(f, d, entry, put_entry(R, d, entry, n, n + 1))
        BY <2>4, <2>5, <3>2, <3>3, PutEntry
      <3> QED BY <2>1, <2>2, <3>4 DEF n
    <2>6. CASE ~R.ok
      <3>1. r = R BY <2>1, <2>6 DEF put_entry
      <3>2. /\ R.node = node /\ R.fs.block_bitmap = f.block_bitmap
            /\ \A k \in Slots : slot(R.fs, node, k) = slot(f, node, k)
        BY <2>3, <2>6 DEF Ensured
      <3>3. Touched(f, R.fs, d) BY <1>1, <2>4, NotWritten
      <3>4. SameInodes(f, R.fs) /\ R.fs \in Image BY <2>4 DEF Grew
      <3>5. Like(f, R.fs)
        <4>1. ASSUME NEW i \in f.inode_bitmap, NEW k \in Slots PROVE at(R.fs, i, k) = at(f, i, k)
          <5>1. CASE i = d
            BY <3>2, <3>4, <5>1 DEF at, SameInodes
          <5>2. CASE i # d
            BY <3>3, <5>2 DEF Touched, Others
          <5> QED BY <5>1, <5>2
        <4>2. ASSUME NEW i \in f.inode_bitmap PROVE R.fs.inode[i] = f.inode[i] /\ f.inode[i].links >= f.inode[i].links
          BY <1>1, <3>4, LiveNode DEF SameInodes
        <4>3. \A b \in f.block_bitmap : R.fs.entries[b] = f.entries[b] BY <2>4 DEF Grew
        <4> QED BY <4>1, <4>2, <4>3 DEF Like
      <3>6. Fills(R.fs, R.fs.inode[d]) BY <1>1, <1>2, <3>4, <3>5, LikeNodes
      <3>7. Accounted(f) => Accounted(R.fs)
        BY <3>4, <1>1, <3>2, <3>5, AccountedLike DEF SameInodes
      <3>8. EntryAdded(f, d, entry, R)
        BY <2>4, <2>6, <3>2, <3>3, <3>4, <3>5, <3>6, <3>7 DEF EntryAdded
      <3> QED BY <2>2, <3>1, <3>8 DEF n
    <2> QED BY <2>5, <2>6
  <1> QED BY <1>5, <1>6


-----------------------------------------------------------------------------
(* The calls that make files and directories. *)

(* What is in the files. *)

(* Blocks that are handed out are blank, and so may be those that are      *)
(* handed out and given back; the others hold what they held.              *)
Blanked(f, g) ==
    \A b \in Blocks :
        \/ g.data[b] = f.data[b] /\ g.entries[b] = f.entries[b] /\ b \notin Fresh(f, g)
        \/ b \notin f.block_bitmap /\ g.data[b] = ZeroData /\ g.entries[b] = {}

LEMMA BlankedNot == ASSUME NEW f PROVE Blanked(f, f)
  BY DEF Blanked, Fresh

LEMMA BlankedMore ==
    ASSUME NEW f, NEW g, NEW h, Blanked(f, g), Blanked(g, h), f.block_bitmap \subseteq g.block_bitmap
    PROVE  Blanked(f, h)
  BY DEF Blanked, Fresh

LEMMA BlockBlank ==
    ASSUME NEW f \in Image, BlocksCounted(f)
    PROVE  Blanked(f, allocate_block(f).fs)
  <1> DEFINE r == allocate_block(f)
             clear == Blocks \ f.block_bitmap
             b == Min(clear)
             m == mark_block_used(f, b, TRUE)
  <1>1. CASE f.free_blocks_count = 0 \/ clear = {}
    <2>1. r.fs = f BY <1>1 DEF allocate_block
    <2> QED BY <2>1, BlankedNot
  <1>2. CASE ~(f.free_blocks_count = 0 \/ clear = {})
    <2>1. r = [fs |-> zeroed(m, b), block |-> b] BY <1>2 DEF allocate_block
    <2>2. b \in clear
      <3>1. clear \in SUBSET Nat /\ clear # {} BY <1>2, Dimensions
      <3> HIDE DEF clear
      <3> QED BY <3>1, MinIsLeast
    <2> HIDE DEF b
    <2>3. m = [f EXCEPT !.block_bitmap = IF TRUE THEN @ \cup {b} ELSE @ \ {b},
                        !.free_blocks_count = IF ~TRUE THEN @ + 1
                                              ELSE IF @ > 0 THEN @ - 1 ELSE 0]
      <3>1. (b \in f.block_bitmap) # TRUE BY <2>2
      <3> QED BY <3>1, Zenon DEF mark_block_used
    <2>4. /\ m.data = f.data /\ m.entries = f.entries /\ m.block_bitmap = f.block_bitmap \cup {b}
          /\ DOMAIN m = DOMAIN f /\ m.data \in [Blocks -> Data] /\ m.entries \in [Blocks -> EntrySets]
          /\ {"data", "entries", "indirect", "block_bitmap"} \subseteq DOMAIN m
      <3> HIDE DEF m
      <3> QED BY <2>3 DEF Image
    <2> HIDE DEF m
    <2> DEFINE z == zeroed(m, b)
    <2>5. /\ z.data = [m.data EXCEPT ![b] = ZeroData] /\ z.entries = [m.entries EXCEPT ![b] = {}]
          /\ z.block_bitmap = m.block_bitmap
      BY <2>4 DEF zeroed
    <2> HIDE DEF z
    <2>6. Blanked(f, z) BY <2>2, <2>4, <2>5 DEF Blanked, Fresh
    <2>7. r.fs = z BY <2>1 DEF z
    <2> HIDE DEF r
    <2> QED BY <2>6, <2>7 DEF r
  <1> QED BY <1>1, <1>2

LEMMA BlockFreedBlank ==
    ASSUME NEW f, NEW g \in Image, BlocksCounted(g), Blanked(f, g), NEW b \in Blocks \ f.block_bitmap
    PROVE  Blanked(f, mark_block_used(g, b, FALSE))
  <1> DEFINE h == mark_block_used(g, b, FALSE)
  <1>1. h.block_bitmap = g.block_bitmap \ {b} /\ h.entries = g.entries BY BlockFreed
  <1>2. h.data = g.data
    <2>1. CASE b \notin g.block_bitmap
      <3>1. (b \in g.block_bitmap) = FALSE BY <2>1
      <3>2. h = g BY <3>1, Zenon DEF mark_block_used
      <3> QED BY <3>2
    <2>2. CASE b \in g.block_bitmap
      <3>1. h = [g EXCEPT !.block_bitmap = IF FALSE THEN @ \cup {b} ELSE @ \ {b},
                          !.free_blocks_count = IF ~FALSE THEN @ + 1
                                                ELSE IF @ > 0 THEN @ - 1 ELSE 0]
        BY <2>2, Zenon DEF mark_block_used
      <3> HIDE DEF h
      <3> QED BY <3>1 DEF Image
    <2> QED BY <2>1, <2>2
  <1> HIDE DEF h
  <1>3. Blanked(f, h) BY <1>1, <1>2 DEF Blanked, Fresh
  <1> QED BY <1>3 DEF h

(* Images that differ in tables only. *)
LEMMA TablesBlank ==
    ASSUME NEW f, NEW g, Blanked(f, g), NEW h,
           h.block_bitmap = g.block_bitmap, h.data = g.data, h.entries = g.entries
    PROVE  Blanked(f, h)
  BY DEF Blanked, Fresh

LEMMA EnsureBlank ==
    ASSUME NEW f \in Image, BlocksCounted(f), NEW node, NEW i
    PROVE  Blanked(f, ensure_file_block(f, node, i).fs)
  <1> DEFINE r == ensure_file_block(f, node, i)
             new == allocate_block(f)
             a == new.block
             h == new.fs
             t == node.block[DirectBlocks]
  <1>1. CASE block_id_at(f, node, i) # 0
    <2>1. r.fs = f BY <1>1 DEF ensure_file_block, Ok
    <2> QED BY <2>1, BlankedNot
  <1>0. Blanked(f, h) BY BlockBlank
  <1>2. CASE block_id_at(f, node, i) = 0 /\ a = 0
    <2>1. r.fs = h BY <1>2 DEF ensure_file_block, use_block, NotOk
    <2> HIDE DEF r, h
    <2> QED BY <1>0, <2>1 DEF r
  <1>3. CASE block_id_at(f, node, i) = 0 /\ a # 0
    <2>1. h \in Image /\ BlocksCounted(h) /\ SameInodes(f, h) /\ Handed(f, h, a)
      BY <1>3, BlockTaken
    <2> DEFINE s == set_block_id_at(h, node, i, a)
    <2>2. r = counted_or_undone(s, a) BY <1>3 DEF ensure_file_block, use_block
    <2> HIDE DEF h, a, r, new
    <2>3. ASSUME NEW c, Blanked(f, c), NEW n, NEW ok, s = [fs |-> c, node |-> n, ok |-> ok],
                 ~ok => c \in Image /\ BlocksCounted(c)
          PROVE  Blanked(f, r.fs)
      <3>1. CASE ok
        <4>1. r = [s EXCEPT !.node = update_inode_block_count(s.fs, s.node)]
          <5> HIDE DEF s
          <5> QED BY <2>2, <2>3, <3>1 DEF counted_or_undone
        <4>2. r.fs = c
          <5> HIDE DEF s
          <5> QED BY <2>3, <4>1
        <4> QED BY <2>3, <4>2
      <3>2. CASE ~ok
        <4>1. r.fs = mark_block_used(c, a, FALSE)
          <5> HIDE DEF s
          <5> QED BY <2>2, <2>3, <3>2 DEF counted_or_undone
        <4>2. a \in Blocks \ f.block_bitmap BY <2>1 DEF Handed
        <4>3. c \in Image /\ BlocksCounted(c) BY <2>3, <3>2
        <4> QED BY <2>3, <4>1, <4>2, <4>3, BlockFreedBlank
      <3> QED BY <3>1, <3>2
    <2>4. CASE i < DirectBlocks
      <3>1. s = [fs |-> h, node |-> [node EXCEPT !.block[i] = a], ok |-> TRUE]
        BY <2>4 DEF set_block_id_at, Ok
      <3> HIDE DEF s
      <3> QED BY <1>0, <2>1, <2>3, <3>1 DEF r, s
    <2>5. CASE ~(i < DirectBlocks) /\ i - DirectBlocks >= PerIndirect
      <3>1. s = [fs |-> h, node |-> node, ok |-> FALSE] BY <2>5 DEF set_block_id_at, NotOk
      <3> HIDE DEF s
      <3> QED BY <1>0, <2>1, <2>3, <3>1 DEF r, s
    <2>6. CASE ~(i < DirectBlocks) /\ ~(i - DirectBlocks >= PerIndirect)
      <3> DEFINE j == i - DirectBlocks
                 table == IF t # 0 THEN [fs |-> h, block |-> t] ELSE allocate_block(h)
                 e == table.fs
                 u == table.block
      <3>1. s = set_in_table(table, node, j, a) BY <2>6 DEF set_block_id_at
      <3>2. e \in Image /\ BlocksCounted(e) /\ Blanked(f, e)
        <4>1. CASE t # 0
          <5>1. e = h BY <4>1
          <5> HIDE DEF e
          <5> QED BY <1>0, <2>1, <5>1
        <4>2. CASE t = 0
          <5>1. table = allocate_block(h) BY <4>2
          <5>2. Blanked(h, e) /\ e \in Image /\ BlocksCounted(e)
            <6> HIDE DEF table
            <6> QED BY <2>1, <5>1, BlockBlank, BlockTaken
          <5>3. f.block_bitmap \subseteq h.block_bitmap BY <2>1 DEF Handed
          <5> HIDE DEF e
          <5> QED BY <1>0, <5>2, <5>3, BlankedMore
        <4> QED BY <4>1, <4>2
      <3> HIDE DEF table
      <3>3. CASE u = 0
        <4>1. s = [fs |-> e, node |-> node, ok |-> FALSE]
          <5> HIDE DEF s
          <5> QED BY <3>1, <3>3 DEF set_in_table, NotOk
        <4> HIDE DEF s, e
        <4> QED BY <2>3, <3>2, <4>1 DEF r, s
      <3>4. CASE u # 0
        <4> DEFINE c == [e EXCEPT !.indirect[u][j] = a]
        <4>1. s = [fs |-> c, node |-> [node EXCEPT !.block[DirectBlocks] = u], ok |-> TRUE]
          <5> HIDE DEF s, j
          <5> QED BY <3>1, <3>4 DEF set_in_table, Ok
        <4>2. c.block_bitmap = e.block_bitmap /\ c.data = e.data /\ c.entries = e.entries
          <5> HIDE DEF e, j, u
          <5> QED BY <3>2 DEF Image
        <4> HIDE DEF c, e
        <4>3. Blanked(f, c) BY <3>2, <4>2, TablesBlank
        <4> HIDE DEF s
        <4> QED BY <2>3, <4>1, <4>3 DEF r, s
      <3> QED BY <3>3, <3>4
    <2> QED BY <2>4, <2>5, <2>6 DEF r
  <1> QED BY <1>1, <1>2, <1>3

(* What the steps on maps and inodes leave of the data: all of it. *)
LEMMA InodeData ==
    ASSUME NEW g \in Image, NEW ino, NEW n
    PROVE  write_inode(g, ino, n).data = g.data
  BY DEF write_inode, Image

LEMMA BitData ==
    ASSUME NEW g \in Image, NEW x, NEW used \in BOOLEAN, NEW is_dir
    PROVE  /\ mark_inode_used(g, x, used, is_dir).data = g.data
           /\ mark_block_used(g, x, used).data = g.data
  <1>1. mark_inode_used(g, x, used, is_dir).data = g.data
    <2> DEFINE h == mark_inode_used(g, x, used, is_dir)
    <2>1. h = g \/ \E a, b, c : h = [g EXCEPT !.inode_bitmap = a, !.free_inodes_count = b, !.used_dirs_count = c]
      BY DEF mark_inode_used, Image
    <2> HIDE DEF h
    <2>2. h.data = g.data BY <2>1 DEF Image
    <2> QED BY <2>2 DEF h
  <1>2. mark_block_used(g, x, used).data = g.data
    <2> DEFINE h == mark_block_used(g, x, used)
    <2>1. h = g \/ \E a, b : h = [g EXCEPT !.block_bitmap = a, !.free_blocks_count = b]
      BY DEF mark_block_used, Image
    <2> HIDE DEF h
    <2>2. h.data = g.data BY <2>1 DEF Image
    <2> QED BY <2>2 DEF h
  <1> QED BY <1>1, <1>2

LEMMA BitCleared ==
    ASSUME NEW g \in Image, NEW x, NEW is_dir
    PROVE  /\ mark_inode_used(g, x, FALSE, is_dir).data = g.data
           /\ mark_block_used(g, x, FALSE).data = g.data
  BY BitData, ZenonT(60)

LEMMA FreedData ==
    ASSUME NEW g \in Image, NEW node, NEW keep
    PROVE  free_inode_blocks(g, node, keep).fs.data = g.data
  <1> DEFINE h == free_inode_blocks(g, node, keep).fs
  <1>1. \E c, a, b : /\ c = g \/ \E t : c = [g EXCEPT !.indirect = t]
                     /\ h = [c EXCEPT !.block_bitmap = a, !.free_blocks_count = b]
    BY DEF free_inode_blocks, Ok, Image
  <1> HIDE DEF h
  <1>2. h.data = g.data BY <1>1 DEF Image
  <1> QED BY <1>2 DEF h

LEMMA TakenData ==
    ASSUME NEW f \in Image, FreeCounted(f), NEW is_dir \in BOOLEAN
    PROVE  allocate_inode(f, is_dir).fs.data = f.data
  <1> DEFINE r == allocate_inode(f, is_dir)
             x == Min((FirstInode .. InodesCount) \ f.inode_bitmap)
             m == mark_inode_used(f, x, TRUE, is_dir)
  <1>1. CASE r.fs = f
    BY <1>1
  <1>2. CASE r.fs # f
    <2>1. r = [fs |-> write_inode(m, x, EmptyInode), ino |-> x] BY <1>2 DEF allocate_inode
    <2>2. m.data = f.data /\ "data" \in DOMAIN m
      <3>1. m = f \/ \E a, b, c : m = [f EXCEPT !.inode_bitmap = a, !.free_inodes_count = b, !.used_dirs_count = c]
        BY DEF mark_inode_used, Image
      <3> HIDE DEF m
      <3> QED BY <3>1 DEF Image
    <2> HIDE DEF m, x
    <2>3. write_inode(m, x, EmptyInode).data = m.data BY <2>2 DEF write_inode
    <2>4. r.fs.data = m.data BY <2>1, <2>3
    <2> QED BY <2>2, <2>4
  <1> QED BY <1>1, <1>2

(* The blocks in use hold what they held. *)
KeptData(f, g) == \A b \in f.block_bitmap : g.data[b] = f.data[b]

LEMMA KeptMore ==
    ASSUME NEW f, NEW g, NEW h, KeptData(f, g), KeptData(g, h), f.block_bitmap \subseteq g.block_bitmap
    PROVE  KeptData(f, h)
  BY DEF KeptData

LEMMA BlankedKept ==
    ASSUME NEW f \in Image, NEW g, Blanked(f, g)
    PROVE  KeptData(f, g)
  <1>1. f.block_bitmap \subseteq Blocks BY Fields
  <1> QED BY <1>1 DEF Blanked, KeptData

LEMMA PutData ==
    ASSUME NEW r, NEW ino, NEW entry, NEW i, NEW count, Result(r), r.fs \in Image
    PROVE  put_entry(r, ino, entry, i, count).fs.data = r.fs.data
  <1> DEFINE e == [r.fs EXCEPT !.entries[block_id_at(r.fs, r.node, i)] = @ \cup {entry}]
             n == [r.node EXCEPT !.size = count * BlockUnits]
             w == write_counted(e, ino, n)
  <1>1. e.data = r.fs.data /\ "data" \in DOMAIN e BY DEF Image
  <1> HIDE DEF e, n
  <1>2. w.data = e.data BY <1>1 DEF write_counted, write_inode
  <1>3. put_entry(r, ino, entry, i, count) = r \/ put_entry(r, ino, entry, i, count) = [r EXCEPT !.fs = w]
    BY DEF put_entry, e, n
  <1> HIDE DEF w
  <1>4. put_entry(r, ino, entry, i, count).fs \in {r.fs, w} BY <1>3 DEF Result
  <1> QED BY <1>1, <1>2, <1>4

LEMMA EntryData ==
    ASSUME NEW f, Sound(f), NEW d \in Dirs(f), NEW entry \in [name : DirNames, ino : Inodes]
    PROVE  KeptData(f, add_dir_entry(f, f.inode[d], d, entry).fs)
  <1> DEFINE node == f.inode[d]
             r == add_dir_entry(f, node, d, entry)
             n == IF blocks_of(node.size) = 0 THEN 1 ELSE blocks_of(node.size)
             a == Ok(f, node)
             b == ensure_file_block(f, node, n)
  <1>1. f \in Image /\ Owned(f) /\ BlocksCounted(f) /\ d \in f.inode_bitmap
    BY DEF Sound, Dirs
  <1>2. node \in InodeType /\ Within(f, node) BY <1>1, LiveNode
  <1>3. n \in Nat BY <1>2, BlocksOf DEF InodeType
  <1>4. (\E i : r = put_entry(a, d, entry, i, n)) \/ r = put_entry(b, d, entry, n, n + 1)
    BY DEF add_dir_entry
  <1> HIDE DEF n
  <1>5. Result(a) /\ a.fs = f BY <1>1, <1>2 DEF Ok, Result
  <1>6. Result(b) /\ b.fs \in Image BY <1>1, <1>2, <1>3, EnsureBlock DEF Ensured, Grew
  <1>7. KeptData(f, b.fs) BY <1>1, EnsureBlank, BlankedKept
  <1> HIDE DEF a, b
  <1>8. r.fs.data \in {f.data, b.fs.data} BY <1>1, <1>4, <1>5, <1>6, PutData
  <1> HIDE DEF r
  <1> QED BY <1>7, <1>8 DEF KeptData, r

(* What a call leaves that does not touch the inside of a file. *)
Keeps(f, g) ==
    /\ KeptData(f, g)
    /\ \A i \in f.inode_bitmap \cap g.inode_bitmap :
          /\ g.inode[i].mode = f.inode[i].mode
          /\ f.inode[i].mode # "dir" =>
                g.inode[i].size = f.inode[i].size /\ \A k \in Slots : at(g, i, k) = at(f, i, k)
KeepsNames(f, g) == g.inode_bitmap = f.inode_bitmap /\ \A d \in Dirs(f) : Ents(g, d) = Ents(f, d)

LEMMA KeepsAll == ASSUME NEW f PROVE Keeps(f, f) /\ KeepsNames(f, f)
  BY DEF Keeps, KeepsNames, KeptData

LEMMA LikeKept ==
    ASSUME NEW f, Consistent(f), NEW g \in Image, Like(f, g), g.inode_bitmap = f.inode_bitmap, KeptData(f, g)
    PROVE  Keeps(f, g) /\ KeepsNames(f, g)
  <1>1. f \in Image /\ Full(f) /\ Owned(f) BY DEF Consistent, Sound
  <1>2. \A d \in Dirs(f) : Ents(g, d) = Ents(f, d)
    <2> TAKE d \in Dirs(f)
    <2>1. d \in f.inode_bitmap /\ Fills(f, f.inode[d]) BY <1>1 DEF Dirs, Full
    <2> QED BY <1>1, <2>1, LikeNodes
  <1> QED BY <1>2 DEF Keeps, KeepsNames, Like

(* What a call leaves that loses no block even when it fails. *)
Intact(f, g) == Consistent(g) /\ (Accounted(f) => Accounted(g))

(* What ext2_create_file and ext2_mkdir make of an image, and report. *)
Makeable(f, path) == path_lookup(f, path) = 0 /\ parent_lookup(f, path) # 0
Made(f, r, path, mode) ==
    /\ Keeps(f, r.fs)
    /\ \/ r.result = USER_ERR_INVAL /\ r.fs = f /\ ~Makeable(f, path)
       \/ r.result = USER_ERR_FAULT /\ KeepsNames(f, r.fs) /\ Makeable(f, path)
       \/ /\ r.result = 0
          /\ \E x : /\ NamedIn(f, r.fs, x, path, parent_lookup(f, path)) /\ r.fs.inode[x].mode = mode
                    /\ mode = "file" => r.fs.inode[x].size = 0 /\ \A k \in Slots : at(r.fs, x, k) = 0

LEMMA NotMade ==
    ASSUME NEW f, Consistent(f), NEW path, ~Makeable(f, path), NEW r, r = Failed(f, USER_ERR_INVAL), NEW mode
    PROVE  Intact(f, r.fs) /\ Made(f, r, path, mode)
  <1>1. r.fs = f /\ r.result = USER_ERR_INVAL BY Returned
  <1> QED BY <1>1, KeepsAll DEF Made, Intact

LEMMA LikeIf ==
    ASSUME NEW f \in Image, Owned(f), NEW g \in Image,
           \A i \in f.inode_bitmap : g.inode[i] = f.inode[i] \/ g.inode[i] = linked(f.inode[i]),
           \A b \in f.block_bitmap : g.indirect[b] = f.indirect[b] /\ g.entries[b] = f.entries[b]
    PROVE  Like(f, g)
  <1>1. ASSUME NEW i \in f.inode_bitmap
        PROVE  /\ g.inode[i].mode = f.inode[i].mode /\ g.inode[i].size = f.inode[i].size
               /\ g.inode[i].blocks = f.inode[i].blocks /\ g.inode[i].links >= f.inode[i].links
               /\ g.inode[i].block = f.inode[i].block
    <2>1. f.inode[i] \in InodeType /\ f.inode[i].links \in Nat BY LiveNode
    <2>2. CASE g.inode[i] = f.inode[i]
      BY <2>1, <2>2
    <2>3. CASE g.inode[i] = linked(f.inode[i])
      BY <2>1, <2>3 DEF linked, InodeType
    <2> QED BY <2>2, <2>3
  <1>2. ASSUME NEW i \in f.inode_bitmap, NEW k \in Slots PROVE at(g, i, k) = at(f, i, k)
    <2> DEFINE t == f.inode[i].block[DirectBlocks]
    <2>1. g.inode[i].block = f.inode[i].block BY <1>1
    <2>2. at(f, i, DirectBlocks) = t BY TableSlot DEF at
    <2>3. t # 0 => t \in f.block_bitmap BY <2>2, TableSlot DEF Owned
    <2>4. t # 0 => g.indirect[t] = f.indirect[t] BY <2>3
    <2> QED BY <2>1, <2>4 DEF at, slot
  <1> QED BY <1>1, <1>2 DEF Like

LEMMA ParentAt ==
    ASSUME NEW f, Consistent(f), NEW path \in Paths, parent_lookup(f, path) # 0
    PROVE  /\ path # <<>> /\ parent_lookup(f, path) = path_lookup(f, Front(path))
           /\ parent_lookup(f, path) \in Dirs(f) /\ Last(path) \in DirNames
           /\ path_lookup(f, path) = find_in_dir(f, parent_lookup(f, path), Last(path))
  <1>1. f \in Image /\ Full(f) /\ IsTree(f) BY DEF Consistent, Sound
  <1>2. /\ path # <<>> /\ parent_lookup(f, path) = path_lookup(f, Front(path))
        /\ f.inode[parent_lookup(f, path)].mode = "dir"
    BY DEF parent_lookup, inode_is_dir
  <1>3. path \in Seq(Range(path)) BY PathLen
  <1>4. Len(Front(path)) \in Nat BY <1>2, <1>3 DEF Front
  <1>5. path_lookup(f, Front(path)) \in f.inode_bitmap \cup {0} BY <1>1, <1>4, TreeFind
  <1>6. parent_lookup(f, path) \in Dirs(f) BY <1>2, <1>5 DEF Dirs
  <1>7. Last(path) \in DirNames BY <1>2, <1>3 DEF Range, Last, DirNames
  <1>8. path_lookup(f, path) = find_in_dir(f, parent_lookup(f, path), Last(path))
    BY <1>2, <1>3, LookupLast
  <1> QED BY <1>2, <1>6, <1>7, <1>8

(* The image with a new inode x, before it has a name, and what            *)
(* add_dir_entry makes of it.                                              *)
LEMMA Named ==
    ASSUME NEW f, Consistent(f), NEW path \in Paths, path # <<>>, NEW parent \in Dirs(f),
           parent = path_lookup(f, Front(path)), path_lookup(f, path) = 0, Last(path) \in DirNames,
           NEW h, NEW x, OneMore(f, h, x), FreeCounted(h), h.inode[x].mode \in {"file", "dir"},
           h.used_dirs_count = IF h.inode[x].mode = "dir" THEN f.used_dirs_count + 1 ELSE f.used_dirs_count,
           h.inode[x].mode = "dir" => /\ Ents(h, x) = {} /\ h.inode[x].links >= 2
                                      /\ h.inode[parent].links >= f.inode[parent].links + 1,
           NEW r, EntryAdded(h, parent, [name |-> Last(path), ino |-> x], r), r.ok
    PROVE  /\ Intact(f, r.fs) /\ NamedIn(f, r.fs, x, path, parent)
           /\ KeptData(f, h) /\ KeptData(h, r.fs) => Keeps(f, r.fs)
           /\ r.fs.inode[x] = h.inode[x] /\ \A j \in Slots : at(r.fs, x, j) = at(h, x, j)
  <1> DEFINE k == r.fs
             entry == [name |-> Last(path), ino |-> x]
  <1>1. f \in Image /\ Full(f) /\ IsTree(f) /\ InodesCounted(f) /\ Sound(f)
    BY DEF Consistent, Sound
  <1>2. /\ Sound(h) /\ (Accounted(f) => Accounted(h))
        /\ Dirs(f) \subseteq Dirs(h)
        /\ \A d \in Dirs(f) : Ents(h, d) = Ents(f, d)
    BY <1>1, InodeAdded
  <1>3. h \in Image /\ Full(h) /\ h.inode_bitmap = f.inode_bitmap \cup {x} /\ Like(f, h)
        /\ x \in Inodes \ f.inode_bitmap
    BY <1>2 DEF Sound, OneMore
  <1>4. /\ Touched(h, k, parent) /\ Fills(k, k.inode[parent])
        /\ Accounted(h) => Accounted(k)
        /\ Ents(k, parent) = Ents(h, parent) \cup {entry}
    BY DEF EntryAdded
  <1>5. /\ k \in Image /\ Owned(k) /\ BlocksCounted(k) /\ k.inode_bitmap = h.inode_bitmap
        /\ k.free_inodes_count = h.free_inodes_count /\ k.used_dirs_count = h.used_dirs_count
        /\ \A i \in h.inode_bitmap : k.inode[i].mode = h.inode[i].mode /\ k.inode[i].links = h.inode[i].links
    BY <1>4 DEF Touched, Others
  <1>6. \A d \in Dirs(h) \ {parent} : Fills(k, k.inode[d]) /\ Ents(k, d) = Ents(h, d)
    BY <1>3, <1>4, OtherDirs
  <1>7. parent \in f.inode_bitmap /\ parent # x BY <1>3 DEF Dirs
  <1>8. \A i \in f.inode_bitmap : k.inode[i].mode = f.inode[i].mode /\ k.inode[i].links >= f.inode[i].links
    BY <1>3, <1>5 DEF Like
  <1>9. NamedIn(f, k, x, path, parent)
    <2>1. k.inode[x].mode = h.inode[x].mode /\ k.inode[x].links = h.inode[x].links
      BY <1>3, <1>5
    <2>2. k.inode[x].mode = "dir" => Ents(k, x) = {} /\ k.inode[x].links >= 2
      BY <1>3, <1>7, <1>6, <2>1 DEF Dirs
    <2>3. \A d \in Dirs(f) \ {parent} : Ents(k, d) = Ents(f, d) BY <1>2, <1>6
    <2>4. Ents(k, parent) = Ents(f, parent) \cup {entry} BY <1>2, <1>4
    <2>5. \A d \in Dirs(f) : k.inode[d].links >= f.inode[d].links BY <1>8 DEF Dirs
    <2>6. k.inode[x].mode = "dir" => k.inode[parent].links >= f.inode[parent].links + 1
      BY <1>3, <1>5, <1>7, <2>1
    <2> QED BY <1>3, <1>5, <1>8, <2>1, <2>2, <2>3, <2>4, <2>5, <2>6 DEF NamedIn
  <1>10. IsTree(k) /\ Dirs(k) = Dirs(f) \cup (IF k.inode[x].mode = "dir" THEN {x} ELSE {})
    BY <1>1, <1>5, <1>9, TreeAdd
  <1>11. Full(k) BY <1>5, <1>4, <1>6 DEF Dirs, Full
  <1>12. InodesCounted(k)
    <2>1. k.free_inodes_count = Cardinality(Inodes \ k.inode_bitmap)
      BY <1>5 DEF FreeCounted
    <2>2. Dirs(f) \in SUBSET f.inode_bitmap /\ IsFiniteSet(f.inode_bitmap)
      BY <1>1, Fields DEF Dirs
    <2>3. IsFiniteSet(Dirs(f)) /\ x \notin Dirs(f) BY <1>3, <2>2, FS_Subset
    <2>4. k.inode[x].mode = h.inode[x].mode /\ f.used_dirs_count = Cardinality(Dirs(f))
      BY <1>1, <1>3, <1>5 DEF InodesCounted
    <2>5. k.used_dirs_count = Cardinality(Dirs(k))
      <3>1. CASE k.inode[x].mode = "dir"
        <4>1. Dirs(k) = Dirs(f) \cup {x} BY <1>10, <3>1
        <4>2. Cardinality(Dirs(f) \cup {x}) = Cardinality(Dirs(f)) + 1
          BY <2>3, FS_AddElement
        <4> QED BY <1>5, <2>4, <3>1, <4>1, <4>2
      <3>2. CASE k.inode[x].mode # "dir"
        BY <1>10, <3>2, <1>5, <2>4
      <3> QED BY <3>1, <3>2
    <2> QED BY <2>1, <2>5 DEF InodesCounted
  <1>13. Consistent(k) BY <1>5, <1>10, <1>11, <1>12 DEF Consistent, Sound
  <1>14. k.inode[x] = h.inode[x] /\ \A j \in Slots : at(k, x, j) = at(h, x, j)
    BY <1>3, <1>4, <1>7 DEF Touched, Others
  <1>15. KeptData(f, h) /\ KeptData(h, k) => Keeps(f, k)
    <2>1. f.block_bitmap \subseteq h.block_bitmap BY DEF OneMore
    <2>2. ASSUME NEW i \in f.inode_bitmap, f.inode[i].mode # "dir"
          PROVE  k.inode[i].size = f.inode[i].size /\ \A j \in Slots : at(k, i, j) = at(f, i, j)
      BY <1>3, <2>2, <1>4 DEF Dirs, Touched, Others, Like
    <2> QED BY <1>8, <2>1, <2>2, KeptMore DEF Keeps
  <1> QED BY <1>2, <1>4, <1>9, <1>13, <1>14, <1>15 DEF Intact


(* An inode without blocks. *)
LEMMA NoMap ==
    ASSUME NEW g \in Image, NEW n \in InodeType, n.block = NoBlocks, n.blocks = 0
    PROVE  (\A k \in Slots : slot(g, n, k) = 0) /\ exact(g, n)
  <1>1. \A k \in 0 .. DirectBlocks : NoBlocks[k] = 0 BY DEF NoBlocks
  <1>2. ASSUME NEW k \in Slots PROVE slot(g, n, k) = 0
    BY Dimensions, <1>1 DEF Slots, slot
  <1>3. taken(g, n) = {} BY <1>2 DEF taken
  <1>4. inode_allocated_blocks(g, n) = 0 BY <1>3, AllocatedIs, FS_EmptySet
  <1> QED BY <1>2, <1>4 DEF exact

FileNode == [EmptyInode EXCEPT !.mode = "file", !.links = 1]

LEMMA FileNodeIs ==
    /\ FileNode \in InodeType /\ FileNode.mode = "file" /\ FileNode.block = NoBlocks
    /\ FileNode.blocks = 0 /\ FileNode.size = 0
  <1>1. EmptyInode.block = NoBlocks /\ EmptyInode.blocks = 0 /\ EmptyInode.size = 0
    BY DEF EmptyInode
  <1>2. EmptyInode \in InodeType BY Dimensions
  <1> QED BY <1>1, <1>2 DEF FileNode, InodeType

FileIsAdded(f, g, x, h) ==
    /\ OneMore(f, h, x) /\ FreeCounted(h) /\ h.inode[x] = FileNode
    /\ h.used_dirs_count = f.used_dirs_count /\ h.block_bitmap = f.block_bitmap
    /\ h.entries = f.entries /\ h.indirect = f.indirect /\ h.data = g.data
    /\ \A i \in f.inode_bitmap : h.inode[i] = f.inode[i]

LEMMA FileAdded ==
    ASSUME NEW f, Consistent(f), NEW g, NEW x, HandedInode(f, g, x, FALSE)
    PROVE  FileIsAdded(f, g, x, write_inode(g, x, FileNode))
  <1> DEFINE h == write_inode(g, x, FileNode)
  <1>1. f \in Image /\ Owned(f) /\ BlocksCounted(f) BY DEF Consistent, Sound
  <1>2. /\ g \in Image /\ FreeCounted(g) /\ SameBlocks(f, g)
        /\ x \in (FirstInode .. InodesCount) \ f.inode_bitmap
        /\ g.inode_bitmap = f.inode_bitmap \cup {x}
        /\ \A i \in Inodes \ {x} : g.inode[i] = f.inode[i]
        /\ g.used_dirs_count = f.used_dirs_count
    BY DEF HandedInode
  <1>3. x \in Inodes \ f.inode_bitmap /\ f.inode_bitmap \in SUBSET Inodes
    BY <1>1, <1>2, Dimensions, Fields
  <1>4. InodeSet(g, x, FileNode, h) BY <1>2, <1>3, FileNodeIs, InodeIsSet
  <1>0. h.data = g.data BY <1>2, InodeData
  <1> HIDE DEF h
  <1>5. /\ h \in Image /\ h.inode[x] = FileNode /\ \A i \in Inodes \ {x} : h.inode[i] = f.inode[i]
        /\ SameBlocks(f, h) /\ h.inode_bitmap = f.inode_bitmap \cup {x}
        /\ h.free_inodes_count = g.free_inodes_count /\ h.used_dirs_count = f.used_dirs_count
    BY <1>2, <1>4 DEF InodeSet, SameBlocks
  <1>6. \A i \in f.inode_bitmap : h.inode[i] = f.inode[i] BY <1>3, <1>5
  <1>7. Like(f, h) BY <1>1, <1>5, <1>6, LikeIf DEF SameBlocks
  <1>8. BlocksCounted(h) /\ Fresh(f, h) = {} /\ f.block_bitmap \subseteq h.block_bitmap
    BY <1>1, <1>5 DEF BlocksCounted, SameBlocks, Fresh
  <1>9. (\A k \in Slots : at(h, x, k) = 0) /\ exact(h, h.inode[x])
    BY <1>5, FileNodeIs, NoMap DEF at
  <1>10. OneMore(f, h, x) BY <1>3, <1>5, <1>7, <1>8, <1>9, FileNodeIs DEF OneMore
  <1>11. FreeCounted(h) BY <1>2, <1>5 DEF FreeCounted
  <1>12. h.block_bitmap = f.block_bitmap /\ h.entries = f.entries /\ h.indirect = f.indirect
    BY <1>5 DEF SameBlocks
  <1> QED BY <1>0, <1>5, <1>6, <1>10, <1>11, <1>12 DEF h, FileIsAdded

(* ext2_create_file: on success the file has an inode of its own. *)
LEMMA Created ==
    ASSUME NEW f, Consistent(f), NEW path \in Paths
    PROVE  LET r == ext2_create_file(f, path)
               parent == parent_lookup(f, path)
           IN  /\ Intact(f, r.fs) /\ Made(f, r, path, "file")
               /\ /\ path_lookup(f, path) = 0 /\ parent # 0
                  /\ (FirstInode .. InodesCount) \ f.inode_bitmap # {}
                  /\ \E i \in 0 .. blocks_of(f.inode[parent].size) - 1 :
                       Cardinality(f.entries[block_id_at(f, f.inode[parent], i)]) < DirCapacity
                  => path_lookup(r.fs, path) \in r.fs.inode_bitmap \ Dirs(r.fs)
  <1> DEFINE r == ext2_create_file(f, path)
             parent == parent_lookup(f, path)
             room == \E i \in 0 .. blocks_of(f.inode[parent].size) - 1 :
                       Cardinality(f.entries[block_id_at(f, f.inode[parent], i)]) < DirCapacity
             new == allocate_inode(f, FALSE)
             x == new.ino
  <1>1. f \in Image /\ Owned(f) /\ FreeCounted(f) /\ Sound(f) /\ IsTree(f) /\ Full(f)
    BY DEF Consistent, Sound, InodesCounted, FreeCounted
  <1>2. CASE path_lookup(f, path) # 0 \/ parent = 0
    <2>1. r = Failed(f, USER_ERR_INVAL) /\ ~Makeable(f, path)
      BY <1>2 DEF ext2_create_file, Makeable
    <2> HIDE DEF r
    <2>2. Intact(f, r.fs) /\ Made(f, r, path, "file") BY <2>1, NotMade
    <2> QED BY <1>2, <2>2 DEF r
  <1>3. CASE ~(path_lookup(f, path) # 0 \/ parent = 0)
    <2>1. r = create_in(new, parent, f.inode[parent], Last(path))
      BY <1>3 DEF ext2_create_file
    <2>2. /\ x = 0 => new.fs = f
          /\ x # 0 => HandedInode(f, new.fs, x, FALSE)
          /\ (FirstInode .. InodesCount) \ f.inode_bitmap # {} => x # 0
      BY <1>1, InodeTaken
    <2>0. new.fs.data = f.data BY <1>1, TakenData
    <2> HIDE DEF new
    <2>3. /\ path # <<>> /\ parent = path_lookup(f, Front(path))
          /\ parent \in Dirs(f) /\ Last(path) \in DirNames
      BY <1>3, ParentAt
    <2> HIDE DEF parent
    <2>6. Makeable(f, path) BY <1>3 DEF Makeable, parent
    <2>4. CASE x = 0
      <3>1. r = Failed(f, USER_ERR_FAULT) BY <2>1, <2>2, <2>4 DEF create_in
      <3>2. r.fs = f /\ r.result = USER_ERR_FAULT BY <3>1, Returned
      <3> HIDE DEF r
      <3> QED BY <2>2, <2>4, <2>6, <3>2, KeepsAll DEF Intact, Made, r
    <2>5. CASE x # 0
      <3> DEFINE h == write_inode(new.fs, x, FileNode)
                 entry == [name |-> Last(path), ino |-> x]
                 s == add_dir_entry(h, f.inode[parent], parent, entry)
      <3>1. r = named_or_undone(s, x) BY <2>1, <2>5 DEF create_in, FileNode
      <3>2. /\ OneMore(f, h, x) /\ FreeCounted(h) /\ h.inode[x] = FileNode
            /\ h.used_dirs_count = f.used_dirs_count /\ h.block_bitmap = f.block_bitmap
            /\ h.entries = f.entries /\ h.indirect = f.indirect
            /\ \A i \in f.inode_bitmap : h.inode[i] = f.inode[i]
            /\ h.data = f.data
        <4>1. FileIsAdded(f, new.fs, x, h) BY <2>2, <2>5, FileAdded
        <4> HIDE DEF h
        <4> QED BY <2>0, <4>1 DEF FileIsAdded
      <3> HIDE DEF h
      <3>3. Sound(h) /\ Dirs(f) \subseteq Dirs(h) BY <1>1, <3>2, InodeAdded
      <3>4. h.inode[parent] = f.inode[parent] /\ parent \in Dirs(h) /\ parent \in f.inode_bitmap
        BY <2>3, <3>2, <3>3 DEF Dirs
      <3>5. entry \in [name : DirNames, ino : Inodes] /\ x \in Inodes \ f.inode_bitmap /\ h \in Image
            /\ h.inode_bitmap = f.inode_bitmap \cup {x} /\ Like(f, h)
        BY <2>3, <3>2 DEF OneMore
      <3>6. /\ EntryAdded(h, parent, entry, s)
            /\ (\E i \in 0 .. blocks_of(f.inode[parent].size) - 1 :
                  Cardinality(h.entries[block_id_at(h, f.inode[parent], i)]) < DirCapacity) => s.ok
        <4> HIDE DEF entry
        <4> QED BY <3>3, <3>4, <3>5, AddEntry
      <3>0. KeptData(f, h) /\ KeptData(h, s.fs)
        <4>1. KeptData(h, s.fs)
          <5> HIDE DEF entry
          <5> QED BY <3>3, <3>4, <3>5, EntryData
        <4> QED BY <3>2, <4>1 DEF KeptData
      <3> HIDE DEF s
      <3>7. CASE s.ok
        <4>1. r.fs = s.fs /\ r.result = 0 BY <3>1, <3>7, Returned DEF named_or_undone
        <4>2. h.inode[x].mode = "file" BY <3>2, FileNodeIs
        <4>3. /\ Intact(f, s.fs) /\ NamedIn(f, s.fs, x, path, parent)
              /\ KeptData(f, h) /\ KeptData(h, s.fs) => Keeps(f, s.fs)
              /\ s.fs.inode[x] = h.inode[x] /\ \A j \in Slots : at(s.fs, x, j) = at(h, x, j)
          BY <1>3, <2>3, <3>2, <3>6, <3>7, <4>2, Named
        <4>4. path_lookup(s.fs, path) = x /\ x \in s.fs.inode_bitmap \ Dirs(s.fs)
          <5>1. IsTree(s.fs) /\ s.fs \in Image /\ Full(s.fs)
            BY <4>3 DEF Intact, Consistent, Sound
          <5>2. Ents(s.fs, parent) = Ents(h, parent) \cup {entry} /\ Touched(h, s.fs, parent)
            BY <3>6, <3>7 DEF EntryAdded
          <5>3. s.fs.inode_bitmap = h.inode_bitmap /\ s.fs.inode[x].mode = "file"
                /\ s.fs.inode[parent].mode = "dir"
            BY <3>4, <3>5, <4>2, <5>2 DEF Touched, Others, Dirs
          <5>4. parent \in Dirs(s.fs) /\ x \in s.fs.inode_bitmap \ Dirs(s.fs)
            BY <3>4, <3>5, <5>3 DEF Dirs
          <5>5. find_in_dir(s.fs, parent, Last(path)) = x
            <6>1. entry \in Ents(s.fs, parent) /\ entry.name = Last(path) /\ entry.ino = x
              BY <5>2
            <6> QED BY <5>1, <5>4, <6>1, TreeFind
          <5>6. path_lookup(s.fs, Front(path)) = parent
            <6>1. Ents(h, parent) = Ents(f, parent) /\ \A d \in Dirs(f) : Ents(h, d) = Ents(f, d)
              BY <1>1, <2>3, <3>2, InodeAdded
            <6>2. \A d \in Dirs(h) \ {parent} : Ents(s.fs, d) = Ents(h, d)
              BY <3>3, <3>5, <5>2, OtherDirs DEF Sound
            <6>3. ASSUME NEW d \in f.inode_bitmap, NEW name, find_in_dir(f, d, name) # 0
                  PROVE  find_in_dir(s.fs, d, name) = find_in_dir(f, d, name)
              <7>1. d \in Dirs(f) BY <1>1, <6>3, TreeFind
              <7>2. PICK e \in Ents(f, d) : e.name = name /\ e.ino = find_in_dir(f, d, name)
                BY <6>3, FindIs
              <7>3. e \in Ents(s.fs, d) BY <3>3, <5>2, <6>1, <6>2, <7>1, <7>2
              <7>4. d \in Dirs(s.fs) BY <3>3, <7>1, <5>2, <5>3 DEF Dirs, Touched, Others
              <7> QED BY <5>1, <7>2, <7>3, <7>4, TreeFind
            <6>4. EXT2_ROOT_INODE \in f.inode_bitmap BY <1>1 DEF IsTree, Dirs
            <6>5. Follows(f, s.fs, 0, f.inode_bitmap)
              BY <1>1, <6>3, <6>4, TreeFind DEF Follows
            <6>6. Len(Front(path)) \in Nat BY <2>3, PathLen DEF Front
            <6>7. parent # 0 BY <1>3 DEF parent
            <6> QED BY <2>3, <6>5, <6>6, <6>7, Follow
          <5>7. path \in Seq(Range(path)) /\ parent # 0 BY <1>3, PathLen DEF parent
          <5> QED BY <2>3, <5>4, <5>5, <5>6, <5>7, LookupLast
        <4>5. s.fs.inode[x].mode = "file" /\ s.fs.inode[x].size = 0 /\ \A j \in Slots : at(s.fs, x, j) = 0
          <5>1. \A j \in Slots : slot(h, FileNode, j) = 0 BY <3>5, FileNodeIs, NoMap
          <5>2. \A j \in Slots : at(h, x, j) = 0 BY <3>2, <5>1 DEF at
          <5>3. s.fs.inode[x] = FileNode /\ \A j \in Slots : at(s.fs, x, j) = at(h, x, j)
            BY <3>2, <4>3
          <5> QED BY <5>2, <5>3, FileNodeIs
        <4> HIDE DEF r
        <4>6. Made(f, r, path, "file") BY <3>0, <4>1, <4>3, <4>5 DEF Made, parent
        <4> QED BY <4>1, <4>3, <4>4, <4>6 DEF r
      <3>8. CASE ~s.ok
        <4> DEFINE k == s.fs
                   u == mark_inode_used(k, x, FALSE, FALSE)
        <4>1. r.fs = u /\ r.result = USER_ERR_FAULT
          <5>1. r = Failed(u, USER_ERR_FAULT) BY <3>1, <3>8 DEF named_or_undone
          <5> HIDE DEF r, u
          <5> QED BY <5>1, Returned
        <4>2. /\ Touched(h, k, parent) /\ Like(h, k) /\ k.block_bitmap = h.block_bitmap /\ SameInodes(h, k)
          BY <3>6, <3>8 DEF EntryAdded
        <4>3. /\ k \in Image /\ BlocksCounted(k) /\ Owned(k) /\ FreeCounted(k)
              /\ k.inode_bitmap = f.inode_bitmap \cup {x} /\ k.used_dirs_count = f.used_dirs_count
              /\ k.block_bitmap = f.block_bitmap
          BY <3>2, <3>5, <4>2 DEF Touched, SameInodes, FreeCounted
        <4>0. u.data = k.data
          <5>1. k \in Image BY <4>3
          <5> QED BY <5>1, BitCleared, ZenonT(60)
        <4> HIDE DEF k
        <4>4. /\ u \in Image /\ FreeCounted(u) /\ SameBlocks(k, u) /\ u.inode = k.inode
              /\ u.inode_bitmap = k.inode_bitmap \ {x}
              /\ u.used_dirs_count = k.used_dirs_count
          BY <4>3, InodeFreed
        <4> HIDE DEF u
        <4>5. Like(f, k) BY <3>2, <3>5, <1>1, <4>2, <4>3, LikeMore DEF k
        <4>6. Like(k, u) BY <4>3, <4>4, LikeIf DEF SameBlocks
        <4>7. Like(f, u) BY <1>1, <4>3, <4>4, <4>5, <4>6, LikeMore
        <4>8. BlocksCounted(u) /\ u.inode_bitmap = f.inode_bitmap /\ u.block_bitmap = f.block_bitmap
              /\ u.used_dirs_count = f.used_dirs_count
          BY <3>5, <4>3, <4>4 DEF BlocksCounted, SameBlocks
        <4>9. Consistent(u) /\ (Accounted(f) => Accounted(u))
          BY <4>4, <4>7, <4>8, GivenBack
        <4>10. ~room BY <3>2, <3>6, <3>8 DEF block_id_at
        <4>11. KeptData(f, u) BY <3>0, <3>2, KeptMore, <4>0 DEF k, KeptData
        <4>12. Keeps(f, u) /\ KeepsNames(f, u) BY <4>4, <4>7, <4>8, <4>11, LikeKept
        <4> HIDE DEF r
        <4>13. Made(f, r, path, "file") BY <2>6, <4>1, <4>12 DEF Made
        <4> QED BY <4>1, <4>9, <4>10, <4>13 DEF Intact, parent, r
      <3> QED BY <3>7, <3>8
    <2> QED BY <2>4, <2>5
  <1> QED BY <1>2, <1>3


(* What is taken for a new directory is given back. *)
TakenFor(f, g, x, b) ==
    /\ g \in Image /\ Like(f, g) /\ BlocksCounted(g) /\ FreeCounted(g) /\ KeptData(f, g)
    /\ x = 0 => g.inode_bitmap = f.inode_bitmap /\ g.used_dirs_count = f.used_dirs_count
    /\ x # 0 => /\ x \in Inodes \ f.inode_bitmap /\ g.inode_bitmap = f.inode_bitmap \cup {x}
                /\ g.used_dirs_count = f.used_dirs_count + 1
    /\ b = 0 => g.block_bitmap = f.block_bitmap
    /\ b # 0 => b \in Blocks \ f.block_bitmap /\ g.block_bitmap = f.block_bitmap \cup {b}

LEMMA MkdirUndone ==
    ASSUME NEW f, Consistent(f), NEW g, NEW x, NEW b, TakenFor(f, g, x, b)
    PROVE  /\ Intact(f, mkdir_undo(g, x, b))
           /\ Keeps(f, mkdir_undo(g, x, b)) /\ KeepsNames(f, mkdir_undo(g, x, b))
  <1> DEFINE h == IF x = 0 THEN g ELSE mark_inode_used(g, x, FALSE, TRUE)
             u == IF b = 0 THEN h ELSE mark_block_used(h, b, FALSE)
  <1>1. mkdir_undo(g, x, b) = u BY DEF mkdir_undo
  <1>2. f \in Image /\ f.used_dirs_count \in Nat /\ Owned(f)
    BY Fields DEF Consistent, Sound
  <1>3. /\ g \in Image /\ Like(f, g) /\ BlocksCounted(g) /\ FreeCounted(g) BY DEF TakenFor
  <1>4. /\ h \in Image /\ FreeCounted(h) /\ SameBlocks(g, h) /\ h.inode = g.inode
        /\ h.inode_bitmap = f.inode_bitmap /\ h.used_dirs_count = f.used_dirs_count
        /\ h.data = g.data
    <2>1. CASE x = 0
      BY <2>1, <1>3 DEF TakenFor, SameBlocks
    <2>2. CASE x # 0
      <3>1. /\ x \in Inodes \ f.inode_bitmap /\ g.inode_bitmap = f.inode_bitmap \cup {x}
            /\ g.used_dirs_count = f.used_dirs_count + 1
        BY <2>2 DEF TakenFor
      <3>2. h = mark_inode_used(g, x, FALSE, TRUE) BY <2>2
      <3>3. LET v == mark_inode_used(g, x, FALSE, TRUE)
            IN  /\ v \in Image /\ FreeCounted(v) /\ SameBlocks(g, v) /\ v.inode = g.inode
                /\ v.inode_bitmap = g.inode_bitmap \ {x}
                /\ v.used_dirs_count = IF ~TRUE THEN g.used_dirs_count
                                       ELSE IF g.used_dirs_count > 0 THEN g.used_dirs_count - 1 ELSE 0
        <4>1. x \in g.inode_bitmap BY <3>1
        <4> QED BY <1>3, <4>1, InodeFreed, Zenon
      <3>0. h.data = g.data BY <1>3, <3>2, BitData, ZenonT(60)
      <3> HIDE DEF h
      <3>4. /\ h \in Image /\ FreeCounted(h) /\ SameBlocks(g, h) /\ h.inode = g.inode
            /\ h.inode_bitmap = g.inode_bitmap \ {x}
            /\ h.used_dirs_count = IF g.used_dirs_count > 0 THEN g.used_dirs_count - 1 ELSE 0
        BY <3>2, <3>3
      <3>5. h.used_dirs_count = f.used_dirs_count BY <1>2, <3>1, <3>4
      <3>6. h.inode_bitmap = f.inode_bitmap BY <3>1, <3>4
      <3> QED BY <3>0, <3>4, <3>5, <3>6
    <2> QED BY <2>1, <2>2
  <1> HIDE DEF h
  <1>5. BlocksCounted(h) /\ h.block_bitmap = g.block_bitmap /\ h.indirect = g.indirect /\ h.entries = g.entries
    BY <1>3, <1>4 DEF BlocksCounted, SameBlocks
  <1>6. /\ u \in Image /\ BlocksCounted(u) /\ SameInodes(h, u)
        /\ u.block_bitmap = f.block_bitmap /\ u.indirect = h.indirect /\ u.entries = h.entries
        /\ u.data = h.data
    <2>1. CASE b = 0
      BY <2>1, <1>4, <1>5 DEF TakenFor, SameInodes
    <2>2. CASE b # 0
      <3>1. b \in Blocks \ f.block_bitmap /\ g.block_bitmap = f.block_bitmap \cup {b}
        BY <2>2 DEF TakenFor
      <3>2. u = mark_block_used(h, b, FALSE) BY <2>2
      <3>3. LET v == mark_block_used(h, b, FALSE)
            IN  /\ v \in Image /\ BlocksCounted(v) /\ SameInodes(h, v)
                /\ v.block_bitmap = h.block_bitmap \ {b}
                /\ v.indirect = h.indirect /\ v.entries = h.entries
        <4>1. b \in Blocks BY <3>1
        <4> QED BY <1>4, <1>5, <4>1, BlockFreed, Zenon
      <3>0. u.data = h.data BY <1>4, <3>2, BitData
      <3> HIDE DEF u
      <3>4. /\ u \in Image /\ BlocksCounted(u) /\ SameInodes(h, u)
            /\ u.block_bitmap = h.block_bitmap \ {b} /\ u.indirect = h.indirect /\ u.entries = h.entries
        BY <3>2, <3>3
      <3> QED BY <1>5, <3>0, <3>1, <3>4
    <2> QED BY <2>1, <2>2
  <1> HIDE DEF u
  <1>7. FreeCounted(u) /\ u.inode_bitmap = f.inode_bitmap /\ u.used_dirs_count = f.used_dirs_count
        /\ u.inode = g.inode
    BY <1>4, <1>6 DEF SameInodes, FreeCounted
  <1>8. Like(f, u) BY <1>5, <1>6, <1>7, SameSlots, <1>3 DEF at, Like
  <1>9. Keeps(f, u) /\ KeepsNames(f, u)
    BY <1>4, <1>6, <1>7, <1>8, LikeKept DEF TakenFor, KeptData
  <1> QED BY <1>1, <1>6, <1>7, <1>8, <1>9, GivenBack DEF Intact

(* The inode of a new directory. *)
DirNode(b) == [EmptyInode EXCEPT !.mode = "dir", !.size = BlockUnits, !.links = 2, !.block[0] = b]

LEMMA DirNodeIs ==
    ASSUME NEW b \in Blocks
    PROVE  /\ DirNode(b) \in InodeType /\ DirNode(b).mode = "dir" /\ DirNode(b).size = BlockUnits
           /\ DirNode(b).links = 2 /\ \A f : \A k \in Slots : slot(f, DirNode(b), k) = IF k = 0 THEN b ELSE 0
  <1>1. EmptyInode.block = NoBlocks BY DEF EmptyInode
  <1>2. EmptyInode \in InodeType /\ BlockUnits \in Nat /\ 0 \in 0 .. DirectBlocks
    BY Dimensions
  <1>3. /\ DirNode(b) \in InodeType /\ DirNode(b).mode = "dir" /\ DirNode(b).size = BlockUnits
        /\ DirNode(b).links = 2 /\ DirNode(b).block = [EmptyInode.block EXCEPT ![0] = b]
    BY <1>2 DEF DirNode, InodeType
  <1>4. \A k \in 0 .. DirectBlocks : DirNode(b).block[k] = IF k = 0 THEN b ELSE 0
    BY <1>1, <1>2, <1>3 DEF NoBlocks
  <1>5. DirectBlocks \in 0 .. DirectBlocks /\ DirectBlocks # 0 BY Dimensions
  <1>6. ASSUME NEW f, NEW k \in Slots PROVE slot(f, DirNode(b), k) = IF k = 0 THEN b ELSE 0
    BY Dimensions, <1>4, <1>5 DEF Slots, slot
  <1> QED BY <1>3, <1>6

DirIsAdded(f, c, x, parent, h) ==
    /\ h.data = c.data /\ OneMore(f, h, x) /\ FreeCounted(h) /\ h.inode[x].mode = "dir" /\ h.inode[x].links = 2
    /\ h.used_dirs_count = f.used_dirs_count + 1
    /\ Ents(h, x) = {} /\ h.inode[parent] = linked(f.inode[parent])

LEMMA DirAdded ==
    ASSUME NEW f, Consistent(f), NEW a, NEW x, HandedInode(f, a, x, TRUE),
           NEW c \in Image, BlocksCounted(c), SameInodes(a, c), NEW b, Handed(a, c, b),
           NEW parent \in Dirs(f)
    PROVE  DirIsAdded(f, c, x, parent, write_inode(write_counted(c, x, DirNode(b)), parent, linked(f.inode[parent])))
  <1> DEFINE n == update_inode_block_count(c, DirNode(b))
             g == write_inode(c, x, n)
             above == linked(f.inode[parent])
             h == write_inode(g, parent, above)
  <1>1. f \in Image /\ Owned(f) /\ f.inode_bitmap \in SUBSET Inodes
    BY Fields DEF Consistent, Sound
  <1>2. /\ FreeCounted(a) /\ SameBlocks(f, a)
        /\ x \in (FirstInode .. InodesCount) \ f.inode_bitmap
        /\ a.inode_bitmap = f.inode_bitmap \cup {x}
        /\ \A i \in Inodes \ {x} : a.inode[i] = f.inode[i]
        /\ a.used_dirs_count = f.used_dirs_count + 1
    BY DEF HandedInode
  <1>3. x \in Inodes \ f.inode_bitmap /\ parent \in f.inode_bitmap /\ parent # x /\ parent \in Inodes
    BY <1>1, <1>2, Dimensions DEF Dirs
  <1>4. /\ b \in Blocks \ f.block_bitmap /\ c.block_bitmap = f.block_bitmap \cup {b}
        /\ \A d \in f.block_bitmap : c.indirect[d] = f.indirect[d] /\ c.entries[d] = f.entries[d]
        /\ c.entries[b] = {}
    BY <1>2, <1>1, Fields DEF SameBlocks, Handed
  <1>5. DirNode(b) \in InodeType /\ DirNode(b).mode = "dir" /\ DirNode(b).size = BlockUnits
        /\ DirNode(b).links = 2 /\ \A k \in Slots : slot(c, DirNode(b), k) = IF k = 0 THEN b ELSE 0
    BY <1>4, DirNodeIs
  <1>6. /\ n \in InodeType /\ n.mode = "dir" /\ n.size = BlockUnits /\ n.links = 2 /\ exact(c, n)
        /\ \A k \in Slots : slot(c, n, k) = IF k = 0 THEN b ELSE 0
    BY <1>5, Recounted
  <1> HIDE DEF n
  <1>7. InodeSet(c, x, n, g) BY <1>3, <1>6, InodeIsSet
  <1>0. g.data = c.data BY InodeData
  <1> HIDE DEF g
  <1>8. above \in InodeType
    <2>1. f.inode[parent] \in InodeType BY <1>1, <1>3, Fields
    <2> QED BY <2>1 DEF linked, InodeType
  <1> HIDE DEF above
  <1>9. InodeSet(g, parent, above, h) BY <1>3, <1>7, <1>8, InodeIsSet DEF InodeSet
  <1>19. h.data = c.data BY <1>0, <1>7, InodeData DEF InodeSet
  <1>10. write_inode(write_counted(c, x, DirNode(b)), parent, linked(f.inode[parent])) = h
    BY DEF write_counted, n, g, above
  <1> HIDE DEF h
  <1>11. /\ h \in Image /\ h.inode[x] = n /\ h.inode[parent] = above
         /\ \A i \in Inodes \ {x, parent} : h.inode[i] = f.inode[i]
         /\ SameBlocks(c, h) /\ h.inode_bitmap = f.inode_bitmap \cup {x}
         /\ h.free_inodes_count = c.free_inodes_count /\ h.used_dirs_count = f.used_dirs_count + 1
    BY <1>2, <1>3, <1>7, <1>9 DEF InodeSet, SameBlocks, SameInodes
  <1>12. FreeCounted(h) /\ BlocksCounted(h)
    BY <1>2, <1>11 DEF FreeCounted, BlocksCounted, SameBlocks, SameInodes
  <1>13. Like(f, h) BY <1>1, <1>3, <1>11, <1>4, LikeIf DEF above, SameBlocks
  <1>14. /\ \A k \in Slots : at(h, x, k) = IF k = 0 THEN b ELSE 0
         /\ exact(h, n) /\ \A k \in Slots : slot(h, n, k) = IF k = 0 THEN b ELSE 0
    BY <1>11, <1>6, SameSlots DEF SameBlocks, at, exact
  <1>15. Fresh(f, h) = {b} /\ f.block_bitmap \subseteq h.block_bitmap /\ b # 0 /\ 0 \in Slots
    BY <1>4, <1>11, Dimensions DEF Fresh, SameBlocks, Slots
  <1>16. Fills(h, n)
    <2>1. 1 \in 1 .. MaxBlocks /\ n.size = 1 * BlockUnits BY <1>6, Dimensions
    <2>2. ASSUME NEW i \in 0 .. MaxBlocks - 1
          PROVE  (slot(h, n, place(i)) # 0) <=> (i < 1)
      BY Places, <1>14, <1>15
    <2> QED BY <2>1, <2>2 DEF Fills
  <1>17. OneMore(f, h, x) BY <1>14, <1>15, <1>3, <1>11, <1>12, <1>13, <1>16 DEF OneMore
  <1>18. Ents(h, x) = {}
    <2>1. dir_entries(h, n) = UNION {h.entries[slot(h, n, k)] : k \in Leaves(h, n)}
      BY <1>6, <1>11, <1>16, EntriesAre
    <2>2. \A k \in Leaves(h, n) : slot(h, n, k) = b BY <1>14 DEF Leaves
    <2>3. h.entries[b] = {} BY <1>4, <1>11 DEF SameBlocks
    <2>4. \A k \in Leaves(h, n) : h.entries[slot(h, n, k)] = {} BY <2>2, <2>3
    <2>5. dir_entries(h, n) = {} BY <2>1, <2>4
    <2> QED BY <1>11, <2>5 DEF Ents
  <1> QED BY <1>6, <1>10, <1>11, <1>12, <1>17, <1>18, <1>19 DEF DirIsAdded, above


(* ext2_mkdir. *)
LEMMA MadeDir ==
    ASSUME NEW f, Consistent(f), NEW path \in Paths
    PROVE  Intact(f, ext2_mkdir(f, path).fs) /\ Made(f, ext2_mkdir(f, path), path, "dir")
  <1> DEFINE r == ext2_mkdir(f, path)
             parent == parent_lookup(f, path)
             new == allocate_inode(f, TRUE)
             a == new.fs
             x == new.ino
             first == allocate_block(a)
             c == first.fs
             b == first.block
             above == linked(f.inode[parent])
             name == Last(path)
  <1>1. f \in Image /\ Owned(f) /\ FreeCounted(f) /\ BlocksCounted(f) /\ Sound(f) /\ IsTree(f) /\ Full(f)
    BY DEF Consistent, Sound, InodesCounted, FreeCounted
  <1>2. CASE path_lookup(f, path) # 0 \/ parent = 0
    <2>1. r = Failed(f, USER_ERR_INVAL) /\ ~Makeable(f, path)
      BY <1>2 DEF ext2_mkdir, Makeable
    <2> HIDE DEF r
    <2> QED BY <2>1, NotMade DEF r
  <1>3. CASE ~(path_lookup(f, path) # 0 \/ parent = 0)
    <2>1. r = mkdir_in(first, x, parent, above, name) BY <1>3 DEF ext2_mkdir
    <2>2. /\ x = 0 => a = f
          /\ x # 0 => HandedInode(f, a, x, TRUE)
      BY <1>1, InodeTaken
    <2>0. a.data = f.data BY <1>1, TakenData
    <2> HIDE DEF new
    <2>3. /\ path # <<>> /\ parent = path_lookup(f, Front(path))
          /\ parent \in Dirs(f) /\ Last(path) \in DirNames
      BY <1>3, ParentAt
    <2> HIDE DEF parent
    <2>4. a \in Image /\ BlocksCounted(a) /\ FreeCounted(a) /\ SameBlocks(f, a)
      BY <1>1, <2>2 DEF HandedInode, SameBlocks, BlocksCounted
    <2>5. /\ b = 0 => c = a
          /\ b # 0 => c \in Image /\ BlocksCounted(c) /\ SameInodes(a, c) /\ Handed(a, c, b)
      <3> HIDE DEF a
      <3> QED BY <2>4, BlockTaken
    <2>9. KeptData(f, c)
      <3>1. KeptData(a, c)
        <4> HIDE DEF a
        <4> QED BY <2>4, BlockBlank, BlankedKept
      <3> QED BY <2>0, <2>4, <3>1 DEF KeptData, SameBlocks
    <2> HIDE DEF first
    <2>6. TakenFor(f, c, x, b)
      <3>1. c \in Image /\ BlocksCounted(c) /\ SameInodes(a, c)
        BY <2>4, <2>5 DEF SameInodes
      <3>2. c.inode = a.inode /\ c.inode_bitmap = a.inode_bitmap /\ c.used_dirs_count = a.used_dirs_count
            /\ FreeCounted(c)
        BY <2>4, <3>1 DEF SameInodes, FreeCounted
      <3>3. \A d \in f.block_bitmap : c.indirect[d] = f.indirect[d] /\ c.entries[d] = f.entries[d]
        <4>1. a.entries = f.entries /\ a.indirect = f.indirect /\ a.block_bitmap = f.block_bitmap
          BY <2>4 DEF SameBlocks
        <4>2. f.block_bitmap \in SUBSET Blocks /\ f.indirect \in [Blocks -> Table] /\ f.entries \in [Blocks -> EntrySets]
          BY <1>1, Fields
        <4>3. CASE b = 0
          BY <2>5, <4>1, <4>3
        <4>4. CASE b # 0
          BY <2>5, <4>4, <4>1, <4>2 DEF Handed
        <4> QED BY <4>3, <4>4
      <3>4. \A i \in f.inode_bitmap : c.inode[i] = f.inode[i]
        BY <1>1, Fields, <2>2, <3>2 DEF HandedInode
      <3>5. Like(f, c) BY <1>1, <3>1, <3>3, <3>4, LikeIf
      <3>6. x = 0 => c.inode_bitmap = f.inode_bitmap /\ c.used_dirs_count = f.used_dirs_count
        BY <2>2, <3>2
      <3>7. x # 0 => /\ x \in Inodes \ f.inode_bitmap /\ c.inode_bitmap = f.inode_bitmap \cup {x}
                     /\ c.used_dirs_count = f.used_dirs_count + 1
        BY <2>2, <3>2, Dimensions DEF HandedInode
      <3>8. b = 0 => c.block_bitmap = f.block_bitmap BY <2>4, <2>5 DEF SameBlocks
      <3>9. b # 0 => b \in Blocks \ f.block_bitmap /\ c.block_bitmap = f.block_bitmap \cup {b}
        BY <2>4, <2>5 DEF SameBlocks, Handed
      <3> QED BY <2>9, <3>1, <3>2, <3>5, <3>6, <3>7, <3>8, <3>9 DEF TakenFor
    <2>10. ASSUME NEW k, TakenFor(f, k, x, b), r = Failed(mkdir_undo(k, x, b), USER_ERR_FAULT)
           PROVE  Intact(f, r.fs) /\ Made(f, r, path, "dir")
      <3>1. r.fs = mkdir_undo(k, x, b) /\ r.result = USER_ERR_FAULT /\ Makeable(f, path)
        BY <1>3, <2>10, Returned DEF Makeable, parent
      <3> HIDE DEF r
      <3> QED BY <2>10, <3>1, MkdirUndone DEF Made
    <2>7. CASE x = 0 \/ b = 0
      BY <2>1, <2>7, <2>6, <2>10 DEF mkdir_in
    <2>8. CASE ~(x = 0 \/ b = 0)
      <3> DEFINE h == write_inode(write_counted(c, x, DirNode(b)), parent, above)
                 entry == [name |-> name, ino |-> x]
                 s == add_dir_entry(h, above, parent, entry)
      <3>1. r = mkdir_named_or_undone(s, x, b) BY <2>1, <2>8 DEF mkdir_in, DirNode
      <3>2. DirIsAdded(f, c, x, parent, h) BY <2>2, <2>3, <2>5, <2>8, DirAdded
      <3> HIDE DEF h, above
      <3>3. /\ OneMore(f, h, x) /\ FreeCounted(h) /\ h.inode[x].mode = "dir" /\ h.inode[x].links = 2
            /\ h.used_dirs_count = f.used_dirs_count + 1
            /\ Ents(h, x) = {} /\ h.inode[parent] = above /\ h.data = c.data
        BY <3>2 DEF DirIsAdded, above
      <3>4. Sound(h) /\ Dirs(f) \subseteq Dirs(h) BY <1>1, <3>3, InodeAdded
      <3>5. entry \in [name : DirNames, ino : Inodes] /\ x \in Inodes \ f.inode_bitmap /\ h \in Image
            /\ h.inode_bitmap = f.inode_bitmap \cup {x} /\ Like(f, h)
            /\ f.block_bitmap \subseteq h.block_bitmap
        BY <2>3, <3>3 DEF OneMore
      <3>6. EntryAdded(h, parent, entry, s)
        <4> HIDE DEF entry
        <4> QED BY <2>3, <3>3, <3>4, <3>5, AddEntry
      <3>0. KeptData(f, h) /\ KeptData(h, s.fs)
        <4>1. KeptData(h, s.fs)
          <5> HIDE DEF entry
          <5> QED BY <2>3, <3>3, <3>4, <3>5, EntryData
        <4> QED BY <2>9, <3>3, <4>1 DEF KeptData
      <3> HIDE DEF s
      <3>7. CASE s.ok
        <4>1. r.fs = s.fs /\ r.result = 0
          BY <3>1, <3>7, Returned DEF mkdir_named_or_undone
        <4>2. h.inode[parent].links >= f.inode[parent].links + 1
          BY <1>1, <2>3, Fields, <3>3 DEF Dirs, above, linked, InodeType
        <4>3. h.inode[x].mode \in {"file", "dir"} /\ h.inode[x].links >= 2 BY <3>3
        <4>4. /\ Intact(f, s.fs) /\ NamedIn(f, s.fs, x, path, parent)
              /\ KeptData(f, h) /\ KeptData(h, s.fs) => Keeps(f, s.fs)
              /\ s.fs.inode[x] = h.inode[x]
          BY <1>3, <2>3, <3>3, <3>6, <3>7, <4>2, <4>3, Named
        <4> HIDE DEF r
        <4>5. Made(f, r, path, "dir") BY <3>0, <3>3, <4>1, <4>4 DEF Made, parent
        <4> QED BY <4>1, <4>4, <4>5 DEF r
      <3>8. CASE ~s.ok
        <4> DEFINE k == s.fs
        <4>1. r = Failed(mkdir_undo(k, x, b), USER_ERR_FAULT)
          BY <3>1, <3>8 DEF mkdir_named_or_undone
        <4>2. Touched(h, k, parent) /\ Like(h, k) /\ k.block_bitmap = h.block_bitmap /\ SameInodes(h, k)
          BY <3>6, <3>8 DEF EntryAdded
        <4> HIDE DEF k
        <4>3. /\ k \in Image /\ BlocksCounted(k) /\ FreeCounted(k)
              /\ k.inode_bitmap = h.inode_bitmap /\ k.used_dirs_count = h.used_dirs_count
          BY <3>3, <4>2 DEF Touched, SameInodes, FreeCounted
        <4>4. Like(f, k) BY <3>5, <1>1, <4>2, <4>3, LikeMore
        <4>5. h.block_bitmap = f.block_bitmap \cup {b} /\ b \in Blocks \ f.block_bitmap
          BY <2>6, <2>8 DEF TakenFor, h, write_inode, write_counted
        <4>7. KeptData(f, k) BY <3>0, <3>5, KeptMore DEF k
        <4>6. TakenFor(f, k, x, b)
          BY <4>7, <2>8, <3>3, <3>5, <4>2, <4>3, <4>4, <4>5 DEF TakenFor
        <4> QED BY <2>10, <4>1, <4>6
      <3> QED BY <3>7, <3>8
    <2> QED BY <2>7, <2>8
  <1> QED BY <1>2, <1>3


-----------------------------------------------------------------------------
(* The calls that remove. *)

(* An entry is gone, and perhaps a link of its directory with it. *)
Unnamed(f, g, d, gone) ==
    /\ Sound(g) /\ FreeCounted(g) /\ (Accounted(f) => Accounted(g))
    /\ g.inode_bitmap = f.inode_bitmap /\ g.used_dirs_count = f.used_dirs_count
    /\ \A i \in f.inode_bitmap : g.inode[i].mode = f.inode[i].mode
    /\ \A i \in f.inode_bitmap \ {d} : g.inode[i] = f.inode[i]
    /\ Ents(g, d) = Ents(f, d) \ {gone}
    /\ \A c \in Dirs(f) \ {d} : Ents(g, c) = Ents(f, c)
    /\ g.data = f.data /\ \A i \in f.inode_bitmap, k \in Slots : at(g, i, k) = at(f, i, k)

LEMMA EntryRemoved ==
    ASSUME NEW f, Consistent(f), NEW d \in Dirs(f), NEW gone \in Ents(f, d)
    PROVE  LET g == remove_dir_entry(f, d, gone.name)
           IN  Unnamed(f, g, d, gone) /\ g.inode = f.inode
  <1> DEFINE name == gone.name
             g == remove_dir_entry(f, d, name)
             node == f.inode[d]
  <1>1. f \in Image /\ Owned(f) /\ BlocksCounted(f) /\ FreeCounted(f) /\ Full(f) /\ IsTree(f) /\ Sound(f)
    BY DEF Consistent, Sound, InodesCounted, FreeCounted
  <1>2. d \in f.inode_bitmap /\ node \in InodeType /\ Fills(f, node)
    BY <1>1, SubdirsFinite DEF Dirs
  <1>3. /\ dir_blocks(f, node) = {slot(f, node, k) : k \in Leaves(f, node)}
        /\ dir_entries(f, node) = UNION {f.entries[slot(f, node, k)] : k \in Leaves(f, node)}
    BY <1>1, <1>2, EntriesAre
  <1>4. f.entries \in [Blocks -> EntrySets] BY <1>1, Fields
  <1>5. /\ g = [f EXCEPT !.entries = g.entries] /\ g.entries \in [Blocks -> EntrySets]
        /\ \A b \in Blocks : g.entries[b] = IF b \in dir_blocks(f, node) THEN {e \in f.entries[b] : e.name # name}
                                           ELSE f.entries[b]
    <2> DEFINE E == [b \in Blocks |-> IF b \in dir_blocks(f, node) THEN {e \in f.entries[b] : e.name # name}
                                      ELSE f.entries[b]]
    <2>1. g = [f EXCEPT !.entries = E] BY DEF remove_dir_entry
    <2>2. ASSUME NEW b \in Blocks PROVE E[b] \in EntrySets
      BY <1>4, FS_Subset DEF EntrySets
    <2>3. E \in [Blocks -> EntrySets] BY <2>2
    <2> HIDE DEF E
    <2>4. g.entries = E BY <1>1, <2>1 DEF Image
    <2> QED BY <2>1, <2>3, <2>4 DEF E
  <1> HIDE DEF g
  <1>6. g \in Image /\ SameInodes(f, g) /\ g.block_bitmap = f.block_bitmap
        /\ g.free_blocks_count = f.free_blocks_count /\ g.indirect = f.indirect /\ g.data = f.data
    BY <1>1, <1>5 DEF Image, SameInodes
  <1>7. \A i, k : at(g, i, k) = at(f, i, k) BY <1>6, SameSlots DEF at, SameInodes
  <1>8. Owned(g) /\ BlocksCounted(g) /\ FreeCounted(g)
    BY <1>1, <1>6, <1>7 DEF Owned, BlocksCounted, FreeCounted, SameInodes
  <1>9. Accounted(f) => Accounted(g)
    BY <1>6, SameSlots, <1>7 DEF exact, Accounted, SameInodes
  <1>10. \A c \in Dirs(f) : c \in f.inode_bitmap /\ f.inode[c] \in InodeType /\ Fills(f, f.inode[c])
                            /\ g.inode[c] = f.inode[c]
    BY <1>1, <1>6, SubdirsFinite DEF Dirs, SameInodes
  <1>11. \A c \in Dirs(f), k \in Slots : slot(g, f.inode[c], k) = slot(f, f.inode[c], k)
    BY <1>6, SameSlots
  <1>12. \A c \in Dirs(f) : Fills(g, g.inode[c]) BY <1>1, <1>6, <1>10, <1>11, SameEnts
  <1>13. ASSUME NEW c \in Dirs(f) \ {d} PROVE Ents(g, c) = Ents(f, c)
    <2>1. ASSUME NEW k \in Leaves(f, f.inode[c])
          PROVE  g.entries[slot(f, f.inode[c], k)] = f.entries[slot(f, f.inode[c], k)]
      <3>1. k \in Slots /\ slot(f, f.inode[c], k) # 0 /\ slot(f, f.inode[c], k) \in Blocks
        BY <1>1, <1>10, SlotType DEF Leaves
      <3>2. slot(f, f.inode[c], k) \notin dir_blocks(f, node)
        BY <1>1, <1>2, <1>3, <1>10, <3>1 DEF Owned, at, Leaves
      <3> QED BY <1>5, <3>1, <3>2
    <2>2. dir_entries(g, f.inode[c]) = dir_entries(f, f.inode[c])
      BY <1>1, <1>6, <1>10, <1>11, <2>1, SameEnts
    <2> QED BY <1>10, <2>2 DEF Ents
  <1>14. Ents(g, d) = Ents(f, d) \ {gone}
    <2>1. dir_entries(g, node) = UNION {g.entries[slot(g, node, k)] : k \in Leaves(g, node)}
      BY <1>2, <1>6, <1>10, <1>12, EntriesAre
    <2>2. Leaves(g, node) = Leaves(f, node) /\ \A k \in Leaves(f, node) : slot(g, node, k) = slot(f, node, k)
      BY <1>11 DEF Leaves
    <2>3. ASSUME NEW k \in Leaves(f, node)
          PROVE  g.entries[slot(g, node, k)] = {e \in f.entries[slot(f, node, k)] : e.name # name}
      <3>1. slot(f, node, k) \in Blocks /\ slot(f, node, k) \in dir_blocks(f, node)
        BY <1>1, <1>2, <1>3, SlotType DEF Leaves
      <3> QED BY <1>5, <2>2, <3>1
    <2>4. dir_entries(g, node) = {e \in dir_entries(f, node) : e.name # name}
      BY <1>3, <2>1, <2>2, <2>3
    <2>5. \A e \in Ents(f, d) : e.name = name => e = gone BY <1>1 DEF IsTree
    <2> HIDE DEF node
    <2>6. Ents(g, d) = {e \in Ents(f, d) : e.name # name} BY <1>10, <2>4 DEF Ents, node
    <2> QED BY <2>5, <2>6
  <1>15. Full(g) /\ Dirs(g) = Dirs(f) BY <1>6, <1>12 DEF Full, Dirs, SameInodes
  <1>16. Sound(g) BY <1>6, <1>8, <1>15 DEF Sound
  <1>17. Unnamed(f, g, d, gone) /\ g.inode = f.inode
    BY <1>6, <1>7, <1>8, <1>9, <1>13, <1>14, <1>16 DEF Unnamed, SameInodes
  <1> QED BY <1>17 DEF g

(* The end of both calls. *)
InodeGone(g, x, is_dir, h) ==
    /\ Sound(h) /\ FreeCounted(h) /\ (Accounted(g) => Accounted(h))
    /\ h.inode_bitmap = g.inode_bitmap \ {x}
    /\ h.used_dirs_count = IF ~is_dir THEN g.used_dirs_count
                           ELSE IF g.used_dirs_count > 0 THEN g.used_dirs_count - 1 ELSE 0
    /\ \A i \in h.inode_bitmap : h.inode[i] = g.inode[i]
    /\ \A d \in Dirs(g) \ {x} : Ents(h, d) = Ents(g, d)
    /\ h.data = g.data /\ \A i \in h.inode_bitmap, k \in Slots : at(h, i, k) = at(g, i, k)

LEMMA FreedAll ==
    ASSUME NEW f, NEW node
    PROVE  Dropped(f, node, 0) = {slot(f, node, k) : k \in Slots} \ {0}
  <1>1. \A k \in Slots : ~keeps(k, 0) BY Dimensions DEF keeps, Slots
  <1> QED BY <1>1 DEF Dropped

LEMMA FreedInode ==
    ASSUME NEW g, Sound(g), FreeCounted(g), NEW x \in g.inode_bitmap, NEW is_dir \in BOOLEAN
    PROVE  InodeGone(g, x, is_dir, free_inode(g, x, is_dir))
  <1> DEFINE node == g.inode[x]
             r == free_inode_blocks(g, node, 0)
             a == r.fs
             c == write_inode(a, x, EmptyInode)
             h == mark_inode_used(c, x, FALSE, is_dir)
  <1>1. g \in Image /\ Owned(g) /\ BlocksCounted(g) /\ Full(g) /\ x \in Inodes /\ g.inode_bitmap \in SUBSET Inodes
    BY Fields DEF Sound
  <1>2. /\ a \in Image /\ BlocksCounted(a) /\ SameInodes(g, a) /\ a.entries = g.entries
        /\ a.block_bitmap = g.block_bitmap \ Dropped(g, node, 0)
        /\ \A i \in g.inode_bitmap \ {x} : \A k \in Slots : slot(a, g.inode[i], k) = at(g, i, k)
    BY <1>1, FreedBlocks
  <1>17. a.data = g.data /\ c.data = a.data BY <1>1, <1>2, FreedData, InodeData
  <1> HIDE DEF r
  <1>3. InodeSet(a, x, EmptyInode, c) BY <1>1, <1>2, Dimensions, InodeIsSet
  <1> HIDE DEF a, c
  <1>4. /\ c \in Image /\ c.inode[x] = EmptyInode /\ \A i \in Inodes \ {x} : c.inode[i] = g.inode[i]
        /\ SameBlocks(a, c) /\ c.inode_bitmap = g.inode_bitmap
        /\ c.free_inodes_count = g.free_inodes_count /\ c.used_dirs_count = g.used_dirs_count
    BY <1>2, <1>3 DEF InodeSet, SameInodes
  <1>5. FreeCounted(c) BY <1>4 DEF FreeCounted
  <1>6. /\ h \in Image /\ FreeCounted(h) /\ SameBlocks(c, h) /\ h.inode = c.inode
        /\ h.inode_bitmap = c.inode_bitmap \ {x}
        /\ h.used_dirs_count = IF ~is_dir THEN c.used_dirs_count
                               ELSE IF c.used_dirs_count > 0 THEN c.used_dirs_count - 1 ELSE 0
    <2>1. x \in c.inode_bitmap BY <1>4
    <2> QED BY <1>4, <1>5, <2>1, InodeFreed, ZenonT(60)
  <1>7. free_inode(g, x, is_dir) = h BY DEF free_inode, r, a, c
  <1>18. h.data = g.data
    <2>1. c \in Image BY <1>4
    <2>2. h.data = c.data BY <2>1, BitCleared, Zenon
    <2> QED BY <1>17, <2>2
  <1> HIDE DEF h
  <1>8. /\ h.entries = g.entries /\ h.indirect = a.indirect /\ BlocksCounted(h)
        /\ h.block_bitmap = g.block_bitmap \ Dropped(g, node, 0)
        /\ h.inode_bitmap = g.inode_bitmap \ {x}
        /\ \A i \in Inodes \ {x} : h.inode[i] = g.inode[i]
    BY <1>2, <1>4, <1>6 DEF SameBlocks, BlocksCounted
  <1>9. h.used_dirs_count = IF ~is_dir THEN g.used_dirs_count
                            ELSE IF g.used_dirs_count > 0 THEN g.used_dirs_count - 1 ELSE 0
    BY <1>4, <1>6
  <1>10. \A i \in h.inode_bitmap : i \in g.inode_bitmap /\ i # x /\ h.inode[i] = g.inode[i] /\ i \in Inodes
    BY <1>1, <1>8
  <1>11. ASSUME NEW i \in h.inode_bitmap, NEW k \in Slots
         PROVE  at(h, i, k) = at(g, i, k) /\ slot(h, g.inode[i], k) = slot(g, g.inode[i], k)
    BY <1>8, SameSlots, <1>2, <1>10 DEF at
  <1>12. \A b : b \in Dropped(g, node, 0) <=> b # 0 /\ \E k \in Slots : at(g, x, k) = b
    BY FreedAll DEF at
  <1>13. Owned(h)
    <2>1. ASSUME NEW i \in h.inode_bitmap, NEW k \in Slots, at(h, i, k) # 0
          PROVE  at(h, i, k) \in h.block_bitmap
      BY <1>1, <1>8, <1>10, <1>11, <1>12, <2>1 DEF Owned
    <2>2. ASSUME NEW i \in h.inode_bitmap, NEW j \in h.inode_bitmap, NEW k \in Slots, NEW l \in Slots,
                 at(h, i, k) # 0, at(h, i, k) = at(h, j, l)
          PROVE  i = j /\ k = l
      BY <1>10, <1>11, <2>2, <1>1 DEF Owned
    <2> QED BY <2>1, <2>2 DEF Owned
  <1>14. ASSUME NEW d \in Dirs(g) \ {x}
         PROVE  d \in Dirs(h) /\ Fills(h, h.inode[d]) /\ Ents(h, d) = Ents(g, d)
    <2>1. d \in h.inode_bitmap /\ h.inode[d] = g.inode[d] BY <1>8, <1>10 DEF Dirs
    <2>2. g.inode[d] \in InodeType /\ Fills(g, g.inode[d]) BY <1>1, SubdirsFinite
    <2>3. \A k \in Leaves(g, g.inode[d]) : h.entries[slot(g, g.inode[d], k)] = g.entries[slot(g, g.inode[d], k)]
      BY <1>8
    <2>4. \A k \in Slots : slot(h, g.inode[d], k) = slot(g, g.inode[d], k) BY <1>11, <2>1
    <2>5. Fills(h, g.inode[d]) /\ dir_entries(h, g.inode[d]) = dir_entries(g, g.inode[d])
      BY <1>1, <1>6, <2>2, <2>3, <2>4, SameEnts
    <2> QED BY <2>1, <2>5 DEF Ents, Dirs
  <1>15. Full(h) /\ Sound(h) BY <1>10, <1>14, <1>6, <1>8, <1>13 DEF Dirs, Full, Sound
  <1>16. ASSUME Accounted(g) PROVE Accounted(h)
    <2>1. ASSUME NEW b \in h.block_bitmap PROVE \E i \in h.inode_bitmap, k \in Slots : at(h, i, k) = b
      <3>1. b \in g.block_bitmap /\ b # 0 /\ \A k \in Slots : at(g, x, k) # b
        BY <1>6, Fields, <1>8, <1>12, Dimensions
      <3>2. PICK i \in g.inode_bitmap, k \in Slots : at(g, i, k) = b
        BY <1>16, <3>1 DEF Accounted
      <3>3. i \in h.inode_bitmap BY <1>8, <3>1, <3>2
      <3> QED BY <1>11, <3>2, <3>3
    <2>2. ASSUME NEW i \in h.inode_bitmap PROVE exact(h, h.inode[i])
      <3>1. taken(h, g.inode[i]) = taken(g, g.inode[i]) BY <1>11 DEF taken
      <3>2. g.inode[i] \in InodeType BY <1>1, <1>10, Fields
      <3>3. inode_allocated_blocks(h, g.inode[i]) = inode_allocated_blocks(g, g.inode[i])
        BY <1>1, <1>6, <3>1, <3>2, AllocatedIs
      <3> QED BY <1>10, <1>16, <3>3 DEF Accounted, exact
    <2> QED BY <2>1, <2>2 DEF Accounted
  <1> QED BY <1>6, <1>7, <1>8, <1>9, <1>10, <1>11, <1>14, <1>15, <1>16, <1>18 DEF InodeGone


LEMMA Gone ==
    ASSUME NEW f, Consistent(f), NEW parent \in Dirs(f), NEW gone \in Ents(f, parent), NEW x, x = gone.ino,
           x \in Dirs(f) => Ents(f, x) = {}, NEW g, Unnamed(f, g, parent, gone),
           x \in Dirs(f) => g.inode[parent].links >= f.inode[parent].links - 1,
           x \notin Dirs(f) => g.inode[parent].links >= f.inode[parent].links,
           NEW is_dir \in BOOLEAN, is_dir <=> x \in Dirs(f)
    PROVE  /\ Intact(f, free_inode(g, x, is_dir)) /\ Keeps(f, free_inode(g, x, is_dir))
           /\ RemovedFrom(f, free_inode(g, x, is_dir), x, parent, gone)
  <1> DEFINE h == free_inode(g, x, is_dir)
  <1>1. f \in Image /\ FreeCounted(f) /\ Full(f) /\ IsTree(f) /\ f.used_dirs_count = Cardinality(Dirs(f))
    BY DEF Consistent, Sound, InodesCounted, FreeCounted
  <1>2. /\ Sound(g) /\ FreeCounted(g) /\ (Accounted(f) => Accounted(g))
        /\ g.inode_bitmap = f.inode_bitmap /\ g.used_dirs_count = f.used_dirs_count
        /\ \A i \in f.inode_bitmap : g.inode[i].mode = f.inode[i].mode
        /\ \A i \in f.inode_bitmap \ {parent} : g.inode[i] = f.inode[i]
        /\ Ents(g, parent) = Ents(f, parent) \ {gone}
        /\ \A c \in Dirs(f) \ {parent} : Ents(g, c) = Ents(f, c)
        /\ g.data = f.data /\ \A i \in f.inode_bitmap, k \in Slots : at(g, i, k) = at(f, i, k)
    BY DEF Unnamed
  <1>3. x \in f.inode_bitmap /\ parent # x /\ parent \in f.inode_bitmap
    BY <1>1 DEF IsTree, Dirs
  <1>4. InodeGone(g, x, is_dir, h) BY <1>2, <1>3, FreedInode
  <1> HIDE DEF h
  <1>5. /\ Sound(h) /\ FreeCounted(h) /\ (Accounted(g) => Accounted(h))
        /\ h.inode_bitmap = f.inode_bitmap \ {x}
        /\ h.used_dirs_count = IF ~is_dir THEN f.used_dirs_count
                               ELSE IF f.used_dirs_count > 0 THEN f.used_dirs_count - 1 ELSE 0
        /\ \A i \in f.inode_bitmap \ {x} : h.inode[i] = g.inode[i]
        /\ \A d \in Dirs(g) \ {x} : Ents(h, d) = Ents(g, d)
        /\ h.data = f.data /\ \A i \in f.inode_bitmap \ {x}, k \in Slots : at(h, i, k) = at(f, i, k)
    BY <1>2, <1>4 DEF InodeGone
  <1>6. Dirs(g) = Dirs(f) BY <1>2 DEF Dirs
  <1>7. \A d \in Dirs(f) : f.inode[d].links \in Nat BY <1>1, SubdirsFinite
  <1>8. RemovedFrom(f, h, x, parent, gone)
    <2>1. \A i \in h.inode_bitmap : h.inode[i].mode = f.inode[i].mode BY <1>2, <1>5
    <2>2. \A d \in Dirs(f) \ {parent, x} : Ents(h, d) = Ents(f, d) BY <1>2, <1>5, <1>6
    <2>3. Ents(h, parent) = Ents(f, parent) \ {gone} BY <1>2, <1>3, <1>5, <1>6
    <2>4. \A d \in Dirs(f) \ {parent, x} : h.inode[d] = f.inode[d] BY <1>2, <1>5 DEF Dirs
    <2>5. \A d \in Dirs(f) \ {parent, x} : h.inode[d].links >= f.inode[d].links
      BY <1>7, <2>4
    <2>6. h.inode[parent] = g.inode[parent] BY <1>3, <1>5
    <2> QED BY <1>3, <1>5, <2>1, <2>2, <2>3, <2>5, <2>6 DEF RemovedFrom
  <1>9. h \in Image BY <1>5 DEF Sound
  <1>10. IsTree(h) /\ Dirs(h) = Dirs(f) \ {x} BY <1>1, <1>8, <1>9, TreeRemove
  <1>11. h.used_dirs_count = Cardinality(Dirs(h))
    <2>1. IsFiniteSet(Dirs(f)) BY <1>1, Fields, FS_Subset DEF Dirs
    <2>2. CASE is_dir
      <3>1. Cardinality(Dirs(f) \ {x}) = Cardinality(Dirs(f)) - 1
        BY <2>1, <2>2, FS_RemoveElement
      <3>2. Cardinality(Dirs(f)) \in Nat /\ Cardinality(Dirs(f) \ {x}) \in Nat
        BY <2>1, FS_Subset, FS_CardinalityType
      <3> QED BY <1>1, <1>5, <1>10, <2>2, <3>1, <3>2
    <2>3. CASE ~is_dir
      BY <1>10, <2>3, <1>1, <1>5
    <2> QED BY <2>2, <2>3
  <1>12. Consistent(h) BY <1>5, <1>10, <1>11 DEF Consistent, InodesCounted, FreeCounted
  <1>13. Keeps(f, h)
    <2>1. ASSUME NEW i \in f.inode_bitmap \cap h.inode_bitmap
          PROVE  /\ h.inode[i].mode = f.inode[i].mode
                 /\ f.inode[i].mode # "dir" =>
                       h.inode[i].size = f.inode[i].size /\ \A k \in Slots : at(h, i, k) = at(f, i, k)
      BY <1>5, <1>2 DEF Dirs
    <2> QED BY <1>5, <2>1 DEF Keeps, KeptData
  <1> QED BY <1>2, <1>5, <1>8, <1>12, <1>13 DEF Intact, h

(* What ext2_unlink and ext2_rmdir make of an image, and report. *)
Removable(f, path, mode) ==
    /\ parent_lookup(f, path) # 0 /\ path_lookup(f, path) # 0
    /\ f.inode[path_lookup(f, path)].mode = mode
    /\ mode = "dir" => Ents(f, path_lookup(f, path)) = {}
Unmade(f, r, path, mode) ==
    \/ r.result = USER_ERR_INVAL /\ r.fs = f /\ ~Removable(f, path, mode)
    \/ /\ r.result = 0 /\ Keeps(f, r.fs) /\ Removable(f, path, mode)
       /\ \E gone : RemovedFrom(f, r.fs, path_lookup(f, path), parent_lookup(f, path), gone)

LEMMA NotUnmade ==
    ASSUME NEW f, Consistent(f), NEW path, NEW mode, ~Removable(f, path, mode), NEW r, r = Failed(f, USER_ERR_INVAL)
    PROVE  Intact(f, r.fs) /\ Unmade(f, r, path, mode)
  <1>1. r.fs = f /\ r.result = USER_ERR_INVAL BY Returned
  <1> QED BY <1>1 DEF Unmade, Intact

(* What path_lookup finds is in the directory that parent_lookup finds. *)
LEMMA NamedAt ==
    ASSUME NEW f, Consistent(f), NEW path \in Paths, parent_lookup(f, path) # 0, path_lookup(f, path) # 0
    PROVE  /\ parent_lookup(f, path) \in Dirs(f)
           /\ \E e \in Ents(f, parent_lookup(f, path)) : e.name = Last(path) /\ e.ino = path_lookup(f, path)
           /\ path_lookup(f, path) \in f.inode_bitmap
  <1>1. /\ parent_lookup(f, path) \in Dirs(f)
        /\ path_lookup(f, path) = find_in_dir(f, parent_lookup(f, path), Last(path))
    BY ParentAt
  <1>2. f \in Image /\ Full(f) /\ IsTree(f) BY DEF Consistent, Sound
  <1>3. path_lookup(f, path) \in f.inode_bitmap BY <1>2, TreeFind, PathLen
  <1> QED BY <1>1, <1>3, FindIs

(* ext2_unlink and ext2_rmdir. *)
LEMMA Unlinked ==
    ASSUME NEW f, Consistent(f), NEW path \in Paths
    PROVE  Intact(f, ext2_unlink(f, path).fs) /\ Unmade(f, ext2_unlink(f, path), path, "file")
  <1> DEFINE r == ext2_unlink(f, path)
             parent == parent_lookup(f, path)
             x == path_lookup(f, path)
  <1>1. CASE ~Removable(f, path, "file")
    <2>1. r = Failed(f, USER_ERR_INVAL) BY <1>1 DEF ext2_unlink, Removable, inode_is_file
    <2> HIDE DEF r
    <2> QED BY <1>1, <2>1, NotUnmade DEF r
  <1>2. CASE Removable(f, path, "file")
    <2>2. parent # 0 /\ x # 0 /\ inode_is_file(f.inode[x])
      BY <1>2 DEF Removable, inode_is_file
    <2> QED
      <3> DEFINE g == remove_dir_entry(f, parent, Last(path))
      <3>1. r.fs = free_inode(g, x, FALSE) /\ r.result = 0
        BY <2>2, Returned DEF ext2_unlink
      <3>2. /\ parent \in Dirs(f) /\ x \in f.inode_bitmap
            /\ \E e \in Ents(f, parent) : e.name = Last(path) /\ e.ino = x
        BY <2>2, NamedAt
      <3> HIDE DEF parent, x
      <3>3. PICK gone \in Ents(f, parent) : gone.name = Last(path) /\ gone.ino = x
        BY <3>2
      <3>4. Unnamed(f, g, parent, gone) /\ g.inode = f.inode BY <3>2, <3>3, EntryRemoved
      <3> HIDE DEF g
      <3>5. x \notin Dirs(f) BY <2>2 DEF Dirs, inode_is_file
      <3>6. g.inode[parent].links >= f.inode[parent].links
        BY <3>2, SubdirsFinite, <3>4 DEF Consistent, Sound
      <3>7. /\ Intact(f, free_inode(g, x, FALSE)) /\ Keeps(f, free_inode(g, x, FALSE))
            /\ RemovedFrom(f, free_inode(g, x, FALSE), x, parent, gone)
        BY <3>2, <3>3, <3>4, <3>5, <3>6, Gone
      <3> HIDE DEF r
      <3> QED BY <1>2, <3>1, <3>7 DEF Unmade, x, parent, r
  <1> QED BY <1>1, <1>2

LEMMA RemovedDir ==
    ASSUME NEW f, Consistent(f), NEW path \in Paths
    PROVE  Intact(f, ext2_rmdir(f, path).fs) /\ Unmade(f, ext2_rmdir(f, path), path, "dir")
  <1> DEFINE r == ext2_rmdir(f, path)
             parent == parent_lookup(f, path)
             x == path_lookup(f, path)
             less == remove_dir_entry(f, parent, Last(path))
             left == [less EXCEPT !.inode[parent].links = IF @ > 0 THEN @ - 1 ELSE 0]
  <1>1. CASE ~Removable(f, path, "dir")
    <2>1. r = Failed(f, USER_ERR_INVAL)
      BY <1>1 DEF ext2_rmdir, Removable, inode_is_dir, dir_is_empty, Ents
    <2> HIDE DEF r
    <2> QED BY <1>1, <2>1, NotUnmade DEF r
  <1>2. CASE Removable(f, path, "dir")
    <2>2. parent # 0 /\ x # 0 /\ inode_is_dir(f.inode[x]) /\ dir_is_empty(f, f.inode[x])
      BY <1>2 DEF Removable, inode_is_dir, dir_is_empty, Ents
    <2> QED
      <3>1. r.fs = free_inode(left, x, TRUE) /\ r.result = 0
        BY <2>2, Returned DEF ext2_rmdir
      <3>2. /\ parent \in Dirs(f) /\ x \in f.inode_bitmap
            /\ \E e \in Ents(f, parent) : e.name = Last(path) /\ e.ino = x
        BY <2>2, NamedAt
      <3> HIDE DEF parent, x
      <3>3. PICK gone \in Ents(f, parent) : gone.name = Last(path) /\ gone.ino = x
        BY <3>2
      <3>4. Unnamed(f, less, parent, gone) /\ less.inode = f.inode
        BY <3>2, <3>3, EntryRemoved
      <3> HIDE DEF less
      <3>5. x \in Dirs(f) /\ Ents(f, x) = {}
        BY <2>2, <3>2 DEF Dirs, inode_is_dir, dir_is_empty, Ents
      <3>6. parent \in Inodes /\ less \in Image /\ parent \in less.inode_bitmap /\ less.inode[parent] \in InodeType
        BY <3>2, <3>4, Fields DEF Unnamed, Sound, Dirs
      <3> DEFINE n == [less.inode[parent] EXCEPT !.links = IF @ > 0 THEN @ - 1 ELSE 0]
      <3>7. n \in InodeType /\ n.mode = less.inode[parent].mode /\ n.size = less.inode[parent].size
            /\ n.blocks = less.inode[parent].blocks /\ n.block = less.inode[parent].block
            /\ n.links >= less.inode[parent].links - 1
        BY <3>6 DEF InodeType
      <3>8. left = write_inode(less, parent, n) BY DEF write_inode
      <3>13. left.data = less.data BY <3>6, <3>8, InodeData
      <3> HIDE DEF n, left
      <3>9. InodeSet(less, parent, n, left) BY <3>6, <3>7, <3>8, InodeIsSet
      <3>10. Unnamed(f, left, parent, gone)
        <4>1. /\ Sound(less) /\ FreeCounted(less) /\ (Accounted(f) => Accounted(less))
              /\ less.inode_bitmap = f.inode_bitmap /\ less.used_dirs_count = f.used_dirs_count
              /\ \A i \in f.inode_bitmap : less.inode[i].mode = f.inode[i].mode
              /\ \A i \in f.inode_bitmap \ {parent} : less.inode[i] = f.inode[i]
              /\ Ents(less, parent) = Ents(f, parent) \ {gone}
              /\ \A c \in Dirs(f) \ {parent} : Ents(less, c) = Ents(f, c)
              /\ less.data = f.data /\ \A i \in f.inode_bitmap, k \in Slots : at(less, i, k) = at(f, i, k)
          BY <3>4 DEF Unnamed
        <4>2. /\ left \in Image /\ left.inode[parent] = n /\ \A i \in Inodes \ {parent} : left.inode[i] = less.inode[i]
              /\ SameBlocks(less, left) /\ left.inode_bitmap = less.inode_bitmap
              /\ left.free_inodes_count = less.free_inodes_count /\ left.used_dirs_count = less.used_dirs_count
          BY <3>9 DEF InodeSet
        <4>3. left.indirect = less.indirect /\ left.entries = less.entries
              /\ left.block_bitmap = less.block_bitmap /\ left.free_blocks_count = less.free_blocks_count
          BY <4>2 DEF SameBlocks
        <4>4. less \in Image /\ less.inode_bitmap \in SUBSET Inodes
          BY <4>1, Fields DEF Sound
        <4>5. \A k : slot(left, n, k) = slot(less, less.inode[parent], k)
          BY <3>7, <4>3 DEF slot
        <4>6. \A i \in less.inode_bitmap : \A k : at(left, i, k) = at(less, i, k)
          BY <4>2, <4>3, <4>4, <4>5, SameSlots DEF at
        <4>7. Owned(left) /\ BlocksCounted(left) /\ FreeCounted(left)
          <5>1. Owned(less) /\ BlocksCounted(less) /\ FreeCounted(less) BY <4>1 DEF Sound
          <5>2. left.inode_bitmap = less.inode_bitmap BY <4>2
          <5>3. Owned(left) BY <4>3, <4>6, <5>1, <5>2 DEF Owned
          <5> QED BY <4>2, <4>3, <5>1, <5>3 DEF BlocksCounted, FreeCounted
        <4>8. blocks_of(n.size) = blocks_of(less.inode[parent].size)
              /\ \A i : block_id_at(left, n, i) = block_id_at(less, less.inode[parent], i)
          BY <3>7, <4>3 DEF block_id_at
        <4>9. dir_entries(left, n) = dir_entries(less, less.inode[parent])
          BY <4>3, <4>8 DEF dir_entries, dir_blocks
        <4>10. \A m : dir_entries(left, m) = dir_entries(less, m)
          BY <4>3 DEF block_id_at, dir_entries, dir_blocks
        <4>11. Ents(left, parent) = Ents(f, parent) \ {gone} BY <4>1, <4>2, <4>9 DEF Ents
        <4>12. \A c \in Dirs(f) \ {parent} : Ents(left, c) = Ents(f, c)
          BY <4>1, <4>2, <4>4, <4>10 DEF Ents, Dirs
        <4>13. \A i \in f.inode_bitmap : left.inode[i].mode = f.inode[i].mode
          BY <3>7, <4>1, <4>2, <4>4
        <4>14. \A i \in f.inode_bitmap \ {parent} : left.inode[i] = f.inode[i]
          BY <4>1, <4>2, <4>4
        <4>15. Full(left)
          <5>1. ASSUME NEW d \in Dirs(left) PROVE Fills(left, left.inode[d])
            <6>1. d \in less.inode_bitmap /\ d \in Dirs(less)
              BY <3>7, <4>2, <4>4, <5>1 DEF Dirs
            <6>2. Fills(less, less.inode[d]) BY <4>1, <6>1 DEF Sound, Full
            <6>3. left.inode[d].size = less.inode[d].size BY <3>7, <4>2, <4>4, <6>1
            <6>4. \A k : slot(left, left.inode[d], k) = slot(less, less.inode[d], k)
              BY <4>6, <6>1 DEF at
            <6> QED BY <6>2, <6>3, <6>4 DEF Fills
          <5> QED BY <5>1 DEF Full
        <4>16. Accounted(less) => Accounted(left)
          <5>1. ASSUME NEW i \in less.inode_bitmap, exact(less, less.inode[i])
                PROVE  exact(left, left.inode[i])
            <6>1. CASE i = parent
              <7>1. inode_allocated_blocks(left, n) = inode_allocated_blocks(less, less.inode[parent])
                BY <3>7, <4>3 DEF inode_allocated_blocks
              <7> QED BY <3>7, <4>2, <5>1, <6>1, <7>1 DEF exact
            <6>2. CASE i # parent
              BY <4>2, <4>4, <6>2, <4>3, <5>1, SameSlots DEF exact
            <6> QED BY <6>1, <6>2
          <5> QED BY <4>2, <4>3, <4>6, <5>1 DEF Accounted
        <4>17. Sound(left) BY <4>2, <4>7, <4>15 DEF Sound
        <4> QED BY <3>13, <4>1, <4>2, <4>6, <4>7, <4>11, <4>12, <4>13, <4>14, <4>16, <4>17 DEF Unnamed
      <3>11. left.inode[parent].links >= f.inode[parent].links - 1
        BY <3>4, <3>7, <3>9 DEF InodeSet
      <3>12. /\ Intact(f, free_inode(left, x, TRUE)) /\ Keeps(f, free_inode(left, x, TRUE))
             /\ RemovedFrom(f, free_inode(left, x, TRUE), x, parent, gone)
        BY <3>2, <3>3, <3>5, <3>10, <3>11, Gone
      <3> HIDE DEF r
      <3> QED BY <1>2, <3>1, <3>12 DEF Unmade, x, parent, r
  <1> QED BY <1>1, <1>2


-----------------------------------------------------------------------------
(* What files hold. *)

(* Block i of a file: blank if it is a hole. *)
content(f, node, i) ==
    IF slot(f, node, place(i)) = 0 THEN ZeroData ELSE f.data[slot(f, node, place(i))]

(* Unit u of a file. *)
unit(f, node, u) ==
    IF u \div BlockUnits < MaxBlocks THEN content(f, node, u \div BlockUnits)[u % BlockUnits] ELSE 0

LEMMA ContentType ==
    ASSUME NEW f \in Image, NEW node \in InodeType, NEW i \in 0 .. MaxBlocks - 1
    PROVE  content(f, node, i) \in Data
  <1>1. slot(f, node, place(i)) \in Blocks \cup {0} BY Places, SlotType
  <1> QED BY <1>1, Fields, Dimensions DEF content

LEMMA UnitPlace ==
    ASSUME NEW u \in Nat
    PROVE  /\ u \div BlockUnits \in Nat /\ u % BlockUnits \in 0 .. BlockUnits - 1
           /\ u = (u \div BlockUnits) * BlockUnits + (u % BlockUnits)
           /\ u \div BlockUnits < MaxBlocks => u \div BlockUnits \in 0 .. MaxBlocks - 1
  <1>1. BlockUnits \in Nat \ {0} /\ MaxBlocks \in Nat BY Dimensions
  <1>2. /\ u \div BlockUnits \in Nat /\ u % BlockUnits \in 0 .. BlockUnits - 1
        /\ u = (u \div BlockUnits) * BlockUnits + (u % BlockUnits)
    BY <1>1, DivMod
  <1> QED BY <1>1, <1>2

LEMMA UnitType ==
    ASSUME NEW f \in Image, NEW node \in InodeType, NEW u \in Nat
    PROVE  unit(f, node, u) \in {0, Mark}
  <1>1. CASE u \div BlockUnits < MaxBlocks
    <2>1. content(f, node, u \div BlockUnits) \in Data BY <1>1, UnitPlace, ContentType
    <2> QED BY <1>1, <2>1, UnitPlace DEF unit, Data
  <1>2. CASE ~(u \div BlockUnits < MaxBlocks)
    BY <1>2 DEF unit
  <1> QED BY <1>1, <1>2

(* What a file holds, as file_data writes it. *)
LEMMA DataIs ==
    ASSUME NEW f \in Image, NEW node \in InodeType
    PROVE  /\ file_data(f, node) = [k \in 1 .. node.size |-> unit(f, node, k - 1)]
           /\ file_data(f, node) \in Seq({0, Mark}) /\ Len(file_data(f, node)) = node.size
           /\ file_data(f, node) # Dir
  <1>2. node.size \in Nat BY DEF InodeType
  <1>1. file_data(f, node) = [k \in 1 .. node.size |-> unit(f, node, k - 1)]
    <2>1. ASSUME NEW k \in 1 .. node.size
          PROVE  LET b == block_id_at(f, node, (k - 1) \div BlockUnits)
                 IN  (IF b = 0 THEN 0 ELSE f.data[b][(k - 1) % BlockUnits]) = unit(f, node, k - 1)
      <3> DEFINE i == (k - 1) \div BlockUnits
                 w == (k - 1) % BlockUnits
      <3>1. i \in Nat /\ w \in 0 .. BlockUnits - 1 BY <1>2, UnitPlace
      <3> HIDE DEF i, w
      <3>2. block_id_at(f, node, i) = IF i < MaxBlocks THEN slot(f, node, place(i)) ELSE 0
        BY <3>1, BlockAt
      <3>3. ZeroData[w] = 0 BY <3>1 DEF ZeroData
      <3> QED BY <3>2, <3>3 DEF unit, content, i, w
    <2> QED BY <2>1 DEF file_data
  <1>3. \A k \in 1 .. node.size : unit(f, node, k - 1) \in {0, Mark}
    <2> TAKE k \in 1 .. node.size
    <2>1. k - 1 \in Nat BY <1>2
    <2> QED BY <2>1, UnitType
  <1>4. file_data(f, node) \in [1 .. node.size -> {0, Mark}] BY <1>1, <1>3
  <1>5. file_data(f, node) \in Seq({0, Mark}) /\ Len(file_data(f, node)) = node.size
    <2> DEFINE d == file_data(f, node)
    <2> HIDE DEF d
    <2>1. d \in [1 .. node.size -> {0, Mark}] BY <1>4 DEF d
    <2>2. d \in Seq({0, Mark}) /\ Len(d) = node.size BY <1>2, <2>1
    <2> QED BY <2>2 DEF d
  <1> QED BY <1>1, <1>5, DirAssumption


LEMMA EnsureBlocksBlank ==
    ASSUME NEW f \in Image, BlocksCounted(f), NEW node \in InodeType, Within(f, node),
           NEW from \in Nat, NEW to \in Nat, from <= to
    PROVE  LET r == ensure_file_blocks(f, node, from, to)
           IN  Result(r) /\ Grew(f, node, r.fs, r.node) /\ Blanked(f, r.fs)
  <1> DEFINE Good(r) == Result(r) /\ Grew(f, node, r.fs, r.node) /\ Blanked(f, r.fs)
  <1>1. PICK g : /\ ensure_file_blocks(f, node, from, to) = g[to] /\ g[from] = Ok(f, node)
                 /\ \A k \in from + 1 .. to :
                       g[k] = (IF g[k - 1].ok THEN ensure_file_block(g[k - 1].fs, g[k - 1].node, k - 1) ELSE g[k - 1])
    BY EnsureLoop
  <1> DEFINE S == {n \in Nat : Good(g[from + n])}
  <1>2. 0 \in S
    <2>1. Good(Ok(f, node)) BY GrewNot, BlankedNot DEF Ok, Result
    <2>2. from + 0 = from OBVIOUS
    <2> HIDE DEF Good
    <2> QED BY <1>1, <2>1, <2>2
  <1>3. ASSUME NEW n \in 0 .. (to - from) - 1, n \in S PROVE n + 1 \in S
    <2> DEFINE k == from + (n + 1)
               p == g[k - 1]
    <2>1. k \in from + 1 .. to /\ k - 1 = from + n /\ k - 1 \in Nat /\ n + 1 \in Nat
      OBVIOUS
    <2>2. Good(p)
      <3> HIDE DEF k, Good
      <3> QED BY <1>3, <2>1
    <2> HIDE DEF k
    <2>3. g[k] = (IF p.ok THEN ensure_file_block(p.fs, p.node, k - 1) ELSE p)
      BY <1>1, <2>1
    <2> HIDE DEF p
    <2>4. CASE ~p.ok
      <3> HIDE DEF Good
      <3>1. g[k] = p BY <2>3, <2>4
      <3> QED BY <2>1, <2>2, <3>1 DEF k
    <2>5. CASE p.ok
      <3>1. g[k] = ensure_file_block(p.fs, p.node, k - 1) BY <2>3, <2>5
      <3>2. Within(p.fs, p.node) /\ p.fs \in Image /\ p.node \in InodeType /\ BlocksCounted(p.fs)
        BY <2>2, GrewWithin DEF Grew
      <3>3. Ensured(p.fs, p.node, k - 1, g[k]) BY <2>1, <3>1, <3>2, EnsureBlock
      <3>4. Result(g[k]) /\ Grew(p.fs, p.node, g[k].fs, g[k].node) BY <3>3 DEF Ensured
      <3>5. Grew(f, node, g[k].fs, g[k].node) BY <2>2, <3>4, GrewMore
      <3>6. Blanked(p.fs, g[k].fs) BY <3>1, <3>2, EnsureBlank
      <3>7. Blanked(f, g[k].fs) BY <2>2, <3>6, BlankedMore DEF Grew
      <3>8. Good(g[k]) BY <3>4, <3>5, <3>7
      <3> HIDE DEF Good
      <3> QED BY <2>1, <3>8 DEF k
    <2> QED BY <2>4, <2>5
  <1> HIDE DEF S
  <1>4. to - from \in S BY <1>2, <1>3, Induction
  <1>5. from + (to - from) = to OBVIOUS
  <1>6. Good(g[to])
    <2> HIDE DEF Good
    <2> QED BY <1>4, <1>5 DEF S
  <1> QED BY <1>1, <1>6

(* Each block holds what it held. *)
SameContent(f, m, g, n) == \A i \in 0 .. MaxBlocks - 1 : content(g, n, i) = content(f, m, i)

LEMMA ContentSame ==
    ASSUME NEW f, NEW m, NEW g, NEW n,
           \A k \in Slots : /\ slot(g, n, k) = slot(f, m, k)
                            /\ slot(f, m, k) # 0 => g.data[slot(f, m, k)] = f.data[slot(f, m, k)]
    PROVE  SameContent(f, m, g, n)
  BY Places DEF SameContent, content

(* The inode from before its copy grew: it may lack blocks. *)
LEMMA StaleContent ==
    ASSUME NEW f, NEW node, NEW g, NEW n, Grew(f, node, g, n), NEW i \in 0 .. MaxBlocks - 1
    PROVE  \/ content(g, node, i) = content(g, n, i)
           \/ content(g, node, i) = content(f, node, i)
  <1> DEFINE k == place(i)
             t == node.block[DirectBlocks]
  <1>1. k \in Slots BY Places
  <1> HIDE DEF k
  <1>2. slot(g, node, k) = 0 \/ slot(g, node, k) = slot(g, n, k) BY <1>1, StaleSlots
  <1>3. ASSUME slot(f, node, k) # 0 PROVE slot(g, node, k) = slot(g, n, k)
    <2>1. slot(g, n, k) = slot(f, node, k) BY <1>1, <1>3 DEF Grew
    <2>2. CASE k <= DirectBlocks
      BY <2>1, <2>2 DEF slot
    <2>3. CASE ~(k <= DirectBlocks)
      BY <1>3, <2>3, TableSlot DEF slot, Grew
    <2> QED BY <2>2, <2>3
  <1> QED BY <1>2, <1>3 DEF content, k

LEMMA GrewContent ==
    ASSUME NEW f \in Image, NEW node \in InodeType, Within(f, node), NEW g, NEW n,
           Grew(f, node, g, n), Blanked(f, g)
    PROVE  SameContent(f, node, g, n) /\ SameContent(f, node, g, node)
  <1>1. f.block_bitmap \in SUBSET Blocks /\ g.block_bitmap \in SUBSET Blocks /\ 0 \notin Blocks
    BY Fields, Dimensions DEF Grew
  <1>2. \A b \in f.block_bitmap : g.data[b] = f.data[b] BY <1>1 DEF Blanked
  <1>3. \A b \in Fresh(f, g) : b # 0 /\ g.data[b] = ZeroData BY <1>1 DEF Blanked, Fresh
  <1>4. ASSUME NEW k \in Slots
        PROVE  /\ slot(f, node, k) # 0 => slot(g, n, k) = slot(f, node, k) /\ slot(f, node, k) \in f.block_bitmap
               /\ slot(f, node, k) = 0 => slot(g, n, k) = 0 \/ slot(g, n, k) \in Fresh(f, g)
    BY DEF Grew, Within
  <1>5. SameContent(f, node, g, n) BY <1>2, <1>3, <1>4, Places DEF SameContent, content
  <1>6. SameContent(f, node, g, node) BY <1>5, StaleContent DEF SameContent
  <1> QED BY <1>5, <1>6

LEMMA SameUnits ==
    ASSUME NEW f, NEW m, NEW g, NEW n, SameContent(f, m, g, n), NEW u \in Nat
    PROVE  unit(g, n, u) = unit(f, m, u)
  BY UnitPlace DEF SameContent, unit

(* Blocks behind the end of a file are blank. *)
Spare(f, node) ==
    \A i \in 0 .. MaxBlocks - 1 : i >= blocks_of(node.size) => content(f, node, i) = ZeroData

LEMMA SameSpare ==
    ASSUME NEW f, NEW m, NEW g, NEW n, SameContent(f, m, g, n), Spare(f, m), n.size = m.size
    PROVE  Spare(g, n)
  BY DEF SameContent, Spare

(* No block is in two places of a map. *)
Distinct(f, node) ==
    \A k, l \in Slots : slot(f, node, k) # 0 /\ slot(f, node, k) = slot(f, node, l) => k = l

LEMMA GrewDistinct ==
    ASSUME NEW f, NEW node, Within(f, node), Distinct(f, node), NEW g, NEW n, Grew(f, node, g, n)
    PROVE  Distinct(g, n)
  <1> SUFFICES ASSUME NEW k \in Slots, NEW l \in Slots, slot(g, n, k) # 0, slot(g, n, k) = slot(g, n, l)
               PROVE  k = l
    BY DEF Distinct
  <1>1. CASE slot(g, n, k) \in Fresh(f, g)
    BY <1>1 DEF Grew
  <1>2. CASE slot(g, n, k) \notin Fresh(f, g)
    BY <1>2 DEF Grew, Distinct
  <1> QED BY <1>1, <1>2

(* Unit w of block j is one that is written. *)
inside(j, w, from, to) == j * BlockUnits + w \in from .. to - 1

(* Blocks that are not in the map hold what they held. *)
Elsewhere(f, node, g) ==
    \A b \in f.block_bitmap : (\A k \in Slots : slot(f, node, k) # b) => g.data[b] = f.data[b]

LEMMA CopiedData ==
    ASSUME NEW r, Result(r), r.ok, r.fs \in Image, NEW i, NEW from, NEW to,
           NEW b \in Blocks, b = block_id_at(r.fs, r.node, i)
    PROVE  LET c == copied(r, i, from, to)
           IN  /\ \A d \in Blocks \ {b} : c.fs.data[d] = r.fs.data[d]
               /\ \A u \in 0 .. BlockUnits - 1 :
                     c.fs.data[b][u] = IF inside(i, u, from, to) THEN Mark ELSE r.fs.data[b][u]
  <1> DEFINE c == copied(r, i, from, to)
             D == [u \in 0 .. BlockUnits - 1 |->
                     IF i * BlockUnits + u \in from .. to - 1 THEN Mark ELSE r.fs.data[b][u]]
             g == [r.fs EXCEPT !.data[b] = D]
  <1>1. c = [r EXCEPT !.fs = g] BY DEF copied, Result
  <1>2. g = [r.fs EXCEPT !.data = [r.fs.data EXCEPT ![b] = D]] BY DEF Image
  <1>3. r.fs.data \in [Blocks -> Data] BY Fields
  <1>4. \A u \in 0 .. BlockUnits - 1 : D[u] = IF inside(i, u, from, to) THEN Mark ELSE r.fs.data[b][u]
    BY DEF inside
  <1> HIDE DEF D, g
  <1>5. c.fs = g BY <1>1 DEF Result
  <1>6. g.data = [r.fs.data EXCEPT ![b] = D] BY <1>2 DEF Image
  <1> HIDE DEF c
  <1>7. g.data[b] = D /\ \A d \in Blocks \ {b} : g.data[d] = r.fs.data[d] BY <1>3, <1>6
  <1>8. /\ \A d \in Blocks \ {b} : c.fs.data[d] = r.fs.data[d]
        /\ \A u \in 0 .. BlockUnits - 1 :
              c.fs.data[b][u] = IF inside(i, u, from, to) THEN Mark ELSE r.fs.data[b][u]
    BY <1>4, <1>5, <1>7
  <1> QED BY <1>8 DEF c

(* One round of the loop of a write. *)
Round(f, node, i, from, to, c) ==
    /\ Result(c) /\ Grew(f, node, c.fs, c.node) /\ Elsewhere(f, node, c.fs)
    /\ \A j \in 0 .. MaxBlocks - 1 : \A w \in 0 .. BlockUnits - 1 :
          content(c.fs, c.node, j)[w] = IF c.ok /\ j = i /\ inside(j, w, from, to)
                                        THEN Mark ELSE content(f, node, j)[w]
    /\ c.ok => i < MaxBlocks

LEMMA RoundWritten ==
    ASSUME NEW f \in Image, BlocksCounted(f), NEW node \in InodeType, Within(f, node), Distinct(f, node),
           NEW i \in Nat, NEW from, NEW to
    PROVE  Round(f, node, i, from, to, copied(ensure_file_block(f, node, i), i, from, to))
  <1> DEFINE e == ensure_file_block(f, node, i)
             c == copied(e, i, from, to)
             b == slot(e.fs, e.node, place(i))
  <1>1. Ensured(f, node, i, e) /\ Blanked(f, e.fs) BY EnsureBlock, EnsureBlank
  <1> HIDE DEF e
  <1>2. Result(e) /\ Grew(f, node, e.fs, e.node) /\ e.fs \in Image /\ e.node \in InodeType
    BY <1>1 DEF Ensured, Grew
  <1>3. SameContent(f, node, e.fs, e.node) /\ Distinct(e.fs, e.node)
    BY <1>1, <1>2, GrewContent, GrewDistinct
  <1>4. Elsewhere(f, node, e.fs) BY Fields, <1>1 DEF Blanked, Elsewhere
  <1>5. Result(c) /\ c.ok = e.ok /\ c.node = e.node /\ c.fs \in Image /\ SameMaps(e.fs, c.fs)
    BY <1>2, Copied
  <1>6. Grew(f, node, c.fs, c.node)
    <2> HIDE DEF c
    <2> QED BY <1>2, <1>5, GrewData
  <1>7. CASE ~e.ok
    <2>1. c = e BY <1>7 DEF copied
    <2> HIDE DEF c
    <2>2. \A j \in 0 .. MaxBlocks - 1 : content(c.fs, c.node, j) = content(f, node, j)
      BY <1>3, <2>1 DEF SameContent
    <2>3. c.ok = FALSE BY <1>2, <1>7, <2>1 DEF Result
    <2>4. Round(f, node, i, from, to, c) BY <1>2, <1>4, <1>6, <2>1, <2>2, <2>3 DEF Round
    <2> QED BY <2>4 DEF c, e
  <1>8. CASE e.ok
    <2>1. i < MaxBlocks /\ b # 0 /\ i \in 0 .. MaxBlocks - 1 /\ place(i) \in Slots
      BY <1>1, <1>8, Dimensions, Places DEF Ensured
    <2>2. b \in Blocks /\ b = block_id_at(e.fs, e.node, i)
      BY <1>2, <2>1, SlotType, BlockAt
    <2> HIDE DEF b
    <2>3. /\ \A d \in Blocks \ {b} : c.fs.data[d] = e.fs.data[d]
          /\ \A u \in 0 .. BlockUnits - 1 :
                c.fs.data[b][u] = IF inside(i, u, from, to) THEN Mark ELSE e.fs.data[b][u]
      BY <1>2, <1>8, <2>2, CopiedData
    <2> HIDE DEF c
    <2>4. Elsewhere(f, node, c.fs)
      <3> SUFFICES ASSUME NEW d \in f.block_bitmap, \A k \in Slots : slot(f, node, k) # d
                   PROVE  c.fs.data[d] = f.data[d]
        BY DEF Elsewhere
      <3>1. e.fs.data[d] = f.data[d] /\ d \in Blocks BY <1>4, Fields DEF Elsewhere
      <3>2. d # b BY <2>1, <1>2 DEF Grew, b, Fresh
      <3> QED BY <2>3, <3>1, <3>2
    <2>5. ASSUME NEW j \in 0 .. MaxBlocks - 1, NEW w \in 0 .. BlockUnits - 1
          PROVE  content(c.fs, c.node, j)[w] = IF c.ok /\ j = i /\ inside(j, w, from, to)
                                               THEN Mark ELSE content(f, node, j)[w]
      <3>1. slot(c.fs, c.node, place(j)) = slot(e.fs, e.node, place(j)) /\ place(j) \in Slots
        BY <1>5, Places, SameSlots DEF SameMaps
      <3>2. content(e.fs, e.node, j) = content(f, node, j) BY <1>3 DEF SameContent
      <3>3. CASE j = i
        BY <2>1, <3>1, <3>3, <1>5, <1>8, <2>3, <3>2 DEF content, b
      <3>4. CASE j # i
        BY <2>1, <3>4, Places, <1>3, <3>1, <1>2, SlotType, <2>3, <3>2 DEF Distinct, b, content
      <3> QED BY <3>3, <3>4
    <2>6. Round(f, node, i, from, to, c) BY <1>5, <1>6, <2>1, <2>4, <2>5 DEF Round
    <2> QED BY <2>6 DEF c, e
  <1> QED BY <1>7, <1>8

LEMMA ElsewhereMore ==
    ASSUME NEW f, NEW node, NEW g, NEW n, NEW h, Grew(f, node, g, n), Elsewhere(f, node, g), Elsewhere(g, n, h)
    PROVE  Elsewhere(f, node, h)
  <1> SUFFICES ASSUME NEW b \in f.block_bitmap, \A k \in Slots : slot(f, node, k) # b
               PROVE  h.data[b] = f.data[b]
    BY DEF Elsewhere
  <1>1. b \in g.block_bitmap /\ b \notin Fresh(f, g) BY DEF Grew, Fresh
  <1>2. \A k \in Slots : slot(g, n, k) # b
    <2> SUFFICES ASSUME NEW k \in Slots, slot(g, n, k) = b PROVE FALSE
      OBVIOUS
    <2>1. slot(f, node, k) # 0 => slot(g, n, k) = slot(f, node, k) BY DEF Grew
    <2>2. slot(f, node, k) = 0 => slot(g, n, k) = 0 BY <1>1 DEF Grew
    <2> QED BY <2>1, <2>2
  <1> QED BY <1>1, <1>2 DEF Elsewhere

(* The loop of a write before its k-th block. *)
Marked(f, node, from, to, k, p) ==
    /\ Result(p) /\ Grew(f, node, p.fs, p.node) /\ Elsewhere(f, node, p.fs)
    /\ \A j \in 0 .. MaxBlocks - 1 : \A w \in 0 .. BlockUnits - 1 :
          \/ content(p.fs, p.node, j)[w] = content(f, node, j)[w]
          \/ inside(j, w, from, to) /\ content(p.fs, p.node, j)[w] = Mark
    /\ p.ok => \A j \in from \div BlockUnits .. k - 1 :
                  /\ j < MaxBlocks
                  /\ \A w \in 0 .. BlockUnits - 1 :
                        inside(j, w, from, to) => content(p.fs, p.node, j)[w] = Mark

LEMMA MarkedMore ==
    ASSUME NEW f \in Image, NEW node \in InodeType, Within(f, node), Distinct(f, node),
           NEW from \in Nat, NEW to, from \div BlockUnits \in Nat, NEW i \in Nat,
           NEW p, Marked(f, node, from, to, i, p), p.ok
    PROVE  Marked(f, node, from, to, i + 1, copied(ensure_file_block(p.fs, p.node, i), i, from, to))
  <1> DEFINE c == copied(ensure_file_block(p.fs, p.node, i), i, from, to)
             low == from \div BlockUnits
  <1>1. Grew(f, node, p.fs, p.node) /\ Elsewhere(f, node, p.fs) BY DEF Marked
  <1>2. /\ p.fs \in Image /\ p.node \in InodeType /\ BlocksCounted(p.fs)
        /\ Within(p.fs, p.node) /\ Distinct(p.fs, p.node)
    BY <1>1, GrewWithin, GrewDistinct DEF Grew
  <1>3. Round(p.fs, p.node, i, from, to, c) BY <1>2, RoundWritten
  <1> HIDE DEF c
  <1>4. Result(c) /\ Grew(p.fs, p.node, c.fs, c.node) /\ Elsewhere(p.fs, p.node, c.fs) /\ (c.ok => i < MaxBlocks)
    BY <1>3 DEF Round
  <1>5. Grew(f, node, c.fs, c.node) /\ Elsewhere(f, node, c.fs)
    BY <1>1, <1>4, GrewMore, ElsewhereMore
  <1>6. ASSUME NEW j \in 0 .. MaxBlocks - 1, NEW w \in 0 .. BlockUnits - 1
        PROVE  content(c.fs, c.node, j)[w] = IF c.ok /\ j = i /\ inside(j, w, from, to)
                                             THEN Mark ELSE content(p.fs, p.node, j)[w]
    BY <1>3 DEF Round
  <1>7. ASSUME NEW j \in 0 .. MaxBlocks - 1, NEW w \in 0 .. BlockUnits - 1
        PROVE  \/ content(c.fs, c.node, j)[w] = content(f, node, j)[w]
               \/ inside(j, w, from, to) /\ content(c.fs, c.node, j)[w] = Mark
    BY <1>6 DEF Marked
  <1>8. ASSUME c.ok, NEW j \in low .. (i + 1) - 1
        PROVE  /\ j < MaxBlocks
               /\ \A w \in 0 .. BlockUnits - 1 : inside(j, w, from, to) => content(c.fs, c.node, j)[w] = Mark
    <2>1. low \in Nat /\ j \in Nat /\ (j # i => j \in low .. i - 1) OBVIOUS
    <2>2. CASE j = i
      BY <1>4, <1>8, <2>2, Dimensions, <1>6
    <2>3. CASE j # i
      BY <2>1, <2>3, Dimensions, <1>6 DEF Marked
    <2> QED BY <2>2, <2>3
  <1>9. Marked(f, node, from, to, i + 1, c) BY <1>4, <1>5, <1>7, <1>8 DEF Marked
  <1> QED BY <1>9 DEF c

LEMMA BlocksMarked ==
    ASSUME NEW f \in Image, BlocksCounted(f), NEW node \in InodeType, Within(f, node), Distinct(f, node),
           NEW from \in Nat, NEW to \in Nat, from <= to
    PROVE  Marked(f, node, from, to, blocks_of(to), write_blocks(f, node, from, to))
  <1> DEFINE low == from \div BlockUnits
             high == blocks_of(to)
  <1>0. low \in Nat /\ high \in Nat /\ low <= high BY BlocksOf
  <1>1. PICK g : /\ write_blocks(f, node, from, to) = g[high] /\ g[low] = Ok(f, node)
                 /\ \A k \in low + 1 .. high : g[k] = write_block(g[k - 1], k - 1, from, to)
    BY <1>0, WriteLoop
  <1> DEFINE S == {n \in Nat : Marked(f, node, from, to, low + n, g[low + n])}
  <1>2. 0 \in S
    <2>1. Marked(f, node, from, to, low, Ok(f, node))
      BY GrewNot, <1>0 DEF Ok, Result, Elsewhere, Marked
    <2>2. low + 0 = low BY <1>0
    <2> HIDE DEF low
    <2> QED BY <1>1, <2>1, <2>2
  <1>3. ASSUME NEW n \in 0 .. (high - low) - 1, n \in S PROVE n + 1 \in S
    <2> DEFINE i == low + n
               p == g[i]
    <2>1. i + 1 \in low + 1 .. high /\ (i + 1) - 1 = i /\ i \in Nat /\ n + 1 \in Nat /\ low + (n + 1) = i + 1
      <3> HIDE DEF low, high
      <3> QED BY <1>0
    <2>2. Marked(f, node, from, to, i, p) BY <1>3
    <2> HIDE DEF i
    <2>3. g[i + 1] = write_block(p, i, from, to)
      <3> HIDE DEF low, high
      <3> QED BY <1>1, <2>1
    <2> HIDE DEF p
    <2>4. CASE ~p.ok
      <3>1. g[i + 1] = p BY <2>3, <2>4 DEF write_block
      <3>2. Marked(f, node, from, to, i + 1, p) BY <2>2, <2>4 DEF Marked
      <3> HIDE DEF low
      <3> QED BY <2>1, <3>1, <3>2
    <2>5. CASE p.ok
      <3>1. g[i + 1] = copied(ensure_file_block(p.fs, p.node, i), i, from, to)
        BY <2>3, <2>5 DEF write_block
      <3>2. Marked(f, node, from, to, i + 1, g[i + 1])
        BY <1>0, <2>1, <2>2, <2>5, <3>1, MarkedMore
      <3> HIDE DEF low
      <3> QED BY <2>1, <3>2
    <2> QED BY <2>4, <2>5
  <1> HIDE DEF S
  <1>4. high - low \in S
    <2> HIDE DEF low, high
    <2>1. high - low \in Nat BY <1>0
    <2>2. \A n \in 0 .. high - low : n \in S BY <1>2, <1>3, <2>1, Induction
    <2> QED BY <2>1, <2>2
  <1>5. Marked(f, node, from, to, high, g[high])
    <2> HIDE DEF low, high
    <2>1. low + (high - low) = high BY <1>0
    <2> QED BY <1>4, <2>1 DEF S
  <1> QED BY <1>1, <1>5

LEMMA Multiples ==
    /\ \A a, b \in Nat : a * BlockUnits \in Nat /\ (a < b => a * BlockUnits + BlockUnits <= b * BlockUnits)
    /\ \A a, b \in Nat : a <= b => a * BlockUnits <= b * BlockUnits
  BY Dimensions, Z3

(* The number of blocks that s units take. *)
LEMMA BlocksAre ==
    ASSUME NEW s \in Nat
    PROVE  /\ blocks_of(s) \in Nat /\ s <= blocks_of(s) * BlockUnits
           /\ blocks_of(s) * BlockUnits <= s + BlockUnits - 1
  <1> DEFINE U == BlockUnits
             n == s + U - 1
             q == n \div U
             y == q * U
             z == n % U
  <1>0. U \in Nat \ {0} BY Dimensions
  <1>1. n \in Nat /\ n = s + U - 1 BY <1>0
  <1> HIDE DEF n
  <1>2. q \in Nat /\ z \in 0 .. U - 1 /\ n = y + z BY <1>0, <1>1, DivMod
  <1>3. blocks_of(s) = q BY DEF blocks_of, n
  <1>4. y \in Nat BY <1>2, Multiples
  <1> HIDE DEF q, y, z, U
  <1>5. s <= y /\ y <= s + U - 1 BY <1>0, <1>1, <1>2, <1>4
  <1> QED BY <1>2, <1>3, <1>5 DEF y, U

(* Where unit u of a file is, compared with the unit, or the end, s. *)
LEMMA UnitOrder ==
    ASSUME NEW u \in Nat, NEW s \in Nat
    PROVE  /\ u < s => u \div BlockUnits < blocks_of(s)
           /\ s <= u => s \div BlockUnits <= u \div BlockUnits
           /\ s <= u /\ u \div BlockUnits < blocks_of(s) =>
                 /\ s % BlockUnits # 0 /\ u \div BlockUnits = s \div BlockUnits
                 /\ s % BlockUnits <= u % BlockUnits
           /\ u < s /\ u \div BlockUnits = s \div BlockUnits => u % BlockUnits < s % BlockUnits
           /\ blocks_of(u) < blocks_of(s) => u < s
  <1> DEFINE U == BlockUnits
             q == u \div U
             r == u % U
             p == s \div U
             t == s % U
             n == blocks_of(s)
             m == blocks_of(u)
             qU == q * U
             pU == p * U
             nU == n * U
             mU == m * U
  <1>1. U \in Nat \ {0} BY Dimensions
  <1>2. /\ q \in Nat /\ r \in 0 .. U - 1 /\ u = qU + r
        /\ p \in Nat /\ t \in 0 .. U - 1 /\ s = pU + t
        /\ n \in Nat /\ s <= nU /\ nU <= s + U - 1
        /\ m \in Nat /\ u <= mU /\ mU <= u + U - 1
    BY <1>1, DivMod, BlocksAre
  <1>3. /\ qU \in Nat /\ pU \in Nat /\ nU \in Nat /\ mU \in Nat
        /\ n <= q => nU <= qU
        /\ q < p => qU + U <= pU
        /\ p < q => pU + U <= qU
        /\ q < n => qU + U <= nU
        /\ p < n => pU + U <= nU
        /\ n <= p => nU <= pU
        /\ m < n => mU + U <= nU
    BY <1>2, Multiples
  <1>4. q = p => qU = pU OBVIOUS
  <1> HIDE DEF U, q, r, p, t, n, m, qU, pU, nU, mU
  <1>5. u < s => q < n BY <1>1, <1>2, <1>3
  <1>6. s <= u => p <= q BY <1>1, <1>2, <1>3
  <1>7. s <= u /\ q < n => t # 0 /\ q = p /\ t <= r BY <1>1, <1>2, <1>3, <1>4
  <1>8. u < s /\ q = p => r < t BY <1>1, <1>2, <1>3, <1>4
  <1>9. m < n => u < s BY <1>1, <1>2, <1>3
  <1> QED BY <1>5, <1>6, <1>7, <1>8, <1>9 DEF U, q, r, p, t, n, m

LEMMA InsideUnit ==
    ASSUME NEW u \in Nat, NEW from, NEW to
    PROVE  inside(u \div BlockUnits, u % BlockUnits, from, to) <=> u \in from .. to - 1
  <1>1. u = (u \div BlockUnits) * BlockUnits + (u % BlockUnits) BY UnitPlace
  <1> DEFINE q == u \div BlockUnits
             r == u % BlockUnits
  <1>3. u = q * BlockUnits + r BY <1>1
  <1> HIDE DEF q, r
  <1>4. inside(q, r, from, to) <=> u \in from .. to - 1 BY <1>3 DEF inside
  <1> QED BY <1>4 DEF q, r

(* What a write makes of the units of a file, and of the file whose inode  *)
(* is not written back.                                                    *)
LEMMA UnitsMarked ==
    ASSUME NEW f \in Image, NEW node \in InodeType, NEW from \in Nat, NEW to \in Nat, from <= to,
           NEW p, Marked(f, node, from, to, blocks_of(to), p), NEW u \in Nat
    PROVE  /\ unit(p.fs, p.node, u) = unit(f, node, u) \/ (u \in from .. to - 1 /\ unit(p.fs, p.node, u) = Mark)
           /\ p.ok /\ u \in from .. to - 1 => unit(p.fs, p.node, u) = Mark
           /\ unit(p.fs, node, u) = unit(f, node, u) \/ (u \in from .. to - 1 /\ unit(p.fs, node, u) = Mark)
  <1> DEFINE j == u \div BlockUnits
             w == u % BlockUnits
             low == from \div BlockUnits
             high == blocks_of(to)
  <1>1. j \in Nat /\ w \in 0 .. BlockUnits - 1 /\ (j < MaxBlocks => j \in 0 .. MaxBlocks - 1)
    BY UnitPlace
  <1>2. inside(j, w, from, to) <=> u \in from .. to - 1 BY InsideUnit
  <1>3. u \in from .. to - 1 => j \in low .. high - 1
    <2>1. low \in Nat /\ high \in Nat BY BlocksOf
    <2>2. u \in from .. to - 1 => low <= j /\ j < high BY UnitOrder
    <2> HIDE DEF low, high, j
    <2> QED BY <1>1, <2>1, <2>2
  <1>4. p.ok /\ u \in from .. to - 1 => j < MaxBlocks /\ content(p.fs, p.node, j)[w] = Mark
    <2> HIDE DEF j, w
    <2> QED BY <1>1, <1>2, <1>3 DEF Marked
  <1>5. j < MaxBlocks => \/ content(p.fs, p.node, j)[w] = content(f, node, j)[w]
                         \/ inside(j, w, from, to) /\ content(p.fs, p.node, j)[w] = Mark
    <2> HIDE DEF j, w
    <2> QED BY <1>1 DEF Marked
  <1>6. j < MaxBlocks => \/ content(p.fs, node, j) = content(p.fs, p.node, j)
                         \/ content(p.fs, node, j) = content(f, node, j)
    <2>1. Grew(f, node, p.fs, p.node) BY DEF Marked
    <2> HIDE DEF j
    <2> QED BY <1>1, <2>1, StaleContent
  <1>7. \A g, n : unit(g, n, u) = IF j < MaxBlocks THEN content(g, n, j)[w] ELSE 0
    BY DEF unit
  <1> HIDE DEF j, w
  <1> QED BY <1>2, <1>4, <1>5, <1>6, <1>7

(* The same map, the tail of the last block cleared. *)
LEMMA TailCleared ==
    ASSUME NEW g \in Image, NEW n \in InodeType, Distinct(g, n), NEW old \in Nat, NEW new \in Nat
    PROVE  LET c == clear_tail(g, n, old, new)
           IN  /\ \A j \in 0 .. MaxBlocks - 1 : \A w \in 0 .. BlockUnits - 1 :
                     content(c, n, j)[w] = IF /\ new > old /\ old % BlockUnits # 0
                                              /\ j = old \div BlockUnits /\ w >= old % BlockUnits
                                           THEN 0 ELSE content(g, n, j)[w]
               /\ \A b \in Blocks : (\A k \in Slots : slot(g, n, k) # b) => c.data[b] = g.data[b]
  <1> DEFINE c == clear_tail(g, n, old, new)
             i == old \div BlockUnits
             x == old % BlockUnits
             b == block_id_at(g, n, i)
             D == [w \in 0 .. BlockUnits - 1 |-> IF w >= x THEN 0 ELSE g.data[b][w]]
             Same == \A j \in 0 .. MaxBlocks - 1 : \A w \in 0 .. BlockUnits - 1 :
                        content(c, n, j)[w] = IF /\ new > old /\ old % BlockUnits # 0
                                                 /\ j = old \div BlockUnits /\ w >= old % BlockUnits
                                              THEN 0 ELSE content(g, n, j)[w]
             Rest == \A d \in Blocks : (\A k \in Slots : slot(g, n, k) # d) => c.data[d] = g.data[d]
  <1>0. i \in Nat /\ x \in Nat /\ g.data \in [Blocks -> Data]
    <2>1. BlockUnits \in Nat \ {0} BY Dimensions
    <2>2. g.data \in [Blocks -> Data] BY Fields, Zenon
    <2>3. i \in Nat /\ x \in 0 .. BlockUnits - 1 BY <2>1, DivMod, Zenon
    <2> HIDE DEF i, x
    <2> QED BY <2>1, <2>2, <2>3
  <1>1. c \in Image /\ c.indirect = g.indirect BY ClearTail DEF SameMaps
  <1>2. \A k : slot(c, n, k) = slot(g, n, k)
    <2> HIDE DEF c
    <2> QED BY <1>1, SameSlots
  <1>3. CASE new <= old \/ x = 0
    <2>1. c = g BY <1>3 DEF clear_tail
    <2>2. ~(new > old /\ x # 0) BY <1>3
    <2> HIDE DEF c, i, x
    <2> QED BY <2>1, <2>2 DEF c, i, x
  <1>4. CASE ~(new <= old \/ x = 0) /\ b = 0
    <2>1. c = [g EXCEPT !.superblock = IF SuperblockUnit >= x THEN "cleared" ELSE @]
      BY <1>4 DEF clear_tail
    <2>2. c.data = g.data
      <3> HIDE DEF c, x
      <3> QED BY <2>1 DEF Image
    <2>3. \A j \in 0 .. MaxBlocks - 1 : content(c, n, j) = content(g, n, j)
      <3> HIDE DEF c
      <3> QED BY <1>2, <2>2 DEF content
    <2>4. i \in 0 .. MaxBlocks - 1 => content(g, n, i) = ZeroData
      <3> HIDE DEF i
      <3>1. block_id_at(g, n, i) = IF i < MaxBlocks THEN slot(g, n, place(i)) ELSE 0
        BY <1>0, BlockAt
      <3>2. i \in 0 .. MaxBlocks - 1 => i < MaxBlocks BY Dimensions
      <3>3. i \in 0 .. MaxBlocks - 1 => slot(g, n, place(i)) = 0 BY <1>4, <3>1, <3>2
      <3> QED BY <3>3 DEF content
    <2>5. \A w \in 0 .. BlockUnits - 1 : ZeroData[w] = 0 BY DEF ZeroData
    <2>6. Same
      <3> HIDE DEF c, i
      <3> QED BY <2>3, <2>4, <2>5 DEF i
    <2>7. Rest
      <3> HIDE DEF c
      <3> QED BY <2>2
    <2> QED BY <2>6, <2>7
  <1>5. CASE ~(new <= old \/ x = 0) /\ b # 0
    <2>1. c = [g EXCEPT !.data[b] = D] BY <1>5 DEF clear_tail, Image
    <2>2. i \in 0 .. MaxBlocks - 1 /\ b = slot(g, n, place(i)) /\ place(i) \in Slots /\ b \in Blocks
      <3> HIDE DEF i
      <3>1. i < MaxBlocks /\ b = slot(g, n, place(i)) BY <1>0, <1>5, BlockAt
      <3>2. i \in 0 .. MaxBlocks - 1 /\ place(i) \in Slots
        BY <1>0, <3>1, Dimensions, Places
      <3> QED BY <1>5, <3>1, <3>2, SlotType
    <2>3. \A w \in 0 .. BlockUnits - 1 : D[w] = IF w >= x THEN 0 ELSE g.data[b][w] OBVIOUS
    <2>4. c.data = [g.data EXCEPT ![b] = D]
      <3> HIDE DEF b, D
      <3> QED BY <2>1 DEF Image
    <2> HIDE DEF c, D, b, i, x
    <2>5. c.data[b] = D /\ \A d \in Blocks \ {b} : c.data[d] = g.data[d]
      BY <1>0, <2>2, <2>4
    <2>6. Rest BY <2>2, <2>5
    <2>7. ASSUME NEW j \in 0 .. MaxBlocks - 1, NEW w \in 0 .. BlockUnits - 1
          PROVE  content(c, n, j)[w] = IF j = i /\ w >= x THEN 0 ELSE content(g, n, j)[w]
      <3>1. place(j) \in Slots /\ (j # i => place(j) # place(i)) BY <2>2, Places
      <3>2. CASE j = i
        BY <1>2, <1>5, <2>2, <2>3, <2>5, <3>2 DEF content
      <3>3. CASE j # i
        BY <1>5, <2>2, <3>1, <3>3, SlotType, <1>2, <2>5 DEF Distinct, content
      <3> QED BY <3>2, <3>3
    <2>8. new > old /\ x # 0 BY <1>5
    <2>9. Same BY <2>7, <2>8 DEF i, x
    <2> QED BY <2>6, <2>9 DEF c
  <1> QED BY <1>3, <1>4, <1>5

LEMMA KeepsPlace ==
    ASSUME NEW i \in 0 .. MaxBlocks - 1, NEW keep \in Nat
    PROVE  keeps(place(i), keep) <=> i < keep
  BY Dimensions DEF keeps, place

(* A file that is to have new units has the blocks for them: those it had, *)
(* blank ones where there were none, and nothing behind them.              *)
Staged(f, node, new, r) ==
    /\ Result(r) /\ r.ok /\ r.fs \in Image /\ r.node \in InodeType /\ Distinct(r.fs, r.node)
    /\ Elsewhere(f, node, r.fs)
    /\ \A k \in Slots : slot(r.fs, r.node, k) \in f.block_bitmap =>
          \E l \in Slots : slot(f, node, l) = slot(r.fs, r.node, k)
    /\ \A i \in 0 .. MaxBlocks - 1 :
          content(r.fs, r.node, i) = IF i < blocks_of(new) THEN content(f, node, i) ELSE ZeroData

LEMMA StagedGrown ==
    ASSUME NEW f \in Image, NEW node \in InodeType, Within(f, node), Distinct(f, node), Spare(f, node),
           NEW new \in Nat, blocks_of(node.size) <= blocks_of(new),
           NEW r, Result(r), r.ok, Grew(f, node, r.fs, r.node), Blanked(f, r.fs)
    PROVE  Staged(f, node, new, r)
  <1>1. r.fs \in Image /\ r.node \in InodeType /\ Distinct(r.fs, r.node)
    BY GrewDistinct DEF Grew
  <1>2. Elsewhere(f, node, r.fs) BY Fields DEF Blanked, Elsewhere
  <1>3. ASSUME NEW k \in Slots, slot(r.fs, r.node, k) \in f.block_bitmap
        PROVE  \E l \in Slots : slot(f, node, l) = slot(r.fs, r.node, k)
    BY <1>3, Fields, Dimensions DEF Fresh, Grew
  <1>4. SameContent(f, node, r.fs, r.node) BY GrewContent
  <1>5. ASSUME NEW i \in 0 .. MaxBlocks - 1
        PROVE  content(r.fs, r.node, i) = IF i < blocks_of(new) THEN content(f, node, i) ELSE ZeroData
    <2>1. node.size \in Nat BY DEF InodeType
    <2>2. blocks_of(node.size) \in Nat /\ blocks_of(new) \in Nat BY <2>1, BlocksOf
    <2>3. ~(i < blocks_of(new)) => i >= blocks_of(node.size) BY <2>2
    <2>4. ~(i < blocks_of(new)) => content(f, node, i) = ZeroData BY <2>3 DEF Spare
    <2> QED BY <1>4, <2>4 DEF SameContent
  <1> QED BY <1>1, <1>2, <1>3, <1>5 DEF Staged

LEMMA OwnedDistinct ==
    ASSUME NEW f, Owned(f), NEW ino \in f.inode_bitmap
    PROVE  Distinct(f, f.inode[ino])
  BY DEF Owned, Distinct, at

LEMMA StagedShrunk ==
    ASSUME NEW f \in Image, Owned(f), BlocksCounted(f), NEW ino \in f.inode_bitmap, NEW new \in Nat
    PROVE  Staged(f, f.inode[ino], new, free_inode_blocks(f, f.inode[ino], blocks_of(new)))
  <1> DEFINE node == f.inode[ino]
             keep == blocks_of(new)
             r == free_inode_blocks(f, node, keep)
  <1>0. keep \in Nat BY BlocksOf
  <1>1. /\ Result(r) /\ r.ok /\ r.fs \in Image /\ r.node \in InodeType
        /\ \A k \in Slots : slot(r.fs, r.node, k) = IF keeps(k, keep) THEN slot(f, node, k) ELSE 0
    <2> HIDE DEF keep
    <2> QED BY <1>0, FreedBlocks
  <1>2. r.fs.data = f.data BY FreedData
  <1>3. Distinct(f, node) BY OwnedDistinct
  <1> HIDE DEF r, keep, node
  <1>4. Distinct(r.fs, r.node) BY <1>1, <1>3 DEF Distinct
  <1>5. Elsewhere(f, node, r.fs) BY <1>2 DEF Elsewhere
  <1>6. ASSUME NEW k \in Slots, slot(r.fs, r.node, k) \in f.block_bitmap
        PROVE  \E l \in Slots : slot(f, node, l) = slot(r.fs, r.node, k)
    BY Fields, Dimensions, <1>1, <1>6
  <1>7. ASSUME NEW i \in 0 .. MaxBlocks - 1
        PROVE  content(r.fs, r.node, i) = IF i < keep THEN content(f, node, i) ELSE ZeroData
    BY <1>0, Places, KeepsPlace, <1>1, <1>2 DEF content
  <1>8. Staged(f, node, new, r) BY <1>1, <1>4, <1>5, <1>6, <1>7 DEF Staged, keep
  <1> QED BY <1>8 DEF r, node, keep

(* A file has its new size: what it had below it, and zeros. *)
Sized(f, node, new, g, n) ==
    /\ n.size = new /\ Spare(g, n) /\ Elsewhere(f, node, g)
    /\ \A u \in 0 .. new - 1 : unit(g, n, u) = IF u < node.size THEN unit(f, node, u) ELSE 0

LEMMA SizeSet ==
    ASSUME NEW f \in Image, NEW ino \in Inodes, NEW node \in InodeType, Spare(f, node),
           NEW new \in Nat, NEW r, Staged(f, node, new, r)
    PROVE  LET s == set_size(r, ino, node.size, new)
           IN  s.ok /\ Sized(f, node, new, s.fs, s.fs.inode[ino])
  <1> DEFINE old == node.size
             s == set_size(r, ino, old, new)
             c == clear_tail(r.fs, r.node, old, new)
             n == [r.node EXCEPT !.size = new]
             m == update_inode_block_count(c, n)
             h == write_inode(c, ino, m)
  <1>1. Result(r) /\ r.ok /\ r.fs \in Image /\ r.node \in InodeType /\ Distinct(r.fs, r.node) /\ old \in Nat
    BY DEF Staged, InodeType
  <1>2. c \in Image BY <1>1, ClearTail
  <1>3. /\ \A j \in 0 .. MaxBlocks - 1 : \A w \in 0 .. BlockUnits - 1 :
              content(c, r.node, j)[w] = IF /\ new > old /\ old % BlockUnits # 0
                                            /\ j = old \div BlockUnits /\ w >= old % BlockUnits
                                         THEN 0 ELSE content(r.fs, r.node, j)[w]
        /\ \A b \in Blocks : (\A k \in Slots : slot(r.fs, r.node, k) # b) => c.data[b] = r.fs.data[b]
    <2> HIDE DEF old
    <2> QED BY <1>1, TailCleared
  <1>4. s = [r EXCEPT !.fs = h] BY <1>1 DEF set_size, write_counted
  <1>5. s.fs = h /\ s.ok
    <2> HIDE DEF h
    <2> QED BY <1>1, <1>4 DEF Result
  <1>6. m \in InodeType /\ m.size = new /\ \A g : \A k : slot(g, m, k) = slot(g, r.node, k)
    <2>1. n \in InodeType /\ n.size = new /\ n.block = r.node.block BY <1>1 DEF InodeType
    <2> HIDE DEF n, c
    <2>2. m \in InodeType /\ m.size = new /\ m.block = r.node.block
      BY <1>2, <2>1, Recounted
    <2> QED BY <2>2 DEF slot
  <1>7. h \in Image /\ h.inode[ino] = m /\ h.indirect = c.indirect /\ h.data = c.data
    <2> HIDE DEF c, m
    <2>1. h \in Image /\ h.inode[ino] = m /\ h.indirect = c.indirect
      BY <1>2, <1>6, InodeWritten, ZenonT(60)
    <2>2. h.data = c.data BY <1>2, InodeData, ZenonT(60)
    <2> QED BY <2>1, <2>2
  <1> HIDE DEF c, m, h, s
  <1>8. \A j \in 0 .. MaxBlocks - 1 : content(h, m, j) = content(c, r.node, j)
    BY <1>6, <1>7, SameSlots DEF content
  <1>9. ASSUME NEW j \in 0 .. MaxBlocks - 1, NEW w \in 0 .. BlockUnits - 1
        PROVE  content(h, m, j)[w] = IF /\ new > old /\ old % BlockUnits # 0
                                        /\ j = old \div BlockUnits /\ w >= old % BlockUnits
                                     THEN 0 ELSE IF j < blocks_of(new) THEN content(f, node, j)[w] ELSE 0
    BY <1>3, <1>8 DEF ZeroData, Staged
  <1>10. Spare(h, m)
    <2> SUFFICES ASSUME NEW i \in 0 .. MaxBlocks - 1, i >= blocks_of(new)
                 PROVE  content(h, m, i) = ZeroData
      BY <1>6 DEF Spare
    <2>1. ~(i < blocks_of(new)) BY BlocksOf
    <2>2. \A w \in 0 .. BlockUnits - 1 : content(h, m, i)[w] = 0 BY <1>9, <2>1
    <2>3. content(h, m, i) \in Data BY <1>6, <1>7, ContentType
    <2> QED BY <2>2, <2>3 DEF Data, ZeroData
  <1>11. Elsewhere(f, node, h)
    <2> SUFFICES ASSUME NEW b \in f.block_bitmap, \A k \in Slots : slot(f, node, k) # b
                 PROVE  c.data[b] = f.data[b]
      BY <1>7 DEF Elsewhere
    <2>1. b \in Blocks /\ r.fs.data[b] = f.data[b] BY Fields DEF Staged, Elsewhere
    <2>2. \A k \in Slots : slot(r.fs, r.node, k) # b BY DEF Staged
    <2> QED BY <1>3, <2>1, <2>2
  <1>12. ASSUME NEW u \in 0 .. new - 1
         PROVE  unit(h, m, u) = IF u < old THEN unit(f, node, u) ELSE 0
    <2> DEFINE j == u \div BlockUnits
               w == u % BlockUnits
    <2>0. u \in Nat OBVIOUS
    <2>1. j \in Nat /\ w \in 0 .. BlockUnits - 1 /\ (j < MaxBlocks => j \in 0 .. MaxBlocks - 1)
      BY <2>0, UnitPlace
    <2>2. j < blocks_of(new) BY <2>0, UnitOrder
    <2>3. /\ u < old /\ j = old \div BlockUnits => w < old % BlockUnits
          /\ old <= u /\ j < blocks_of(old) =>
                old % BlockUnits # 0 /\ j = old \div BlockUnits /\ old % BlockUnits <= w
      BY <1>1, <2>0, UnitOrder
    <2>4. /\ unit(h, m, u) = IF j < MaxBlocks THEN content(h, m, j)[w] ELSE 0
          /\ unit(f, node, u) = IF j < MaxBlocks THEN content(f, node, j)[w] ELSE 0
      BY DEF unit
    <2>5. old % BlockUnits \in Nat /\ blocks_of(old) \in Nat
      <3> HIDE DEF old
      <3>1. old % BlockUnits \in 0 .. BlockUnits - 1 BY <1>1, UnitPlace
      <3>2. blocks_of(old) \in Nat BY <1>1, BlocksOf
      <3> QED BY <3>1, <3>2, Dimensions
    <2>6. j < MaxBlocks /\ ~(j < blocks_of(old)) => content(f, node, j)[w] = 0
      <3> SUFFICES ASSUME j < MaxBlocks, ~(j < blocks_of(old)) PROVE content(f, node, j)[w] = 0
        OBVIOUS
      <3>1. j \in 0 .. MaxBlocks - 1 /\ j >= blocks_of(old)
        <4> HIDE DEF j, old
        <4> QED BY <2>1, <2>5
      <3>2. content(f, node, j) = ZeroData
        <4> HIDE DEF j
        <4> QED BY <3>1 DEF Spare
      <3> HIDE DEF j, w
      <3> QED BY <2>1, <3>2 DEF ZeroData
    <2>7. w \in Nat BY <2>1, Dimensions
    <2> HIDE DEF j, w
    <2>8. CASE ~(j < MaxBlocks)
      BY <2>4, <2>8
    <2>9. CASE j < MaxBlocks /\ u < old
      BY <2>3, <2>5, <2>7, <2>9, <1>9, <2>1, <2>2, <2>4
    <2>10. CASE j < MaxBlocks /\ ~(u < old)
      <3>0. old <= u /\ new > old BY <1>1, <2>0, <2>10
      <3>1. content(h, m, j)[w] = 0
        <4>1. CASE j < blocks_of(old)
          BY <2>3, <2>5, <2>7, <3>0, <4>1, <1>9, <2>1, <2>10
        <4>2. CASE ~(j < blocks_of(old))
          BY <2>6, <2>10, <4>2, <1>9, <2>1, <2>2
        <4> QED BY <4>1, <4>2
      <3> QED BY <2>4, <2>10, <3>1
    <2> QED BY <2>8, <2>9, <2>10
  <1>13. Sized(f, node, new, h, m) BY <1>6, <1>10, <1>11, <1>12 DEF Sized
  <1>14. s.ok /\ Sized(f, node, new, s.fs, s.fs.inode[ino]) BY <1>5, <1>7, <1>13
  <1> QED BY <1>14 DEF s

(* resize_inode_data: the file has its new size, or is as it was. *)
LEMMA ResizeData ==
    ASSUME NEW f \in Image, Owned(f), BlocksCounted(f), NEW ino \in f.inode_bitmap, NEW new \in Nat,
           Spare(f, f.inode[ino])
    PROVE  LET node == f.inode[ino]
               r == resize_inode_data(f, ino, new)
           IN  /\ r.ok => Sized(f, node, new, r.fs, r.fs.inode[ino])
               /\ ~r.ok => /\ r.fs.inode[ino] = node /\ SameContent(f, node, r.fs, node)
                           /\ Elsewhere(f, node, r.fs)
  <1> DEFINE node == f.inode[ino]
             old == blocks_of(node.size)
             to == blocks_of(new)
             r == resize_inode_data(f, ino, new)
  <1>1. ino \in Inodes /\ node \in InodeType /\ node.size \in Nat /\ Within(f, node) /\ Distinct(f, node)
    BY LiveNode, OwnedDistinct
  <1>2. old \in Nat /\ to \in Nat BY <1>1, BlocksOf
  <1>3. SameContent(f, node, f, node) /\ Elsewhere(f, node, f)
    BY DEF SameContent, Elsewhere
  <1>5. CASE new > MaxBlocks * BlockUnits
    <2>1. r.fs = f /\ r.ok = FALSE BY <1>5 DEF resize_inode_data, NotOk
    <2> HIDE DEF r
    <2> QED BY <1>3, <2>1 DEF r
  <1>6. CASE ~(new > MaxBlocks * BlockUnits)
    <2>1. CASE to > old
      <3> DEFINE e == ensure_file_blocks(f, node, old, to)
      <3>1. r = set_size(e, ino, node.size, new) BY <1>6, <2>1 DEF resize_inode_data
      <3>2. old <= to BY <1>2, <2>1
      <3>3. Result(e) /\ Grew(f, node, e.fs, e.node) /\ Blanked(f, e.fs)
        <4> HIDE DEF old, to
        <4> QED BY <1>1, <1>2, <3>2, EnsureBlocksBlank
      <3> HIDE DEF e
      <3>4. CASE e.ok
        <4>1. Staged(f, node, new, e) BY <1>1, <3>2, <3>3, <3>4, StagedGrown
        <4>2. set_size(e, ino, node.size, new).ok /\ Sized(f, node, new, set_size(e, ino, node.size, new).fs, set_size(e, ino, node.size, new).fs.inode[ino])
          BY <1>1, <4>1, SizeSet
        <4> HIDE DEF r
        <4> QED BY <3>1, <4>2 DEF r
      <3>5. CASE ~e.ok
        <4>1. r = e BY <3>1, <3>5 DEF set_size
        <4>2. r.fs.inode[ino] = node BY <3>3, <4>1 DEF Grew, SameInodes
        <4>3. SameContent(f, node, e.fs, node) BY <1>1, <3>3, GrewContent
        <4>4. Elsewhere(f, node, e.fs) BY Fields, <3>3 DEF Blanked, Elsewhere
        <4> HIDE DEF r
        <4> QED BY <3>5, <4>1, <4>2, <4>3, <4>4 DEF r
      <3> QED BY <3>4, <3>5
    <2>2. CASE ~(to > old) /\ to < old
      <3> DEFINE e == free_inode_blocks(f, node, to)
      <3>1. r = set_size(e, ino, node.size, new) BY <1>6, <2>2 DEF resize_inode_data
      <3>2. Staged(f, node, new, e) BY StagedShrunk
      <3> HIDE DEF e
      <3>3. set_size(e, ino, node.size, new).ok /\ Sized(f, node, new, set_size(e, ino, node.size, new).fs, set_size(e, ino, node.size, new).fs.inode[ino])
        BY <1>1, <3>2, SizeSet
      <3> HIDE DEF r
      <3> QED BY <3>1, <3>3 DEF r
    <2>3. CASE ~(to > old) /\ ~(to < old)
      <3> DEFINE e == Ok(f, node)
      <3>1. r = set_size(e, ino, node.size, new) BY <1>6, <2>3 DEF resize_inode_data
      <3>2. Result(e) /\ e.ok /\ Grew(f, node, e.fs, e.node) /\ Blanked(f, e.fs)
        BY <1>1, GrewNot, BlankedNot DEF Ok, Result
      <3>3. old <= to BY <1>2, <2>3
      <3> HIDE DEF e
      <3>4. Staged(f, node, new, e) BY <1>1, <3>2, <3>3, StagedGrown
      <3>5. set_size(e, ino, node.size, new).ok /\ Sized(f, node, new, set_size(e, ino, node.size, new).fs, set_size(e, ino, node.size, new).fs.inode[ino])
        BY <1>1, <3>4, SizeSet
      <3> HIDE DEF r
      <3> QED BY <3>1, <3>5 DEF r
    <2> QED BY <2>1, <2>2, <2>3
  <1> QED BY <1>5, <1>6

-----------------------------------------------------------------------------
(* The tree callers see. *)

LEMMA FrontIs ==
    ASSUME NEW S, NEW p \in Seq(S), p # <<>>
    PROVE  /\ Len(p) \in Nat \ {0} /\ Front(p) \in Seq(S) /\ Len(Front(p)) = Len(p) - 1
           /\ Last(p) = p[Len(p)] /\ \A i \in 1 .. Len(p) - 1 : Front(p)[i] = p[i]
  <1> DEFINE m == Len(p) - 1
             s == SubSeq(p, 1, m)
  <1>1. Len(p) \in Nat \ {0} /\ m \in Nat /\ m <= Len(p) /\ Last(p) = p[Len(p)] /\ Front(p) = s
    BY DEF Front, Last
  <1>2. \A i \in 1 .. m : p[i] \in S BY <1>1
  <1> HIDE DEF m
  <1>3. s = [i \in 1 .. m |-> p[i]] BY <1>1
  <1>4. s \in Seq(S) /\ Len(s) = m /\ \A i \in 1 .. m : s[i] = p[i] BY <1>1, <1>2, <1>3
  <1> QED BY <1>1, <1>4 DEF m

LEMMA FrontLast ==
    ASSUME NEW S, NEW p \in Seq(S), NEW q \in Seq(S), p # <<>>, q # <<>>,
           Front(p) = Front(q), Last(p) = Last(q)
    PROVE  p = q
  <1>1. /\ Len(p) \in Nat \ {0} /\ Len(Front(p)) = Len(p) - 1
        /\ Last(p) = p[Len(p)] /\ \A i \in 1 .. Len(p) - 1 : Front(p)[i] = p[i]
    BY FrontIs
  <1>2. /\ Len(q) \in Nat \ {0} /\ Len(Front(q)) = Len(q) - 1
        /\ Last(q) = q[Len(q)] /\ \A i \in 1 .. Len(q) - 1 : Front(q)[i] = q[i]
    BY FrontIs
  <1>3. Len(p) = Len(q) BY <1>1, <1>2
  <1>4. \A i \in 1 .. Len(p) : p[i] = q[i]
    <2> TAKE i \in 1 .. Len(p)
    <2>1. i = Len(p) \/ i \in 1 .. Len(p) - 1 BY <1>1
    <2> QED BY <1>1, <1>2, <1>3, <2>1
  <1> QED BY <1>3, <1>4

LEMMA PathNames ==
    ASSUME NEW p \in Paths
    PROVE  p \in Seq(DirNames)
  <1>1. p \in Seq(Range(p)) /\ Range(p) \subseteq DirNames BY PathLen DEF DirNames
  <1> HIDE DEF DirNames
  <1> QED BY <1>1

(* The last step of the way to an inode. *)
LEMMA LastStep ==
    ASSUME NEW f \in Image, Full(f), IsTree(f), NEW a \in Seq(DirNames), a # <<>>, path_lookup(f, a) # 0
    PROVE  LET up == path_lookup(f, Front(a))
           IN  /\ path_lookup(f, a) # EXT2_ROOT_INODE /\ up \in Dirs(f) /\ up # 0
               /\ \E e \in Ents(f, up) : e.name = Last(a) /\ e.ino = path_lookup(f, a)
  <1> DEFINE up == path_lookup(f, Front(a))
  <1>1. path_lookup(f, a) = IF up = 0 THEN 0 ELSE find_in_dir(f, up, Last(a))
    BY LookupLast
  <1>2. Len(Front(a)) \in Nat BY FrontIs
  <1>3. up \in f.inode_bitmap \cup {0} BY <1>2, TreeFind
  <1> HIDE DEF up
  <1>4. up # 0 /\ up \in f.inode_bitmap /\ find_in_dir(f, up, Last(a)) = path_lookup(f, a)
    BY <1>1, <1>3
  <1>5. find_in_dir(f, up, Last(a)) \in (f.inode_bitmap \ {EXT2_ROOT_INODE}) \cup {0} /\ up \in Dirs(f)
    BY <1>4, TreeFind
  <1>6. \E e \in Ents(f, up) : e.name = Last(a) /\ e.ino = find_in_dir(f, up, Last(a))
    BY <1>4, FindIs
  <1> QED BY <1>4, <1>5, <1>6 DEF up

(* No two paths lead to one inode. *)
LEMMA PathUnique ==
    ASSUME NEW f \in Image, Full(f), IsTree(f), NEW p \in Seq(DirNames), NEW q \in Seq(DirNames),
           path_lookup(f, p) # 0, path_lookup(f, p) = path_lookup(f, q)
    PROVE  p = q
  <1> DEFINE Same(a, b) == path_lookup(f, a) # 0 /\ path_lookup(f, a) = path_lookup(f, b)
             S == {n \in Nat : \A a, b \in Seq(DirNames) : Len(a) = n /\ Same(a, b) => a = b}
  <1>1. path_lookup(f, <<>>) = EXT2_ROOT_INODE BY LookupRoot
  <1>2. ASSUME NEW a \in Seq(DirNames), a # <<>>, path_lookup(f, a) # 0
        PROVE  LET up == path_lookup(f, Front(a))
               IN  /\ path_lookup(f, a) # EXT2_ROOT_INODE /\ up \in Dirs(f)
                   /\ \E e \in Ents(f, up) : e.name = Last(a) /\ e.ino = path_lookup(f, a)
    BY <1>2, LastStep
  <1>3. 0 \in S
    <2> SUFFICES ASSUME NEW a \in Seq(DirNames), NEW b \in Seq(DirNames), Len(a) = 0, Same(a, b) PROVE a = b
      OBVIOUS
    <2>1. a = <<>> OBVIOUS
    <2>2. path_lookup(f, b) = EXT2_ROOT_INODE BY <1>1, <2>1
    <2>3. b = <<>> BY <1>2, <2>2, Dimensions
    <2> QED BY <2>1, <2>3
  <1>4. ASSUME NEW n \in 0 .. Len(p) - 1, n \in S PROVE n + 1 \in S
    <2> SUFFICES ASSUME NEW a \in Seq(DirNames), NEW b \in Seq(DirNames), Len(a) = n + 1, Same(a, b) PROVE a = b
      OBVIOUS
    <2>1. a # <<>> OBVIOUS
    <2>2. b # <<>> BY <1>2, <2>1, <1>1
    <2> DEFINE c == path_lookup(f, Front(a))
               d == path_lookup(f, Front(b))
    <2>3. PICK e \in Ents(f, c) : c \in Dirs(f) /\ e.name = Last(a) /\ e.ino = path_lookup(f, a)
      BY <1>2, <2>1
    <2>4. PICK x \in Ents(f, d) : d \in Dirs(f) /\ x.name = Last(b) /\ x.ino = path_lookup(f, b)
      BY <1>2, <2>2
    <2>5. c = d /\ e = x
      <3> HIDE DEF c, d
      <3> QED BY <2>3, <2>4 DEF IsTree
    <2>6. c # 0
      <3> HIDE DEF c
      <3> QED BY <2>3, Fields, Dimensions DEF Dirs
    <2>7. Front(a) \in Seq(DirNames) /\ Front(b) \in Seq(DirNames) /\ Len(Front(a)) = n
      BY <2>1, <2>2, FrontIs
    <2>8. Front(a) = Front(b) BY <1>4, <2>5, <2>6, <2>7
    <2> QED BY <2>1, <2>2, <2>3, <2>4, <2>5, <2>8, FrontLast
  <1>5. Len(p) \in S
    <2>1. Len(p) \in Nat OBVIOUS
    <2> HIDE DEF S
    <2>2. \A n \in 0 .. Len(p) : n \in S BY <1>3, <1>4, <2>1, Induction
    <2> QED BY <2>1, <2>2
  <1> QED BY <1>5

(* What callers see at a path, and at all paths. *)
seen(f, p) ==
    IF inode_is_dir(f.inode[path_lookup(f, p)]) THEN Dir ELSE file_data(f, f.inode[path_lookup(f, p)])
shown(f) == [p \in {q \in Paths : path_lookup(f, q) # 0} |-> seen(f, p)]

SameFile(f, g, i) ==
    /\ g.inode[i].mode = f.inode[i].mode
    /\ f.inode[i].mode # "dir" => g.inode[i].size = f.inode[i].size /\ SameContent(f, f.inode[i], g, g.inode[i])

LEMMA SameSeen ==
    ASSUME NEW f \in Image, NEW g \in Image, NEW i \in Inodes, SameFile(f, g, i), NEW p,
           path_lookup(f, p) = i, path_lookup(g, p) = i
    PROVE  seen(g, p) = seen(f, p)
  <1>1. f.inode[i] \in InodeType /\ g.inode[i] \in InodeType BY Fields
  <1>2. CASE f.inode[i].mode = "dir"
    BY <1>2 DEF seen, inode_is_dir, SameFile
  <1>3. CASE f.inode[i].mode # "dir"
    <2>1. /\ file_data(f, f.inode[i]) = [k \in 1 .. f.inode[i].size |-> unit(f, f.inode[i], k - 1)]
          /\ file_data(g, g.inode[i]) = [k \in 1 .. g.inode[i].size |-> unit(g, g.inode[i], k - 1)]
      BY <1>1, DataIs
    <2>2. g.inode[i].size = f.inode[i].size /\ f.inode[i].size \in Nat
      BY <1>1, <1>3 DEF SameFile, InodeType
    <2>3. \A k \in 1 .. f.inode[i].size : unit(g, g.inode[i], k - 1) = unit(f, f.inode[i], k - 1)
      <3> TAKE k \in 1 .. f.inode[i].size
      <3>1. k - 1 \in Nat BY <2>2
      <3> QED BY <1>3, <3>1, SameUnits DEF SameFile
    <2>4. file_data(g, g.inode[i]) = file_data(f, f.inode[i]) BY <2>1, <2>2, <2>3
    <2> QED BY <1>3, <2>4 DEF seen, inode_is_dir, SameFile
  <1> QED BY <1>2, <1>3

LEMMA SeenFile ==
    ASSUME NEW f \in Image, NEW p, path_lookup(f, p) \in Inodes, f.inode[path_lookup(f, p)].mode # "dir"
    PROVE  /\ seen(f, p) = file_data(f, f.inode[path_lookup(f, p)]) /\ seen(f, p) # Dir
           /\ seen(f, p) = [k \in 1 .. f.inode[path_lookup(f, p)].size |->
                              unit(f, f.inode[path_lookup(f, p)], k - 1)]
           /\ seen(f, p) \in Seq({0, Mark}) /\ Len(seen(f, p)) = f.inode[path_lookup(f, p)].size
  <1> DEFINE n == f.inode[path_lookup(f, p)]
  <1>1. n \in InodeType BY Fields
  <1>2. seen(f, p) = file_data(f, n) BY DEF seen, inode_is_dir
  <1> QED BY <1>1, <1>2, DataIs

(* The paths that lead somewhere lead where they led. *)
LEMMA LookupSame ==
    ASSUME NEW f \in Image, Full(f), IsTree(f), NEW g \in Image, Full(g), IsTree(g),
           g.inode_bitmap = f.inode_bitmap, \A i \in f.inode_bitmap : g.inode[i].mode = f.inode[i].mode,
           \A d \in Dirs(f) : Ents(g, d) = Ents(f, d), NEW path, Len(path) \in Nat
    PROVE  path_lookup(g, path) = path_lookup(f, path)
  <1>1. ASSUME NEW d \in f.inode_bitmap, NEW name
        PROVE  find_in_dir(g, d, name) = find_in_dir(f, d, name)
    <2>1. CASE d \in Dirs(f)
      <3>1. Ents(g, d) = Ents(f, d) /\ g.inode[d].mode = f.inode[d].mode BY <2>1
      <3> QED BY <3>1 DEF find_in_dir, Ents, inode_is_dir
    <2>2. CASE d \notin Dirs(f)
      BY <2>2 DEF Dirs, find_in_dir, inode_is_dir
    <2> QED BY <2>1, <2>2
  <1>2. /\ EXT2_ROOT_INODE \in f.inode_bitmap
        /\ \A d \in f.inode_bitmap : \A name : find_in_dir(f, d, name) \in f.inode_bitmap \cup {0}
    BY TreeFind DEF IsTree, Dirs
  <1>3. Follows(f, g, 0, f.inode_bitmap) /\ Follows(g, f, 0, f.inode_bitmap)
    BY <1>1, <1>2 DEF Follows
  <1>4. path_lookup(f, path) # 0 => path_lookup(g, path) = path_lookup(f, path)
    BY <1>3, Follow
  <1>5. path_lookup(g, path) # 0 => path_lookup(f, path) = path_lookup(g, path)
    BY <1>3, Follow
  <1> QED BY <1>4, <1>5

LEMMA Reached ==
    ASSUME NEW f, Consistent(f), NEW p \in Paths
    PROVE  /\ f \in Image /\ Full(f) /\ IsTree(f) /\ Len(p) \in Nat /\ p \in Seq(DirNames)
           /\ path_lookup(f, p) # 0 => path_lookup(f, p) \in f.inode_bitmap /\ path_lookup(f, p) \in Inodes
  <1>1. f \in Image /\ Full(f) /\ IsTree(f) BY DEF Consistent, Sound
  <1>2. Len(p) \in Nat /\ p \in Seq(DirNames) BY PathLen, PathNames
  <1>3. path_lookup(f, p) \in f.inode_bitmap \cup {0} /\ f.inode_bitmap \subseteq Inodes
    BY <1>1, <1>2, TreeFind, Fields
  <1> QED BY <1>1, <1>2, <1>3

(* A tree in which nothing has changed, and one in which a file has. *)
LEMMA ShownSame ==
    ASSUME NEW f, Consistent(f), NEW g, Consistent(g), g.inode_bitmap = f.inode_bitmap,
           \A d \in Dirs(f) : Ents(g, d) = Ents(f, d),
           \A i \in f.inode_bitmap : SameFile(f, g, i)
    PROVE  shown(g) = shown(f)
  <1>1. ASSUME NEW p \in Paths PROVE path_lookup(g, p) = path_lookup(f, p)
    BY Reached, LookupSame DEF SameFile
  <1>2. ASSUME NEW p \in Paths, path_lookup(f, p) # 0 PROVE seen(g, p) = seen(f, p)
    BY <1>1, <1>2, Reached, SameSeen
  <1> QED BY <1>1, <1>2 DEF shown

FileChanged(f, g, path) ==
    /\ Tree!SameBut(shown(f), shown(g), path)
    /\ path \in DOMAIN shown(f) /\ path \in DOMAIN shown(g)
    /\ shown(f)[path] = seen(f, path) /\ shown(g)[path] = seen(g, path)
    /\ path_lookup(g, path) = path_lookup(f, path)

LEMMA ShownChanged ==
    ASSUME NEW f, Consistent(f), NEW g, Consistent(g), g.inode_bitmap = f.inode_bitmap,
           \A d \in Dirs(f) : Ents(g, d) = Ents(f, d),
           NEW path \in Paths, path_lookup(f, path) # 0,
           g.inode[path_lookup(f, path)].mode = f.inode[path_lookup(f, path)].mode,
           \A i \in f.inode_bitmap \ {path_lookup(f, path)} : SameFile(f, g, i)
    PROVE  FileChanged(f, g, path)
  <1> DEFINE ino == path_lookup(f, path)
  <1>1. ASSUME NEW p \in Paths PROVE path_lookup(g, p) = path_lookup(f, p)
    BY Reached, LookupSame DEF SameFile
  <1>2. ASSUME NEW p \in Paths, path_lookup(f, p) # 0, p # path PROVE seen(g, p) = seen(f, p)
    BY Reached, <1>2, PathUnique, <1>1, SameSeen
  <1>3. /\ DOMAIN shown(f) = {q \in Paths : path_lookup(f, q) # 0}
        /\ DOMAIN shown(g) = {q \in Paths : path_lookup(g, q) # 0}
        /\ \A q \in DOMAIN shown(f) : shown(f)[q] = seen(f, q)
        /\ \A q \in DOMAIN shown(g) : shown(g)[q] = seen(g, q)
    BY DEF shown
  <1>4. DOMAIN shown(g) = DOMAIN shown(f) /\ path \in DOMAIN shown(f) BY <1>1, <1>3
  <1>5. Tree!SameBut(shown(f), shown(g), path) BY <1>1, <1>2, <1>3, <1>4 DEF Tree!SameBut
  <1> QED BY <1>1, <1>3, <1>4, <1>5 DEF FileChanged

(* Files but ino are as they were if only ino was touched. *)
LEMMA OthersSame ==
    ASSUME NEW f \in Image, Owned(f), NEW ino \in f.inode_bitmap, NEW h, Touched(f, h, ino),
           Elsewhere(f, f.inode[ino], h), NEW i \in f.inode_bitmap \ {ino}
    PROVE  SameFile(f, h, i) /\ SameContent(f, f.inode[i], h, h.inode[i]) /\ h.inode[i] = f.inode[i]
  <1>1. h.inode[i] = f.inode[i] /\ \A k \in Slots : at(h, i, k) = at(f, i, k)
    BY DEF Touched, Others
  <1>2. ASSUME NEW k \in Slots, at(f, i, k) # 0 PROVE h.data[at(f, i, k)] = f.data[at(f, i, k)]
    BY <1>2 DEF Owned, Elsewhere, at
  <1>3. SameContent(f, f.inode[i], h, h.inode[i]) BY <1>1, <1>2, ContentSame DEF at
  <1> QED BY <1>1, <1>3 DEF SameFile

AllSpare(f) == \A i \in f.inode_bitmap \ Dirs(f) : Spare(f, f.inode[i])

LEMMA SpareTouched ==
    ASSUME NEW f \in Image, Owned(f), AllSpare(f), NEW ino \in f.inode_bitmap, NEW h, Touched(f, h, ino),
           Elsewhere(f, f.inode[ino], h), Spare(h, h.inode[ino])
    PROVE  AllSpare(h)
  <1> SUFFICES ASSUME NEW i \in h.inode_bitmap \ Dirs(h), i # ino PROVE Spare(h, h.inode[i])
    BY DEF AllSpare
  <1>1. i \in f.inode_bitmap \ {ino} BY DEF Touched
  <1>2. SameContent(f, f.inode[i], h, h.inode[i]) /\ h.inode[i] = f.inode[i]
    BY <1>1, OthersSame
  <1>3. i \notin Dirs(f) BY <1>1, <1>2 DEF Dirs, Touched
  <1> QED BY <1>1, <1>2, <1>3, SameSpare DEF AllSpare

(* What callers see of what the call c made of the image. *)
Serves(f, c, g) == AllSpare(g) /\ Tree!Step(shown(f), shown(g), c)

(* A call that the tree does not allow. *)
LEMMA ServesNot ==
    ASSUME NEW f, AllSpare(f), NEW c, c.result = USER_ERR_INVAL, ~Tree!Legal(shown(f), c)
    PROVE  Serves(f, c, f)
  BY DEF Serves, Tree!Step, Tree!Refused

LEMMA ShownIs ==
    ASSUME NEW f
    PROVE  /\ \A p : p \in DOMAIN shown(f) <=> p \in Paths /\ path_lookup(f, p) # 0
           /\ \A p \in Paths : path_lookup(f, p) # 0 => shown(f)[p] = seen(f, p)
  BY DEF shown

(* Which calls the tree allows. *)
LEMMA IsFileIs ==
    ASSUME NEW f, Consistent(f), NEW p \in Paths
    PROVE  /\ Tree!IsFile(shown(f), p) <=> path_lookup(f, p) # 0 /\ inode_is_file(f.inode[path_lookup(f, p)])
           /\ Tree!IsFile(shown(f), p) => Len(shown(f)[p]) = f.inode[path_lookup(f, p)].size
  <1> DEFINE x == path_lookup(f, p)
             n == f.inode[x]
  <1>1. CASE x = 0
    BY <1>1, ShownIs DEF Tree!IsFile
  <1>2. CASE x # 0
    <2>1. f \in Image /\ x \in Inodes /\ x \in f.inode_bitmap /\ IsTree(f)
      BY <1>2, Reached
    <2>2. p \in DOMAIN shown(f) /\ shown(f)[p] = seen(f, p) BY <1>2, ShownIs
    <2>3. CASE n.mode = "dir"
      BY <2>2, <2>3 DEF Tree!IsFile, seen, inode_is_dir, inode_is_file
    <2>4. CASE n.mode # "dir"
      <3>1. n.mode = "file" BY <2>1, <2>4, Fields DEF IsTree, InodeType
      <3>2. seen(f, p) # Dir /\ Len(seen(f, p)) = n.size BY <2>1, <2>4, SeenFile
      <3> QED BY <1>2, <2>2, <3>1, <3>2 DEF Tree!IsFile, inode_is_file
    <2> QED BY <2>3, <2>4
  <1> QED BY <1>1, <1>2

LEMMA IsDirIs ==
    ASSUME NEW f, Consistent(f), NEW p \in Paths \cup {<<>>}
    PROVE  Tree!IsDir(shown(f), p) <=> path_lookup(f, p) # 0 /\ inode_is_dir(f.inode[path_lookup(f, p)])
  <1>1. CASE p = <<>>
    <2>1. path_lookup(f, p) = EXT2_ROOT_INODE /\ EXT2_ROOT_INODE # 0
      BY <1>1, LookupRoot DEF EXT2_ROOT_INODE
    <2>2. EXT2_ROOT_INODE \in Dirs(f) BY DEF Consistent, IsTree
    <2> QED BY <1>1, <2>1, <2>2 DEF Tree!IsDir, Dirs, inode_is_dir
  <1>2. CASE p # <<>>
    <2>1. p \in Paths BY <1>2
    <2>2. CASE path_lookup(f, p) = 0
      BY <1>2, <2>2, ShownIs DEF Tree!IsDir
    <2>3. CASE path_lookup(f, p) # 0
      <3>1. p \in DOMAIN shown(f) /\ shown(f)[p] = seen(f, p) BY <2>1, <2>3, ShownIs
      <3>2. f.inode[path_lookup(f, p)].mode # "dir" => seen(f, p) # Dir
        BY <2>1, <2>3, Reached, SeenFile
      <3>3. f.inode[path_lookup(f, p)].mode = "dir" => seen(f, p) = Dir
        BY DEF seen, inode_is_dir
      <3> QED BY <1>2, <2>3, <3>1, <3>2, <3>3 DEF Tree!IsDir, inode_is_dir
    <2> QED BY <2>2, <2>3
  <1> QED BY <1>1, <1>2

LEMMA CanMakeIs ==
    ASSUME NEW f, Consistent(f), NEW p \in Paths
    PROVE  Tree!CanMake(shown(f), p) <=> Makeable(f, p)
  <1>1. Tree!Front(p) = Front(p) BY DEF Tree!Front, Front
  <1>2. p \in DOMAIN shown(f) <=> path_lookup(f, p) # 0 BY ShownIs
  <1>3. CASE p = <<>>
    BY <1>3 DEF Tree!CanMake, Makeable, parent_lookup
  <1>4. CASE p # <<>>
    <2>1. Front(p) \in Paths \cup {<<>>} BY <1>4, PathsAssumption
    <2>2. Tree!IsDir(shown(f), Front(p)) <=>
            path_lookup(f, Front(p)) # 0 /\ inode_is_dir(f.inode[path_lookup(f, Front(p))])
      BY <2>1, IsDirIs
    <2>3. parent_lookup(f, p) # 0 <=>
            path_lookup(f, Front(p)) # 0 /\ inode_is_dir(f.inode[path_lookup(f, Front(p))])
      BY <1>4 DEF parent_lookup
    <2> QED BY <1>1, <1>2, <1>4, <2>2, <2>3 DEF Tree!CanMake, Makeable
  <1> QED BY <1>3, <1>4

(* What lies in a directory is one name further. *)
LEMMA ChildFront ==
    ASSUME NEW S, NEW p \in Seq(S), NEW q \in Seq(S)
    PROVE  Len(q) = Len(p) + 1 /\ IsPrefix(p, q) <=> q # <<>> /\ Front(q) = p
  <1>1. Len(p) \in Nat /\ Len(q) \in Nat OBVIOUS
  <1>2. SubSeq(p, 1, Len(p)) = p BY <1>1
  <1>3. ASSUME Len(q) = Len(p) + 1, IsPrefix(p, q) PROVE q # <<>> /\ Front(q) = p
    <2>1. Len(q) - 1 = Len(p) /\ q # <<>> BY <1>1, <1>3
    <2>2. Front(q) = SubSeq(q, 1, Len(p)) BY <2>1 DEF Front
    <2>3. SubSeq(p, 1, Len(p)) = SubSeq(q, 1, Len(p)) BY <1>3 DEF IsPrefix
    <2> QED BY <1>2, <2>1, <2>2, <2>3
  <1>4. ASSUME q # <<>>, Front(q) = p PROVE Len(q) = Len(p) + 1 /\ IsPrefix(p, q)
    <2>1. Len(p) = Len(q) - 1 BY <1>4, FrontIs
    <2>2. Front(q) = SubSeq(q, 1, Len(p)) BY <2>1 DEF Front
    <2>3. Len(q) = Len(p) + 1 /\ Len(p) <= Len(q) BY <1>1, <2>1
    <2> QED BY <1>2, <1>4, <2>2, <2>3 DEF IsPrefix
  <1> QED BY <1>3, <1>4

LEMMA ParentIs ==
    ASSUME NEW f, Consistent(f), NEW p \in Paths, p # <<>>, path_lookup(f, p) # 0
    PROVE  parent_lookup(f, p) # 0
  <1>1. path_lookup(f, Front(p)) \in Dirs(f) /\ path_lookup(f, Front(p)) # 0
    BY Reached, LastStep
  <1> QED BY <1>1 DEF parent_lookup, Dirs, inode_is_dir

LEMMA CanRemoveIs ==
    ASSUME NEW f, Consistent(f), NEW p \in Paths
    PROVE  Tree!IsFile(shown(f), p) <=> Removable(f, p, "file")
  <1>1. Tree!IsFile(shown(f), p) <=> path_lookup(f, p) # 0 /\ inode_is_file(f.inode[path_lookup(f, p)])
    BY IsFileIs
  <1>2. ASSUME path_lookup(f, p) # 0, inode_is_file(f.inode[path_lookup(f, p)]) PROVE parent_lookup(f, p) # 0
    <2>1. p # <<>>
      <3> SUFFICES ASSUME p = <<>> PROVE FALSE
        OBVIOUS
      <3>1. path_lookup(f, p) \in Dirs(f) BY LookupRoot DEF Consistent, IsTree
      <3> QED BY <1>2, <3>1 DEF Dirs, inode_is_file
    <2> QED BY <1>2, <2>1, ParentIs
  <1> QED BY <1>1, <1>2 DEF Removable, inode_is_file

LEMMA CanRmdirIs ==
    ASSUME NEW f, Consistent(f), NEW p \in Paths
    PROVE  Tree!CanRmdir(shown(f), p) <=> Removable(f, p, "dir")
  <1> DEFINE x == path_lookup(f, p)
  <1>1. /\ p \in DOMAIN shown(f) <=> x # 0
        /\ Tree!IsDir(shown(f), p) <=> x # 0 /\ inode_is_dir(f.inode[x])
    BY ShownIs, IsDirIs
  <1>2. f \in Image /\ Full(f) /\ IsTree(f) /\ p \in Seq(DirNames) BY Reached
  <1>3. ASSUME NEW q \in Paths
        PROVE  q \in Tree!Children(shown(f), p) <=> path_lookup(f, q) # 0 /\ q # <<>> /\ Front(q) = p
    <2>1. q \in Seq(DirNames) BY Reached
    <2>2. Len(q) = Len(p) + 1 /\ IsPrefix(p, q) <=> q # <<>> /\ Front(q) = p
      BY <1>2, <2>1, ChildFront
    <2> QED BY <2>2, ShownIs DEF Tree!Children, Tree!IsPrefix, IsPrefix
  <1>4. ASSUME Removable(f, p, "dir") PROVE Tree!CanRmdir(shown(f), p)
    <2>1. parent_lookup(f, p) # 0 /\ x # 0 /\ f.inode[x].mode = "dir" /\ Ents(f, x) = {}
      BY <1>4 DEF Removable
    <2>2. p # <<>> BY <2>1 DEF parent_lookup
    <2>3. ASSUME NEW q \in Tree!Children(shown(f), p) PROVE FALSE
      <3>1. q \in Paths BY ShownIs DEF Tree!Children
      <3>2. path_lookup(f, q) # 0 /\ q # <<>> /\ Front(q) = p /\ q \in Seq(DirNames)
        BY <1>3, <3>1, Reached
      <3> QED BY <1>2, <2>1, <3>2, LastStep
    <2> QED BY <1>1, <2>1, <2>2, <2>3 DEF Tree!CanRmdir, inode_is_dir
  <1>5. ASSUME Tree!CanRmdir(shown(f), p) PROVE Removable(f, p, "dir")
    <2>1. p # <<>> /\ x # 0 /\ f.inode[x].mode = "dir" /\ Tree!Children(shown(f), p) = {}
      BY <1>1, <1>5 DEF Tree!CanRmdir, inode_is_dir
    <2>2. x \in Dirs(f) BY <2>1, Reached DEF Dirs
    <2>3. ASSUME NEW e \in Ents(f, x) PROVE FALSE
      <3>1. e.ino \in f.inode_bitmap \ {EXT2_ROOT_INODE} BY <1>2, <2>2 DEF IsTree
      <3>2. PICK q \in Paths : path_lookup(f, q) = e.ino
        BY <1>2, <3>1 DEF IsTree
      <3>3. e.ino # 0 /\ q \in Seq(DirNames) /\ q # <<>>
        BY <1>2, <3>1, <3>2, Fields, Dimensions, LookupRoot, Reached
      <3>4. PICK y \in Ents(f, path_lookup(f, Front(q))) :
               path_lookup(f, Front(q)) \in Dirs(f) /\ y.ino = e.ino
        BY <1>2, <3>2, <3>3, LastStep
      <3>5. path_lookup(f, Front(q)) = x BY <1>2, <2>2, <3>4 DEF IsTree
      <3>6. Front(q) \in Seq(DirNames) BY <3>3, FrontIs
      <3>7. Front(q) = p BY <1>2, <2>1, <3>5, <3>6, PathUnique
      <3> QED BY <1>3, <2>1, <3>2, <3>3, <3>7
    <2> QED BY <2>1, <2>3, ParentIs DEF Removable
  <1> QED BY <1>4, <1>5

LEMMA CanWriteIs ==
    ASSUME NEW f, Consistent(f), NEW c, c.path \in Paths, c.at \in Nat
    PROVE  LET x == path_lookup(f, c.path)
           IN  Tree!CanWrite(shown(f), c) <=>
                 x # 0 /\ inode_is_file(f.inode[x]) /\ ~(c.at > f.inode[x].size)
  <1> DEFINE x == path_lookup(f, c.path)
  <1>1. /\ Tree!IsFile(shown(f), c.path) <=> x # 0 /\ inode_is_file(f.inode[x])
        /\ Tree!IsFile(shown(f), c.path) => Len(shown(f)[c.path]) = f.inode[x].size
    BY IsFileIs
  <1>2. x # 0 => f.inode[x].size \in Nat BY Reached, Fields DEF InodeType
  <1> HIDE DEF x
  <1>3. x # 0 => (c.at <= f.inode[x].size <=> ~(c.at > f.inode[x].size)) BY <1>2
  <1>4. Tree!CanWrite(shown(f), c) <=> x # 0 /\ inode_is_file(f.inode[x]) /\ ~(c.at > f.inode[x].size)
    BY <1>1, <1>3 DEF Tree!CanWrite
  <1> QED BY <1>4 DEF x

(* The file at a path, before and after a call on it. *)
LEMMA FileSeen ==
    ASSUME NEW f, Consistent(f), NEW g, Consistent(g), NEW path \in Paths, path_lookup(f, path) # 0,
           f.inode[path_lookup(f, path)].mode # "dir", FileChanged(f, g, path),
           g.inode[path_lookup(f, path)].mode # "dir"
    PROVE  LET t == shown(f)
               u == shown(g)
               m == f.inode[path_lookup(f, path)]
               n == g.inode[path_lookup(f, path)]
           IN  /\ Tree!IsFile(t, path) /\ Tree!IsFile(u, path)
               /\ t[path] \in Seq({0, Mark}) /\ Len(t[path]) = m.size
               /\ u[path] \in Seq({0, Mark}) /\ Len(u[path]) = n.size
               /\ m.size \in Nat /\ n.size \in Nat
               /\ \A k \in 1 .. m.size : t[path][k] = unit(f, m, k - 1)
               /\ \A k \in 1 .. n.size : u[path][k] = unit(g, n, k - 1)
  <1> DEFINE ino == path_lookup(f, path)
             m == f.inode[ino]
             n == g.inode[ino]
  <1>1. f \in Image /\ g \in Image /\ ino \in Inodes /\ path_lookup(g, path) = ino
    BY Reached DEF FileChanged
  <1>2. m \in InodeType /\ n \in InodeType /\ m.size \in Nat /\ n.size \in Nat
    BY <1>1, Fields DEF InodeType
  <1>3. /\ seen(f, path) # Dir /\ seen(f, path) = [k \in 1 .. m.size |-> unit(f, m, k - 1)]
        /\ seen(f, path) \in Seq({0, Mark}) /\ Len(seen(f, path)) = m.size
    BY <1>1, SeenFile
  <1>4. /\ seen(g, path) # Dir /\ seen(g, path) = [k \in 1 .. n.size |-> unit(g, n, k - 1)]
        /\ seen(g, path) \in Seq({0, Mark}) /\ Len(seen(g, path)) = n.size
    BY <1>1, SeenFile
  <1>5. /\ path \in DOMAIN shown(f) /\ path \in DOMAIN shown(g)
        /\ shown(f)[path] = seen(f, path) /\ shown(g)[path] = seen(g, path)
    BY DEF FileChanged
  <1>6. Tree!IsFile(shown(f), path) /\ Tree!IsFile(shown(g), path)
    BY <1>3, <1>4, <1>5 DEF Tree!IsFile
  <1>7. /\ \A k \in 1 .. m.size : seen(f, path)[k] = unit(f, m, k - 1)
        /\ \A k \in 1 .. n.size : seen(g, path)[k] = unit(g, n, k - 1)
    BY <1>3, <1>4
  <1> HIDE DEF m, n, ino
  <1>8. /\ shown(f)[path] \in Seq({0, Mark}) /\ Len(shown(f)[path]) = m.size
        /\ shown(g)[path] \in Seq({0, Mark}) /\ Len(shown(g)[path]) = n.size
        /\ \A k \in 1 .. m.size : shown(f)[path][k] = unit(f, m, k - 1)
        /\ \A k \in 1 .. n.size : shown(g)[path][k] = unit(g, n, k - 1)
    BY <1>3, <1>4, <1>5, <1>7
  <1> QED BY <1>2, <1>6, <1>8 DEF m, n, ino

(* resize_inode_data on a file of a consistent image. *)
LEMMA ResizedFile ==
    ASSUME NEW f, Consistent(f), AllSpare(f), NEW ino \in f.inode_bitmap \ Dirs(f), NEW new \in Nat
    PROVE  LET r == resize_inode_data(f, ino, new)
               g == r.fs
           IN  /\ Result(r) /\ Touched(f, g, ino) /\ Consistent(g) /\ AllSpare(g)
               /\ \A d \in Dirs(f) : Ents(g, d) = Ents(f, d)
               /\ \A i \in f.inode_bitmap \ {ino} : SameFile(f, g, i)
               /\ r.ok => Sized(f, f.inode[ino], new, g, g.inode[ino])
               /\ ~r.ok => SameFile(f, g, ino)
  <1> DEFINE r == resize_inode_data(f, ino, new)
             g == r.fs
             node == f.inode[ino]
  <1>1. f \in Image /\ Owned(f) /\ BlocksCounted(f) /\ Full(f) /\ Spare(f, node)
    BY DEF Consistent, Sound, AllSpare
  <1>2. Result(r) /\ Touched(f, g, ino) BY <1>1, Resize DEF Resized
  <1>3. /\ r.ok => Sized(f, node, new, g, g.inode[ino])
        /\ ~r.ok => g.inode[ino] = node /\ SameContent(f, node, g, node) /\ Elsewhere(f, node, g)
    BY <1>1, ResizeData
  <1> HIDE DEF r
  <1>4. Elsewhere(f, node, g) /\ Spare(g, g.inode[ino])
    <2>1. CASE r.ok
      BY <1>3, <2>1 DEF Sized
    <2>2. CASE ~r.ok
      BY <1>3, <2>2, <1>1, SameSpare
    <2> QED BY <2>1, <2>2
  <1>5. AllSpare(g) BY <1>1, <1>2, <1>4, SpareTouched
  <1>6. Consistent(g) BY <1>2, FileTouched
  <1>7. \A d \in Dirs(f) : Ents(g, d) = Ents(f, d) BY <1>1, <1>2, OtherDirs
  <1>8. \A i \in f.inode_bitmap \ {ino} : SameFile(f, g, i)
    BY <1>1, <1>2, <1>4, OthersSame
  <1>9. ~r.ok => SameFile(f, g, ino) BY <1>3 DEF SameFile
  <1> QED BY <1>2, <1>3, <1>5, <1>6, <1>7, <1>8, <1>9 DEF r

LEMMA ModeKept ==
    ASSUME NEW f, NEW ino, NEW h, Touched(f, h, ino)
    PROVE  h.inode[ino].mode = f.inode[ino].mode /\ h.inode_bitmap = f.inode_bitmap
  BY DEF Touched

LEMMA NotDir ==
    ASSUME NEW f, NEW ino \in f.inode_bitmap \ Dirs(f)
    PROVE  f.inode[ino].mode # "dir"
  BY DEF Dirs

(* ext2_truncate_file. *)
LEMMA TruncateServed ==
    ASSUME NEW f, Consistent(f), AllSpare(f), NEW path \in Paths, NEW size \in Nat, NEW c,
           c.op = "truncate", c.path = path, c.at = size, c.result = ext2_truncate_file(f, path, size).result
    PROVE  Serves(f, c, ext2_truncate_file(f, path, size).fs)
  <1> DEFINE ino == path_lookup(f, path)
             r == ext2_truncate_file(f, path, size)
             R == resize_inode_data(f, ino, size)
             g == R.fs
             m == f.inode[ino]
             n == g.inode[ino]
             t == shown(f)
             u == shown(g)
  <1>0. Tree!Legal(t, c) <=> ino # 0 /\ inode_is_file(m)
    <2>1. Tree!IsFile(t, path) <=> ino # 0 /\ inode_is_file(m) BY IsFileIs
    <2> HIDE DEF t, ino
    <2> QED BY <2>1 DEF Tree!Legal
  <1>1. CASE ino = 0 \/ ~inode_is_file(m)
    <2>1. r = Failed(f, USER_ERR_INVAL) BY <1>1 DEF ext2_truncate_file
    <2>2. r.fs = f /\ c.result = USER_ERR_INVAL BY <2>1, Returned
    <2> QED BY <1>0, <1>1, <2>2, ServesNot
  <1>2. CASE ~(ino = 0 \/ ~inode_is_file(m))
    <2>1. r = done_or_fault(R) BY <1>2 DEF ext2_truncate_file
    <2>2. ino \in f.inode_bitmap \ Dirs(f) BY <1>2, FileAt
    <2> HIDE DEF r, R
    <2>3. r.fs = g /\ c.result = IF R.ok THEN 0 ELSE USER_ERR_FAULT
      BY <2>1, Returned DEF done_or_fault, r
    <2>4. /\ Result(R) /\ Touched(f, g, ino) /\ Consistent(g) /\ AllSpare(g)
          /\ \A d \in Dirs(f) : Ents(g, d) = Ents(f, d)
          /\ \A i \in f.inode_bitmap \ {ino} : SameFile(f, g, i)
          /\ R.ok => Sized(f, m, size, g, n)
          /\ ~R.ok => SameFile(f, g, ino)
      BY <2>2, ResizedFile DEF R
    <2>5. n.mode = m.mode /\ g.inode_bitmap = f.inode_bitmap BY <2>4, ModeKept
    <2>6. CASE ~R.ok
      <3>1. u = t BY <2>4, <2>5, <2>6, ShownSame
      <3>2. Tree!RunsOut(t, u, c)
        <4> HIDE DEF t, u, m, n, ino
        <4> QED BY <1>0, <1>2, <2>3, <2>6, <3>1 DEF Tree!RunsOut
      <3> QED BY <2>3, <2>4, <3>2 DEF Serves, Tree!Step, r
    <2>7. CASE R.ok
      <3>1. FileChanged(f, g, path) BY <1>2, <2>4, <2>5, ShownChanged
      <3>2. m.mode # "dir" /\ n.mode # "dir" BY <2>2, <2>5, NotDir
      <3>3. /\ Tree!IsFile(t, path) /\ Tree!IsFile(u, path)
            /\ t[path] \in Seq({0, Mark}) /\ Len(t[path]) = m.size
            /\ u[path] \in Seq({0, Mark}) /\ Len(u[path]) = n.size
            /\ m.size \in Nat /\ n.size \in Nat
            /\ \A k \in 1 .. m.size : t[path][k] = unit(f, m, k - 1)
            /\ \A k \in 1 .. n.size : u[path][k] = unit(g, n, k - 1)
        BY <1>2, <2>4, <3>1, <3>2, FileSeen
      <3>4. n.size = size /\ \A v \in 0 .. size - 1 : unit(g, n, v) = IF v < m.size THEN unit(f, m, v) ELSE 0
        BY <2>4, <2>7 DEF Sized
      <3>0. Tree!SameBut(t, u, path) BY <3>1 DEF FileChanged
      <3> HIDE DEF t, u, m, n, g, ino
      <3>5. \A k \in 1 .. n.size : u[path][k] = IF k <= Len(t[path]) THEN t[path][k] ELSE 0
        <4> TAKE k \in 1 .. n.size
        <4>1. /\ k - 1 \in 0 .. size - 1 /\ (k - 1 < m.size <=> k <= m.size)
              /\ (k <= m.size => k \in 1 .. m.size)
          BY <3>3, <3>4
        <4> QED BY <3>3, <3>4, <4>1
      <3>6. u[path] = [k \in 1 .. size |-> IF k <= Len(t[path]) THEN t[path][k] ELSE 0]
        <4> DEFINE a == u[path]
        <4>1. a \in Seq({0, Mark}) /\ Len(a) = size BY <3>3, <3>4
        <4> HIDE DEF a
        <4>2. \A k \in 1 .. size : a[k] = IF k <= Len(t[path]) THEN t[path][k] ELSE 0
          BY <3>4, <3>5 DEF a
        <4>3. a = [k \in 1 .. size |-> a[k]] BY <4>1
        <4>4. a = [k \in 1 .. size |-> IF k <= Len(t[path]) THEN t[path][k] ELSE 0]
          BY <4>2, <4>3
        <4> QED BY <4>4 DEF a
      <3>7. Tree!Truncate(t, u, c) BY <3>3, <3>6 DEF Tree!Truncate, Tree!Extended
      <3>8. Tree!Step(t, u, c) BY <2>3, <2>7, <3>0, <3>7 DEF Tree!Step, Tree!Succeeds
      <3> QED BY <2>3, <2>4, <3>8 DEF Serves, r, t, u
    <2> QED BY <2>4, <2>6, <2>7
  <1> QED BY <1>1, <1>2

(* A write below the end of a file leaves what is behind the end. *)
LEMMA MarkedSpare ==
    ASSUME NEW f \in Image, NEW node \in InodeType, Spare(f, node), NEW from \in Nat, NEW to \in Nat,
           to <= node.size, NEW k, NEW p, Marked(f, node, from, to, k, p)
    PROVE  Spare(p.fs, p.node) /\ Spare(p.fs, node)
  <1>1. Grew(f, node, p.fs, p.node) /\ p.fs \in Image /\ p.node \in InodeType /\ p.node.size = node.size
    BY DEF Marked, Grew
  <1>2. node.size \in Nat BY DEF InodeType
  <1>3. ASSUME NEW i \in 0 .. MaxBlocks - 1, i >= blocks_of(node.size)
        PROVE  content(f, node, i) = ZeroData /\ content(p.fs, p.node, i) = ZeroData
    <2>1. content(f, node, i) = ZeroData BY <1>3 DEF Spare
    <2>2. ASSUME NEW w \in 0 .. BlockUnits - 1 PROVE content(p.fs, p.node, i)[w] = 0
      <3> DEFINE u == i * BlockUnits + w
      <3>0. i \in Nat /\ w \in Nat /\ i * BlockUnits \in Nat /\ BlockUnits \in Nat \ {0}
        BY Dimensions, Multiples
      <3>1. u \in Nat BY <3>0
      <3>2. u \div BlockUnits = i BY <3>0, DivUnique
      <3>3. ~(u < node.size)
        <4>1. blocks_of(node.size) \in Nat BY <1>2, BlocksOf
        <4>2. ~(i < blocks_of(node.size)) BY <1>3, <3>0, <4>1
        <4> HIDE DEF u
        <4> QED BY <1>2, <3>1, <3>2, <4>2, UnitOrder
      <3>4. ~inside(i, w, from, to)
        <4>1. inside(i, w, from, to) => u < to
          <5>1. inside(i, w, from, to) => u \in from .. to - 1 BY DEF inside
          <5> HIDE DEF u
          <5> QED BY <3>1, <5>1
        <4> HIDE DEF u
        <4> QED BY <1>2, <3>1, <3>3, <4>1
      <3>5. content(p.fs, p.node, i)[w] = content(f, node, i)[w] BY <3>4 DEF Marked
      <3> QED BY <2>1, <3>5 DEF ZeroData
    <2>3. content(p.fs, p.node, i) \in Data BY <1>1, ContentType
    <2>4. content(p.fs, p.node, i) = ZeroData BY <2>2, <2>3 DEF Data, ZeroData
    <2> QED BY <2>1, <2>4
  <1>4. Spare(p.fs, p.node) BY <1>1, <1>3 DEF Spare
  <1>5. Spare(p.fs, node) BY <1>1, <1>3, StaleContent DEF Spare
  <1> QED BY <1>4, <1>5

(* The loop of a write on a file that is long enough. *)
Filled(g, ino, from, to, ok, h) ==
    /\ Touched(g, h, ino) /\ Consistent(h) /\ AllSpare(h)
    /\ \A d \in Dirs(g) : Ents(h, d) = Ents(g, d)
    /\ \A i \in g.inode_bitmap \ {ino} : SameFile(g, h, i)
    /\ h.inode[ino].size = g.inode[ino].size
    /\ \A u \in Nat :
          /\ \/ unit(h, h.inode[ino], u) = unit(g, g.inode[ino], u)
             \/ u \in from .. to - 1 /\ unit(h, h.inode[ino], u) = Mark
          /\ ok => unit(h, h.inode[ino], u) = IF u \in from .. to - 1 THEN Mark ELSE unit(g, g.inode[ino], u)

LEMMA LoopFilled ==
    ASSUME NEW g, Consistent(g), AllSpare(g), NEW ino \in g.inode_bitmap \ Dirs(g),
           NEW from \in Nat, NEW to \in Nat, from <= to, to <= g.inode[ino].size
    PROVE  LET w == write_blocks(g, g.inode[ino], from, to)
           IN  /\ Result(w)
               /\ w.ok => Filled(g, ino, from, to, TRUE, write_inode(w.fs, ino, w.node))
               /\ ~w.ok => Filled(g, ino, from, to, FALSE, w.fs)
  <1> DEFINE m == g.inode[ino]
             w == write_blocks(g, m, from, to)
  <1>1. g \in Image /\ Owned(g) /\ BlocksCounted(g) /\ Full(g) /\ Spare(g, m)
    BY DEF Consistent, Sound, AllSpare
  <1>2. ino \in Inodes /\ m \in InodeType /\ Within(g, m) /\ Distinct(g, m) /\ m.size \in Nat
    BY <1>1, LiveNode, OwnedDistinct
  <1>3. Marked(g, m, from, to, blocks_of(to), w) BY <1>1, <1>2, BlocksMarked
  <1> HIDE DEF w
  <1>4. Result(w) /\ Grew(g, m, w.fs, w.node) /\ Elsewhere(g, m, w.fs) /\ w.fs \in Image
    BY <1>3 DEF Marked, Grew
  <1>5. Spare(w.fs, w.node) /\ Spare(w.fs, m) BY <1>1, <1>2, <1>3, MarkedSpare
  <1>6. ASSUME NEW u \in Nat
        PROVE  /\ unit(w.fs, w.node, u) = unit(g, m, u) \/ (u \in from .. to - 1 /\ unit(w.fs, w.node, u) = Mark)
               /\ w.ok /\ u \in from .. to - 1 => unit(w.fs, w.node, u) = Mark
               /\ unit(w.fs, m, u) = unit(g, m, u) \/ (u \in from .. to - 1 /\ unit(w.fs, m, u) = Mark)
    BY <1>1, <1>2, <1>3, UnitsMarked
  <1>7. ASSUME NEW h, Touched(g, h, ino), h.data = w.fs.data, Spare(h, h.inode[ino])
        PROVE  /\ Consistent(h) /\ AllSpare(h)
               /\ \A d \in Dirs(g) : Ents(h, d) = Ents(g, d)
               /\ \A i \in g.inode_bitmap \ {ino} : SameFile(g, h, i)
    <2>1. Elsewhere(g, m, h) BY <1>4, <1>7 DEF Elsewhere
    <2>2. Consistent(h) BY <1>7, FileTouched
    <2>3. AllSpare(h) BY <1>1, <1>7, <2>1, SpareTouched
    <2>4. \A d \in Dirs(g) : Ents(h, d) = Ents(g, d) BY <1>1, <1>7, OtherDirs
    <2>5. \A i \in g.inode_bitmap \ {ino} : SameFile(g, h, i)
      BY <1>1, <1>7, <2>1, OthersSame
    <2> QED BY <2>2, <2>3, <2>4, <2>5
  <1>8. ASSUME ~w.ok PROVE Filled(g, ino, from, to, FALSE, w.fs)
    BY <1>4, <1>1, NotWritten, <1>5, <1>7, <1>6 DEF Grew, SameInodes, Filled
  <1>9. ASSUME w.ok PROVE Filled(g, ino, from, to, TRUE, write_inode(w.fs, ino, w.node))
    <2> DEFINE h == write_inode(w.fs, ino, w.node)
    <2>1. w.node \in InodeType /\ w.node.mode = m.mode /\ w.node.links = m.links /\ w.node.size = m.size
      BY <1>4 DEF Grew
    <2>2. Touched(g, h, ino) BY <1>1, <1>2, <1>4, <2>1, GrownTouched
    <2>3. h.inode[ino] = w.node /\ h.indirect = w.fs.indirect
      BY <1>2, <1>4, <2>1, InodeWritten, ZenonT(60)
    <2>4. h.data = w.fs.data BY <1>4, InodeData, ZenonT(60)
    <2> HIDE DEF h
    <2>5. \A i \in 0 .. MaxBlocks - 1 : content(h, w.node, i) = content(w.fs, w.node, i)
      BY <2>3, SameSlots, <2>4 DEF content
    <2>6. SameContent(w.fs, w.node, h, w.node) BY <2>5 DEF SameContent
    <2>7. Spare(h, h.inode[ino]) BY <1>5, <2>3, <2>6, SameSpare
    <2>8. \A u \in Nat : unit(h, h.inode[ino], u) = unit(w.fs, w.node, u)
      BY <2>3, <2>6, SameUnits
    <2>9. /\ Consistent(h) /\ AllSpare(h)
          /\ \A d \in Dirs(g) : Ents(h, d) = Ents(g, d)
          /\ \A i \in g.inode_bitmap \ {ino} : SameFile(g, h, i)
      BY <1>7, <2>2, <2>4, <2>7
    <2>10. ASSUME NEW u \in Nat
           PROVE  /\ \/ unit(h, h.inode[ino], u) = unit(g, m, u)
                     \/ u \in from .. to - 1 /\ unit(h, h.inode[ino], u) = Mark
                  /\ unit(h, h.inode[ino], u) = IF u \in from .. to - 1 THEN Mark ELSE unit(g, m, u)
      BY <1>6, <1>9, <2>8
    <2>11. Filled(g, ino, from, to, TRUE, h) BY <2>1, <2>2, <2>3, <2>9, <2>10 DEF Filled
    <2> QED BY <2>11 DEF h
  <1>10. /\ Result(w)
         /\ w.ok => Filled(g, ino, from, to, TRUE, write_inode(w.fs, ino, w.node))
         /\ ~w.ok => Filled(g, ino, from, to, FALSE, w.fs)
    BY <1>4, <1>8, <1>9
  <1> QED BY <1>10 DEF w

LEMMA SameFileMore ==
    ASSUME NEW f, NEW g, NEW h, NEW i, SameFile(f, g, i), SameFile(g, h, i)
    PROVE  SameFile(f, h, i)
  BY DEF SameFile, SameContent

(* A file that is long enough for a write up to unit end. *)
Ready(f, ino, end, g) ==
    /\ Touched(f, g, ino) /\ Consistent(g) /\ AllSpare(g)
    /\ \A d \in Dirs(f) : Ents(g, d) = Ents(f, d)
    /\ \A i \in f.inode_bitmap \ {ino} : SameFile(f, g, i)
    /\ g.inode[ino].size = IF end > f.inode[ino].size THEN end ELSE f.inode[ino].size
    /\ \A u \in 0 .. g.inode[ino].size - 1 :
          unit(g, g.inode[ino], u) = IF u < f.inode[ino].size THEN unit(f, f.inode[ino], u) ELSE 0

LEMMA MadeReady ==
    ASSUME NEW f, Consistent(f), AllSpare(f), NEW ino \in f.inode_bitmap \ Dirs(f), NEW end \in Nat
    PROVE  LET r == IF end > f.inode[ino].size THEN resize_inode_data(f, ino, end) ELSE Ok(f, f.inode[ino])
           IN  /\ Result(r)
               /\ r.ok => Ready(f, ino, end, r.fs)
               /\ ~r.ok => AllSpare(r.fs) /\ shown(r.fs) = shown(f)
  <1> DEFINE node == f.inode[ino]
             r == IF end > node.size THEN resize_inode_data(f, ino, end) ELSE Ok(f, node)
  <1>1. CASE end > node.size
    <2> DEFINE R == resize_inode_data(f, ino, end)
    <2>1. r = R BY <1>1
    <2>2. /\ Result(R) /\ Touched(f, R.fs, ino) /\ Consistent(R.fs) /\ AllSpare(R.fs)
          /\ \A d \in Dirs(f) : Ents(R.fs, d) = Ents(f, d)
          /\ \A i \in f.inode_bitmap \ {ino} : SameFile(f, R.fs, i)
          /\ R.ok => Sized(f, node, end, R.fs, R.fs.inode[ino])
          /\ ~R.ok => SameFile(f, R.fs, ino)
      BY ResizedFile
    <2> HIDE DEF R
    <2>3. R.ok => Ready(f, ino, end, R.fs) BY <1>1, <2>2 DEF Ready, Sized
    <2>4. ~R.ok => shown(R.fs) = shown(f) BY <2>2, ModeKept, ShownSame
    <2> HIDE DEF r
    <2> QED BY <2>1, <2>2, <2>3, <2>4 DEF r
  <1>2. CASE ~(end > node.size)
    <2>1. r = Ok(f, node) /\ Result(r) /\ r.fs = f /\ r.ok BY <1>2 DEF Ok, Result
    <2>2. Touched(f, f, ino) BY LiveNode, GrewNot, NotWritten DEF Consistent, Sound
    <2>3. \A i \in f.inode_bitmap : SameFile(f, f, i) BY DEF SameFile, SameContent
    <2>4. node.size \in Nat BY LiveNode DEF Consistent, Sound
    <2>5. \A u \in 0 .. node.size - 1 : u < node.size BY <2>4
    <2>6. Ready(f, ino, end, f) BY <1>2, <2>2, <2>3, <2>5 DEF Ready
    <2> HIDE DEF r
    <2> QED BY <2>1, <2>6 DEF r
  <1> QED BY <1>1, <1>2

(* The tree after the loop: written, or, if the loop did not end, written  *)
(* in part.                                                                *)
LEMMA FillServed ==
    ASSUME NEW f, Consistent(f), NEW path \in Paths, NEW ino, ino = path_lookup(f, path),
           ino \in f.inode_bitmap \ Dirs(f), NEW from \in Nat, NEW len \in Nat, from <= f.inode[ino].size,
           NEW g, Ready(f, ino, from + len, g), NEW ok \in BOOLEAN, NEW h, Filled(g, ino, from, from + len, ok, h),
           NEW c, c.op = "write", c.path = path, c.at = from, c.len = len
    PROVE  /\ AllSpare(h) /\ Tree!SameBut(shown(f), shown(h), path) /\ Tree!CanWrite(shown(f), c)
           /\ ok => Tree!Write(shown(f), shown(h), c)
           /\ ~ok => Tree!WriteInPart(shown(f), shown(h), c)
  <1> DEFINE to == from + len
             m == f.inode[ino]
             n == h.inode[ino]
             t == shown(f)
             u == shown(h)
  <1>0. ino # 0 /\ to \in Nat BY Fields, Dimensions DEF Consistent, Sound
  <1>1. Consistent(h) /\ AllSpare(h) /\ Touched(f, g, ino) /\ Touched(g, h, ino)
    BY DEF Filled, Ready
  <1>2. /\ g.inode_bitmap = f.inode_bitmap /\ h.inode_bitmap = f.inode_bitmap
        /\ g.inode[ino].mode = m.mode /\ n.mode = m.mode
    BY <1>1, ModeKept
  <1>3. \A i \in f.inode_bitmap \ {ino} : SameFile(f, h, i)
    <2> TAKE i \in f.inode_bitmap \ {ino}
    <2>1. SameFile(f, g, i) /\ SameFile(g, h, i) BY <1>2 DEF Filled, Ready
    <2> QED BY <2>1, SameFileMore
  <1>4. \A d \in Dirs(f) : Ents(h, d) = Ents(f, d)
    <2> TAKE d \in Dirs(f)
    <2>1. d # ino /\ d \in f.inode_bitmap BY DEF Dirs
    <2>2. g.inode[d].mode = f.inode[d].mode BY <2>1 DEF Ready, SameFile
    <2>3. d \in Dirs(g) BY <1>2, <2>1, <2>2 DEF Dirs
    <2>4. Ents(h, d) = Ents(g, d) /\ Ents(g, d) = Ents(f, d) BY <2>3 DEF Filled, Ready
    <2> QED BY <2>4
  <1>5. FileChanged(f, h, path) BY <1>0, <1>1, <1>2, <1>3, <1>4, ShownChanged
  <1>6. m.mode # "dir" /\ n.mode # "dir" BY <1>2, NotDir
  <1>7. /\ Tree!IsFile(t, path) /\ Tree!IsFile(u, path)
        /\ t[path] \in Seq({0, Mark}) /\ Len(t[path]) = m.size
        /\ u[path] \in Seq({0, Mark}) /\ Len(u[path]) = n.size
        /\ m.size \in Nat /\ n.size \in Nat
        /\ \A k \in 1 .. m.size : t[path][k] = unit(f, m, k - 1)
        /\ \A k \in 1 .. n.size : u[path][k] = unit(h, n, k - 1)
    BY <1>0, <1>1, <1>5, <1>6, FileSeen
  <1>8. n.size = IF to > m.size THEN to ELSE m.size BY DEF Filled, Ready
  <1>9. ASSUME NEW k \in 1 .. n.size
        PROVE  /\ \/ u[path][k] = IF k <= m.size THEN t[path][k] ELSE 0
                  \/ k \in from + 1 .. to /\ u[path][k] = Mark
               /\ ok => u[path][k] = IF k \in from + 1 .. to THEN Mark
                                     ELSE IF k <= m.size THEN t[path][k] ELSE 0
    <2> DEFINE v == k - 1
    <2>1. /\ v \in Nat /\ v \in 0 .. n.size - 1 /\ (v < m.size <=> k <= m.size)
          /\ (k <= m.size => k \in 1 .. m.size) /\ (v \in from .. to - 1 <=> k \in from + 1 .. to)
      BY <1>0, <1>7, SMTT(40)
    <2>2. g.inode[ino].size = n.size BY DEF Filled
    <2>3. unit(g, g.inode[ino], v) = IF v < m.size THEN unit(f, m, v) ELSE 0
      <3> HIDE DEF v
      <3> QED BY <2>1, <2>2 DEF Ready
    <2>4. /\ unit(h, n, v) = unit(g, g.inode[ino], v) \/ (v \in from .. to - 1 /\ unit(h, n, v) = Mark)
          /\ ok => unit(h, n, v) = IF v \in from .. to - 1 THEN Mark ELSE unit(g, g.inode[ino], v)
      <3> HIDE DEF v
      <3> QED BY <2>1 DEF Filled
    <2>5. u[path][k] = unit(h, n, v) /\ (k <= m.size => t[path][k] = unit(f, m, v))
      <3> HIDE DEF t, u, m, n
      <3> QED BY <1>7, <2>1
    <2> HIDE DEF t, u, m, n, v, to
    <2> QED BY <2>1, <2>3, <2>4, <2>5
  <1>10. from <= m.size OBVIOUS
  <1> HIDE DEF t, u, m, n
  <1>11. Tree!LengthWith(t[path], c) = n.size /\ Tree!Units(c) = from + 1 .. to
    BY <1>7, <1>8 DEF Tree!LengthWith, Tree!Units
  <1>12. Tree!CanWrite(t, c) BY <1>7, <1>10 DEF Tree!CanWrite
  <1>13. ASSUME ~ok PROVE Tree!WriteInPart(t, u, c)
    <2>1. ASSUME NEW k \in 1 .. Len(u[path])
          PROVE  \/ u[path][k] = Tree!Extended(t[path], Len(u[path]))[k]
                 \/ k \in Tree!Units(c) /\ u[path][k] = Mark
      <3>1. Tree!Extended(t[path], Len(u[path]))[k] = IF k <= m.size THEN t[path][k] ELSE 0
        BY <1>7 DEF Tree!Extended
      <3> QED BY <1>7, <1>9, <1>11, <3>1
    <2> QED BY <1>7, <1>11, <2>1 DEF Tree!WriteInPart
  <1>14. ASSUME ok PROVE Tree!Write(t, u, c)
    <2>1. ASSUME NEW k \in 1 .. n.size
          PROVE  u[path][k] = IF k \in Tree!Units(c) THEN Mark ELSE t[path][k]
      <3>1. k \in from + 1 .. to \/ k <= m.size BY <1>0, <1>7, <1>8, <1>10
      <3> HIDE DEF to
      <3> QED BY <1>9, <1>11, <1>14, <3>1
    <2>2. u[path] = [k \in 1 .. n.size |-> u[path][k]]
      <3> DEFINE a == u[path]
      <3>1. a \in Seq({0, Mark}) /\ Len(a) = n.size BY <1>7
      <3> HIDE DEF a
      <3>2. a = [k \in 1 .. n.size |-> a[k]] BY <3>1
      <3> QED BY <3>2 DEF a
    <2>3. u[path] = [k \in 1 .. n.size |-> IF k \in Tree!Units(c) THEN Mark ELSE t[path][k]]
      BY <2>1, <2>2
    <2> QED BY <1>7, <1>11, <1>12, <2>3 DEF Tree!Write
  <1>15. Tree!SameBut(t, u, path) BY <1>5 DEF FileChanged, t, u
  <1> QED BY <1>1, <1>12, <1>13, <1>14, <1>15 DEF t, u

(* ext2_write_file. *)
LEMMA WriteServed ==
    ASSUME NEW f, Consistent(f), AllSpare(f), NEW path \in Paths, NEW len \in Nat, NEW offset \in Nat,
           NEW c, c.op = "write", c.path = path, c.at = offset, c.len = len,
           c.result = ext2_write_file(f, path, len, offset).result
    PROVE  Serves(f, c, ext2_write_file(f, path, len, offset).fs)
  <1> DEFINE ino == path_lookup(f, path)
             node == f.inode[ino]
             end == offset + len
             t == ext2_write_file(f, path, len, offset)
  <1>1. Tree!Legal(shown(f), c) <=> ino # 0 /\ inode_is_file(node) /\ ~(offset > node.size)
    <2>1. Tree!CanWrite(shown(f), c) <=> ino # 0 /\ inode_is_file(node) /\ ~(offset > node.size)
      BY CanWriteIs
    <2> HIDE DEF ino, node
    <2> QED BY <2>1 DEF Tree!Legal
  <1>2. CASE ino = 0 \/ ~inode_is_file(node) \/ offset > node.size
    <2>1. t = Failed(f, USER_ERR_INVAL) BY <1>2 DEF ext2_write_file
    <2>2. t.fs = f /\ c.result = USER_ERR_INVAL BY <2>1, Returned
    <2> QED BY <1>1, <1>2, <2>2, ServesNot
  <1>3. CASE ~(ino = 0 \/ ~inode_is_file(node) \/ offset > node.size)
    <2> DEFINE r == IF end > node.size THEN resize_inode_data(f, ino, end) ELSE Ok(f, node)
               g == r.fs
               w == write_blocks(g, g.inode[ino], offset, end)
    <2>1. t = write_resized(r, ino, len, offset) BY <1>3 DEF ext2_write_file
    <2>2. ino \in f.inode_bitmap \ Dirs(f) /\ end \in Nat BY <1>3, FileAt
    <2>0. offset <= node.size
      <3>1. node.size \in Nat BY <2>2, LiveNode DEF Consistent, Sound
      <3> HIDE DEF node
      <3> QED BY <1>3, <3>1
    <2>3. /\ Result(r) /\ (r.ok => Ready(f, ino, end, g))
          /\ ~r.ok => AllSpare(g) /\ shown(g) = shown(f)
      <3> HIDE DEF end, ino
      <3> QED BY <2>2, MadeReady
    <2> HIDE DEF r
    <2>4. CASE ~r.ok
      <3>1. t = Failed(g, USER_ERR_FAULT) BY <2>1, <2>4 DEF write_resized
      <3>2. t.fs = g /\ c.result = USER_ERR_FAULT BY <3>1, Returned
      <3>3. Tree!RunsOut(shown(f), shown(g), c)
        <4> HIDE DEF g, ino, node
        <4> QED BY <1>1, <1>3, <2>3, <2>4, <3>2 DEF Tree!RunsOut
      <3> HIDE DEF t
      <3> QED BY <2>3, <2>4, <3>2, <3>3 DEF Serves, Tree!Step, t
    <2>5. CASE r.ok
      <3>1. t = wrote(w, ino, len) BY <2>1, <2>5 DEF write_resized
      <3>2. Ready(f, ino, end, g) BY <2>3, <2>5
      <3>3. Consistent(g) /\ AllSpare(g) /\ ino \in g.inode_bitmap \ Dirs(g) /\ end <= g.inode[ino].size /\ offset <= end
        <4>1. g.inode_bitmap = f.inode_bitmap /\ g.inode[ino].mode = node.mode
          BY <3>2, ModeKept DEF Ready
        <4>2. ino \in g.inode_bitmap \ Dirs(g) BY <2>2, <4>1, NotDir DEF Dirs
        <4>3. node.size \in Nat BY <2>2, LiveNode DEF Consistent, Sound
        <4>4. g.inode[ino].size = IF end > node.size THEN end ELSE node.size
          BY <3>2 DEF Ready
        <4>5. end <= g.inode[ino].size
          <5> HIDE DEF end, node, g
          <5> QED BY <2>2, <4>3, <4>4
        <4> QED BY <3>2, <4>2, <4>5 DEF Ready
      <3>4. /\ Result(w)
            /\ w.ok => Filled(g, ino, offset, end, TRUE, write_inode(w.fs, ino, w.node))
            /\ ~w.ok => Filled(g, ino, offset, end, FALSE, w.fs)
        <4> HIDE DEF end, g, ino
        <4> QED BY <2>2, <3>3, LoopFilled
      <3> HIDE DEF w
      <3>5. CASE w.ok
        <4>1. t.fs = write_inode(w.fs, ino, w.node) /\ c.result = len
          BY <3>1, <3>5 DEF wrote
        <4> HIDE DEF t, g
        <4>0. Filled(g, ino, offset, offset + len, TRUE, t.fs) /\ Ready(f, ino, offset + len, g)
          BY <3>2, <3>4, <3>5, <4>1
        <4>2. /\ AllSpare(t.fs) /\ Tree!SameBut(shown(f), shown(t.fs), path) /\ Tree!CanWrite(shown(f), c)
              /\ TRUE => Tree!Write(shown(f), shown(t.fs), c)
              /\ ~TRUE => Tree!WriteInPart(shown(f), shown(t.fs), c)
          <5> HIDE DEF ino
          <5> QED BY <2>0, <2>2, <4>0, FillServed DEF ino
        <4>3. Tree!Step(shown(f), shown(t.fs), c)
          BY <4>1, <4>2 DEF Tree!Step, Tree!Succeeds
        <4> QED BY <4>2, <4>3 DEF Serves, t
      <3>6. CASE ~w.ok
        <4>1. t.fs = w.fs /\ c.result = USER_ERR_FAULT BY <3>1, <3>6, Returned DEF wrote
        <4> HIDE DEF t, g
        <4>2. /\ AllSpare(t.fs) /\ Tree!SameBut(shown(f), shown(t.fs), path)
              /\ ~FALSE => Tree!WriteInPart(shown(f), shown(t.fs), c)
          BY <2>0, <2>2, <3>2, <3>4, <3>6, <4>1, FillServed
        <4>3. Tree!Step(shown(f), shown(t.fs), c)
          BY <1>1, <1>3, <4>1, <4>2 DEF Tree!Step, Tree!RunsOut
        <4> QED BY <4>2, <4>3 DEF Serves, t
      <3> QED BY <3>4, <3>5, <3>6
    <2> QED BY <2>4, <2>5
  <1> QED BY <1>2, <1>3

-----------------------------------------------------------------------------
(* Calls that do not touch the inside of a file. *)

LEMMA KeptFile ==
    ASSUME NEW f \in Image, Owned(f), NEW g, Keeps(f, g), NEW i \in f.inode_bitmap, i \in g.inode_bitmap
    PROVE  /\ SameFile(f, g, i)
           /\ i \notin Dirs(f) => SameContent(f, f.inode[i], g, g.inode[i]) /\ g.inode[i].size = f.inode[i].size
  <1>1. g.inode[i].mode = f.inode[i].mode BY DEF Keeps
  <1>2. CASE f.inode[i].mode = "dir"
    BY <1>1, <1>2 DEF SameFile, Dirs
  <1>3. CASE f.inode[i].mode # "dir"
    BY <1>3, ContentSame, <1>1 DEF Keeps, Owned, KeptData, at, SameFile
  <1> QED BY <1>2, <1>3

LEMMA KeptSpare ==
    ASSUME NEW f \in Image, Owned(f), AllSpare(f), NEW g, Keeps(f, g),
           \A i \in g.inode_bitmap \ f.inode_bitmap : i \in Dirs(g) \/ \A k \in Slots : at(g, i, k) = 0
    PROVE  AllSpare(g)
  <1> SUFFICES ASSUME NEW i \in g.inode_bitmap, i \notin Dirs(g) PROVE Spare(g, g.inode[i])
    BY DEF AllSpare
  <1>1. CASE i \in f.inode_bitmap
    BY <1>1, KeptFile, SameSpare DEF Keeps, Dirs, AllSpare
  <1>2. CASE i \notin f.inode_bitmap
    BY <1>2, Places DEF at, Spare, content
  <1> QED BY <1>1, <1>2

(* Where paths lead when there is an inode more, and one less. *)
LEMMA LookupAdded ==
    ASSUME NEW f, Consistent(f), NEW g, Consistent(g), NEW path \in Paths, path # <<>>, NEW x, NEW parent,
           NamedIn(f, g, x, path, parent)
    PROVE  /\ path_lookup(g, path) = x /\ x # 0 /\ path_lookup(f, path) = 0
           /\ \A p \in Paths : path_lookup(f, p) # 0 => path_lookup(g, p) = path_lookup(f, p)
           /\ \A p \in Paths \ {path} : path_lookup(g, p) = path_lookup(f, p)
  <1> DEFINE new == [name |-> Last(path), ino |-> x]
  <1>1. /\ f \in Image /\ Full(f) /\ IsTree(f) /\ g \in Image /\ Full(g) /\ IsTree(g)
        /\ path \in Seq(DirNames) /\ \A p \in Paths : Len(p) \in Nat /\ p \in Seq(DirNames)
    BY Reached
  <1>2. /\ x \in Inodes \ f.inode_bitmap /\ g.inode_bitmap = f.inode_bitmap \cup {x}
        /\ \A i \in f.inode_bitmap : g.inode[i].mode = f.inode[i].mode
        /\ parent \in Dirs(f) /\ parent = path_lookup(f, Front(path)) /\ path_lookup(f, path) = 0
        /\ \A d \in Dirs(f) \ {parent} : Ents(g, d) = Ents(f, d)
        /\ Ents(g, parent) = Ents(f, parent) \cup {new}
        /\ g.inode[x].mode = "dir" => Ents(g, x) = {}
    BY DEF NamedIn
  <1> HIDE DEF new
  <1>3. x # 0 /\ parent # 0 BY <1>1, Fields, <1>2, Dimensions DEF Dirs
  <1>4. \A d \in Dirs(f) : d \in Dirs(g) /\ Ents(f, d) \subseteq Ents(g, d)
    BY <1>2 DEF Dirs
  <1>5. ASSUME NEW d \in f.inode_bitmap, NEW name, find_in_dir(f, d, name) # 0
        PROVE  find_in_dir(g, d, name) = find_in_dir(f, d, name)
    <2>1. d \in Dirs(f) BY <1>1, <1>5, TreeFind
    <2>2. PICK e \in Ents(f, d) : e.name = name /\ e.ino = find_in_dir(f, d, name)
      BY <1>5, FindIs
    <2>3. e \in Ents(g, d) /\ d \in Dirs(g) BY <1>4, <2>1
    <2> QED BY <1>1, <2>2, <2>3, TreeFind
  <1>6. EXT2_ROOT_INODE \in f.inode_bitmap /\ EXT2_ROOT_INODE \in g.inode_bitmap
    BY <1>1 DEF IsTree, Dirs
  <1>7. Follows(f, g, 0, f.inode_bitmap) BY <1>1, <1>5, <1>6, TreeFind DEF Follows
  <1>8. ASSUME NEW p, Len(p) \in Nat, path_lookup(f, p) # 0
        PROVE  path_lookup(g, p) = path_lookup(f, p)
    BY <1>7, <1>8, Follow
  <1>9. path_lookup(g, path) = x
    <2>1. Len(Front(path)) \in Nat BY <1>1, FrontIs
    <2>2. path_lookup(g, Front(path)) = parent BY <1>2, <1>3, <1>8, <2>1
    <2>3. new \in Ents(g, parent) /\ new.name = Last(path) /\ new.ino = x /\ parent \in Dirs(g)
      BY <1>2, <1>4 DEF new
    <2>4. find_in_dir(g, parent, Last(path)) = x BY <1>1, <2>3, TreeFind
    <2> QED BY <1>1, <1>3, <2>2, <2>4, LookupLast
  <1>10. \A name : find_in_dir(g, x, name) = 0
    <2> TAKE name
    <2> SUFFICES ASSUME find_in_dir(g, x, name) # 0 PROVE FALSE
      OBVIOUS
    <2> QED BY <1>2, FindIs
  <1>11. ASSUME NEW d \in g.inode_bitmap, NEW name, find_in_dir(g, d, name) # 0, find_in_dir(g, d, name) # x
         PROVE  find_in_dir(f, d, name) = find_in_dir(g, d, name)
    <2>1. d \in Dirs(g) /\ d # x BY <1>1, <1>10, <1>11, TreeFind
    <2>2. d \in Dirs(f) BY <1>2, <2>1 DEF Dirs
    <2>3. PICK e \in Ents(g, d) : e.name = name /\ e.ino = find_in_dir(g, d, name)
      BY <1>11, FindIs
    <2>4. e # new BY <1>11, <2>3 DEF new
    <2>5. e \in Ents(f, d) BY <1>2, <2>2, <2>4
    <2> QED BY <1>1, <2>2, <2>3, <2>5, TreeFind
  <1>12. Follows(g, f, x, g.inode_bitmap)
    BY <1>1, <1>6, <1>10, <1>11, TreeFind DEF Follows
  <1>13. ASSUME NEW p \in Paths \ {path} PROVE path_lookup(g, p) = path_lookup(f, p)
    <2>1. path_lookup(g, p) # x
      <3> SUFFICES ASSUME path_lookup(g, p) = x PROVE FALSE
        OBVIOUS
      <3>1. p = path BY <1>1, <1>3, <1>9, PathUnique
      <3> QED BY <3>1
    <2>2. path_lookup(g, p) # 0 => path_lookup(f, p) = path_lookup(g, p)
      BY <1>1, <1>12, <2>1, Follow
    <2> QED BY <1>1, <1>8, <2>2
  <1> QED BY <1>1, <1>2, <1>3, <1>8, <1>9, <1>13

LEMMA LookupRemoved ==
    ASSUME NEW f, Consistent(f), NEW g, Consistent(g), NEW path \in Paths, NEW parent, NEW gone,
           RemovedFrom(f, g, path_lookup(f, path), parent, gone)
    PROVE  /\ path_lookup(g, path) = 0 /\ path_lookup(f, path) # 0
           /\ \A p \in Paths \ {path} : path_lookup(g, p) = path_lookup(f, p)
           /\ \A name : find_in_dir(f, path_lookup(f, path), name) = 0
  <1> DEFINE x == path_lookup(f, path)
  <1>1. /\ f \in Image /\ Full(f) /\ IsTree(f) /\ g \in Image /\ Full(g) /\ IsTree(g)
        /\ path \in Seq(DirNames) /\ \A p \in Paths : Len(p) \in Nat /\ p \in Seq(DirNames)
    BY Reached
  <1>2. /\ x \in f.inode_bitmap /\ g.inode_bitmap = f.inode_bitmap \ {x}
        /\ \A i \in g.inode_bitmap : g.inode[i].mode = f.inode[i].mode
        /\ x \in Dirs(f) => Ents(f, x) = {}
        /\ parent \in Dirs(f) /\ gone \in Ents(f, parent) /\ gone.ino = x
        /\ \A d \in Dirs(f) \ {parent, x} : Ents(g, d) = Ents(f, d)
        /\ Ents(g, parent) = Ents(f, parent) \ {gone}
    BY DEF RemovedFrom
  <1> HIDE DEF x
  <1>3. x # 0 BY <1>1, Fields, <1>2, Dimensions
  <1>4. \A name : find_in_dir(f, x, name) = 0
    <2> TAKE name
    <2> SUFFICES ASSUME find_in_dir(f, x, name) # 0 PROVE FALSE
      OBVIOUS
    <2>1. x \in Dirs(f) BY <1>1, <1>2, TreeFind
    <2> QED BY <1>2, <2>1, FindIs
  <1>5. EXT2_ROOT_INODE \in f.inode_bitmap /\ EXT2_ROOT_INODE \in g.inode_bitmap
    BY <1>1 DEF IsTree, Dirs
  <1>6. ASSUME NEW d \in f.inode_bitmap, NEW name, find_in_dir(f, d, name) # 0, find_in_dir(f, d, name) # x
        PROVE  find_in_dir(g, d, name) = find_in_dir(f, d, name)
    <2>1. d \in Dirs(f) /\ d # x BY <1>1, <1>4, <1>6, TreeFind
    <2>2. PICK e \in Ents(f, d) : e.name = name /\ e.ino = find_in_dir(f, d, name)
      BY <1>6, FindIs
    <2>3. e # gone BY <1>2, <1>6, <2>2
    <2>4. e \in Ents(g, d) BY <1>2, <2>1, <2>2, <2>3
    <2>5. d \in Dirs(g) BY <1>2, <2>1 DEF Dirs
    <2> QED BY <1>1, <2>2, <2>4, <2>5, TreeFind
  <1>7. ASSUME NEW d \in g.inode_bitmap, NEW name, find_in_dir(g, d, name) # 0
        PROVE  find_in_dir(f, d, name) = find_in_dir(g, d, name)
    <2>1. d \in Dirs(g) BY <1>1, <1>7, TreeFind
    <2>2. d \in Dirs(f) /\ d # x BY <1>2, <2>1 DEF Dirs
    <2>3. PICK e \in Ents(g, d) : e.name = name /\ e.ino = find_in_dir(g, d, name)
      BY <1>7, FindIs
    <2>4. e \in Ents(f, d) BY <1>2, <2>2
    <2> QED BY <1>1, <2>2, <2>3, <2>4, TreeFind
  <1>8. Follows(f, g, x, f.inode_bitmap) BY <1>1, <1>4, <1>5, <1>6, TreeFind DEF Follows
  <1>9. Follows(g, f, 0, g.inode_bitmap) BY <1>1, <1>5, <1>7, TreeFind DEF Follows
  <1>10. ASSUME NEW p \in Paths, path_lookup(g, p) # 0
         PROVE  path_lookup(f, p) = path_lookup(g, p) /\ path_lookup(g, p) # x
    BY <1>1, <1>9, <1>10, Follow, Reached, <1>2
  <1>11. path_lookup(g, path) = 0 BY <1>10 DEF x
  <1>12. ASSUME NEW p \in Paths \ {path} PROVE path_lookup(g, p) = path_lookup(f, p)
    <2>1. path_lookup(f, p) # x
      <3> SUFFICES ASSUME path_lookup(f, p) = x PROVE FALSE
        OBVIOUS
      <3>1. p = path BY <1>1, <1>3, PathUnique DEF x
      <3> QED BY <3>1
    <2>2. path_lookup(f, p) # 0 => path_lookup(g, p) = path_lookup(f, p)
      BY <1>1, <1>8, <2>1, Follow
    <2> QED BY <1>10, <2>2
  <1> QED BY <1>3, <1>4, <1>11, <1>12 DEF x

(* All paths but one lead where they led, to what was there. *)
LEMMA ShownBut ==
    ASSUME NEW f, Consistent(f), NEW g, Consistent(g), Keeps(f, g), NEW path,
           \A p \in Paths \ {path} : path_lookup(g, p) = path_lookup(f, p)
    PROVE  Tree!SameBut(shown(f), shown(g), path)
  <1> SUFFICES ASSUME NEW q \in Paths, q # path, path_lookup(f, q) # 0 \/ path_lookup(g, q) # 0
               PROVE  /\ q \in DOMAIN shown(f) /\ q \in DOMAIN shown(g)
                      /\ shown(f)[q] = shown(g)[q]
    BY ShownIs DEF Tree!SameBut
  <1>1. path_lookup(g, q) = path_lookup(f, q) /\ path_lookup(f, q) # 0 OBVIOUS
  <1>2. /\ f \in Image /\ g \in Image /\ path_lookup(f, q) \in Inodes
        /\ path_lookup(f, q) \in f.inode_bitmap /\ path_lookup(f, q) \in g.inode_bitmap
    BY <1>1, Reached
  <1>3. Owned(f) BY DEF Consistent, Sound
  <1>4. SameFile(f, g, path_lookup(f, q)) BY <1>2, <1>3, KeptFile
  <1>5. seen(g, q) = seen(f, q) BY <1>1, <1>2, <1>4, SameSeen
  <1> QED BY <1>1, <1>5, ShownIs

LEMMA ShownAdded ==
    ASSUME NEW f, Consistent(f), NEW g, Consistent(g), Keeps(f, g), NEW path \in Paths, NEW x, NEW parent,
           NamedIn(f, g, x, path, parent), g.inode[x].mode = "file" => g.inode[x].size = 0
    PROVE  /\ Tree!SameBut(shown(f), shown(g), path) /\ path \in DOMAIN shown(g)
           /\ shown(g)[path] = IF g.inode[x].mode = "dir" THEN Dir ELSE <<>>
  <1>1. path # <<>> BY LookupRoot DEF NamedIn, EXT2_ROOT_INODE
  <1>2. /\ path_lookup(g, path) = x /\ x # 0 /\ path_lookup(f, path) = 0
        /\ \A p \in Paths \ {path} : path_lookup(g, p) = path_lookup(f, p)
    BY <1>1, LookupAdded
  <1>3. Tree!SameBut(shown(f), shown(g), path) BY <1>2, ShownBut
  <1>4. path \in DOMAIN shown(g) BY <1>2, ShownIs
  <1>6. shown(g)[path] = IF g.inode[x].mode = "dir" THEN Dir ELSE <<>>
    <2>1. shown(g)[path] = seen(g, path) BY <1>2, ShownIs
    <2>2. CASE g.inode[x].mode = "dir"
      BY <1>2, <2>1, <2>2 DEF seen, inode_is_dir
    <2>3. CASE g.inode[x].mode # "dir"
      <3>1. g.inode[x].mode = "file" /\ g.inode[x].size = 0 BY <2>3 DEF NamedIn
      <3>2. g \in Image /\ x \in Inodes BY DEF Consistent, Sound, NamedIn
      <3>3. seen(g, path) \in Seq({0, Mark}) /\ Len(seen(g, path)) = 0
        BY <1>2, <2>3, <3>1, <3>2, SeenFile
      <3>4. seen(g, path) = <<>>
        <4> DEFINE s == seen(g, path)
        <4>1. s \in Seq({0, Mark}) /\ Len(s) = 0 BY <3>3
        <4> HIDE DEF s
        <4>2. s = <<>> BY <4>1
        <4> QED BY <4>2 DEF s
      <3> QED BY <2>1, <2>3, <3>4
    <2> QED BY <2>2, <2>3
  <1> QED BY <1>3, <1>4, <1>6

LEMMA MadeSpare ==
    ASSUME NEW f, Consistent(f), AllSpare(f), NEW path, NEW mode \in {"file", "dir"}, NEW r, Made(f, r, path, mode)
    PROVE  AllSpare(r.fs)
  <1> DEFINE g == r.fs
  <1>1. f \in Image /\ Owned(f) /\ Keeps(f, g) BY DEF Consistent, Sound, Made
  <1>2. CASE g = f \/ KeepsNames(f, g)
    BY <1>1, <1>2, KeptSpare DEF KeepsNames
  <1>3. CASE ~(g = f \/ KeepsNames(f, g))
    <2>1. PICK x : /\ NamedIn(f, g, x, path, parent_lookup(f, path)) /\ g.inode[x].mode = mode
                   /\ mode = "file" => g.inode[x].size = 0 /\ \A k \in Slots : at(g, x, k) = 0
      BY <1>3 DEF Made
    <2> HIDE DEF g
    <2> QED BY <2>1, <1>1, KeptSpare DEF NamedIn, Dirs, g
  <1> QED BY <1>2, <1>3

LEMMA MadeServed ==
    ASSUME NEW f, Consistent(f), AllSpare(f), NEW path \in Paths, NEW mode \in {"file", "dir"},
           NEW r, Consistent(r.fs), Made(f, r, path, mode),
           NEW c, c.op = IF mode = "dir" THEN "mkdir" ELSE "create", c.path = path, c.result = r.result
    PROVE  Serves(f, c, r.fs)
  <1> DEFINE g == r.fs
             t == shown(f)
             u == shown(g)
  <1>1. f \in Image /\ Owned(f) /\ Keeps(f, g) /\ AllSpare(g)
    BY MadeSpare DEF Consistent, Sound, Made
  <1>2. /\ Tree!Legal(t, c) <=> Makeable(f, path)
        /\ Tree!CanMake(t, path) <=> Makeable(f, path)
    <2>1. Tree!CanMake(t, path) <=> Makeable(f, path) BY CanMakeIs
    <2> HIDE DEF t
    <2> QED BY <2>1 DEF Tree!Legal
  <1>3. CASE r.result = USER_ERR_INVAL /\ g = f /\ ~Makeable(f, path)
    BY <1>2, <1>3, ServesNot
  <1>4. CASE r.result = USER_ERR_FAULT /\ KeepsNames(f, g) /\ Makeable(f, path)
    <2>1. g.inode_bitmap = f.inode_bitmap /\ \A d \in Dirs(f) : Ents(g, d) = Ents(f, d)
      BY <1>4 DEF KeepsNames
    <2>2. \A i \in f.inode_bitmap : SameFile(f, g, i) BY <1>1, <2>1, KeptFile
    <2>3. u = t BY <2>1, <2>2, ShownSame
    <2> HIDE DEF g, t, u
    <2>4. Tree!RunsOut(t, u, c) BY <1>2, <1>4, <2>3 DEF Tree!RunsOut
    <2> QED BY <1>1, <2>4 DEF Serves, Tree!Step, g, t, u
  <1>5. CASE /\ r.result = 0
             /\ \E x : /\ NamedIn(f, g, x, path, parent_lookup(f, path)) /\ g.inode[x].mode = mode
                       /\ mode = "file" => g.inode[x].size = 0 /\ \A k \in Slots : at(g, x, k) = 0
    <2>1. PICK x : /\ NamedIn(f, g, x, path, parent_lookup(f, path)) /\ g.inode[x].mode = mode
                   /\ mode = "file" => g.inode[x].size = 0
      BY <1>5
    <2>2. /\ Tree!SameBut(t, u, path) /\ path \in DOMAIN u
          /\ u[path] = IF mode = "dir" THEN Dir ELSE <<>>
      BY <1>1, <2>1, ShownAdded
    <2>3. parent_lookup(f, path) \in Dirs(f) /\ path_lookup(f, path) = 0
      BY <2>1 DEF NamedIn
    <2>4. Makeable(f, path) BY <1>1, <2>3, Fields, Dimensions DEF Makeable, Dirs
    <2> HIDE DEF g, t, u
    <2>5. Tree!Step(t, u, c)
      BY <1>2, <1>5, <2>2, <2>4 DEF Tree!Step, Tree!Succeeds, Tree!Create, Tree!Mkdir
    <2> QED BY <1>1, <2>5 DEF Serves, g, t, u
  <1> QED BY <1>3, <1>4, <1>5 DEF Made

LEMMA ShownRemoved ==
    ASSUME NEW f, Consistent(f), NEW g, Consistent(g), Keeps(f, g), NEW path \in Paths, NEW parent, NEW gone,
           RemovedFrom(f, g, path_lookup(f, path), parent, gone)
    PROVE  Tree!SameBut(shown(f), shown(g), path) /\ path \notin DOMAIN shown(g)
  <1>1. /\ path_lookup(g, path) = 0 /\ \A p \in Paths \ {path} : path_lookup(g, p) = path_lookup(f, p)
    BY LookupRemoved
  <1> QED BY <1>1, ShownBut, ShownIs

LEMMA UnmadeServed ==
    ASSUME NEW f, Consistent(f), AllSpare(f), NEW path \in Paths, NEW mode \in {"file", "dir"},
           NEW r, Consistent(r.fs), Unmade(f, r, path, mode),
           NEW c, c.op = IF mode = "dir" THEN "rmdir" ELSE "unlink", c.path = path, c.result = r.result
    PROVE  Serves(f, c, r.fs)
  <1> DEFINE g == r.fs
             t == shown(f)
             u == shown(g)
  <1>1. f \in Image /\ Owned(f) BY DEF Consistent, Sound
  <1>2. /\ Tree!Legal(t, c) <=> Removable(f, path, mode)
        /\ (IF mode = "dir" THEN Tree!CanRmdir(t, path) ELSE Tree!IsFile(t, path)) <=> Removable(f, path, mode)
    <2>1. Tree!CanRmdir(t, path) <=> Removable(f, path, "dir") BY CanRmdirIs
    <2>2. Tree!IsFile(t, path) <=> Removable(f, path, "file") BY CanRemoveIs
    <2> HIDE DEF t
    <2> QED BY <2>1, <2>2 DEF Tree!Legal
  <1>3. CASE r.result = USER_ERR_INVAL /\ g = f /\ ~Removable(f, path, mode)
    BY <1>2, <1>3, ServesNot
  <1>4. CASE /\ r.result = 0 /\ Keeps(f, g) /\ Removable(f, path, mode)
             /\ \E gone : RemovedFrom(f, g, path_lookup(f, path), parent_lookup(f, path), gone)
    <2>1. PICK gone : RemovedFrom(f, g, path_lookup(f, path), parent_lookup(f, path), gone)
      BY <1>4
    <2>2. Tree!SameBut(t, u, path) /\ path \notin DOMAIN u BY <1>4, <2>1, ShownRemoved
    <2>3. AllSpare(g) BY <1>1, <1>4, <2>1, KeptSpare DEF RemovedFrom
    <2> HIDE DEF g, t, u
    <2>4. Tree!Step(t, u, c)
      BY <1>2, <1>4, <2>2 DEF Tree!Step, Tree!Succeeds, Tree!Unlink, Tree!Rmdir
    <2> QED BY <2>3, <2>4 DEF Serves, g, t, u
  <1> QED BY <1>3, <1>4 DEF Unmade


-----------------------------------------------------------------------------
(* The image at boot. *)

RootNode == [EmptyInode EXCEPT !.mode = "dir", !.size = BlockUnits, !.links = 2, !.blocks = 1, !.block[0] = 1]

LEMMA RootNodeIs ==
    /\ RootNode \in InodeType /\ RootNode.mode = "dir" /\ RootNode.size = BlockUnits
    /\ RootNode.links = 2 /\ RootNode.blocks = 1 /\ 1 \in Blocks
    /\ \A f : \A k \in Slots : slot(f, RootNode, k) = IF k = 0 THEN 1 ELSE 0
  <1>1. EmptyInode.block = NoBlocks BY DEF EmptyInode
  <1>2. EmptyInode \in InodeType /\ BlockUnits \in Nat /\ 0 \in 0 .. DirectBlocks
    BY Dimensions
  <1>3. 1 \in Blocks BY Ext2Assumption DEF Blocks
  <1>4. /\ RootNode \in InodeType /\ RootNode.mode = "dir" /\ RootNode.size = BlockUnits
        /\ RootNode.links = 2 /\ RootNode.blocks = 1 /\ RootNode.block = [EmptyInode.block EXCEPT ![0] = 1]
    BY <1>2, <1>3 DEF RootNode, InodeType
  <1>5. \A k \in 0 .. DirectBlocks : RootNode.block[k] = IF k = 0 THEN 1 ELSE 0
    BY <1>1, <1>2, <1>4 DEF NoBlocks
  <1>6. DirectBlocks \in 0 .. DirectBlocks /\ DirectBlocks # 0 BY Dimensions
  <1>7. ASSUME NEW f, NEW k \in Slots PROVE slot(f, RootNode, k) = IF k = 0 THEN 1 ELSE 0
    BY Dimensions, <1>5, <1>6 DEF Slots, slot
  <1> QED BY <1>3, <1>4, <1>7

LEMMA EmptyFields ==
    /\ EmptyImage \in Image
    /\ EmptyImage.block_bitmap = {1} /\ EmptyImage.free_blocks_count = BlocksCount - 2
    /\ EmptyImage.inode_bitmap = {EXT2_ROOT_INODE} /\ EmptyImage.used_dirs_count = 1
    /\ EmptyImage.free_inodes_count = InodesCount - FirstInode + 1
    /\ EmptyImage.inode[EXT2_ROOT_INODE] = RootNode
    /\ \A b \in Blocks : EmptyImage.entries[b] = {}
  <1> DEFINE nodes == [ino \in Inodes |-> IF ino = EXT2_ROOT_INODE THEN RootNode ELSE EmptyInode]
             tables == [b \in Blocks |-> NoTable]
             ents == [b \in Blocks |-> {}]
             marks == [b \in Blocks |-> ZeroData]
  <1>1. EmptyImage = [block_bitmap |-> {1}, free_blocks_count |-> BlocksCount - 2,
                      inode_bitmap |-> {EXT2_ROOT_INODE},
                      free_inodes_count |-> InodesCount - FirstInode + 1,
                      used_dirs_count |-> 1, inode |-> nodes, indirect |-> tables,
                      entries |-> ents, data |-> marks, superblock |-> "intact"]
    BY DEF EmptyImage, RootNode
  <1>2. /\ nodes \in [Inodes -> InodeType] /\ nodes[EXT2_ROOT_INODE] = RootNode
        /\ tables \in [Blocks -> Table] /\ ents \in [Blocks -> EntrySets]
        /\ marks \in [Blocks -> Data] /\ \A b \in Blocks : ents[b] = {}
    BY RootNodeIs, Dimensions
  <1>3. /\ {1} \in SUBSET Blocks /\ BlocksCount - 2 \in Nat /\ {EXT2_ROOT_INODE} \in SUBSET Inodes
        /\ InodesCount - FirstInode + 1 \in Nat
    BY Ext2Assumption, Dimensions, RootNodeIs
  <1> HIDE DEF nodes, tables, ents, marks
  <1> QED BY <1>1, <1>2, <1>3 DEF Image

LEMMA EmptyIs ==
    /\ Consistent(EmptyImage) /\ Accounted(EmptyImage) /\ Ents(EmptyImage, EXT2_ROOT_INODE) = {}
    /\ AllSpare(EmptyImage)
  <1> DEFINE f == EmptyImage
             root == EXT2_ROOT_INODE
  <1>1. /\ f \in Image /\ f.block_bitmap = {1} /\ f.free_blocks_count = BlocksCount - 2
        /\ f.inode_bitmap = {root} /\ f.used_dirs_count = 1
        /\ f.free_inodes_count = InodesCount - FirstInode + 1
        /\ f.inode[root] = RootNode /\ \A b \in Blocks : f.entries[b] = {}
    BY EmptyFields
  <1> HIDE DEF f
  <1>2. \A k \in Slots : at(f, root, k) = (IF k = 0 THEN 1 ELSE 0) /\ slot(f, RootNode, k) = IF k = 0 THEN 1 ELSE 0
    BY <1>1, RootNodeIs DEF at
  <1>3. 0 \in Slots /\ 1 \in Blocks BY Dimensions, RootNodeIs DEF Slots
  <1>4. Owned(f) BY <1>1, <1>2 DEF Owned
  <1>5. BlocksCounted(f)
    <2>1. IsFiniteSet(Blocks) /\ Cardinality(Blocks) = BlocksCount - 1
      BY Ext2Assumption, FS_Interval DEF Blocks
    <2>2. Cardinality(Blocks \ {1}) = Cardinality(Blocks) - 1
      BY <1>3, <2>1, FS_RemoveElement
    <2> QED BY <1>1, <2>1, <2>2, Ext2Assumption DEF BlocksCounted
  <1>6. Fills(f, RootNode)
    <2>1. 1 \in 1 .. MaxBlocks /\ RootNode.size = 1 * BlockUnits BY RootNodeIs, Dimensions
    <2>2. ASSUME NEW i \in 0 .. MaxBlocks - 1
          PROVE  (slot(f, RootNode, place(i)) # 0) <=> (i < 1)
      BY Places, <1>2
    <2> QED BY <2>1, <2>2 DEF Fills
  <1>7. Dirs(f) = {root} /\ Full(f) BY <1>1, <1>6, RootNodeIs DEF Dirs, Full
  <1>8. InodesCounted(f)
    <2>1. Inodes \ {root} = FirstInode .. InodesCount BY Dimensions DEF Inodes
    <2>2. Cardinality(FirstInode .. InodesCount) = InodesCount - FirstInode + 1
      BY Ext2Assumption, FS_Interval
    <2>3. Cardinality({root}) = 1 BY FS_Singleton
    <2> QED BY <1>1, <1>7, <2>1, <2>2, <2>3 DEF InodesCounted
  <1>9. Ents(f, root) = {}
    BY <1>1, <1>6, RootNodeIs, EntriesAre, <1>2, <1>3 DEF Leaves, Ents
  <1>10. IsTree(f)
    <2>1. Subdirs(f, root) = {} /\ Cardinality(Subdirs(f, root)) = 0
      BY <1>9, FS_EmptySet DEF Subdirs
    <2>2. f.inode[root].links = 2 BY <1>1, RootNodeIs
    <2>3. f.inode[root].links >= 2 + Cardinality(Subdirs(f, root)) BY <2>1, <2>2
    <2> QED BY <1>1, <1>7, <1>9, <2>3, RootNodeIs DEF IsTree
  <1>11. Accounted(f)
    <2>1. taken(f, RootNode) = {0} BY <1>2, <1>3 DEF taken
    <2>2. inode_allocated_blocks(f, RootNode) = 1
      <3>1. Cardinality(taken(f, RootNode)) = 1 BY <2>1, FS_Singleton
      <3>2. f \in Image /\ RootNode \in InodeType BY <1>1, RootNodeIs
      <3> QED BY <3>1, <3>2, AllocatedIs
    <2> QED BY <1>1, <1>2, <1>3, <2>2, RootNodeIs DEF Accounted, exact
  <1>12. Consistent(f) BY <1>1, <1>4, <1>5, <1>7, <1>8, <1>10 DEF Consistent, Sound
  <1>13. AllSpare(f) BY <1>1, <1>7 DEF AllSpare
  <1> QED BY <1>9, <1>11, <1>12, <1>13 DEF f

LEMMA ImageWithIs ==
    ASSUME NEW s \in Sparse
    PROVE  /\ Consistent(ImageWith(s.path, s.size, s.first)) /\ Accounted(ImageWith(s.path, s.size, s.first))
           /\ AllSpare(ImageWith(s.path, s.size, s.first))
  <1> DEFINE f == EmptyImage
             path == s.path
             size == s.size
             from == s.first * BlockUnits
             made == ext2_create_file(f, path).fs
             ino == path_lookup(made, path)
             node == [made.inode[ino] EXCEPT !.size = size]
             w == write_blocks(made, node, from, size)
             h == write_inode(w.fs, ino, w.node)
  <1>1. /\ path \in Paths /\ Len(path) = 1 /\ InodesCount >= FirstInode
        /\ size \in Nat /\ from \in Nat /\ from <= size
    BY SparseAssumption, Ext2Assumption
  <1>2. ImageWith(path, size, s.first) = h BY DEF ImageWith
  <1> HIDE DEF from, size
  <1>3. Consistent(f) /\ Accounted(f) /\ Ents(f, EXT2_ROOT_INODE) = {} /\ AllSpare(f)
    BY EmptyIs
  <1>4. /\ f.inode_bitmap = {EXT2_ROOT_INODE} /\ f.inode[EXT2_ROOT_INODE] = RootNode
        /\ \A b \in Blocks : f.entries[b] = {}
    BY EmptyFields
  <1> HIDE DEF f
  <1>5. path \in Seq(Range(path)) /\ path # <<>> /\ Front(path) = <<>>
    <2>1. path \in Seq(Range(path)) BY <1>1, PathLen
    <2> HIDE DEF path
    <2>2. Front(path) = <<>> BY <1>1, <2>1 DEF Front
    <2> QED BY <1>1, <2>1, <2>2
  <1> HIDE DEF path
  <1>6. path_lookup(f, Front(path)) = EXT2_ROOT_INODE /\ EXT2_ROOT_INODE # 0
    BY <1>5, LookupRoot DEF EXT2_ROOT_INODE
  <1>7. path_lookup(f, path) = 0 BY <1>3, FindIs, <1>5, <1>6, LookupLast
  <1>8. parent_lookup(f, path) = EXT2_ROOT_INODE
    BY <1>4, <1>5, <1>6, RootNodeIs DEF parent_lookup, inode_is_dir
  <1>9. (FirstInode .. InodesCount) \ f.inode_bitmap # {}
    <2>1. FirstInode \in FirstInode .. InodesCount BY <1>1, Ext2Assumption
    <2> QED BY <1>4, <2>1, Dimensions
  <1>10. \E i \in 0 .. blocks_of(f.inode[EXT2_ROOT_INODE].size) - 1 :
            Cardinality(f.entries[block_id_at(f, f.inode[EXT2_ROOT_INODE], i)]) < DirCapacity
    <2>1. blocks_of(RootNode.size) = 1 BY Dimensions, BlocksOf, RootNodeIs
    <2>2. block_id_at(f, RootNode, 0) = 1
      BY Dimensions, Places, BlockAt, RootNodeIs DEF Slots
    <2>3. Cardinality(f.entries[1]) < DirCapacity
      <3>1. 1 \in Blocks BY RootNodeIs
      <3>2. f.entries[1] = {} BY <1>4, <3>1
      <3>3. Cardinality(f.entries[1]) = 0 BY <3>2, FS_EmptySet
      <3> QED BY <3>3, Ext2Assumption
    <2>4. 0 \in 0 .. blocks_of(RootNode.size) - 1 BY <2>1
    <2> QED BY <1>4, <2>2, <2>3, <2>4
  <1>11. /\ Intact(f, made) /\ Made(f, ext2_create_file(f, path), path, "file")
         /\ ino \in made.inode_bitmap \ Dirs(made)
    <2>1. LET r == ext2_create_file(f, path)
              parent == parent_lookup(f, path)
           IN  /\ Intact(f, r.fs) /\ Made(f, r, path, "file")
               /\ /\ path_lookup(f, path) = 0 /\ parent # 0
                  /\ (FirstInode .. InodesCount) \ f.inode_bitmap # {}
                  /\ \E i \in 0 .. blocks_of(f.inode[parent].size) - 1 :
                       Cardinality(f.entries[block_id_at(f, f.inode[parent], i)]) < DirCapacity
                  => path_lookup(r.fs, path) \in r.fs.inode_bitmap \ Dirs(r.fs)
      BY <1>1, <1>3, Created, Zenon
    <2> QED BY <1>6, <1>7, <1>8, <1>9, <1>10, <2>1
  <1> HIDE DEF made, ino
  <1>12. Consistent(made) /\ Accounted(made) /\ made \in Image /\ Owned(made) /\ BlocksCounted(made)
    BY <1>3, <1>11 DEF Intact, Consistent, Sound
  <1>13. made.inode[ino] \in InodeType /\ Within(made, made.inode[ino]) /\ ino \in made.inode_bitmap
    BY <1>11, <1>12, LiveNode
  <1>14. /\ node \in InodeType /\ node.block = made.inode[ino].block /\ node.mode = made.inode[ino].mode
         /\ node.links = made.inode[ino].links /\ node.blocks = made.inode[ino].blocks /\ node.size = size
    BY <1>1, <1>13, SMTT(30) DEF InodeType
  <1> HIDE DEF node
  <1>15. Within(made, node) /\ exact(made, node)
    BY <1>14, <1>12, <1>13 DEF slot, Accounted, inode_allocated_blocks, Within, exact
  <1>16. Result(w) /\ Grew(made, node, w.fs, w.node)
    BY <1>1, BlocksOf, <1>12, <1>14, <1>15, WriteBlocks
  <1>20. \A k \in Slots : at(made, ino, k) = 0
    <2>1. Keeps(f, made) BY <1>11 DEF Made, made
    <2>2. ino # EXT2_ROOT_INODE
      <3> SUFFICES ASSUME ino = EXT2_ROOT_INODE PROVE FALSE
        OBVIOUS
      <3>1. made.inode[EXT2_ROOT_INODE].mode = "dir"
        BY <1>4, <1>11, <2>1, RootNodeIs DEF Keeps
      <3> QED BY <1>11, <3>1 DEF Dirs
    <2>3. ~KeepsNames(f, made) BY <1>4, <1>11, <2>2 DEF KeepsNames
    <2>4. PICK x : /\ NamedIn(f, made, x, path, parent_lookup(f, path))
                   /\ \A k \in Slots : at(made, x, k) = 0
      BY <1>11, <2>3, KeepsAll DEF Made, made
    <2>5. ino = x BY <1>4, <1>11, <2>2, <2>4 DEF NamedIn
    <2> QED BY <2>4, <2>5
  <1>21. Spare(w.fs, w.node) /\ Elsewhere(made, made.inode[ino], w.fs)
    <2>1. \A k \in Slots : slot(made, node, k) = 0 /\ slot(made, made.inode[ino], k) = 0
      BY <1>14, <1>20 DEF slot, at
    <2>2. Distinct(made, node) /\ Spare(made, node)
      BY <2>1, Places DEF Distinct, Spare, content
    <2>3. Marked(made, node, from, size, blocks_of(size), w)
      BY <1>1, <1>12, <1>14, <1>15, <2>2, BlocksMarked
    <2> HIDE DEF w
    <2>4. size <= node.size BY <1>1, <1>14
    <2>5. Spare(w.fs, w.node) BY <1>1, <1>12, <1>14, <2>2, <2>3, <2>4, MarkedSpare
    <2>6. Elsewhere(made, made.inode[ino], w.fs) BY <2>1, <2>3 DEF Marked, Elsewhere
    <2> QED BY <2>5, <2>6
  <1> HIDE DEF w
  <1>17. /\ w.node \in InodeType /\ w.node.mode = made.inode[ino].mode
         /\ w.node.links = made.inode[ino].links /\ exact(w.fs, w.node)
    BY <1>14, <1>15, <1>16 DEF Grew
  <1>18. Touched(made, h, ino) /\ Accounted(h)
    BY <1>12, <1>13, <1>14, <1>16, <1>17, GrownTouched
  <1>22. h.data = w.fs.data /\ h.indirect = w.fs.indirect /\ h.inode[ino] = w.node
    <2>1. w.fs \in Image /\ ino \in Inodes BY <1>12, <1>13, <1>16, LiveNode DEF Grew
    <2>2. InodeSet(w.fs, ino, w.node, h) BY <1>17, <2>1, InodeIsSet
    <2>3. h.data = w.fs.data BY <2>1, InodeData
    <2> HIDE DEF h
    <2> QED BY <2>2, <2>3 DEF InodeSet, SameBlocks
  <1> HIDE DEF h
  <1>19. Consistent(h) BY <1>11, <1>12, <1>18, FileTouched
  <1>23. AllSpare(h)
    <2>1. AllSpare(made) BY <1>3, <1>11, MadeSpare DEF made
    <2>2. \A i : content(h, w.node, i) = content(w.fs, w.node, i)
      BY <1>22 DEF content, slot
    <2>3. Spare(h, h.inode[ino]) BY <1>21, <1>22, <2>2 DEF Spare
    <2>4. Elsewhere(made, made.inode[ino], h) BY <1>21, <1>22 DEF Elsewhere
    <2> QED BY <1>12, <1>13, <1>18, <2>1, <2>3, <2>4, SpareTouched
  <1> QED BY <1>2, <1>18, <1>19, <1>23 DEF path, size

LEMMA InitInv == Init => Ext2Inv
  <1> SUFFICES ASSUME Init PROVE Ext2Inv
    OBVIOUS
  <1>1. CASE fs = EmptyImage
    BY <1>1, EmptyIs DEF Init, Ext2Inv
  <1>2. CASE \E s \in Sparse : fs = ImageWith(s.path, s.size, s.first)
    BY <1>2, ImageWithIs DEF Init, Ext2Inv
  <1> QED BY <1>1, <1>2 DEF Init


-----------------------------------------------------------------------------
(* The steps. *)

LEMMA NextInv == Ext2Inv /\ [Next]_vars => Ext2Inv'
  <1> SUFFICES ASSUME Ext2Inv, [Next]_vars PROVE Ext2Inv'
    OBVIOUS
  <1>1. Consistent(fs) /\ (~cut_short => Accounted(fs)) /\ cut_short \in BOOLEAN
    BY DEF Ext2Inv
  <1>2. ASSUME NEW op, NEW path, NEW r, Intact(fs, r.fs), Call(op, path, r) PROVE Ext2Inv'
    BY <1>2, <1>1 DEF Call, Intact, Ext2Inv
  <1>3. ASSUME NEW op, NEW path, NEW pos, NEW len, NEW r, AsPromised(fs, r), CallForSpace(op, path, pos, len, r)
        PROVE  Ext2Inv'
    BY <1>3, <1>1 DEF CallForSpace, AsPromised, Ext2Inv
  <1>4. CASE CreateFile
    <2>1. PICK path \in Paths : Call("create", path, ext2_create_file(fs, path))
      BY <1>4 DEF CreateFile
    <2>2. Intact(fs, ext2_create_file(fs, path).fs) BY <1>1, Created
    <2> QED BY <1>2, <2>1, <2>2
  <1>5. CASE Mkdir
    <2>1. PICK path \in Paths : Call("mkdir", path, ext2_mkdir(fs, path))
      BY <1>5 DEF Mkdir
    <2> QED BY <1>1, <1>2, <2>1, MadeDir
  <1>6. CASE Unlink
    <2>1. PICK path \in Paths : Call("unlink", path, ext2_unlink(fs, path))
      BY <1>6 DEF Unlink
    <2> QED BY <1>1, <1>2, <2>1, Unlinked
  <1>7. CASE Rmdir
    <2>1. PICK path \in Paths : Call("rmdir", path, ext2_rmdir(fs, path))
      BY <1>7 DEF Rmdir
    <2> QED BY <1>1, <1>2, <2>1, RemovedDir
  <1>8. CASE Truncate
    <2>1. PICK path \in Paths, size \in Sizes : CallForSpace("truncate", path, size, 0, ext2_truncate_file(fs, path, size))
      BY <1>8 DEF Truncate
    <2>2. size \in Nat BY Ext2Assumption
    <2> QED BY <1>1, <1>3, <2>1, <2>2, Truncated
  <1>9. CASE Write
    <2>1. PICK path \in Paths, offset \in Sizes, len \in Lengths :
             CallForSpace("write", path, offset, len, ext2_write_file(fs, path, len, offset))
      BY <1>9 DEF Write
    <2>2. offset \in Nat /\ len \in Nat BY Ext2Assumption
    <2> QED BY <1>1, <1>3, <2>1, <2>2, FileWritten
  <1>10. CASE UNCHANGED vars
    BY <1>10, <1>1 DEF vars, Ext2Inv
  <1> QED BY <1>4, <1>5, <1>6, <1>7, <1>8, <1>9, <1>10 DEF Next

LEMMA ImageKept == Spec => []Ext2Inv
  <1> QED BY InitInv, NextInv, PTL DEF Spec

(* What callers see, as the step of FileTree writes it. *)
LEMMA TreeIs ==
    /\ [p \in Visible |-> IF inode_is_dir(Node(p)) THEN Dir ELSE file_data(fs, Node(p))] = shown(fs)
    /\ [p \in Visible |-> IF inode_is_dir(Node(p)) THEN Dir ELSE file_data(fs, Node(p))]' = shown(fs')
  BY DEF Visible, Node, shown, seen

LEMMA SpareInit == Init => AllSpare(fs)
  <1> SUFFICES ASSUME Init PROVE AllSpare(fs)
    OBVIOUS
  <1>1. CASE fs = EmptyImage
    BY <1>1, EmptyIs
  <1>2. CASE \E s \in Sparse : fs = ImageWith(s.path, s.size, s.first)
    BY <1>2, ImageWithIs
  <1> QED BY <1>1, <1>2 DEF Init

(* What one step of the driver is to its callers. *)
LEMMA StepServed ==
    ASSUME Ext2Inv, AllSpare(fs), Next
    PROVE  Serves(fs, last_call', fs')
  <1>1. Consistent(fs) BY DEF Ext2Inv
  <1>2. ASSUME NEW op, NEW path, NEW r, Call(op, path, r)
        PROVE  fs' = r.fs /\ last_call'.op = op /\ last_call'.path = path /\ last_call'.result = r.result
    BY <1>2 DEF Call, CallOf
  <1>3. ASSUME NEW op, NEW path, NEW pos, NEW len, NEW r, CallForSpace(op, path, pos, len, r)
        PROVE  /\ fs' = r.fs /\ last_call'.op = op /\ last_call'.path = path /\ last_call'.result = r.result
               /\ last_call'.at = pos /\ last_call'.len = len
    BY <1>3 DEF CallForSpace, CallOf
  <1>4. CASE CreateFile
    <2>1. PICK path \in Paths : Call("create", path, ext2_create_file(fs, path))
      BY <1>4 DEF CreateFile
    <2> DEFINE r == ext2_create_file(fs, path)
    <2>2. Intact(fs, r.fs) /\ Made(fs, r, path, "file") BY <1>1, Created
    <2>3. /\ fs' = r.fs /\ last_call'.path = path /\ last_call'.result = r.result
          /\ last_call'.op = IF "file" = "dir" THEN "mkdir" ELSE "create"
      BY <1>2, <2>1
    <2> HIDE DEF r
    <2> QED BY <1>1, <2>2, <2>3, MadeServed DEF Intact
  <1>5. CASE Mkdir
    <2>1. PICK path \in Paths : Call("mkdir", path, ext2_mkdir(fs, path))
      BY <1>5 DEF Mkdir
    <2> DEFINE r == ext2_mkdir(fs, path)
    <2>2. Intact(fs, r.fs) /\ Made(fs, r, path, "dir") BY <1>1, MadeDir
    <2>3. /\ fs' = r.fs /\ last_call'.path = path /\ last_call'.result = r.result
          /\ last_call'.op = IF "dir" = "dir" THEN "mkdir" ELSE "create"
      BY <1>2, <2>1
    <2> HIDE DEF r
    <2> QED BY <1>1, <2>2, <2>3, MadeServed DEF Intact
  <1>6. CASE Unlink
    <2>1. PICK path \in Paths : Call("unlink", path, ext2_unlink(fs, path))
      BY <1>6 DEF Unlink
    <2> DEFINE r == ext2_unlink(fs, path)
    <2>2. Intact(fs, r.fs) /\ Unmade(fs, r, path, "file") BY <1>1, Unlinked
    <2>3. /\ fs' = r.fs /\ last_call'.path = path /\ last_call'.result = r.result
          /\ last_call'.op = IF "file" = "dir" THEN "rmdir" ELSE "unlink"
      BY <1>2, <2>1
    <2> HIDE DEF r
    <2> QED BY <1>1, <2>2, <2>3, UnmadeServed DEF Intact
  <1>7. CASE Rmdir
    <2>1. PICK path \in Paths : Call("rmdir", path, ext2_rmdir(fs, path))
      BY <1>7 DEF Rmdir
    <2> DEFINE r == ext2_rmdir(fs, path)
    <2>2. Intact(fs, r.fs) /\ Unmade(fs, r, path, "dir") BY <1>1, RemovedDir
    <2>3. /\ fs' = r.fs /\ last_call'.path = path /\ last_call'.result = r.result
          /\ last_call'.op = IF "dir" = "dir" THEN "rmdir" ELSE "unlink"
      BY <1>2, <2>1
    <2> HIDE DEF r
    <2> QED BY <1>1, <2>2, <2>3, UnmadeServed DEF Intact
  <1>8. CASE Truncate
    <2>1. PICK path \in Paths, size \in Sizes :
             CallForSpace("truncate", path, size, 0, ext2_truncate_file(fs, path, size))
      BY <1>8 DEF Truncate
    <2>2. size \in Nat BY Ext2Assumption
    <2> DEFINE r == ext2_truncate_file(fs, path, size)
    <2>3. /\ fs' = r.fs /\ last_call'.op = "truncate" /\ last_call'.path = path /\ last_call'.at = size
          /\ last_call'.result = r.result
      BY <1>3, <2>1
    <2>4. Serves(fs, last_call', r.fs) BY <1>1, <2>2, <2>3, TruncateServed
    <2> HIDE DEF r
    <2> QED BY <2>3, <2>4
  <1>9. CASE Write
    <2>1. PICK path \in Paths, offset \in Sizes, len \in Lengths :
             CallForSpace("write", path, offset, len, ext2_write_file(fs, path, len, offset))
      BY <1>9 DEF Write
    <2>2. offset \in Nat /\ len \in Nat BY Ext2Assumption
    <2> DEFINE r == ext2_write_file(fs, path, len, offset)
    <2>3. /\ fs' = r.fs /\ last_call'.op = "write" /\ last_call'.path = path /\ last_call'.at = offset
          /\ last_call'.len = len /\ last_call'.result = r.result
      BY <1>3, <2>1
    <2>4. Serves(fs, last_call', r.fs) BY <1>1, <2>2, <2>3, WriteServed
    <2> HIDE DEF r
    <2> QED BY <2>3, <2>4
  <1> QED BY <1>4, <1>5, <1>6, <1>7, <1>8, <1>9 DEF Next

(* To its callers the driver is the tree of module FileTree, at every size *)
(* of the image and whatever it runs out of: a call that returns 0 (len,   *)
(* if it writes) has made the change it is for at the path it was given,   *)
(* and no other; USER_ERR_INVAL answers exactly the calls that the tree    *)
(* does not allow; a call that fails leaves the tree as it was, but for a  *)
(* write without space, done in part within the units it was given.  The   *)
(* invariant of the proof is that of the theorems above, and that the      *)
(* blocks of a file beyond its end are blank, which is what a file that    *)
(* grows again shows.                                                      *)
THEOREM ImplementsFileTree == Spec => ServesTree
  <1>1. Init => Tree!Init BY ShownIs, TreeIs DEF Init, Tree!Init
  <1>2. Ext2Inv /\ AllSpare(fs) /\ [Next]_vars => [Tree!Next]_Tree!vars
    <2> SUFFICES ASSUME Ext2Inv, AllSpare(fs), [Next]_vars PROVE [Tree!Next]_Tree!vars
      OBVIOUS
    <2>1. CASE Next
      <3>1. Tree!Step(shown(fs), shown(fs'), last_call') BY <2>1, StepServed DEF Serves
      <3> QED BY <3>1, TreeIs DEF Tree!Next
    <2>2. CASE UNCHANGED vars
      <3>1. shown(fs') = shown(fs) /\ last_call' = last_call BY <2>2 DEF vars
      <3> QED BY <3>1, TreeIs DEF Tree!vars
    <2> QED BY <2>1, <2>2
  <1>3. Ext2Inv /\ AllSpare(fs) /\ [Next]_vars => AllSpare(fs)'
    <2> SUFFICES ASSUME Ext2Inv, AllSpare(fs), [Next]_vars PROVE AllSpare(fs)'
      OBVIOUS
    <2>1. CASE Next
      BY <2>1, StepServed DEF Serves
    <2>2. CASE UNCHANGED vars
      BY <2>2 DEF vars
    <2> QED BY <2>1, <2>2
  <1> QED BY <1>1, <1>2, <1>3, SpareInit, InitInv, NextInv, PTL DEF Spec, ServesTree, Tree!Spec

(* The maps in use, as the properties write them. *)
LEMMA ReferencedIs ==
    ASSUME Consistent(fs)
    PROVE  \A b : b \in Referenced <=> b # 0 /\ \E i \in Live, k \in Slots : at(fs, i, k) = b
  <1>1. fs \in Image /\ Owned(fs) BY DEF Consistent, Sound
  <1>2. ASSUME NEW i \in Live
        PROVE  \A b : b \in mapped_blocks(fs, fs.inode[i]) <=> b # 0 /\ \E k \in Slots : at(fs, i, k) = b
    BY <1>1, LiveNode, MappedIs DEF Live, taken, at
  <1> QED BY <1>2 DEF Referenced

(* Their sum, and that of the entries. *)
LEMMA SumOfBlocks ==
    ASSUME NEW f, NEW S
    PROVE  MapThenSumSet(LAMBDA ino : inode_allocated_blocks(f, f.inode[ino]), S)
             = SumOver([i \in S |-> inode_allocated_blocks(f, f.inode[i])], S)
  <1> DEFINE c == [i \in S |-> inode_allocated_blocks(f, f.inode[i])]
             F(h) == [s \in SUBSET S |->
                        IF s = {} THEN 0
                        ELSE inode_allocated_blocks(f, f.inode[pick(s)]) + h[s \ {pick(s)}]]
  <1>1. ASSUME NEW h PROVE F(h) = SumStep(c, S, h)
    <2>1. ASSUME NEW s \in SUBSET S, s # {}
          PROVE  c[pick(s)] = inode_allocated_blocks(f, f.inode[pick(s)])
      BY <2>1 DEF pick
    <2> HIDE DEF c
    <2> QED BY <2>1 DEF SumStep
  <1>2. MapThenSumSet(LAMBDA ino : inode_allocated_blocks(f, f.inode[ino]), S) = (CHOOSE h : h = F(h))[S]
    BY Zenon DEF MapThenSumSet, MapThenFoldSet, pick
  <1>3. SumOver(c, S) = Iter(c, S)[S] BY SumIsIter
  <1> HIDE DEF F, c
  <1>4. (CHOOSE h : h = F(h)) = (CHOOSE h : h = SumStep(c, S, h)) BY <1>1
  <1> QED BY <1>2, <1>3, <1>4 DEF c, Iter

LEMMA SumOfEntries ==
    ASSUME NEW S
    PROVE  MapThenSumSet(LAMBDA ino : Cardinality(Entries(ino)), S)
             = SumOver([i \in S |-> Cardinality(Entries(i))], S)
  <1> DEFINE c == [i \in S |-> Cardinality(Entries(i))]
             F(h) == [s \in SUBSET S |->
                        IF s = {} THEN 0 ELSE Cardinality(Entries(pick(s))) + h[s \ {pick(s)}]]
  <1>1. ASSUME NEW h PROVE F(h) = SumStep(c, S, h)
    <2>1. ASSUME NEW s \in SUBSET S, s # {}
          PROVE  c[pick(s)] = Cardinality(Entries(pick(s)))
      BY <2>1 DEF pick
    <2> HIDE DEF c
    <2> QED BY <2>1 DEF SumStep
  <1>2. MapThenSumSet(LAMBDA ino : Cardinality(Entries(ino)), S) = (CHOOSE h : h = F(h))[S]
    BY Zenon DEF MapThenSumSet, MapThenFoldSet, pick
  <1>3. SumOver(c, S) = Iter(c, S)[S] BY SumIsIter
  <1> HIDE DEF F, c
  <1>4. (CHOOSE h : h = F(h)) = (CHOOSE h : h = SumStep(c, S, h)) BY <1>1
  <1> QED BY <1>2, <1>3, <1>4 DEF c, Iter

LEMMA OwnedIsOnce == ASSUME Consistent(fs) PROVE BlocksOwnedOnce
  <1> DEFINE F == [i \in Live |-> {at(fs, i, k) : k \in taken(fs, fs.inode[i])}]
             c == [i \in Live |-> inode_allocated_blocks(fs, fs.inode[i])]
  <1>1. fs \in Image /\ Owned(fs) /\ IsFiniteSet(Live)
    BY Fields DEF Consistent, Sound, Live
  <1>2. ASSUME NEW i \in Live PROVE IsFiniteSet(F[i]) /\ c[i] = Cardinality(F[i])
    <2> DEFINE T == taken(fs, fs.inode[i])
               g == [k \in T |-> at(fs, i, k)]
    <2>1. fs.inode[i] \in InodeType BY <1>1, LiveNode DEF Live
    <2>2. c[i] = Cardinality(T) BY <1>1, <2>1, AllocatedIs
    <2>3. IsFiniteSet(T) BY SlotsFinite
    <2>4. \A x, y \in T : g[x] = g[y] => x = y
      <3>1. \A x \in T : x \in Slots /\ at(fs, i, x) # 0 /\ g[x] = at(fs, i, x)
        BY DEF taken, at
      <3> HIDE DEF g, T
      <3> QED BY <1>1, <3>1 DEF Owned, Live
    <2>5. F[i] = {g[k] : k \in T} OBVIOUS
    <2> HIDE DEF F, c, g, T
    <2> QED BY <2>2, <2>3, <2>4, <2>5, CardOfImage
  <1>3. \A i \in Live : \A b : b \in F[i] <=> b # 0 /\ \E k \in Slots : at(fs, i, k) = b
    BY DEF taken, at
  <1>4. \A b : b \in Referenced <=> b # 0 /\ \E i \in Live, k \in Slots : at(fs, i, k) = b
    BY ReferencedIs
  <1> HIDE DEF F
  <1>5. \A i, j \in Live : i # j => F[i] \cap F[j] = {} BY <1>1, <1>3 DEF Owned, Live
  <1>6. Referenced = UNION {F[i] : i \in Live} BY <1>3, <1>4
  <1>7. SumOver(c, Live) = Cardinality(UNION {F[i] : i \in Live})
    <2> HIDE DEF c
    <2> QED BY <1>1, <1>2, <1>5, SumOfDisjoint
  <1>8. MapThenSumSet(LAMBDA ino : inode_allocated_blocks(fs, fs.inode[ino]), Live) = SumOver(c, Live)
    BY SumOfBlocks
  <1>9. Referenced \subseteq fs.block_bitmap BY <1>1, <1>4 DEF Owned, Live
  <1> HIDE DEF c
  <1>10. MapThenSumSet(LAMBDA ino : inode_allocated_blocks(fs, fs.inode[ino]), Live) = Cardinality(Referenced)
    BY <1>6, <1>7, <1>8
  <1> QED BY <1>9, <1>10 DEF BlocksOwnedOnce

LEMMA DirsAre == ASSUME Consistent(fs) PROVE LiveDirs = Dirs(fs) /\ \A d : Entries(d) = Ents(fs, d)
  BY DEF LiveDirs, Live, Dirs, inode_is_dir, Entries, Ents

LEMMA TreeIsOne == ASSUME Consistent(fs) PROVE OneTree
  <1> DEFINE root == EXT2_ROOT_INODE
             D == Dirs(fs)
             F == [d \in D |-> Ents(fs, d)]
             c == [d \in D |-> Cardinality(Ents(fs, d))]
             U == UNION {F[d] : d \in D}
             g == [e \in U |-> e.ino]
  <1>1. fs \in Image /\ Full(fs) /\ IsTree(fs) /\ IsFiniteSet(Live) /\ root \in Live /\ Live \subseteq Inodes
    BY Fields DEF Consistent, Sound, Live, IsTree, Dirs
  <1>2. D \subseteq Live /\ IsFiniteSet(D) BY <1>1, FS_Subset DEF Dirs, Live
  <1>3. {path_lookup(fs, p) : p \in Paths} \ {0, root} = Live \ {root}
    BY <1>1, TreeFind, PathLen, Dimensions DEF Live, IsTree
  <1>4. \A d \in D : \A e \in Ents(fs, d) : e.ino \in Live \ {root}
    BY <1>1 DEF IsTree, Live
  <1>5. \A d \in D : IsFiniteSet(F[d]) /\ c[d] = Cardinality(F[d]) /\ F[d] = Ents(fs, d)
    BY <1>1, SubdirsFinite
  <1>6. \A d, b \in D : \A e \in Ents(fs, d), x \in Ents(fs, b) : e.ino = x.ino => d = b /\ e = x
    BY <1>1 DEF IsTree
  <1>7. SumOver(c, D) = Cardinality(U)
    <2>1. \A d, b \in D : d # b => F[d] \cap F[b] = {} BY <1>5, <1>6
    <2> HIDE DEF F, c, D
    <2> QED BY <1>2, <1>5, <2>1, SumOfDisjoint
  <1> HIDE DEF F
  <1>8. \A e \in U : g[e] = e.ino /\ \E d \in D : e \in Ents(fs, d) BY <1>5
  <1>9. \A e, x \in U : g[e] = g[x] => e = x BY <1>6, <1>8
  <1>10. {g[e] : e \in U} = Live \ {root}
    <2>1. \A e \in U : g[e] \in Live \ {root} BY <1>4, <1>8
    <2>2. ASSUME NEW i \in Live \ {root} PROVE \E e \in U : g[e] = i
      <3>1. PICK p \in Paths : path_lookup(fs, p) = i
        BY <1>3
      <3>2. i # 0 /\ i # root BY <1>1, Dimensions
      <3>3. p \in Seq(Range(p)) /\ p # <<>> BY <3>1, <3>2, PathLen, LookupRoot
      <3> DEFINE up == path_lookup(fs, Front(p))
      <3>4. i = IF up = 0 THEN 0 ELSE find_in_dir(fs, up, Last(p))
        BY <3>1, <3>3, LookupLast
      <3>5. up # 0 /\ find_in_dir(fs, up, Last(p)) = i BY <3>2, <3>4
      <3>6. up \in Live BY <3>3, PathLen, <1>1, <3>5, TreeFind DEF Front, Live
      <3> HIDE DEF up
      <3>7. up \in D /\ \E e \in Ents(fs, up) : e.ino = i
        BY <1>1, <3>2, <3>5, <3>6, TreeFind, FindIs DEF Live
      <3>8. PICK e \in Ents(fs, up) : e.ino = i
        BY <3>7
      <3>9. e \in U BY <1>5, <3>7, <3>8
      <3> QED BY <1>8, <3>8, <3>9
    <2> HIDE DEF g, U
    <2> QED BY <2>1, <2>2
  <1>11. IsFiniteSet(U) /\ Cardinality(U) = Cardinality(Live) - 1
    <2>1. IsFiniteSet(U)
      <3>1. IsFiniteSet({F[d] : d \in D})
        <4>1. F \in Surjection(D, {F[d] : d \in D}) BY DEF Surjection, F
        <4> QED BY <1>2, <4>1, FS_Surjection
      <3>2. \A S \in {F[d] : d \in D} : IsFiniteSet(S) BY <1>5
      <3> QED BY <3>1, <3>2, FS_UNION
    <2> HIDE DEF g, U
    <2>2. Cardinality({g[e] : e \in U}) = Cardinality(U) BY <1>9, <2>1, CardOfImage
    <2>3. Cardinality(Live \ {root}) = Cardinality(Live) - 1 BY <1>1, FS_RemoveElement
    <2> QED BY <1>10, <2>1, <2>2, <2>3
  <1>12. MapThenSumSet(LAMBDA ino : Cardinality(Entries(ino)), LiveDirs) = Cardinality(Live) - 1
    <2>1. LiveDirs = D /\ \A d : Entries(d) = Ents(fs, d) BY DirsAre
    <2>2. MapThenSumSet(LAMBDA ino : Cardinality(Entries(ino)), LiveDirs)
             = SumOver([i \in LiveDirs |-> Cardinality(Entries(i))], LiveDirs)
      BY SumOfEntries
    <2>3. [i \in LiveDirs |-> Cardinality(Entries(i))] = c BY <2>1
    <2> HIDE DEF U, c, D
    <2> QED BY <1>7, <1>11, <2>1, <2>2, <2>3
  <1>13. \A ino \in LiveDirs : \A e \in Entries(ino) : e.ino \in Live \ {root}
    BY <1>4, DirsAre
  <1> QED BY <1>3, <1>12, <1>13 DEF OneTree

-----------------------------------------------------------------------------
(* The properties. *)

(* No two places of the block maps of inodes in use hold one block, and    *)
(* the bitmap has every block that is in one, so that allocate_block never *)
(* hands out a block of a file: whatever calls create, grow, shrink, fail  *)
(* half-way for want of space, give back or remove.                        *)
THEOREM BlocksHaveOneOwner == Spec => []BlocksOwnedOnce
  <1>1. Ext2Inv => BlocksOwnedOnce BY OwnedIsOnce DEF Ext2Inv
  <1> QED BY <1>1, ImageKept, PTL

(* The counts of free blocks, free inodes and directories are those of the *)
(* bitmaps after every call, the failing ones too.                         *)
THEOREM CountsOfBitmapsAreExact == Spec => []CountsExact
  <1>1. Ext2Inv => CountsExact
    <2> SUFFICES ASSUME Consistent(fs) PROVE CountsExact
      BY DEF Ext2Inv
    <2> QED BY DirsAre DEF Consistent, Sound, BlocksCounted, InodesCounted, CountsExact
  <1> QED BY <1>1, ImageKept, PTL

(* The inodes in use are a tree with one name each: a path leads to every  *)
(* one, and no name leads to an inode that was freed.                      *)
THEOREM NamesFormATree == Spec => []OneTree
  <1>1. Ext2Inv => OneTree BY TreeIsOne DEF Ext2Inv
  <1> QED BY <1>1, ImageKept, PTL

(* A directory has a link for itself and for each directory in it. *)
THEOREM DirectoriesHaveTheirLinks == Spec => []LinksSuffice
  <1>1. Ext2Inv => LinksSuffice
    <2> SUFFICES ASSUME Consistent(fs) PROVE LinksSuffice
      BY DEF Ext2Inv
    <2>1. LiveDirs = Dirs(fs) /\ \A d : Entries(d) = Ents(fs, d) BY DirsAre
    <2>2. \A d \in Dirs(fs) : fs.inode[d].links >= 2 + Cardinality(Subdirs(fs, d))
      BY DEF Consistent, IsTree
    <2> QED BY <2>1, <2>2 DEF LinksSuffice, Subdirs
  <1> QED BY <1>1, ImageKept, PTL

(* Until a write or a truncate runs out of space no block leaks: each that *)
(* is marked is in a map, though ext2_create_file, ext2_mkdir and          *)
(* set_block_id_at fail after they took blocks and inodes.                 *)
THEOREM NoBlockLeaks == Spec => []BlocksAccounted
  <1>1. Ext2Inv => BlocksAccounted
    <2> SUFFICES ASSUME Consistent(fs), Accounted(fs)
                 PROVE  /\ fs.block_bitmap = Referenced
                        /\ \A ino \in Live : fs.inode[ino].blocks = inode_allocated_blocks(fs, fs.inode[ino])
      BY DEF Ext2Inv, BlocksAccounted
    <2>1. fs \in Image /\ Owned(fs) BY DEF Consistent, Sound
    <2>2. \A b : b \in Referenced <=> b # 0 /\ \E i \in Live, k \in Slots : at(fs, i, k) = b
      BY ReferencedIs
    <2>3. \A b \in fs.block_bitmap : b # 0 BY <2>1, Fields, Dimensions
    <2>4. Referenced \subseteq fs.block_bitmap BY <2>1, <2>2 DEF Owned, Live
    <2>5. fs.block_bitmap \subseteq Referenced BY <2>2, <2>3 DEF Accounted, Live
    <2>6. \A ino \in Live : fs.inode[ino].blocks = inode_allocated_blocks(fs, fs.inode[ino])
      BY DEF Accounted, exact, Live
    <2> QED BY <2>4, <2>5, <2>6
  <1> QED BY <1>1, ImageKept, PTL

-----------------------------------------------------------------------------
(* The disk. *)

(* The drive keeps an image of the size it was made with. *)
Whole(d) ==
    /\ d = [field \in DOMAIN d |-> d[field]]
    /\ {"free_blocks_count", "free_inodes_count", "used_dirs_count", "superblock",
        "block_bitmap", "inode_bitmap", "inode", "indirect", "entries", "data"} \subseteq DOMAIN d
    /\ d.inode = [i \in Inodes |-> d.inode[i]]
    /\ d.indirect = [b \in Blocks |-> d.indirect[b]]
    /\ d.entries = [b \in Blocks |-> d.entries[b]]
    /\ d.data = [b \in Blocks |-> d.data[b]]

(* Where the writeback is. *)
Writeback ==
    /\ writing \in 0 .. LastSector
    /\ mount = "off" => writing = 0
    /\ writing # 0 => \A s \in (1 .. writing - 1) \ lost : same_sector(disk, fs, s)

IInv == Whole(disk) /\ Writeback /\ AckedOnDisk

-----------------------------------------------------------------------------
(* Sectors. *)

(* A sector is the counts, a bitmap, an inode or a block. *)
LEMMA Sectors ==
    /\ FirstBlock \in Nat /\ FirstBlock > 3
    /\ LastSector \in Nat /\ LastSector > FirstBlock
    /\ \A s \in 4 .. FirstBlock : InodeAt[s - 3] \in Inodes
    /\ \A s \in FirstBlock + 1 .. LastSector : s - FirstBlock \in Blocks
<1>1. InodesCount - FirstInode + 2 \in Nat /\ InodesCount - FirstInode + 2 >= 1
  BY Ext2Assumption
<1>2. Len(InodeAt) = InodesCount - FirstInode + 2 BY <1>1 DEF InodeAt
<1>3. FirstBlock \in Nat /\ FirstBlock > 3 /\ FirstBlock = InodesCount - FirstInode + 5
  BY <1>1, <1>2, Ext2Assumption DEF FirstBlock
<1>4. LastSector \in Nat /\ LastSector > FirstBlock /\ LastSector = FirstBlock + BlocksCount - 1
  BY <1>3, Ext2Assumption DEF LastSector
<1>5. ASSUME NEW s \in 4 .. FirstBlock PROVE InodeAt[s - 3] \in Inodes
  BY <1>1, <1>3, Ext2Assumption DEF InodeAt, Inodes, EXT2_ROOT_INODE
<1>6. ASSUME NEW s \in FirstBlock + 1 .. LastSector PROVE s - FirstBlock \in Blocks
  BY <1>3, <1>4, Ext2Assumption DEF Blocks
<1> QED
  BY <1>3, <1>4, <1>5, <1>6

(* Every image has the sectors it has. *)
LEMMA SameAsItself ==
    ASSUME NEW d, NEW s
    PROVE  same_sector(d, d, s)
  BY DEF same_sector

(* What write_sector writes is there, and the rest stays. *)
LEMMA Written ==
    ASSUME NEW d, Whole(d), NEW m, NEW s \in 1 .. LastSector
    PROVE  /\ Whole(write_sector(d, m, s))
           /\ same_sector(write_sector(d, m, s), m, s)
           /\ \A t \in 1 .. LastSector : same_sector(d, m, t) => same_sector(write_sector(d, m, s), m, t)
<1> DEFINE e == write_sector(d, m, s)
<1>1. CASE s = 1
  <2>1. e = [d EXCEPT !.free_blocks_count = m.free_blocks_count,
                      !.free_inodes_count = m.free_inodes_count,
                      !.used_dirs_count = m.used_dirs_count,
                      !.superblock = m.superblock]
    BY <1>1 DEF write_sector
  <2>2. /\ e.block_bitmap = d.block_bitmap /\ e.inode_bitmap = d.inode_bitmap
        /\ e.inode = d.inode /\ e.indirect = d.indirect /\ e.entries = d.entries
        /\ e.data = d.data
        /\ e.free_blocks_count = m.free_blocks_count
        /\ e.free_inodes_count = m.free_inodes_count
        /\ e.used_dirs_count = m.used_dirs_count
        /\ e.superblock = m.superblock
        /\ e = [field \in DOMAIN d |-> e[field]] /\ DOMAIN e = DOMAIN d
    BY <2>1 DEF Whole
  <2> HIDE DEF e
  <2>3. Whole(e) BY <2>2 DEF Whole
  <2>4. same_sector(e, m, s) BY <1>1, <2>2 DEF same_sector
  <2>5. ASSUME NEW t \in 1 .. LastSector, same_sector(d, m, t) PROVE same_sector(e, m, t)
    BY <2>2, <2>5 DEF same_sector
  <2> QED
    BY <2>3, <2>4, <2>5 DEF e
<1>2. CASE s = 2
  <2>1. e = [d EXCEPT !.block_bitmap = m.block_bitmap] BY <1>2 DEF write_sector
  <2>2. /\ e.block_bitmap = m.block_bitmap /\ e.inode_bitmap = d.inode_bitmap
        /\ e.inode = d.inode /\ e.indirect = d.indirect /\ e.entries = d.entries
        /\ e.data = d.data
        /\ e.free_blocks_count = d.free_blocks_count
        /\ e.free_inodes_count = d.free_inodes_count
        /\ e.used_dirs_count = d.used_dirs_count
        /\ e.superblock = d.superblock
        /\ e = [field \in DOMAIN d |-> e[field]] /\ DOMAIN e = DOMAIN d
    BY <2>1 DEF Whole
  <2> HIDE DEF e
  <2>3. Whole(e) BY <2>2 DEF Whole
  <2>4. same_sector(e, m, s) BY <1>2, <2>2 DEF same_sector
  <2>5. ASSUME NEW t \in 1 .. LastSector, same_sector(d, m, t) PROVE same_sector(e, m, t)
    BY <2>2, <2>5 DEF same_sector
  <2> QED
    BY <2>3, <2>4, <2>5 DEF e
<1>3. CASE s = 3
  <2>1. e = [d EXCEPT !.inode_bitmap = m.inode_bitmap] BY <1>3 DEF write_sector
  <2>2. /\ e.block_bitmap = d.block_bitmap /\ e.inode_bitmap = m.inode_bitmap
        /\ e.inode = d.inode /\ e.indirect = d.indirect /\ e.entries = d.entries
        /\ e.data = d.data
        /\ e.free_blocks_count = d.free_blocks_count
        /\ e.free_inodes_count = d.free_inodes_count
        /\ e.used_dirs_count = d.used_dirs_count
        /\ e.superblock = d.superblock
        /\ e = [field \in DOMAIN d |-> e[field]] /\ DOMAIN e = DOMAIN d
    BY <2>1 DEF Whole
  <2> HIDE DEF e
  <2>3. Whole(e) BY <2>2 DEF Whole
  <2>4. same_sector(e, m, s) BY <1>3, <2>2 DEF same_sector
  <2>5. ASSUME NEW t \in 1 .. LastSector, same_sector(d, m, t) PROVE same_sector(e, m, t)
    BY <2>2, <2>5 DEF same_sector
  <2> QED
    BY <2>3, <2>4, <2>5 DEF e
<1>4. CASE s \in 4 .. FirstBlock
  <2> DEFINE x == InodeAt[s - 3]
  <2>1. e = [d EXCEPT !.inode[x] = m.inode[x]] BY <1>4, Sectors DEF write_sector
  <2>2. x \in Inodes BY <1>4, Sectors
  <2> HIDE DEF x
  <2>3. /\ e.block_bitmap = d.block_bitmap /\ e.inode_bitmap = d.inode_bitmap
        /\ e.indirect = d.indirect /\ e.entries = d.entries /\ e.data = d.data
        /\ e.free_blocks_count = d.free_blocks_count
        /\ e.free_inodes_count = d.free_inodes_count
        /\ e.used_dirs_count = d.used_dirs_count
        /\ e.superblock = d.superblock
        /\ e.inode = [d.inode EXCEPT ![x] = m.inode[x]]
        /\ e = [field \in DOMAIN d |-> e[field]] /\ DOMAIN e = DOMAIN d
    BY <2>1 DEF Whole
  <2> HIDE DEF e
  <2>4. /\ e.inode = [i \in Inodes |-> e.inode[i]]
        /\ \A i \in Inodes : e.inode[i] = IF i = x THEN m.inode[x] ELSE d.inode[i]
    BY <2>2, <2>3 DEF Whole
  <2>5. Whole(e) BY <2>3, <2>4 DEF Whole
  <2>6. same_sector(e, m, s) BY <1>4, <2>2, <2>4, Sectors DEF same_sector, x
  <2>7. ASSUME NEW t \in 1 .. LastSector, same_sector(d, m, t) PROVE same_sector(e, m, t)
    <3>1. CASE t \in 4 .. FirstBlock
      BY <3>1, Sectors, <2>7, <2>4 DEF same_sector
    <3>2. CASE t \notin 4 .. FirstBlock
      BY <3>2, <2>3, <2>7 DEF same_sector
    <3> QED
      BY <3>1, <3>2
  <2> QED
    BY <2>5, <2>6, <2>7 DEF e
<1>5. CASE s \in FirstBlock + 1 .. LastSector
  <2> DEFINE b == s - FirstBlock
  <2>1. e = [d EXCEPT !.indirect[b] = m.indirect[b], !.entries[b] = m.entries[b],
                      !.data[b] = m.data[b]]
    BY <1>5, Sectors DEF write_sector
  <2>2. b \in Blocks BY <1>5, Sectors
  <2> HIDE DEF b
  <2>3. /\ e.block_bitmap = d.block_bitmap /\ e.inode_bitmap = d.inode_bitmap
        /\ e.inode = d.inode
        /\ e.free_blocks_count = d.free_blocks_count
        /\ e.free_inodes_count = d.free_inodes_count
        /\ e.used_dirs_count = d.used_dirs_count
        /\ e.superblock = d.superblock
        /\ e.indirect = [d.indirect EXCEPT ![b] = m.indirect[b]]
        /\ e.entries = [d.entries EXCEPT ![b] = m.entries[b]]
        /\ e.data = [d.data EXCEPT ![b] = m.data[b]]
        /\ e = [field \in DOMAIN d |-> e[field]] /\ DOMAIN e = DOMAIN d
    BY <2>1, ZenonT(60) DEF Whole
  <2> HIDE DEF e
  <2>4. /\ e.indirect = [c \in Blocks |-> e.indirect[c]]
        /\ e.entries = [c \in Blocks |-> e.entries[c]]
        /\ e.data = [c \in Blocks |-> e.data[c]]
        /\ \A c \in Blocks :
              /\ e.indirect[c] = IF c = b THEN m.indirect[b] ELSE d.indirect[c]
              /\ e.entries[c] = IF c = b THEN m.entries[b] ELSE d.entries[c]
              /\ e.data[c] = IF c = b THEN m.data[b] ELSE d.data[c]
    BY <2>2, <2>3 DEF Whole
  <2>5. Whole(e) BY <2>3, <2>4 DEF Whole
  <2>6. same_sector(e, m, s) BY <1>5, <2>2, <2>4, Sectors DEF same_sector, b
  <2>7. ASSUME NEW t \in 1 .. LastSector, same_sector(d, m, t) PROVE same_sector(e, m, t)
    <3>1. CASE t \in FirstBlock + 1 .. LastSector
      BY <3>1, Sectors, <2>7, <2>4 DEF same_sector
    <3>2. CASE t \in 1 .. FirstBlock
      BY <3>2, <2>3, <2>7, Sectors DEF same_sector
    <3> QED
      BY <3>1, <3>2, Sectors
  <2> QED
    BY <2>5, <2>6, <2>7 DEF e
<1> QED
  BY <1>1, <1>2, <1>3, <1>4, <1>5, Sectors

-----------------------------------------------------------------------------
(* The writeback. *)

(* The rounds that next_round passes over are those of sectors the disk    *)
(* has already.                                                            *)
LEMMA Rounds ==
    ASSUME NEW i \in 1 .. LastSector, i # LastSector
    PROVE  /\ next_round(i) \in i + 1 .. LastSector
           /\ \A j \in i + 1 .. next_round(i) - 1 : same_sector(disk, fs, j)
<1> DEFINE S == {j \in i + 1 .. LastSector : j = LastSector \/ ~same_sector(disk, fs, lba(j))}
<1>1. S \in SUBSET Nat /\ S # {} BY Sectors
<1>2. Min(S) \in S /\ \A j \in S : Min(S) <= j
  <2> HIDE DEF S
  <2> QED
    BY <1>1, MinIsLeast
<1>3. next_round(i) = Min(S) BY DEF next_round
<1>4. ASSUME NEW j \in i + 1 .. next_round(i) - 1 PROVE same_sector(disk, fs, j)
  BY <1>2, <1>3, Sectors DEF lba
<1> QED
  BY <1>2, <1>3, <1>4

(* A round of the writeback that ends with the sectors up to the one it    *)
(* was at done, or lost, leaves the writeback as it must be.               *)
LEMMA NextRound ==
    ASSUME IInv, writing # 0, NextSector, fs' = fs, mount' = mount,
           \A s \in 1 .. LastSector : same_sector(disk, fs, s) => same_sector(disk', fs, s),
           \A s \in (1 .. writing) \ lost' : same_sector(disk', fs, s)
    PROVE  Writeback' /\ AckedOnDisk'
<1>1. writing \in 1 .. LastSector BY Sectors DEF IInv, Writeback
<1>2. mount' # "off" BY DEF IInv, Writeback
<1>3. CASE writing = LastSector
  BY <1>3, Sectors DEF NextSector, Succeeds, Writeback, AckedOnDisk
<1>4. CASE writing # LastSector
  <2>1. writing' = next_round(writing) BY <1>4 DEF NextSector
  <2>2. /\ next_round(writing) \in writing + 1 .. LastSector
        /\ \A j \in writing + 1 .. next_round(writing) - 1 : same_sector(disk, fs, j)
    BY <1>1, <1>4, Rounds
  <2>3. writing' \in 0 .. LastSector /\ writing' # 0 BY <1>1, <2>1, <2>2, Sectors
  <2>4. ASSUME NEW s \in (1 .. writing' - 1) \ lost' PROVE same_sector(disk', fs', s)
    <3>1. CASE s \in 1 .. writing
      BY <3>1
    <3>2. CASE s \in writing + 1 .. next_round(writing) - 1
      BY <1>1, <2>2, <3>2, Sectors
    <3> QED
      BY <1>1, <2>1, <2>2, <3>1, <3>2, Sectors
  <2> QED
    BY <1>2, <2>3, <2>4 DEF Writeback, AckedOnDisk
<1> QED
  BY <1>3, <1>4

-----------------------------------------------------------------------------
(* The calls: what each returns is a number, 0 or more if it worked. *)

LEMMA Results ==
    ASSUME NEW f, NEW names
    PROVE  /\ ext2_create_file(f, names).result \in Int
           /\ ext2_mkdir(f, names).result \in Int
           /\ ext2_unlink(f, names).result \in Int
           /\ ext2_rmdir(f, names).result \in Int
           /\ \A size \in Sizes : ext2_truncate_file(f, names, size).result \in Int
           /\ \A len \in Lengths, offset \in Sizes :
                 ext2_write_file(f, names, len, offset).result \in Int
<1>1. \A g : Done(g).result \in Int BY DEF Done
<1>2. \A g : Failed(g, USER_ERR_FAULT).result \in Int /\ Failed(g, USER_ERR_INVAL).result \in Int
  BY DEF Failed, USER_ERR_FAULT, USER_ERR_INVAL
<1>3. ext2_create_file(f, names).result \in Int
  BY <1>1, <1>2 DEF ext2_create_file, create_in, named_or_undone
<1>4. ext2_mkdir(f, names).result \in Int
  BY <1>1, <1>2 DEF ext2_mkdir, mkdir_in, mkdir_named_or_undone
<1>5. ext2_unlink(f, names).result \in Int BY <1>1, <1>2 DEF ext2_unlink
<1>6. ext2_rmdir(f, names).result \in Int BY <1>1, <1>2 DEF ext2_rmdir
<1>7. ASSUME NEW size \in Sizes PROVE ext2_truncate_file(f, names, size).result \in Int
  BY <1>1, <1>2 DEF ext2_truncate_file, done_or_fault
<1>8. ASSUME NEW len \in Lengths, NEW offset \in Sizes
      PROVE  ext2_write_file(f, names, len, offset).result \in Int
  BY Ext2Assumption, <1>2 DEF wrote, write_resized, ext2_write_file
<1> QED
  BY <1>3, <1>4, <1>5, <1>6, <1>7, <1>8

(* Whatever a call has done to the image: it worked and the writeback      *)
(* begins, or it failed and there is trouble if anything changed.          *)
LEMMA CallReturns ==
    ASSUME IInv, Running, NEW names, NEW r, NEW removes, r.result \in Int,
           Returns(names, r, removes)
    PROVE  IInv'
<1>1. mount = "disk" /\ writing = 0 /\ mount' = mount /\ disk' = disk /\ lost' = lost
  BY DEF Running, Returns
<1>2. CASE r.result >= 0
  BY <1>2, <1>1, Sectors DEF Returns, IInv, Writeback, AckedOnDisk
<1>3. CASE ~(r.result >= 0)
  <2>1. writing' = 0 /\ trouble' = (trouble \/ r.fs # fs) /\ fs' = r.fs
    BY <1>3 DEF Returns
  <2>2. AckedOnDisk'
    <3>1. SUFFICES ASSUME ~trouble' PROVE \A s \in (1 .. LastSector) \ lost : same_sector(disk, fs, s) /\ fs' = fs
      BY <1>1, <2>1 DEF AckedOnDisk
    <3>2. ~trouble /\ fs' = fs BY <2>1, <3>1
    <3> QED
      BY <1>1, <3>2 DEF IInv, AckedOnDisk
  <2> QED
    BY <1>1, <2>1, <2>2, Sectors DEF IInv, Writeback
<1> QED
  BY <1>2, <1>3

-----------------------------------------------------------------------------
LEMMA InitWhole == RootfsInit => IInv
<1> SUFFICES ASSUME RootfsInit PROVE IInv
  OBVIOUS
<1>1. Whole(EmptyImage) BY DEF Whole, EmptyImage
<1>2. Writeback BY Sectors DEF RootfsInit, Writeback
<1>3. AckedOnDisk BY DEF RootfsInit, AckedOnDisk
<1> QED
  BY <1>1, <1>2, <1>3 DEF RootfsInit, IInv

LEMMA Step == IInv /\ [RootfsNext]_all => IInv'
<1> SUFFICES ASSUME IInv, [RootfsNext]_all PROVE IInv'
  OBVIOUS
<1>1. CASE Boot
  <2>1. writing' = 0 /\ disk' = disk /\ mount' # "off"
    BY <1>1 DEF Boot, IInv, Writeback, MountDisk, MountModule
  <2>2. AckedOnDisk'
    <3>1. CASE MountDisk
      BY <3>1, <1>1, SameAsItself DEF Boot, MountDisk, AckedOnDisk
    <3>2. CASE MountModule
      BY <3>2 DEF MountModule, AckedOnDisk
    <3> QED
      BY <1>1, <3>1, <3>2 DEF Boot
  <2> QED
    BY <2>1, <2>2, Sectors DEF IInv, Writeback
<1>2. CASE Stop
  BY <1>2, Sectors DEF Stop, drive, IInv, Writeback, AckedOnDisk
<1>3. CASE Ended
  BY <1>3 DEF Ended, all, machine, drive, history, IInv, Writeback, AckedOnDisk
<1>4. CASE SectorWritten
  <2>1. writing \in 1 .. LastSector BY <1>4, Sectors DEF SectorWritten, IInv, Writeback
  <2>2. disk' = write_sector(disk, fs, writing) BY <1>4 DEF SectorWritten, lba
  <2>3. /\ Whole(disk')
        /\ same_sector(disk', fs, writing)
        /\ \A s \in 1 .. LastSector : same_sector(disk, fs, s) => same_sector(disk', fs, s)
    BY <2>1, <2>2, Written DEF IInv
  <2>4. ASSUME NEW s \in (1 .. writing) \ lost' PROVE same_sector(disk', fs, s)
    <3>1. CASE disk' = fs
      BY <3>1, SameAsItself
    <3>2. CASE disk' # fs
      <4>1. lost' = lost \ {writing} BY <1>4, <3>2 DEF SectorWritten, lba
      <4>2. CASE s = writing
        BY <4>2, <2>3
      <4>3. CASE s # writing
        BY <2>1, <4>1, <4>3, Sectors, <2>3 DEF IInv, Writeback
      <4> QED
        BY <4>2, <4>3
    <3> QED
      BY <3>1, <3>2
  <2>5. NextSector /\ fs' = fs /\ mount' = mount BY <1>4 DEF SectorWritten
  <2>6. Writeback' /\ AckedOnDisk' BY <2>1, <2>3, <2>4, <2>5, NextRound
  <2> QED
    BY <2>3, <2>6 DEF IInv
<1>5. CASE SectorLost
  <2>1. writing \in 1 .. LastSector BY <1>5, Sectors DEF SectorLost, IInv, Writeback
  <2>2. disk' = disk /\ lost' = lost \cup {writing} /\ fs' = fs /\ mount' = mount /\ NextSector
    BY <1>5 DEF SectorLost, lba
  <2>3. ASSUME NEW s \in (1 .. writing) \ lost' PROVE same_sector(disk', fs, s)
    BY <2>1, <2>2, Sectors DEF IInv, Writeback
  <2>4. Writeback' /\ AckedOnDisk' BY <2>1, <2>2, <2>3, NextRound
  <2> QED
    BY <2>2, <2>4 DEF IInv
<1>6. CASE SectorRefused
  BY <1>6, Sectors DEF SectorRefused, reported, IInv, Writeback, AckedOnDisk
<1>7. CASE FileCall
  <2>1. Running BY <1>7 DEF FileCall
  <2>2. PICK names \in Given :
          \/ FsCreate(names) \/ FsMkdir(names) \/ FsUnlink(names) \/ FsRmdir(names)
          \/ FsTruncate(names) \/ FsWrite(names) \/ FsChdir(names)
    BY <1>7 DEF FileCall
  <2>3. CASE FsCreate(names)
    BY <2>1, <2>3, CallReturns, Results DEF FsCreate
  <2>4. CASE FsMkdir(names)
    BY <2>1, <2>4, CallReturns, Results DEF FsMkdir
  <2>5. CASE FsUnlink(names)
    BY <2>1, <2>5, CallReturns, Results DEF FsUnlink
  <2>6. CASE FsRmdir(names)
    BY <2>1, <2>6, CallReturns, Results DEF FsRmdir
  <2>7. CASE FsTruncate(names)
    BY <2>1, <2>7, CallReturns, Results DEF FsTruncate
  <2>8. CASE FsWrite(names)
    BY <2>1, <2>8, CallReturns, Results DEF FsWrite
  <2>9. CASE FsChdir(names)
    BY <2>9 DEF FsChdir, drive, history, IInv, Writeback, AckedOnDisk
  <2> QED
    BY <2>2, <2>3, <2>4, <2>5, <2>6, <2>7, <2>8, <2>9
<1>8. CASE UNCHANGED all
  BY <1>8 DEF all, machine, drive, history, IInv, Writeback, AckedOnDisk
<1> QED
  BY <1>1, <1>2, <1>3, <1>4, <1>5, <1>6, <1>7, <1>8 DEF RootfsNext

(* A call that reports success has brought everything to the disk but what *)
(* the drive took without keeping it: for every size of the disk, any      *)
(* paths, whatever the calls do to the image and whichever of them fail    *)
(* half way, and any number of refused or lost sectors and restarts.       *)
THEOREM SuccessIsOnDisk == RootfsSpec => []AckedOnDisk
<1>1. RootfsSpec => []IInv BY InitWhole, Step, PTL DEF RootfsSpec
<1>2. IInv => AckedOnDisk BY DEF IInv
<1> QED
  BY <1>1, <1>2, PTL

=============================================================================
