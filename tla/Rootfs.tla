------------------------------- MODULE Rootfs --------------------------------
(***************************************************************************)
(* The root file system as its users meet it: the system calls on files    *)
(* (src/userspace/syscall.c), the image in memory that the ext2 driver     *)
(* changes (module Ext2), and the disk the image is read from at boot and  *)
(* copied back to at the end of every call that changed it (ext2_sync,     *)
(* src/fs/rootfs.c, src/drivers/block.c and ata.c), through failures of    *)
(* the drive and restarts of the machine.                                  *)
(*                                                                         *)
(* A call runs with interrupts off and one program runs at a time, so the  *)
(* only thing that comes between its steps is the end of power: what a     *)
(* call does to the image is one step, and every sector of the writeback   *)
(* is one.  Sectors are the units the drive takes: the counts, the         *)
(* bitmaps, each inode, each block, in the order mke2fs lays them out in   *)
(* one block group.  A block is two sectors; only for directories does it  *)
(* matter that the first may be new and the second old.                    *)
(*                                                                         *)
(* After a restart from a disk that no writeback left as a whole, what the *)
(* driver does with it is not followed further; nor are calls on the boot  *)
(* loader's image, which nothing keeps and which are those of Ext2.        *)
(***************************************************************************)
EXTENDS Ext2, UserPaths

CONSTANTS
    RawPaths,       \* paths programs pass, as they write them
    Devices,        \* the block devices in the order they were registered
    MaxFaults       \* failed writes of sectors in a row: until the disk is whole again

ASSUME RootfsAssumption ==
    /\ Devices \in Seq([writable : BOOLEAN, rootfs : BOOLEAN])
    /\ Cardinality({i \in DOMAIN Devices : Devices[i].rootfs}) <= 1
    /\ MaxFaults \in Nat

VARIABLES
    mount,          \* where fs is from: "disk" or "module", or "off", "panic"
    disk,           \* the image as the drive has it
    writing,        \* sector the writeback is at, 0 if there is none
    cwd,            \* working directory of the program that runs
    faults,         \* failed writes of sectors since the disk was whole
    (* History variables.                                                  *)
    kept,           \* the image as of the last writeback that got everything to the disk
    touched,        \* paths whose calls changed the image since
    removed,        \* ... and whether one of them removed something
    lost,           \* sectors the drive took and did not keep
    half,           \* directory blocks of which the disk has the new first half only
    trouble         \* a call has reported an error and left the image changed since a
                    \* call last reported success

machine == <<mount, writing, cwd>>
history == <<kept, touched, removed, trouble>>
drive == <<disk, lost, half>>
all == <<fs, cut_short, last_call, machine, drive, history, faults>>

-----------------------------------------------------------------------------
(* Sectors.                                                                *)

(* The inodes in use by their place in the inode table.                    *)
InodeAt ==
    [k \in 1 .. InodesCount - FirstInode + 2 |->
        IF k = 1 THEN EXT2_ROOT_INODE ELSE FirstInode + k - 2]
FirstBlock == 3 + Len(InodeAt)
LastSector == FirstBlock + BlocksCount - 1

(* Mutant: the sectors are written from the last to the first.             *)
from_last(s) == LastSector + 1 - s

(* The sector the i-th round of ata_block_write writes.                    *)
lba(s) == s

(* Image d with sector s of image m.                                       *)
write_sector(d, m, s) ==
    CASE s = 1 -> [d EXCEPT !.free_blocks_count = m.free_blocks_count,
                            !.free_inodes_count = m.free_inodes_count,
                            !.used_dirs_count = m.used_dirs_count,
                            !.superblock = m.superblock]
      [] s = 2 -> [d EXCEPT !.block_bitmap = m.block_bitmap]
      [] s = 3 -> [d EXCEPT !.inode_bitmap = m.inode_bitmap]
      [] s \in 4 .. FirstBlock -> [d EXCEPT !.inode[InodeAt[s - 3]] = m.inode[InodeAt[s - 3]]]
      [] OTHER -> LET b == s - FirstBlock
                  IN  [d EXCEPT !.indirect[b] = m.indirect[b], !.entries[b] = m.entries[b],
                                !.data[b] = m.data[b]]

same_sector(d, m, s) ==
    CASE s = 1 -> /\ d.free_blocks_count = m.free_blocks_count
                  /\ d.free_inodes_count = m.free_inodes_count
                  /\ d.used_dirs_count = m.used_dirs_count
                  /\ d.superblock = m.superblock
      [] s = 2 -> d.block_bitmap = m.block_bitmap
      [] s = 3 -> d.inode_bitmap = m.inode_bitmap
      [] s \in 4 .. FirstBlock -> d.inode[InodeAt[s - 3]] = m.inode[InodeAt[s - 3]]
      [] OTHER -> LET b == s - FirstBlock
                  IN  d.indirect[b] = m.indirect[b] /\ d.entries[b] = m.entries[b] /\ d.data[b] = m.data[b]

(* The directory block that sector s is in and that the writeback changes. *)
changed_directory(s) ==
    IF s > FirstBlock
    THEN {b \in {s - FirstBlock} : disk.entries[b] # fs.entries[b]} ELSE {}

-----------------------------------------------------------------------------
(* The writeback: rootfs_writeback, block_write, ata_block_write and       *)
(* ata_write_one.                                                          *)

Fault == faults < MaxFaults /\ faults' = faults + 1

(* To write what the disk has already, or to fail there, is no step of its *)
(* own: the next round of the loop that matters after the i-th.            *)
next_round(i) ==
    Min({j \in i + 1 .. LastSector :
            j = LastSector \/ ~same_sector(disk, fs, lba(j))})

(* The call returns: the image is on the disk, for all the kernel knows.   *)
Succeeds ==
    /\ writing' = 0 /\ trouble' = FALSE
    /\ IF disk' = fs
       THEN kept' = fs /\ touched' = {} /\ removed' = FALSE
       ELSE UNCHANGED <<kept, touched, removed>>

NextSector ==
    IF writing = LastSector THEN Succeeds
    ELSE writing' = next_round(writing) /\ UNCHANGED history

SectorWritten ==
    /\ writing # 0
    /\ disk' = write_sector(disk, fs, lba(writing))
    /\ lost' = IF disk' = fs THEN {} ELSE lost \ {lba(writing)}
    /\ half' = half \ {lba(writing) - FirstBlock}
    /\ faults' = IF disk' = fs THEN 0 ELSE faults
    /\ NextSector
    /\ UNCHANGED <<fs, cut_short, last_call, mount, cwd>>

(* ata_write_one looks at the status before it hands the data over, and    *)
(* not after; nothing asks the drive to empty its cache either.            *)
SectorLost ==
    /\ writing # 0
    /\ Fault
    /\ lost' = lost \cup {lba(writing)}
    /\ half' \in {half, half \cup changed_directory(lba(writing))}
    /\ UNCHANGED <<fs, cut_short, last_call, mount, cwd, disk>>
    /\ NextSector

(* Mutant: rootfs_writeback logs the failure and does not report it.       *)
reported_not == FALSE

(* What a writeback that fails makes of the call: USER_ERR_FAULT.          *)
reported == TRUE

(* The drive is busy for too long or reports an error: the loop ends, the  *)
(* call fails, and the image stays as the call has made it.                *)
SectorRefused ==
    /\ writing # 0
    /\ Fault
    /\ writing' = 0 /\ trouble' = reported
    /\ half' \in {half, half \cup changed_directory(lba(writing))}
    /\ UNCHANGED <<fs, cut_short, last_call, mount, cwd, disk, lost, kept, touched, removed>>

-----------------------------------------------------------------------------
(* Boot: main.c and rootfs_mount_from_block_devices.                       *)

(* Sector size, magic, label and size are those of a root file system.     *)
validate_candidate(device) == device.rootfs

(* The devices that can be mounted, if they can be read.                   *)
candidates == {i \in DOMAIN Devices : Devices[i].writable /\ validate_candidate(Devices[i])}

MountDisk ==
    /\ candidates # {}
    /\ fs' = disk
    /\ mount' = "disk"
    /\ kept' = disk /\ touched' = {} /\ removed' = FALSE /\ lost' = {} /\ faults' = 0

(* If there is none, or it cannot be read, the image of the boot loader is *)
(* used, and ext2_mount gives it no writeback; without any there is no     *)
(* /bin/init.                                                              *)
MountModule ==
    /\ \/ mount' = "module" /\ fs' = EmptyImage
       \/ mount' = "panic" /\ UNCHANGED fs
    /\ UNCHANGED <<kept, touched, removed, lost, faults>>

Boot ==
    /\ mount = "off"
    /\ MountDisk \/ MountModule
    /\ UNCHANGED <<cut_short, last_call, writing, cwd, trouble, disk, half>>

(* The machine loses power or is reset, in the middle of a writeback too.  *)
(* What the properties say of the disk at every moment is what would be    *)
(* found then; a restart is followed where the disk has a whole image.     *)
Stop ==
    /\ mount # "off"
    /\ disk \in {kept, fs} /\ half = {}
    /\ mount' = "off" /\ writing' = 0 /\ cwd' = <<>> /\ trouble' = FALSE
    /\ UNCHANGED <<fs, cut_short, last_call, drive, kept, touched, removed, faults>>

-----------------------------------------------------------------------------
(* System calls.                                                           *)

Running == mount = "disk" /\ writing = 0

(* The names of a path a program passes, if they can be resolved.          *)
Resolved(path) ==
    LET r == copy_and_resolve_user_path(cwd, path) IN IF r.ok THEN {r.names} ELSE {}

(* The paths the file system gets.                                         *)
Given == {names \in Paths \cup {<<>>} : \E path \in RawPaths : names \in Resolved(path)}

(* The call on the file called names has result r.  One that worked ends   *)
(* in ext2_sync; one that failed does not, whatever it has changed.        *)
Returns(names, r, removes) ==
    /\ fs' = r.fs
    /\ writing' = IF r.result >= 0 THEN 1 ELSE 0
    /\ trouble' = (r.result < 0 /\ (trouble \/ r.fs # fs))
    /\ IF r.fs # fs
       THEN touched' = touched \cup {names} /\ removed' = (removed \/ removes)
       ELSE UNCHANGED <<touched, removed>>
    /\ UNCHANGED <<cut_short, last_call, mount, cwd, disk, lost, half, kept, faults>>

FsCreate(names) == Returns(names, ext2_create_file(fs, names), FALSE)
FsMkdir(names) ==
    /\ \A ino \in Inodes : fs.inode[ino].links < MaxLinks
    /\ Returns(names, ext2_mkdir(fs, names), FALSE)
FsUnlink(names) == Returns(names, ext2_unlink(fs, names), TRUE)
FsRmdir(names) == Returns(names, ext2_rmdir(fs, names), TRUE)
FsTruncate(names) ==
    \E size \in Sizes : Returns(names, ext2_truncate_file(fs, names, size), FALSE)
FsWrite(names) ==
    \E len \in Lengths, offset \in Sizes :
        Returns(names, ext2_write_file(fs, names, len, offset), FALSE)

FsChdir(names) ==
    /\ path_lookup(fs, names) # 0
    /\ inode_is_dir(fs.inode[path_lookup(fs, names)])
    /\ cwd' = names
    /\ UNCHANGED <<fs, cut_short, last_call, mount, writing, drive, history, faults>>

(* syscall_dispatch, for the calls on files that change anything.          *)
FileCall ==
    /\ Running
    /\ \E names \in Given :
          \/ FsCreate(names) \/ FsMkdir(names) \/ FsUnlink(names) \/ FsRmdir(names)
          \/ FsTruncate(names) \/ FsWrite(names) \/ FsChdir(names)

(* Panic; or an image without a disk, which is not followed.               *)
Ended == mount \in {"panic", "module"} /\ UNCHANGED all

-----------------------------------------------------------------------------
RootfsInit ==
    /\ fs = EmptyImage /\ cut_short = FALSE /\ last_call = CallOf("none", <<>>, 0, 0, Done(fs))
    /\ mount = "off" /\ writing = 0 /\ cwd = <<>> /\ faults = 0
    /\ disk = EmptyImage /\ kept = EmptyImage
    /\ touched = {} /\ removed = FALSE /\ lost = {} /\ half = {} /\ trouble = FALSE

RootfsNext ==
    \/ Boot \/ Stop \/ Ended
    \/ SectorWritten \/ SectorLost \/ SectorRefused
    \/ FileCall

RootfsSpec == RootfsInit /\ [][RootfsNext]_all

-----------------------------------------------------------------------------
(* Properties.                                                             *)

(* A call that reports success has brought everything to the disk, what    *)
(* earlier calls left behind when they failed included, but for sectors    *)
(* the drive took without keeping them: memory and disk differ only after  *)
(* a call that reported an error.                                          *)
AckedOnDisk ==
    (mount = "disk" /\ writing = 0 /\ ~trouble) =>
        \A s \in (1 .. LastSector) \ lost : same_sector(disk, fs, s)

Seen(f, names) ==
    LET ino == path_lookup(f, names)
    IN  IF ino = 0 THEN [mode |-> "none", data |-> <<>>]
        ELSE [mode |-> f.inode[ino].mode, data |-> IF inode_is_file(f.inode[ino])
                                                   THEN file_data(f, f.inode[ino]) ELSE <<>>]

(* The blocks of the directories on the way to names.                      *)
Way(f, names) ==
    UNION {LET ino == path_lookup(f, SubSeq(names, 1, k))
           IN  IF ino = 0 THEN {} ELSE mapped_blocks(f, f.inode[ino]) : k \in 0 .. Len(names) - 1}

(* No call was about them, and the directories on the way to them are on   *)
(* the disk: no block half new and half old, and the blocks a directory    *)
(* has grown by, which may hold old entries there, as they are in memory.  *)
Untouched ==
    {names \in Paths :
        /\ \A k \in 0 .. Len(names) : SubSeq(names, 1, k) \notin touched
        /\ Way(kept, names) \cap half = {}
        /\ \A b \in Way(disk, names) \ Way(kept, names) : same_sector(disk, fs, FirstBlock + b)}

(* Were the machine to stop now, in a writeback or after some that failed: *)
(* the disk still has every file and directory the calls since the last    *)
(* complete one were not about, as it was then, except below a directory   *)
(* of which a block did not get there whole.                               *)
UntouchedSurvive ==
    \A names \in Untouched : Seen(disk, names) = Seen(kept, names)

(* The blocks of a directory on the disk that hold its entries there: not  *)
(* one it got since the last complete writeback and that is still to come, *)
(* which shows what the block held before, nor one written by half.        *)
WrittenBlocks(ino) ==
    {b \in dir_blocks(disk, disk.inode[ino]) \ half :
        b \in dir_blocks(kept, kept.inode[ino]) \/ same_sector(disk, fs, FirstBlock + b)}

(* Since inodes come before blocks on the disk: as long as nothing was     *)
(* removed, no name in a directory on the disk, old or new, leads to an    *)
(* inode that is not there, wherever the writebacks stopped.  Excepted are *)
(* inodes whose sector the drive did not keep, and blocks of directories   *)
(* that did not get to the disk: the writeback puts the inode of a new     *)
(* directory, and its name if its parent's block comes first, before the   *)
(* block, and a stop in between leaves a directory with the block's old    *)
(* contents.                                                               *)
NamesLead ==
    ~removed =>
        \A ino \in {i \in Inodes : inode_is_dir(disk.inode[i])} :
            \A b \in WrittenBlocks(ino) : \A e \in disk.entries[b] :
                \/ disk.inode[e.ino].mode # "none"
                \/ \E s \in lost \cap 4 .. FirstBlock : InodeAt[s - 3] = e.ino

(* Walking the directories part by part, from the working directory: way   *)
(* holds the inodes from the root to here.                                 *)
WalkPart(way, part) ==
    IF way = <<>> \/ part \in {"", "."} THEN way
    ELSE IF part = ".." THEN IF Len(way) = 1 THEN way ELSE Front(way)
    ELSE LET ino == find_in_dir(fs, Last(way), part)
         IN  IF ino = 0 THEN <<>> ELSE Append(way, ino)
Walk(path) ==
    FoldLeft(WalkPart, <<EXT2_ROOT_INODE>>, IF path.absolute THEN path.parts ELSE cwd \o path.parts)

(* A path with the working directory written before it.                    *)
FromRoot(path) ==
    IF path.absolute THEN path ELSE [absolute |-> TRUE, parts |-> cwd \o path.parts]

(* docs/filesystem.md: "Relative paths are resolved against the calling    *)
(* process cwd".  A path is resolved to what walking it would reach, if it *)
(* can be walked and its text from the root on fits a buffer with its end; *)
(* a path that is resolved fits, and so does what it is resolved to.  The  *)
(* working directory may have been removed, and made again, since it was   *)
(* entered.                                                                *)
PathsResolved ==
    Running => \A path \in RawPaths :
        /\ (Walk(path) # <<>> /\ path_len(FromRoot(path)) < USER_FS_PATH_MAX) =>
              \E names \in Resolved(path) : path_lookup(fs, names) = Last(Walk(path))
        /\ \A names \in Resolved(path) :
              /\ path_len(FromRoot(path)) < USER_FS_PATH_MAX
              /\ resolved_len(names) < USER_FS_PATH_MAX

=============================================================================
