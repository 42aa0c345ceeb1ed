------------------------------- MODULE Ext2Dir -------------------------------
(***************************************************************************)
(* The blocks of an ext2 directory, as add_dir_entry, remove_dir_entry and *)
(* find_in_dir of src/fs/ext2.c see them: records that follow one another, *)
(* each with its length, so that a record may be followed by room for      *)
(* another one.                                                            *)
(*                                                                         *)
(* Lengths and positions are counted in units of 4 bytes, the alignment of *)
(* records; a record's fixed part is 2 units.  A block is a memory: what a *)
(* record leaves behind stays until something is written over it.          *)
(***************************************************************************)
EXTENDS Integers, Sequences, FiniteSets, FiniteSetsExt

CONSTANTS
    Names,          \* names callers use
    NameUnits,      \* units each name takes
    BlockLen,       \* block_size in units
    MaxBlocks       \* blocks the directory can get

Dot == "."
DotDot == ".."

ASSUME DirAssumption ==
    /\ NameUnits \in [Names -> Nat \ {0}] /\ {Dot, DotDot} \cap Names = {}
    /\ BlockLen \in Nat /\ BlockLen > 6 /\ MaxBlocks \in Nat \ {0}
    /\ \A name \in Names : 2 + NameUnits[name] <= BlockLen

VARIABLES
    dir,            \* the directory's blocks
    added,          \* history: names added and not removed since
    skipped         \* history: a removal joined two records across a third

vars == <<dir, added, skipped>>

-----------------------------------------------------------------------------
(* Records in a block.                                                     *)

(* What a unit holds in which no record was begun.  A walk that comes upon *)
(* one fails the checks below if it is blank; if it is part of a name it   *)
(* may do anything, which the model leaves out: such a walk is itself what *)
(* the properties exclude.                                                 *)
Bytes == [used |-> FALSE, rec_len |-> 0, name |-> Dot]

Entry(used, rec_len, name) == [used |-> used, rec_len |-> rec_len, name |-> name]

dir_entry_min_len(name) == 2 + (IF name \in {Dot, DotDot} THEN 1 ELSE NameUnits[name])

(* A record written at pos: its name covers the units after its head.      *)
written(block, pos, entry) ==
    [p \in 0 .. BlockLen - 1 |->
        IF p = pos THEN entry
        ELSE IF p \in pos + 1 .. pos + dir_entry_min_len(entry.name) - 1 THEN Bytes
        ELSE block[p]]

blank == [p \in 0 .. BlockLen - 1 |-> Bytes]

(* The checks every walk makes before it uses a record.                    *)
valid(block, pos) == block[pos].rec_len >= 2 /\ pos + block[pos].rec_len <= BlockLen

(* The positions a walk over the block visits, up to a record that fails   *)
(* the checks or the end.                                                  *)
visited(block) ==
    LET from[pos \in 0 .. BlockLen] ==
          IF pos + 2 > BlockLen THEN {}
          ELSE IF ~valid(block, pos) THEN {}
          ELSE {pos} \cup from[pos + block[pos].rec_len]
    IN  from[0]

(* The walk gets to the end of the block.                                  *)
walks(block) == \E pos \in visited(block) : pos + block[pos].rec_len + 2 > BlockLen

in_use(block) == {pos \in visited(block) : block[pos].used}
holders(block, name) == {pos \in in_use(block) : block[pos].name = name}

(* find_in_dir: blocks in order up to the first whose walk fails.          *)
find_in_dir(d, name) ==
    \E i \in DOMAIN d : /\ holders(d[i], name) # {}
                        /\ \A j \in 1 .. i - 1 : walks(d[j])

-----------------------------------------------------------------------------
(* Adding.                                                                 *)

(* Mutant: the old record's own length is left out of the account.         *)
roomy_blindly(block, pos, name) == block[pos].rec_len >= dir_entry_min_len(name)

actual(entry) == IF entry.used THEN dir_entry_min_len(entry.name) ELSE 2

(* The record at pos has room for another one behind it; a deleted one is  *)
(* asked for its fixed part as well.                                       *)
roomy(block, pos, name) ==
    block[pos].rec_len >= actual(block[pos]) + dir_entry_min_len(name)

(* The new record takes the room behind the one at pos, or its place.      *)
insert(block, pos, name) ==
    LET old == block[pos]
        cut == [block EXCEPT ![pos].rec_len = actual(old)]
    IN  IF ~old.used THEN written(block, pos, Entry(TRUE, old.rec_len, name))
        ELSE written(cut, pos + actual(old),
                     Entry(TRUE, old.rec_len - actual(old), name))

has_room(block, name) == \E pos \in visited(block) : roomy(block, pos, name)
first_room(block, name) == Min({pos \in visited(block) : roomy(block, pos, name)})

(* The first record with room in the first block that has one, unless the  *)
(* walk fails before; or a new block, if there is one to get.              *)
add_dir_entry(d, name) ==
    \/ \E i \in DOMAIN d :
          /\ has_room(d[i], name)
          /\ \A j \in 1 .. i - 1 : walks(d[j]) /\ ~has_room(d[j], name)
          /\ dir' = [d EXCEPT ![i] = insert(@, first_room(@, name), name)]
          /\ added' = added \cup {name} /\ UNCHANGED skipped
    \/ /\ \A j \in DOMAIN d : walks(d[j]) /\ ~has_room(d[j], name)
       /\ Len(d) < MaxBlocks
       /\ dir' = Append(d, written(blank, 0, Entry(TRUE, BlockLen, name)))
       /\ added' = added \cup {name} /\ UNCHANGED skipped

-----------------------------------------------------------------------------
(* Removing.                                                               *)

(* Mutant: the record before it takes one unit too few.                    *)
joined_short(previous, entry) == previous.rec_len + entry.rec_len - 1

joined(previous, entry) == previous.rec_len + entry.rec_len

used_before(block, pos) == {p \in in_use(block) : p < pos}

(* The record at pos is joined to the last one in use before it, or marked *)
(* as deleted when there is none.                                          *)
removed(block, pos) ==
    LET previous == Max(used_before(block, pos))
    IN  IF used_before(block, pos) = {} THEN [block EXCEPT ![pos].used = FALSE]
        ELSE [block EXCEPT ![previous].rec_len = joined(block[previous], block[pos])]

(* A deleted record lies between the two that are joined.                  *)
skips(block, pos) ==
    /\ used_before(block, pos) # {}
    /\ \E p \in visited(block) : Max(used_before(block, pos)) < p /\ p < pos

(* remove_dir_entry; its callers have found the name before.               *)
remove_dir_entry(d, name) ==
    /\ \E i \in DOMAIN d :
          /\ holders(d[i], name) # {}
          /\ \A j \in 1 .. i - 1 : walks(d[j]) /\ holders(d[j], name) = {}
          /\ dir' = [d EXCEPT ![i] = removed(@, Min(holders(@, name)))]
          /\ skipped' = (skipped \/ skips(d[i], Min(holders(d[i], name))))
    /\ added' = added \ {name}

-----------------------------------------------------------------------------
(* ext2_mkdir fills the first block.                                       *)
Init ==
    /\ dir = <<written(written(blank, 0, Entry(TRUE, dir_entry_min_len(Dot), Dot)),
                       dir_entry_min_len(Dot),
                       Entry(TRUE, BlockLen - dir_entry_min_len(Dot), DotDot))>>
    /\ added = {} /\ skipped = FALSE

(* ext2_create_file and ext2_mkdir, ext2_unlink and ext2_rmdir.            *)
Create(name) == ~find_in_dir(dir, name) /\ add_dir_entry(dir, name)
Delete(name) == find_in_dir(dir, name) /\ remove_dir_entry(dir, name)

Next == \E name \in Names : Create(name) \/ Delete(name)

Spec == Init /\ [][Next]_vars

-----------------------------------------------------------------------------
(* Properties.                                                             *)

(* Every walk meets only records, which follow one another to the end of   *)
(* the block, each long enough for its name: but for removals that join    *)
(* records across a deleted one nothing ever breaks the chain.             *)
WellFormed ==
    ~skipped => \A i \in DOMAIN dir :
        /\ walks(dir[i])
        /\ \A pos \in in_use(dir[i]) :
              dir[i][pos].rec_len >= dir_entry_min_len(dir[i][pos].name)

Listed == UNION {{dir[i][pos].name : pos \in in_use(dir[i])} : i \in DOMAIN dir}

(* The names ls shows are those that were added and not removed since, and *)
(* each is there once: deleting one file neither hides nor revives         *)
(* another, again but for those removals.                                  *)
ListsWhatIsThere ==
    ~skipped =>
    /\ Listed \ {Dot, DotDot} = added
    /\ \A i, j \in DOMAIN dir : \A p \in in_use(dir[i]), q \in in_use(dir[j]) :
          dir[i][p].name = dir[j][q].name => i = j /\ p = q

(* app.c:235 says of the command: "rm        remove a file".  A removal    *)
(* takes that file's name from the directory and no other.                 *)
RmRemovesOneFile ==
    [][\A name \in added \ added' : Listed' = Listed \ {name}]_vars

=============================================================================
