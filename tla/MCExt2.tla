------------------------------- MODULE MCExt2 --------------------------------
(***************************************************************************)
(* Instances of Ext2 for TLC.                                              *)
(***************************************************************************)
EXTENDS Ext2

CONSTANTS n1, n2

(* Two names in the root, and one of them may hold the other.              *)
MCPaths == {<<n1>>, <<n2>>, <<n1, n2>>}

(* No file, or one with a hole.                                            *)
MCNone == {}
MCHole == {[path |-> <<n1>>, size |-> 3, first |-> 1]}

(* Blocks of 1 KiB: the superblock is not in block 0.                      *)
MCNoUnit == -1

MCSizes == {0, 1, 3}
MCLengths == {2}

(* No step depends on which call was made before it.                       *)
ImageView == <<fs, cut_short>>

=============================================================================
