----------------------------- MODULE MCScheduler -----------------------------
(***************************************************************************)
(* Instances of Scheduler for TLC.                                         *)
(***************************************************************************)
EXTENDS Scheduler

CONSTANTS good, corrupt, overlap, t1, t2

(* A program that loads (init is one), one that is no ELF file, and a      *)
(* larger one whose last segment starts in the last page of the one before *)
(* it: its load runs out of frames where four of the first have room.      *)
MCImage == {good, overlap}
MCImageScarce == {good, corrupt, overlap}
MCPages == [img \in Image |-> CASE img = good -> 1 [] img = corrupt -> 0 [] img = overlap -> 3]
MCValid == {good, overlap}
MCMappable == {good}
MCTags == {t1, t2}
MCOneTag == {t1}
MCDirs == {"/home"}
(* A program that has t2 in its registers exits with 7, any other with 0.  *)
MCStatus == [v \in UserRegs \X Values |-> IF v = <<"rdi", t2>> THEN 7 ELSE 0]
MCResults == {0}
MCGrowth == {0}
MCGrowthScarce == {0, 1}

=============================================================================
