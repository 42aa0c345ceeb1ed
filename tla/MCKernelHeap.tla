---------------------------- MODULE MCKernelHeap -----------------------------
(***************************************************************************)
(* Instances of KernelHeap for TLC.                                        *)
(***************************************************************************)
EXTENDS KernelHeap

(* Nothing, less than a unit, more than one unit, three units, almost a    *)
(* whole chunk, and three chunks, which an empty heap has room for and any *)
(* other has not.                                                          *)
MCRequests == {0, 1, 17, 48, 112, 400}

(* One machine on which the third chunk fails for want of a page table,    *)
(* one on which it fails for want of a page.                               *)
MCFrameCounts == {8, 9}

=============================================================================
