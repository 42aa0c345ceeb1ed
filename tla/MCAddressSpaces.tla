--------------------------- MODULE MCAddressSpaces ---------------------------
(***************************************************************************)
(* An instance of AddressSpaces for TLC.  Pages have two units; page 0 is  *)
(* never mapped, programs are in pages 1 and 2, their heap follows.        *)
(***************************************************************************)
EXTENDS AddressSpaces

Segment(vaddr, offset, filesz, memsz) ==
    [load |-> TRUE, align |-> PageUnits, vaddr |-> vaddr, offset |-> offset,
     filesz |-> filesz, memsz |-> memsz]
Note == [Segment(0, 0, 1, 1) EXCEPT !.load = FALSE]
File(size, entry, phdrs) ==
    [size |-> size, ident |-> TRUE, entry |-> entry, phoff |-> 1, phdrs |-> phdrs]

(* Good programs: one whose segment begins and ends inside a page and has  *)
(* memory behind its part of the file, with an empty segment; one with a   *)
(* segment where its heap begins, and an empty one inside a page, with     *)
(* what is behind the file; and one with empty segments in the kernel      *)
(* heap, elsewhere in the kernel's half, and at an address that is cut to  *)
(* one of its heap.  Bad ones: two segments in one page; a file cut short; *)
(* an entry outside; an end that wraps; no ELF.                            *)
MCProgram ==
    [good |-> File(6, 3, <<Note, Segment(3, 4, 2, 3), Segment(4, 0, 0, 0)>>),
     in_heap |-> File(5, 2, <<Segment(2, 4, 1, 1), Segment(6, 3, 1, 1), Segment(5, 5, 1, 0)>>),
     astray |-> File(5, 2, <<Segment(2, 4, 1, 1), Segment(27, 0, 1, 0),
                             Segment(37, 0, 0, 0), Segment(79, 0, 100, 0)>>),
     overlap |-> File(6, 2, <<Segment(2, 4, 1, 1), Segment(3, 5, 1, 1)>>),
     short |-> File(5, 3, <<Segment(3, 4, 2, 3)>>),
     no_entry |-> File(6, 5, <<Segment(2, 4, 2, 2)>>),
     wraps |-> File(6, 3, <<Segment(3, 4, 2, 3), Segment(126, 0, 0, 3)>>),
     no_elf |-> [File(1, 0, <<>>) EXCEPT !.ident = FALSE]]
MCImages == DOMAIN MCProgram
MCStackPage == <<1, 0>>
MCIncrements == {1}
MCRequests == {0, 1, 100, 127}
MCGrowth == {0, 1, 2}

=============================================================================
