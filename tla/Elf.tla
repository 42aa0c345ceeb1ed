-------------------------------- MODULE Elf --------------------------------
(***************************************************************************)
(* Program files: the checks of src/userspace/elf.c and, of                *)
(* src/userspace/process.c, the pages a segment covers and what each of    *)
(* them gets from the file.                                                *)
(*                                                                         *)
(* A file is a record: ident stands for the fields with one right value    *)
(* (magic, class, type, machine, sizes of headers), phdrs for the program  *)
(* headers at phoff.  Addresses and sizes are counted in units and wrap at *)
(* Word, as 64-bit numbers do at 2^64.                                     *)
(***************************************************************************)
EXTENDS Integers, Sequences, Functions

CONSTANTS
    Word,           \* 2^64
    PageUnits,      \* VMM_PAGE_SIZE
    EhdrUnits,      \* sizeof(struct elf64_ehdr)
    PhdrUnits,      \* sizeof(struct elf64_phdr)
    MinVaddr,       \* USERSPACE_MIN_VADDR
    MaxVaddr,       \* USERSPACE_MAX_VADDR
    Images,         \* names of program files
    Program         \* the files

(* The fields of the headers are 64-bit numbers.                           *)
ASSUME ElfAssumption ==
    /\ PageUnits \in Nat \ {0} /\ {EhdrUnits, PhdrUnits} \subseteq Nat \ {0}
    /\ MinVaddr \in Nat /\ MaxVaddr \in Nat /\ Word \in Nat /\ MaxVaddr + PageUnits < Word
    /\ \A img \in Images :
          /\ Program[img].size \in Nat /\ Program[img].entry \in 0 .. Word - 1
          /\ Program[img].phdrs \in Seq(Range(Program[img].phdrs))
          /\ \A ph \in Range(Program[img].phdrs) :
                {ph.offset, ph.vaddr, ph.filesz, ph.memsz, ph.align} \subseteq 0 .. Word - 1

range_within_image(offset, size, image_size) ==
    \/ size = 0
    \/ /\ (offset + size - 1) % Word >= offset
       /\ (offset + size - 1) % Word < image_size

userspace_range_is_valid(vaddr, size) ==
    /\ size # 0 /\ vaddr >= MinVaddr
    /\ (vaddr + size - 1) % Word >= vaddr
    /\ (vaddr + size - 1) % Word <= MaxVaddr

(* The segments the checks are about: an empty one is passed over.         *)
Loadable(e) == {ph \in Range(e.phdrs) : ph.load /\ ph.memsz # 0}

segment_is_valid(ph, image_size) ==
    /\ ph.memsz >= ph.filesz
    /\ ph.align # 0 => ph.align >= PageUnits
    /\ range_within_image(ph.offset, ph.filesz, image_size)
    /\ userspace_range_is_valid(ph.vaddr, ph.memsz)

elf64_validate_user_image(e) ==
    /\ e.size >= EhdrUnits /\ e.ident /\ e.phdrs # <<>>
    /\ userspace_range_is_valid(e.entry, 1)
    /\ range_within_image(e.phoff, PhdrUnits * Len(e.phdrs), e.size)
    /\ \A ph \in Loadable(e) : segment_is_valid(ph, e.size)
    /\ \E ph \in Loadable(e) : e.entry >= ph.vaddr /\ e.entry < ph.vaddr + ph.memsz

-----------------------------------------------------------------------------
(* Loading.                                                                *)

(* load_user_segment: the end of a segment, and the numbers of its pages.  *)
(* An empty segment that begins inside a page has that page.               *)
segment_end(ph) == (ph.vaddr + ph.memsz) % Word
first_page(ph) == ph.vaddr \div PageUnits
end_page(ph) == ((segment_end(ph) + PageUnits - 1) % Word) \div PageUnits
segment_pages(ph) ==
    [k \in 1 .. end_page(ph) - first_page(ph) |-> first_page(ph) + k - 1]

(* What a read at an offset of the file's buffer finds.                    *)
FileUnit(img, offset) ==
    IF offset < Program[img].size THEN <<"file", img, offset>> ELSE <<"beyond">>

(* Mutant: the part of the segment that is not in the file is copied too.  *)
memory_end(ph) == (ph.vaddr + ph.memsz) % Word

file_end(ph) == (ph.vaddr + ph.filesz) % Word

(* load_segment_page: what is copied to a page, by place in the page.      *)
page_part(img, ph, page) ==
    [u \in {u \in 0 .. PageUnits - 1 : /\ page * PageUnits + u >= ph.vaddr
                                       /\ page * PageUnits + u < file_end(ph)}
        |-> FileUnit(img, (ph.offset + page * PageUnits + u - ph.vaddr) % Word)]

(* Empty segments that have a page and, unchecked, a part of the file.     *)
Strays(e) ==
    {ph \in Range(e.phdrs) : /\ ph.load /\ ph.memsz = 0 /\ ph.filesz # 0
                             /\ ph.vaddr % PageUnits # 0}

=============================================================================
