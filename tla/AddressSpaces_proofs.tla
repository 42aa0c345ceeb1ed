------------------------- MODULE AddressSpaces_proofs -------------------------
(***************************************************************************)
(* Proofs about AddressSpaces, for every number of frames and processes,   *)
(* every size of tables, pages and heaps and every set of program files,   *)
(* for all but the blocks as long as EmptyInside holds of them:            *)
(* the blocks of malloc; no frame in two places; the kernel heap in every  *)
(* space; what a process finds in its memory, and that it is mapped.       *)
(*                                                                         *)
(* The blocks need only the breaks.  For the rest a ghost function gives   *)
(* each frame its owner; lemmas say what each operation on memory keeps,   *)
(* from pmm_alloc_page up to load_user_image and process_sbrk, and the     *)
(* invariant World puts them together.                                     *)
(***************************************************************************)
EXTENDS AddressSpaces, SequenceTheorems, IndexLemmas, TLAPS

(* The constants these proofs are about.                                   *)
LEMMA HeapConstants ==
    /\ MallocAlign \in Nat \ {0} /\ HeaderUnits \in Nat \ {0}
    /\ Increments \subseteq Int /\ MaxProcesses \in Nat \ {0}
  BY SpacesAssumption

USE HeapConstants

LEMMA Below ==
    ASSUME NEW q \in Nat, NEW e \in Nat \ {0}, NEW h \in Nat, NEW x \in 0 .. e - 1
    PROVE  q < h <=> q * e + x < h * e
  <1>1. q < h => q * e + x < h * e
    BY Z3
  <1>2. q * e + x < h * e => q < h
    BY Z3
  <1> QED BY <1>1, <1>2

(* The rounding of sizes can wrap, the sum with the header then cannot.    *)
LEMMA AlignedFits ==
    ASSUME NEW size \in Requests
    PROVE  /\ size \in Nat /\ Word \in Nat
           /\ aligned(size) \in Nat /\ total(size) = HeaderUnits + aligned(size)
           /\ total(size) \in Nat \ {0} /\ total(size) < Word
           /\ size <= Word - MallocAlign => size <= aligned(size)
  <1> DEFINE A == MallocAlign
             W == Word
             H == HeaderUnits
             y == (size + A - 1) % W
             q == y \div A
             x == y % A
             c == W \div A
             z == q * A
  <1>1. /\ W \in Nat \ {0} /\ A \in Nat \ {0} /\ H \in 1 .. A - 1 /\ W % A = 0
        /\ size \in 0 .. W - 1 /\ size + A - 1 \in Nat
    <2>1. W \in Nat
      BY ElfAssumption
    <2>2. /\ A \in Nat \ {0} /\ H \in 1 .. A - 1 /\ W % A = 0 /\ size \in 0 .. W - 1
      BY SpacesAssumption
    <2> QED BY <2>1, <2>2
  <1>2. y \in 0 .. W - 1 /\ y \in Nat
    BY <1>1, DivMod
  <1>3. c \in Nat /\ W = c * A
    <2>1. c \in Nat /\ W = c * A + (W % A)
      BY <1>1, DivMod
    <2>2. c * A \in Nat
      BY <1>1, <2>1, Z3
    <2> QED BY <1>1, <2>1, <2>2
  <1>4. aligned(size) = z /\ total(size) = (H + z) % W
    BY DEF aligned, total
  <1>5. q \in Nat /\ x \in 0 .. A - 1 /\ y = q * A + x
    BY <1>1, <1>2, DivMod
  <1>6. size + A - 1 < W => y = size + A - 1
    <2> SUFFICES ASSUME size + A - 1 < W PROVE y = size + A - 1
      OBVIOUS
    <2> DEFINE n == size + A - 1
    <2>1. n \in 0 .. W - 1 /\ n = 0 * W + n
      BY <1>1
    <2> HIDE DEF n
    <2>2. (0 * W + n) % W = n
      BY <1>1, <2>1, DivUnique
    <2>3. n % W = n
      BY <2>1, <2>2
    <2> QED BY <2>3 DEF n
  <1> HIDE DEF y, q, x, c, A, W, H
  <1>7. z \in Nat
    BY <1>1, <1>5, Z3
  <1>8. q + 1 <= c
    <2>1. q * A + x < c * A
      BY <1>2, <1>3, <1>5
    <2>2. q < c
      BY <1>1, <1>3, <1>5, <2>1, Below
    <2> QED BY <1>3, <1>5, <2>2
  <1>9. (q + 1) * A <= c * A /\ (q + 1) * A = z + A
    BY <1>1, <1>3, <1>5, <1>8, Z3
  <1> HIDE DEF z
  <1>10. H + z \in 0 .. W - 1 /\ H + z \in Nat \ {0}
    BY <1>1, <1>3, <1>7, <1>9
  <1>11. (H + z) % W = H + z
    <2> DEFINE n == H + z
    <2>1. n \in 0 .. W - 1 /\ n = 0 * W + n
      BY <1>1, <1>10
    <2> HIDE DEF n
    <2>2. (0 * W + n) % W = n
      BY <1>1, <2>1, DivUnique
    <2>3. n % W = n
      BY <2>1, <2>2
    <2> QED BY <2>3 DEF n
  <1>12. size <= W - A => size <= z
    <2>1. y = z + x
      BY <1>5 DEF z
    <2> QED BY <1>1, <1>5, <1>6, <1>7, <2>1
  <1>13. total(size) = H + z /\ H + z < W
    BY <1>1, <1>4, <1>10, <1>11
  <1> QED BY <1>1, <1>4, <1>7, <1>10, <1>12, <1>13 DEF A, W, H

-----------------------------------------------------------------------------
(* The heap of one process.                                                *)

Block == [at : Nat, size : Nat, asked : Nat]

(* What was asked for is there, but for the largest numbers.               *)
Enough(b) == b.asked <= Word - MallocAlign => b.asked <= b.size

(* Its blocks follow each other with their headers, up to the break.       *)
Packed(r) ==
    /\ r = [pml4 |-> r.pml4, brk |-> r.brk, image |-> r.image, blocks |-> r.blocks]
    /\ r.brk \in Nat /\ r.blocks \in Seq(Block)
    /\ \A i \in 1 .. Len(r.blocks) : r.blocks[i].at + r.blocks[i].size <= r.brk
    /\ \A i \in 1 .. Len(r.blocks) : Enough(r.blocks[i])
    /\ \A i \in 2 .. Len(r.blocks) :
          r.blocks[i - 1].at + r.blocks[i - 1].size <= r.blocks[i].at - HeaderUnits

with_break(r, brk) == [r EXCEPT !.brk = brk]
with_block(r, brk, b) == [r EXCEPT !.brk = brk, !.blocks = Append(@, b)]

LEMMA BreakMoves ==
    ASSUME NEW r, Packed(r), NEW n \in Nat, NEW q, q = with_break(r, r.brk + n)
    PROVE  Packed(q)
  <1>1. /\ q = [pml4 |-> r.pml4, brk |-> r.brk + n, image |-> r.image, blocks |-> r.blocks]
        /\ r.brk \in Nat /\ r.blocks \in Seq(Block)
    BY DEF with_break, Packed
  <1>2. q.brk = r.brk + n /\ q.blocks = r.blocks /\ q.brk \in Nat
    BY <1>1
  <1>3. \A i \in 1 .. Len(r.blocks) : r.blocks[i] \in Block
    BY <1>1
  <1>4. \A i \in 1 .. Len(r.blocks) : r.blocks[i].at \in Nat /\ r.blocks[i].size \in Nat
    BY <1>3 DEF Block
  <1>5. \A i \in 1 .. Len(r.blocks) : r.blocks[i].at + r.blocks[i].size <= r.brk
    BY DEF Packed
  <1>6. \A i \in 1 .. Len(q.blocks) : q.blocks[i].at + q.blocks[i].size <= q.brk
    BY <1>1, <1>2, <1>4, <1>5
  <1>7. \A i \in 2 .. Len(q.blocks) :
          q.blocks[i - 1].at + q.blocks[i - 1].size <= q.blocks[i].at - HeaderUnits
    BY <1>2 DEF Packed
  <1>8. \A i \in 1 .. Len(q.blocks) : Enough(q.blocks[i])
    BY <1>2 DEF Packed
  <1> QED BY <1>1, <1>2, <1>6, <1>7, <1>8 DEF Packed

LEMMA BlockAdded ==
    ASSUME NEW r, Packed(r), NEW n \in Nat, NEW k \in Nat, NEW b,
           b = [at |-> r.brk + HeaderUnits, size |-> n, asked |-> k], Enough(b),
           NEW q, q = with_block(r, r.brk + (HeaderUnits + n), b)
    PROVE  Packed(q)
  <1>1. r.brk \in Nat /\ r.blocks \in Seq(Block) /\ Len(r.blocks) \in Nat
    BY DEF Packed
  <1>2. q = [pml4 |-> r.pml4, brk |-> r.brk + (HeaderUnits + n), image |-> r.image,
             blocks |-> Append(r.blocks, b)]
    BY DEF with_block, Packed
  <1>3. b \in Block /\ b.at = r.brk + HeaderUnits /\ b.size = n
    BY <1>1 DEF Block
  <1>4. /\ q.blocks \in Seq(Block) /\ Len(q.blocks) = Len(r.blocks) + 1
        /\ q.blocks[Len(r.blocks) + 1] = b
        /\ \A i \in 1 .. Len(r.blocks) : q.blocks[i] = r.blocks[i]
    <2> DEFINE bs == r.blocks
               cs == q.blocks
    <2>1. bs \in Seq(Block) /\ cs = Append(bs, b) /\ b \in Block
      BY <1>1, <1>2, <1>3
    <2> HIDE DEF bs, cs
    <2>2. /\ cs \in Seq(Block) /\ Len(cs) = Len(bs) + 1 /\ cs[Len(bs) + 1] = b
          /\ \A i \in 1 .. Len(bs) : cs[i] = bs[i]
      BY <2>1
    <2> QED BY <2>2 DEF bs, cs
  <1>5. q.brk = r.brk + (HeaderUnits + n) /\ q.brk \in Nat
    BY <1>1, <1>2
  <1>6. \A i \in 1 .. Len(r.blocks) : /\ r.blocks[i].at \in Nat /\ r.blocks[i].size \in Nat
                                      /\ r.blocks[i].at + r.blocks[i].size <= r.brk
    <2>1. \A i \in 1 .. Len(r.blocks) : r.blocks[i] \in Block
      BY <1>1
    <2> QED BY <2>1 DEF Block, Packed
  <1>7. \A i \in 1 .. Len(q.blocks) : q.blocks[i].at + q.blocks[i].size <= q.brk
    <2> TAKE i \in 1 .. Len(q.blocks)
    <2>1. CASE i = Len(r.blocks) + 1
      BY <1>1, <1>3, <1>4, <1>5, <2>1
    <2>2. CASE i \in 1 .. Len(r.blocks)
      <3>1. r.blocks[i].at + r.blocks[i].size <= q.brk
        <4>1. /\ r.blocks[i].at \in Nat /\ r.blocks[i].size \in Nat
              /\ r.blocks[i].at + r.blocks[i].size <= r.brk
          BY <1>6, <2>2
        <4>2. r.brk <= q.brk /\ r.brk \in Nat /\ q.brk \in Nat
          BY <1>1, <1>5
        <4> DEFINE x == r.blocks[i].at
                   y == r.blocks[i].size
                   u == r.brk
                   v == q.brk
        <4>3. x \in Nat /\ y \in Nat /\ x + y <= u /\ u <= v /\ u \in Nat /\ v \in Nat
          BY <4>1, <4>2
        <4> HIDE DEF x, y, u, v
        <4>4. x + y <= v
          BY <4>3
        <4> QED BY <4>4 DEF x, y, v
      <3> QED BY <1>4, <2>2, <3>1
    <2> QED BY <1>1, <1>4, <2>1, <2>2
  <1>8. \A i \in 2 .. Len(q.blocks) :
          q.blocks[i - 1].at + q.blocks[i - 1].size <= q.blocks[i].at - HeaderUnits
    <2> TAKE i \in 2 .. Len(q.blocks)
    <2>1. CASE i = Len(r.blocks) + 1
      <3>1. i - 1 \in 1 .. Len(r.blocks) /\ i - 1 = Len(r.blocks)
        <4>1. Len(r.blocks) \in Nat
          BY <1>1
        <4>2. Len(r.blocks) + 1 >= 2
          BY <2>1, <4>1
        <4> QED BY <2>1, <4>1, <4>2
      <3>2. q.blocks[i].at = r.brk + HeaderUnits
        BY <1>3, <1>4, <2>1
      <3>3. q.blocks[i].at - HeaderUnits = r.brk
        BY <1>1, <3>2
      <3>4. /\ q.blocks[i - 1] = r.blocks[i - 1]
            /\ r.blocks[i - 1].at + r.blocks[i - 1].size <= r.brk
        BY <1>4, <1>6, <3>1
      <3> QED BY <3>3, <3>4
    <2>2. CASE i \in 2 .. Len(r.blocks)
      <3>1. i - 1 \in 1 .. Len(r.blocks) /\ i \in 1 .. Len(r.blocks)
        BY <1>1, <2>2
      <3>2. r.blocks[i - 1].at + r.blocks[i - 1].size <= r.blocks[i].at - HeaderUnits
        BY <2>2 DEF Packed
      <3> QED BY <1>4, <3>1, <3>2
    <2> QED BY <1>1, <1>4, <2>1, <2>2
  <1>9. \A i \in 1 .. Len(q.blocks) : Enough(q.blocks[i])
    <2>1. \A i \in 1 .. Len(q.blocks) : i \in 1 .. Len(r.blocks) \/ i = Len(r.blocks) + 1
      BY <1>1, <1>4
    <2> QED BY <1>4, <2>1 DEF Packed
  <1> QED BY <1>2, <1>4, <1>5, <1>7, <1>8, <1>9 DEF Packed

-----------------------------------------------------------------------------
(* All processes, those that have exited included.                         *)
SpacesInv ==
    /\ chain \in Seq(Slots)
    /\ space = [s \in Slots |-> space[s]]
    /\ \A s \in Slots : Packed(space[s])

LEMMA CurrentSlot == SpacesInv /\ chain # <<>> => current \in Slots
  <1> SUFFICES ASSUME SpacesInv, chain # <<>> PROVE current \in Slots
    OBVIOUS
  <1>1. chain \in Seq(Slots) /\ Len(chain) \in Nat \ {0}
    BY DEF SpacesInv
  <1> QED BY <1>1 DEF current, Last

LEMMA OneSpaceChanges ==
    ASSUME SpacesInv, chain' \in Seq(Slots), NEW s \in Slots, NEW q, Packed(q),
           space' = [space EXCEPT ![s] = q]
    PROVE  SpacesInv'
  BY DEF SpacesInv

LEMMA NewSpace ==
    ASSUME NEW pml4, NEW image, NEW q, q = [NoSpace EXCEPT !.pml4 = pml4, !.image = image]
    PROVE  Packed(q)
  <1>1. /\ q.brk = 0 /\ q.blocks = <<>>
        /\ q = [pml4 |-> q.pml4, brk |-> q.brk, image |-> q.image, blocks |-> q.blocks]
    BY DEF NoSpace
  <1>2. <<>> \in Seq(Block) /\ Len(<<>>) = 0 /\ 0 \in Nat
    OBVIOUS
  <1>3. q.brk \in Nat /\ q.blocks \in Seq(Block) /\ Len(q.blocks) = 0
    BY <1>1, <1>2, Zenon
  <1> QED BY <1>1, <1>3 DEF Packed

LEMMA LaunchKeeps ==
    ASSUME SpacesInv, NEW w, FreeSlots # {}, Enter(w)
    PROVE  SpacesInv'
  <1>1. CASE ~w.ok
    BY <1>1 DEF Enter, SpacesInv
  <1>2. CASE w.ok
    <2> DEFINE s == Min(FreeSlots)
               q == [NoSpace EXCEPT !.pml4 = w.root, !.image = w.image]
    <2>1. FreeSlots \in SUBSET Nat /\ FreeSlots \subseteq Slots
      BY DEF FreeSlots, Slots
    <2>2. s \in Slots
      BY <2>1, MinIsLeast
    <2>3. chain' = Append(chain, s) /\ space' = [space EXCEPT ![s] = q]
      BY <1>2 DEF Enter
    <2> HIDE DEF s
    <2>4. Packed(q)
      BY NewSpace
    <2> HIDE DEF q
    <2>6. chain' \in Seq(Slots)
      BY <2>2, <2>3 DEF SpacesInv
    <2> QED BY <2>2, <2>3, <2>4, <2>6, OneSpaceChanges
  <1> QED BY <1>1, <1>2

(* A call of sbrk that succeeds never moves the break down.                *)
LEMMA SbrkAnswers ==
    ASSUME NEW inc \in Int, process_sbrk(inc).ok
    PROVE  inc \in Nat
  <1>1. SUFFICES ASSUME inc < 0 PROVE FALSE
    OBVIOUS
  <1>2. process_sbrk(inc) = [m |-> mem, ok |-> inc = 0]
    BY <1>1 DEF process_sbrk
  <1> DEFINE none == inc = 0
  <1>3. none = FALSE
    BY <1>1
  <1>4. process_sbrk(inc) = [m |-> mem, ok |-> none]
    BY <1>2
  <1> HIDE DEF none
  <1>5. process_sbrk(inc) = [m |-> mem, ok |-> FALSE]
    BY <1>3, <1>4
  <1>6. process_sbrk(inc).ok = FALSE
    BY <1>5
  <1> QED BY <1>6, Zenon

(* Of malloc: what sbrk is asked for is not negative when it succeeds.     *)
LEMMA MallocAsks ==
    ASSUME NEW size \in Requests, process_sbrk(signed(total(size))).ok
    PROVE  signed(total(size)) = total(size)
  <1>1. total(size) \in Nat /\ total(size) < Word /\ Word \in Nat
    BY AlignedFits
  <1>2. signed(total(size)) = total(size) \/ signed(total(size)) = total(size) - Word
    BY DEF signed
  <1>3. signed(total(size)) \in Int
    BY <1>1, <1>2
  <1>4. signed(total(size)) \in Nat
    BY <1>3, SbrkAnswers
  <1> QED BY <1>1, <1>2, <1>4

LEMMA SpacesStep == SpacesInv /\ [Next]_vars => SpacesInv'
  <1> SUFFICES ASSUME SpacesInv, [Next]_vars PROVE SpacesInv'
    OBVIOUS
  <1>0. ASSUME UNCHANGED <<space, chain>>
        PROVE  SpacesInv'
    BY <1>0 DEF SpacesInv
  <1>1. CASE RunProgram
    <2>1. PICK img \in Images, n \in Growth : Launch(expand_heap(mem, root, n), img, n)
      BY <1>1 DEF RunProgram
    <2> DEFINE grow == expand_heap(mem, root, n)
    <2>2. \/ UNCHANGED <<space, chain>>
          \/ FreeSlots # {} /\ Enter(load_user_image(grow.m, img))
      BY <2>1 DEF Launch, Refuse
    <2> QED BY <1>0, <2>2, LaunchKeeps
  <1>2. CASE Exit
    <2>1. Len(chain) > 1 /\ chain' = Front(chain) /\ space' = space /\ chain \in Seq(Slots)
      BY <1>2 DEF Exit, SpacesInv
    <2>2. chain' \in Seq(Slots)
      BY <2>1 DEF Front
    <2> QED BY <2>1, <2>2 DEF SpacesInv
  <1>3. CASE Sbrk
    <2>1. PICK inc \in Increments :
            /\ chain # <<>> /\ chain' = chain
            /\ space' = IF process_sbrk(inc).ok
                        THEN [space EXCEPT ![current].brk = @ + inc] ELSE space
      BY <1>3 DEF Sbrk
    <2>2. CASE ~process_sbrk(inc).ok
      BY <1>0, <2>1, <2>2
    <2>3. CASE process_sbrk(inc).ok
      <3>1. inc \in Nat
        BY <2>3, SbrkAnswers
      <3>2. current \in Slots /\ Packed(space[current]) /\ chain' \in Seq(Slots)
        BY <2>1, CurrentSlot DEF SpacesInv
      <3> DEFINE q == with_break(space[current], space[current].brk + inc)
      <3>3. Packed(q)
        BY <3>1, <3>2, BreakMoves
      <3>4. space' = [space EXCEPT ![current] = q]
        BY <2>1, <2>3 DEF with_break
      <3> HIDE DEF q
      <3> QED BY <3>2, <3>3, <3>4, OneSpaceChanges
    <2> QED BY <2>2, <2>3
  <1>4. CASE Malloc
    <2>1. PICK size \in Requests :
            /\ chain # <<>> /\ chain' = chain
            /\ space' = IF process_sbrk(signed(total(size))).ok
                        THEN [space EXCEPT ![current].brk = @ + total(size),
                               ![current].blocks =
                                 Append(@, [at |-> space[current].brk + HeaderUnits,
                                            size |-> aligned(size), asked |-> size])]
                        ELSE space
      BY <1>4 DEF Malloc
    <2>2. CASE ~process_sbrk(signed(total(size))).ok
      BY <1>0, <2>1, <2>2
    <2>3. CASE process_sbrk(signed(total(size))).ok
      <3>1. /\ aligned(size) \in Nat /\ total(size) = HeaderUnits + aligned(size) /\ size \in Nat
            /\ size <= Word - MallocAlign => size <= aligned(size)
        BY AlignedFits
      <3>2. current \in Slots /\ Packed(space[current]) /\ chain' \in Seq(Slots)
        BY <2>1, CurrentSlot DEF SpacesInv
      <3> DEFINE b == [at |-> space[current].brk + HeaderUnits, size |-> aligned(size), asked |-> size]
                 q == with_block(space[current],
                                 space[current].brk + (HeaderUnits + aligned(size)), b)
      <3>3. Enough(b)
        BY <3>1 DEF Enough
      <3>4. Packed(q)
        BY <3>1, <3>2, <3>3, BlockAdded
      <3>5. space' = [space EXCEPT ![current] = q]
        BY <2>1, <2>3, <3>1 DEF with_block
      <3> HIDE DEF q, b
      <3> QED BY <3>2, <3>4, <3>5, OneSpaceChanges
    <2> QED BY <2>2, <2>3
  <1>5. CASE WriteUser
    BY <1>0, <1>5 DEF WriteUser
  <1>6. CASE UNCHANGED vars
    BY <1>0, <1>6 DEF vars
  <1> QED BY <1>1, <1>2, <1>3, <1>4, <1>5, <1>6 DEF Next

(* The blocks malloc has returned to a running program lie below its break *)
(* and apart from each other and from each other's headers, and have what  *)
(* was asked for where align_up_size does not wrap, whichever of its calls *)
(* of malloc and sbrk failed, and whatever else ran in between.            *)
THEOREM AllocatedBlocksApart == Spec => []BlocksApart
  <1>1. Init => SpacesInv
    <2> SUFFICES ASSUME Init PROVE SpacesInv
      OBVIOUS
    <2>1. space = [s \in Slots |-> NoSpace] /\ chain = <<>>
      BY DEF Init
    <2>2. Packed(NoSpace)
      BY DEF Packed, NoSpace
    <2> QED BY <2>1, <2>2 DEF SpacesInv
  <1>2. SpacesInv => BlocksApart
    <2> SUFFICES ASSUME SpacesInv, NEW s \in Range(chain)
                 PROVE  /\ \A i \in 1 .. Len(space[s].blocks) :
                              /\ space[s].blocks[i].at + space[s].blocks[i].size <= space[s].brk
                              /\ space[s].blocks[i].asked <= Word - MallocAlign
                                   => space[s].blocks[i].asked <= space[s].blocks[i].size
                        /\ \A i \in 2 .. Len(space[s].blocks) :
                              space[s].blocks[i - 1].at + space[s].blocks[i - 1].size
                                <= space[s].blocks[i].at - HeaderUnits
      BY DEF BlocksApart
    <2>1. s \in Slots
      BY DEF SpacesInv, Range
    <2> QED BY <2>1 DEF SpacesInv, Packed, Enough
  <1> QED BY <1>1, <1>2, SpacesStep, PTL DEF Spec

-----------------------------------------------------------------------------
(* Who owns a frame.  A ghost function says for every frame what it is     *)
(* for; that every place of the page tables agrees with it is what makes   *)
(* two places with one frame impossible.                                   *)

LEMMA SpaceConstants ==
    /\ Frames \subseteq Nat /\ KernelRoot \in Frames /\ None \notin Frames
    /\ Index \subseteq Int /\ Half \in Index /\ KernelTop \in Index /\ KernelTop >= Half
    /\ HeapTop \in Index /\ HeapTop < Half /\ Entries \in Nat \ {0}
    /\ StackPage \in Index \X Index /\ StackPage[1] < Half
  <1>1. /\ TotalFrames \in Nat /\ Entries \in Nat /\ Half \in 0 .. Entries - 1
        /\ KernelTop \in Half .. Entries - 1 /\ HeapTop \in 0 .. Half - 1
        /\ StackPage \in Index \X Index /\ StackPage[1] < Half
    BY SpacesAssumption DEF Index, Addresses
  <1>2. /\ Frames \subseteq Nat /\ KernelRoot \in Frames /\ None \notin Frames
        /\ Index \subseteq Int /\ Half \in Index /\ KernelTop \in Index /\ KernelTop >= Half
        /\ HeapTop \in Index /\ HeapTop < Half /\ Entries \in Nat \ {0}
    BY <1>1 DEF Frames, KernelRoot, None, Index
  <1> QED BY <1>1, <1>2

Free == <<0, 0, 0, 0>>
Held == <<1, 0, 0, 0>>
RootMark(r) == <<2, r, 0, 0>>
TableMark(r, i) == <<3, r, i, 0>>
PageMark(r, i, j) == <<4, r, i, j>>

LEMMA MarksDiffer ==
    /\ Free # Held
    /\ \A r : RootMark(r) # Free /\ RootMark(r) # Held
    /\ \A r, i : TableMark(r, i) # Free /\ TableMark(r, i) # Held
    /\ \A r, i, j : PageMark(r, i, j) # Free /\ PageMark(r, i, j) # Held
    /\ \A q, r, i : RootMark(q) # TableMark(r, i)
    /\ \A q, r, i, j : RootMark(q) # PageMark(r, i, j)
    /\ \A q, k, r, i, j : TableMark(q, k) # PageMark(r, i, j)
    /\ \A q, r : RootMark(q) = RootMark(r) => q = r
    /\ \A q, k, r, i : TableMark(q, k) = TableMark(r, i) => q = r /\ k = i
    /\ \A q, k, l, r, i, j : PageMark(q, k, l) = PageMark(r, i, j) => q = r /\ k = i /\ l = j
  BY DEF Free, Held, RootMark, TableMark, PageMark

(* The kernel's half of every root is the kernel root's.                   *)
Holder(r, i) == IF i >= Half THEN KernelRoot ELSE r

Tables == [Frames -> [Index -> Frames \cup {None}]]

(* Every frame in a root of R, and in a table under it, is owned by its    *)
(* place.                                                                  *)
Owned(tab, R, own) ==
    /\ \A r \in R : own[r] = RootMark(r)
    /\ \A r \in R, i \in Index :
          tab[r][i] # None => own[tab[r][i]] = TableMark(Holder(r, i), i)
    /\ \A r \in R, i \in Index, j \in Index :
          tab[r][i] # None /\ tab[tab[r][i]][j] # None
             => own[tab[tab[r][i]][j]] = PageMark(Holder(r, i), i, j)
    /\ \A r \in R, i \in Index : i >= Half => tab[r][i] = tab[KernelRoot][i]

Give(own, f, mark) == [g \in Frames |-> IF g = f THEN mark ELSE own[g]]

(* One entry of one table is set.                                          *)
EntrySet(tab, t, i, x) ==
    [g \in Frames |-> IF g = t THEN [k \in Index |-> IF k = i THEN x ELSE tab[g][k]]
                      ELSE tab[g]]
TableSet(tab, f, new) == [g \in Frames |-> IF g = f THEN new ELSE tab[g]]

LEMMA NewTableOwned ==
    ASSUME NEW tab \in Tables, NEW R \in SUBSET Frames, NEW own, Owned(tab, R, own),
           NEW f \in Frames, own[f] = Held, NEW r \in R, NEW i \in Index, tab[r][i] = None,
           i < Half \/ R = {KernelRoot}, KernelRoot \in R,
           NEW new, new = EntrySet(TableSet(tab, f, NoTable), r, i, f)
    PROVE  new \in Tables /\ Owned(new, R, Give(own, f, TableMark(r, i)))
  <1> DEFINE own2 == Give(own, f, TableMark(r, i))
  <1>0. \A q \in R : q # f /\ q \in Frames
    BY MarksDiffer DEF Owned
  <1>1. /\ own2[f] = TableMark(r, i) /\ \A g \in Frames : g # f => own2[g] = own[g]
        /\ Holder(r, i) = r
    BY SpaceConstants DEF Give, Holder
  <1>2. /\ \A k \in Index : NoTable[k] = None
        /\ NoTable \in [Index -> Frames \cup {None}]
    BY DEF NoTable
  <1>3. new \in Tables
    BY <1>2 DEF EntrySet, TableSet, Tables
  <1>4. /\ new[f] = NoTable /\ new[r][i] = f
        /\ \A k \in Index : k # i => new[r][k] = tab[r][k]
        /\ \A g \in Frames : g # f /\ g # r => new[g] = tab[g]
    BY <1>0 DEF EntrySet, TableSet
  <1> HIDE DEF own2
  <1>5. \A q \in R, k \in Index : (q # r \/ k # i) => new[q][k] = tab[q][k]
    BY <1>0, <1>4
  <1>6. ASSUME NEW q \in R, NEW k \in Index, tab[q][k] # None
        PROVE  /\ tab[q][k] \in Frames /\ tab[q][k] # f /\ tab[q][k] # r
               /\ own2[tab[q][k]] = TableMark(Holder(q, k), k)
               /\ new[q][k] = tab[q][k] /\ new[tab[q][k]] = tab[tab[q][k]]
    <2>1. tab[q][k] \in Frames
      BY <1>6 DEF Tables
    <2>2. own[tab[q][k]] = TableMark(Holder(q, k), k) /\ own[r] = RootMark(r)
      BY <1>6 DEF Owned
    <2>3. tab[q][k] # f /\ tab[q][k] # r
      BY <2>2, MarksDiffer
    <2> QED BY <1>1, <1>4, <1>5, <1>6, <2>1, <2>2, <2>3
  <1>7. ASSUME NEW q \in R, NEW k \in Index, new[q][k] # None
        PROVE  \/ q = r /\ k = i /\ new[q][k] = f
               \/ tab[q][k] # None
    BY <1>4, <1>5, <1>7
  <1>8. \A q \in R : own2[q] = RootMark(q)
    BY <1>0, <1>1 DEF Owned
  <1>9. ASSUME NEW q \in R, NEW k \in Index, new[q][k] # None
        PROVE  own2[new[q][k]] = TableMark(Holder(q, k), k)
    BY <1>1, <1>6, <1>7, <1>9
  <1>10. ASSUME NEW q \in R, NEW k \in Index, NEW l \in Index,
                new[q][k] # None, new[new[q][k]][l] # None
         PROVE  own2[new[new[q][k]][l]] = PageMark(Holder(q, k), k, l)
    <2>1. CASE q = r /\ k = i /\ new[q][k] = f
      BY <1>2, <1>4, <1>10, <2>1
    <2>2. CASE tab[q][k] # None
      <3> DEFINE t == tab[q][k]
      <3>1. t \in Frames /\ new[q][k] = t /\ new[t] = tab[t]
        BY <1>6, <2>2
      <3>2. tab[t][l] # None /\ tab[t][l] \in Frames
        BY <1>10, <3>1 DEF Tables
      <3>3. own[tab[t][l]] = PageMark(Holder(q, k), k, l)
        BY <2>2, <3>2 DEF Owned
      <3>4. tab[t][l] # f
        BY <3>3, MarksDiffer
      <3> QED BY <1>1, <3>1, <3>2, <3>3, <3>4
    <2> QED BY <1>7, <1>10, <2>1, <2>2
  <1>11. \A q \in R, k \in Index : k >= Half => new[q][k] = new[KernelRoot][k]
    <2>1. CASE R = {KernelRoot}
      BY <2>1
    <2>2. CASE i < Half
      <3>1. \A k \in Index : k >= Half => k # i
        BY <2>2, SpaceConstants
      <3> QED BY <1>5, <3>1 DEF Owned
    <2> QED BY <2>1, <2>2
  <1> QED BY <1>3, <1>8, <1>9, <1>10, <1>11 DEF Owned, own2

(* The table at (r, i) and its entry j, by the mark of its frame.          *)
LEMMA SameTable ==
    ASSUME NEW tab, NEW R, NEW own, Owned(tab, R, own), NEW r \in R, NEW i \in Index,
           NEW q \in R, NEW k \in Index, tab[q][k] # None, tab[r][i] # None
    PROVE  /\ tab[q][k] = tab[r][i] <=> k = i /\ Holder(q, k) = Holder(r, i)
  <1>1. own[tab[q][k]] = TableMark(Holder(q, k), k) /\ own[tab[r][i]] = TableMark(Holder(r, i), i)
    BY DEF Owned
  <1>2. tab[q][k] = tab[r][i] => k = i /\ Holder(q, k) = Holder(r, i)
    BY <1>1, MarksDiffer
  <1>3. ASSUME k = i, Holder(q, k) = Holder(r, i)
        PROVE  tab[q][k] = tab[r][i]
    <2>1. CASE i >= Half
      BY <1>3, <2>1 DEF Owned
    <2>2. CASE ~(i >= Half)
      BY <1>3, <2>2 DEF Holder
    <2> QED BY <2>1, <2>2
  <1> QED BY <1>2, <1>3

LEMMA PageSetOwned ==
    ASSUME NEW tab \in Tables, NEW R \in SUBSET Frames, NEW own, Owned(tab, R, own),
           NEW f \in Frames, own[f] = Held, NEW r \in R, NEW i \in Index, NEW j \in Index,
           KernelRoot \in R, tab[r][i] # None, tab[tab[r][i]][j] = None,
           NEW new, new = EntrySet(tab, tab[r][i], j, f)
    PROVE  new \in Tables /\ Owned(new, R, Give(own, f, PageMark(Holder(r, i), i, j)))
  <1> DEFINE own2 == Give(own, f, PageMark(Holder(r, i), i, j))
             t == tab[r][i]
  <1>0. t \in Frames /\ own[t] = TableMark(Holder(r, i), i)
    BY DEF Owned, Tables
  <1>1. own2[f] = PageMark(Holder(r, i), i, j) /\ \A g \in Frames : g # f => own2[g] = own[g]
    BY DEF Give
  <1>2. new \in Tables
    BY DEF EntrySet, Tables
  <1>3. /\ new[t][j] = f /\ \A l \in Index : l # j => new[t][l] = tab[t][l]
        /\ \A g \in Frames : g # t => new[g] = tab[g]
    BY <1>0 DEF EntrySet
  <1> HIDE DEF own2, t
  <1>4. \A q \in R : q \in Frames /\ q # t /\ q # f /\ new[q] = tab[q]
    BY <1>0, <1>3, MarksDiffer DEF Owned
  <1>5. \A q \in R : own2[q] = RootMark(q)
    BY <1>1, <1>4 DEF Owned
  <1>6. ASSUME NEW q \in R, NEW k \in Index, tab[q][k] # None
        PROVE  tab[q][k] \in Frames /\ own2[tab[q][k]] = TableMark(Holder(q, k), k)
    <2>1. own[tab[q][k]] = TableMark(Holder(q, k), k) /\ tab[q][k] \in Frames
      BY <1>6 DEF Owned, Tables
    <2>2. tab[q][k] # f
      BY <2>1, MarksDiffer
    <2> QED BY <1>1, <2>1, <2>2
  <1>7. ASSUME NEW q \in R, NEW k \in Index, NEW l \in Index,
               tab[q][k] # None, new[tab[q][k]][l] # None
        PROVE  own2[new[tab[q][k]][l]] = PageMark(Holder(q, k), k, l)
    <2>1. CASE tab[q][k] = t /\ l = j
      <3>1. k = i /\ Holder(q, k) = Holder(r, i)
        BY <1>7, <2>1, SameTable DEF t
      <3> QED BY <1>1, <1>3, <2>1, <3>1
    <2>2. CASE ~(tab[q][k] = t /\ l = j)
      <3>1. new[tab[q][k]][l] = tab[tab[q][k]][l]
        BY <1>3, <1>6, <1>7, <2>2
      <3>2. own[tab[tab[q][k]][l]] = PageMark(Holder(q, k), k, l)
        BY <1>7, <3>1 DEF Owned
      <3>3. tab[tab[q][k]][l] \in Frames
        BY <1>6, <1>7, <3>1 DEF Tables
      <3>4. tab[tab[q][k]][l] # f
        BY <3>2, MarksDiffer
      <3> QED BY <1>1, <3>1, <3>2, <3>3, <3>4
    <2> QED BY <2>1, <2>2
  <1>8. \A q \in R, k \in Index : k >= Half => new[q][k] = new[KernelRoot][k]
    BY <1>4 DEF Owned
  <1>9. \A q \in R, k \in Index : new[q][k] = tab[q][k]
    BY <1>4
  <1> QED BY <1>2, <1>5, <1>6, <1>7, <1>8, <1>9 DEF Owned, own2

LEMMA PageClearedOwned ==
    ASSUME NEW tab \in Tables, NEW R \in SUBSET Frames, NEW own, Owned(tab, R, own),
           NEW r \in R, NEW i \in Index, NEW j \in Index, KernelRoot \in R,
           tab[r][i] # None, NEW f \in Frames, tab[tab[r][i]][j] = f,
           NEW new, new = EntrySet(tab, tab[r][i], j, None)
    PROVE  /\ new \in Tables /\ Owned(new, R, Give(own, f, Held))
           /\ own[f] = PageMark(Holder(r, i), i, j)
  <1> DEFINE own2 == Give(own, f, Held)
             t == tab[r][i]
  <1>0. /\ t \in Frames /\ own[t] = TableMark(Holder(r, i), i)
        /\ own[f] = PageMark(Holder(r, i), i, j)
    BY SpaceConstants DEF Owned, Tables
  <1>1. \A g \in Frames : g # f => own2[g] = own[g]
    BY DEF Give
  <1>2. new \in Tables
    BY DEF EntrySet, Tables
  <1>3. /\ new[t][j] = None /\ \A l \in Index : l # j => new[t][l] = tab[t][l]
        /\ \A g \in Frames : g # t => new[g] = tab[g]
    BY <1>0 DEF EntrySet
  <1> HIDE DEF own2, t
  <1>4. \A q \in R : q \in Frames /\ q # t /\ q # f /\ new[q] = tab[q]
    BY <1>0, <1>3, MarksDiffer DEF Owned
  <1>5. \A q \in R : own2[q] = RootMark(q)
    BY <1>1, <1>4 DEF Owned
  <1>6. ASSUME NEW q \in R, NEW k \in Index, tab[q][k] # None
        PROVE  tab[q][k] \in Frames /\ own2[tab[q][k]] = TableMark(Holder(q, k), k)
    <2>1. own[tab[q][k]] = TableMark(Holder(q, k), k) /\ tab[q][k] \in Frames
      BY <1>6 DEF Owned, Tables
    <2>2. tab[q][k] # f
      BY <1>0, <2>1, MarksDiffer
    <2> QED BY <1>1, <2>1, <2>2
  <1>7. ASSUME NEW q \in R, NEW k \in Index, NEW l \in Index,
               tab[q][k] # None, new[tab[q][k]][l] # None
        PROVE  own2[new[tab[q][k]][l]] = PageMark(Holder(q, k), k, l)
    <2>1. ~(tab[q][k] = t /\ l = j)
      BY <1>3, <1>7
    <2>2. new[tab[q][k]][l] = tab[tab[q][k]][l]
      BY <1>3, <1>6, <1>7, <2>1
    <2>3. own[tab[tab[q][k]][l]] = PageMark(Holder(q, k), k, l)
      BY <1>7, <2>2 DEF Owned
    <2>4. tab[tab[q][k]][l] \in Frames
      BY <1>6, <1>7, <2>2 DEF Tables
    <2>5. tab[tab[q][k]][l] # f
      <3> SUFFICES ASSUME tab[tab[q][k]][l] = f PROVE FALSE
        OBVIOUS
      <3>1. Holder(q, k) = Holder(r, i) /\ k = i /\ l = j
        BY <1>0, <2>3, MarksDiffer
      <3>2. tab[q][k] = t
        BY <1>7, <3>1, SameTable DEF t
      <3> QED BY <2>1, <3>1, <3>2
    <2> QED BY <1>1, <2>2, <2>3, <2>4, <2>5
  <1>8. \A q \in R, k \in Index : k >= Half => new[q][k] = new[KernelRoot][k]
    BY <1>4 DEF Owned
  <1>9. \A q \in R, k \in Index : new[q][k] = tab[q][k]
    BY <1>4
  <1> QED BY <1>0, <1>2, <1>5, <1>6, <1>7, <1>8, <1>9 DEF Owned, own2

KernelHalf(tab, r) == [i \in Index |-> IF i >= Half THEN tab[r][i] ELSE None]

LEMMA NewRootOwned ==
    ASSUME NEW tab \in Tables, NEW R \in SUBSET Frames, NEW own, Owned(tab, R, own),
           NEW f \in Frames, own[f] = Held, NEW r \in R, KernelRoot \in R,
           NEW new, new = TableSet(tab, f, KernelHalf(tab, r))
    PROVE  new \in Tables /\ Owned(new, R \cup {f}, Give(own, f, RootMark(f)))
  <1> DEFINE own2 == Give(own, f, RootMark(f))
  <1>1. own2[f] = RootMark(f) /\ \A g \in Frames : g # f => own2[g] = own[g]
    BY DEF Give
  <1>2. new \in Tables
    BY DEF TableSet, KernelHalf, Tables
  <1>3. /\ \A i \in Index : new[f][i] = IF i >= Half THEN tab[KernelRoot][i] ELSE None
        /\ \A g \in Frames : g # f => new[g] = tab[g]
    BY DEF TableSet, KernelHalf, Owned
  <1> HIDE DEF own2
  <1>4. \A q \in R : q \in Frames /\ q # f /\ new[q] = tab[q]
    BY <1>3, MarksDiffer DEF Owned
  <1>5. \A q \in R \cup {f} : own2[q] = RootMark(q)
    BY <1>1, <1>4 DEF Owned
  <1>6. ASSUME NEW q \in R, NEW k \in Index, tab[q][k] # None
        PROVE  /\ tab[q][k] \in Frames /\ own2[tab[q][k]] = TableMark(Holder(q, k), k)
               /\ new[tab[q][k]] = tab[tab[q][k]]
    <2>1. own[tab[q][k]] = TableMark(Holder(q, k), k) /\ tab[q][k] \in Frames
      BY <1>6 DEF Owned, Tables
    <2>2. tab[q][k] # f
      BY <2>1, MarksDiffer
    <2> QED BY <1>1, <1>3, <2>1, <2>2
  <1>7. ASSUME NEW q \in R, NEW k \in Index, NEW l \in Index,
               tab[q][k] # None, new[tab[q][k]][l] # None
        PROVE  own2[new[tab[q][k]][l]] = PageMark(Holder(q, k), k, l)
    <2>1. new[tab[q][k]][l] = tab[tab[q][k]][l]
      BY <1>6, <1>7
    <2>2. own[tab[tab[q][k]][l]] = PageMark(Holder(q, k), k, l)
      BY <1>7, <2>1 DEF Owned
    <2>3. tab[tab[q][k]][l] \in Frames /\ tab[tab[q][k]][l] # f
      <3>1. tab[tab[q][k]][l] \in Frames
        BY <1>6, <1>7, <2>1 DEF Tables
      <3> QED BY <2>2, <3>1, MarksDiffer
    <2> QED BY <1>1, <2>1, <2>2, <2>3
  <1>8. ASSUME NEW q \in R \cup {f}, NEW k \in Index, new[q][k] # None
        PROVE  \E p \in R : /\ tab[p][k] # None /\ new[q][k] = tab[p][k]
                            /\ Holder(p, k) = Holder(q, k)
    <2>1. CASE q \in R
      BY <1>4, <1>8, <2>1
    <2>2. CASE q = f
      BY <1>3, <1>8, <2>2 DEF Holder
    <2> QED BY <2>1, <2>2
  <1>9. ASSUME NEW q \in R \cup {f}, NEW k \in Index, new[q][k] # None
        PROVE  own2[new[q][k]] = TableMark(Holder(q, k), k)
    <2>1. PICK p \in R : tab[p][k] # None /\ new[q][k] = tab[p][k] /\ Holder(p, k) = Holder(q, k)
      BY <1>8, <1>9
    <2> QED BY <1>6, <2>1
  <1>10. ASSUME NEW q \in R \cup {f}, NEW k \in Index, NEW l \in Index, new[q][k] # None,
                new[new[q][k]][l] # None
         PROVE  own2[new[new[q][k]][l]] = PageMark(Holder(q, k), k, l)
    <2>1. PICK p \in R : tab[p][k] # None /\ new[q][k] = tab[p][k] /\ Holder(p, k) = Holder(q, k)
      BY <1>8, <1>10
    <2> QED BY <1>7, <1>10, <2>1
  <1>11. \A q \in R \cup {f}, k \in Index : k >= Half => new[q][k] = new[KernelRoot][k]
    BY <1>3, <1>4 DEF Owned
  <1> QED BY <1>2, <1>5, <1>9, <1>10, <1>11 DEF Owned, own2

-----------------------------------------------------------------------------
(* A memory in order: the frames of the roots R and of all that is under   *)
(* them are where the ghost function says, the free list has only free     *)
(* ones, each once, and the frames of H are held by the code that runs.    *)

IsMem(m) ==
    /\ m = [free |-> m.free, table |-> m.table, data |-> m.data]
    /\ m.free \in Seq(Frames) /\ m.table \in Tables
    /\ m.data = [f \in Frames |-> [u \in Units |-> m.data[f][u]]]

Listed(free, own) ==
    /\ \A k \in 1 .. Len(free) : own[free[k]] = Free
    /\ \A k, l \in 1 .. Len(free) : free[k] = free[l] => k = l

Tidy(m, R, H, own) ==
    /\ Listed(m.free, own) /\ Owned(m.table, R, own)
    /\ \A h \in H : own[h] = Held

Sound(m, R, H) ==
    /\ IsMem(m) /\ R \in SUBSET Frames /\ KernelRoot \in R /\ H \in SUBSET Frames
    /\ \E own : Tidy(m, R, H, own)

LEMMA MemMade ==
    ASSUME NEW m, IsMem(m), NEW free \in Seq(Frames), NEW tab \in Tables,
           NEW n, n = [free |-> free, table |-> tab, data |-> m.data]
    PROVE  IsMem(n) /\ n.free = free /\ n.table = tab /\ n.data = m.data
  <1>1. n.free = free /\ n.table = tab /\ n.data = m.data
    OBVIOUS
  <1>2. n.data = [f \in Frames |-> [u \in Units |-> n.data[f][u]]]
    BY <1>1 DEF IsMem
  <1> QED BY <1>1, <1>2 DEF IsMem

LEMMA TableReplaced ==
    ASSUME NEW m, m = [free |-> m.free, table |-> m.table, data |-> m.data], NEW tab
    PROVE  [m EXCEPT !.table = tab] = [free |-> m.free, table |-> tab, data |-> m.data]
  OBVIOUS

LEMMA SoundLess ==
    ASSUME NEW m, NEW R, NEW H, Sound(m, R, H),
           NEW Q \in SUBSET R, KernelRoot \in Q, NEW G \in SUBSET H
    PROVE  Sound(m, Q, G)
  <1>1. PICK own : Tidy(m, R, H, own)
    BY DEF Sound
  <1>2. Tidy(m, Q, G, own)
    BY <1>1 DEF Tidy, Owned
  <1> QED BY <1>2 DEF Sound

(* pmm_alloc_page and pmm_free_page.                                       *)
LEMMA AllocSound ==
    ASSUME NEW m, NEW R, NEW H, Sound(m, R, H), NEW new, new = pmm_alloc_page(m)
    PROVE  \/ new.frame = None /\ new.m = m
           \/ /\ new.frame \in Frames /\ new.frame \notin H
              /\ Sound(new.m, R, H \cup {new.frame})
              /\ new.m.table = m.table /\ new.m.data = m.data
  <1>1. CASE no_frame(m)
    BY <1>1 DEF pmm_alloc_page
  <1>2. CASE ~no_frame(m)
    <2> DEFINE s == m.free
               f == Head(s)
               n == [free |-> Tail(s), table |-> m.table, data |-> m.data]
    <2>1. /\ s \in Seq(Frames) /\ s # <<>>
          /\ new = [m |-> n, frame |-> f]
      BY <1>2 DEF pmm_alloc_page, no_frame, Sound, IsMem
    <2>2. n.free = Tail(s) /\ n.table = m.table /\ n.data = m.data
      OBVIOUS
    <2>3. PICK own : Tidy(m, R, H, own)
      BY DEF Sound
    <2> DEFINE own2 == Give(own, f, Held)
    <2> HIDE DEF s
    <2>4. /\ f \in Frames /\ f = s[1] /\ 1 \in 1 .. Len(s) /\ Tail(s) \in Seq(Frames)
          /\ Len(Tail(s)) = Len(s) - 1 /\ Len(s) \in Nat
          /\ \A k \in 1 .. Len(Tail(s)) : /\ Tail(s)[k] = s[k + 1]
                                          /\ k + 1 \in 1 .. Len(s) /\ s[k + 1] \in Frames
      BY <2>1
    <2> HIDE DEF f, n
    <2>5. own[f] = Free
      BY <2>3, <2>4 DEF Tidy, Listed, s
    <2>6. own2[f] = Held /\ \A g \in Frames : g # f => own2[g] = own[g]
      BY <2>4 DEF Give
    <2> HIDE DEF own2
    <2>7. f \notin H
      BY <2>3, <2>5, MarksDiffer DEF Tidy
    <2>8. Listed(Tail(s), own2)
      <3>1. \A k \in 1 .. Len(Tail(s)) : Tail(s)[k] # f /\ own[Tail(s)[k]] = Free
        <4> TAKE k \in 1 .. Len(Tail(s))
        <4>1. Tail(s)[k] = s[k + 1] /\ k + 1 \in 1 .. Len(s) /\ k + 1 # 1
          BY <2>4
        <4> QED BY <2>3, <2>4, <4>1 DEF Tidy, Listed, s
      <3>2. \A k, l \in 1 .. Len(Tail(s)) : Tail(s)[k] = Tail(s)[l] => k = l
        <4> TAKE k, l \in 1 .. Len(Tail(s))
        <4>1. /\ Tail(s)[k] = s[k + 1] /\ Tail(s)[l] = s[l + 1]
              /\ k + 1 \in 1 .. Len(s) /\ l + 1 \in 1 .. Len(s)
          BY <2>4
        <4>2. s[k + 1] = s[l + 1] => k + 1 = l + 1
          BY <2>3, <4>1 DEF Tidy, Listed, s
        <4> QED BY <4>1, <4>2
      <3> QED BY <2>4, <2>6, <3>1, <3>2 DEF Listed
    <2>9. Owned(m.table, R, own2)
      <3>1. Owned(m.table, R, own) /\ m.table \in Tables /\ R \in SUBSET Frames
        BY <2>3 DEF Tidy, Sound, IsMem
      <3>2. \A g \in Frames : own[g] # Free => own2[g] = own[g]
        BY <2>5, <2>6
      <3>3. \A r \in R : own2[r] = RootMark(r)
        BY <3>1, <3>2, MarksDiffer DEF Owned
      <3>4. ASSUME NEW r \in R, NEW i \in Index, m.table[r][i] # None
            PROVE  m.table[r][i] \in Frames /\ own2[m.table[r][i]] = TableMark(Holder(r, i), i)
        <4>1. m.table[r][i] \in Frames
          BY <3>1, <3>4 DEF Tables
        <4> QED BY <3>1, <3>2, <3>4, <4>1, MarksDiffer DEF Owned
      <3>5. ASSUME NEW r \in R, NEW i \in Index, NEW j \in Index,
                   m.table[r][i] # None, m.table[m.table[r][i]][j] # None
            PROVE  own2[m.table[m.table[r][i]][j]] = PageMark(Holder(r, i), i, j)
        <4>1. m.table[m.table[r][i]][j] \in Frames
          BY <3>1, <3>4, <3>5 DEF Tables
        <4> QED BY <3>1, <3>2, <3>5, <4>1, MarksDiffer DEF Owned
      <3> QED BY <3>1, <3>3, <3>4, <3>5 DEF Owned
    <2>10. \A h \in H \cup {f} : own2[h] = Held
      BY <2>3, <2>6 DEF Tidy, Sound
    <2>11. IsMem(n)
      BY <2>2, <2>4 DEF Sound, IsMem, n
    <2>12. Tidy(n, R, H \cup {f}, own2)
      BY <2>2, <2>8, <2>9, <2>10 DEF Tidy
    <2>13. Sound(n, R, H \cup {f})
      BY <2>4, <2>11, <2>12 DEF Sound
    <2>14. new.m = n /\ new.frame = f
      BY <2>1
    <2> QED BY <2>2, <2>4, <2>7, <2>13, <2>14
  <1> QED BY <1>1, <1>2

LEMMA FreeSound ==
    ASSUME NEW m, NEW R, NEW H, NEW f \in Frames, f \notin H, Sound(m, R, H \cup {f}),
           NEW n, n = pmm_free_page(m, f)
    PROVE  Sound(n, R, H) /\ n.table = m.table /\ n.data = m.data
  <1> DEFINE s == m.free
  <1>1. /\ s \in Seq(Frames) /\ n = [free |-> <<f>> \o s, table |-> m.table, data |-> m.data]
        /\ H \in SUBSET Frames
    BY DEF pmm_free_page, Sound, IsMem
  <1>2. n.free = <<f>> \o s /\ n.table = m.table /\ n.data = m.data
    BY <1>1
  <1>3. PICK own : Tidy(m, R, H \cup {f}, own)
    BY DEF Sound
  <1> DEFINE own2 == Give(own, f, Free)
             t == <<f>> \o s
  <1> HIDE DEF s
  <1>4. /\ t \in Seq(Frames) /\ Len(t) = Len(s) + 1 /\ t[1] = f /\ Len(s) \in Nat
        /\ \A k \in 2 .. Len(t) : t[k] = s[k - 1] /\ k - 1 \in 1 .. Len(s) /\ s[k - 1] \in Frames
    BY <1>1
  <1>5. own[f] = Held
    BY <1>3 DEF Tidy
  <1>6. own2[f] = Free /\ \A g \in Frames : g # f => own2[g] = own[g]
    BY DEF Give
  <1> HIDE DEF own2, t
  <1>7. \A k \in 2 .. Len(t) : own[t[k]] = Free /\ t[k] # f
    <2> TAKE k \in 2 .. Len(t)
    <2>1. own[s[k - 1]] = Free
      BY <1>3, <1>4 DEF Tidy, Listed, s
    <2> QED BY <1>4, <1>5, <2>1, MarksDiffer
  <1>8. Listed(t, own2)
    <2>1. \A k \in 1 .. Len(t) : own2[t[k]] = Free
      <3> TAKE k \in 1 .. Len(t)
      <3>1. k = 1 \/ k \in 2 .. Len(t)
        BY <1>4
      <3> QED BY <1>4, <1>6, <1>7, <3>1
    <2>2. ASSUME NEW k \in 1 .. Len(t), NEW l \in 1 .. Len(t), t[k] = t[l]
          PROVE  k = l
      <3>1. (k = 1 \/ k \in 2 .. Len(t)) /\ (l = 1 \/ l \in 2 .. Len(t))
        BY <1>4
      <3>2. CASE k = 1 \/ l = 1
        BY <1>4, <1>7, <2>2, <3>1, <3>2
      <3>3. CASE k \in 2 .. Len(t) /\ l \in 2 .. Len(t)
        <4>1. s[k - 1] = s[l - 1] /\ k - 1 \in 1 .. Len(s) /\ l - 1 \in 1 .. Len(s)
          BY <1>4, <2>2, <3>3
        <4>2. k - 1 = l - 1
          BY <1>3, <4>1 DEF Tidy, Listed, s
        <4> QED BY <4>2
      <3> QED BY <3>1, <3>2, <3>3
    <2> QED BY <2>1, <2>2 DEF Listed
  <1>9. Owned(m.table, R, own2)
    <2>1. Owned(m.table, R, own) /\ m.table \in Tables /\ R \in SUBSET Frames
      BY <1>3 DEF Tidy, Sound, IsMem
    <2>2. \A g \in Frames : own[g] # Held => own2[g] = own[g]
      BY <1>5, <1>6
    <2>3. \A r \in R : own2[r] = RootMark(r)
      BY <2>1, <2>2, MarksDiffer DEF Owned
    <2>4. ASSUME NEW r \in R, NEW i \in Index, m.table[r][i] # None
          PROVE  m.table[r][i] \in Frames /\ own2[m.table[r][i]] = TableMark(Holder(r, i), i)
      <3>1. m.table[r][i] \in Frames
        BY <2>1, <2>4 DEF Tables
      <3> QED BY <2>1, <2>2, <2>4, <3>1, MarksDiffer DEF Owned
    <2>5. ASSUME NEW r \in R, NEW i \in Index, NEW j \in Index,
                 m.table[r][i] # None, m.table[m.table[r][i]][j] # None
          PROVE  own2[m.table[m.table[r][i]][j]] = PageMark(Holder(r, i), i, j)
      <3>1. m.table[m.table[r][i]][j] \in Frames
        BY <2>1, <2>4, <2>5 DEF Tables
      <3> QED BY <2>1, <2>2, <2>5, <3>1, MarksDiffer DEF Owned
    <2> QED BY <2>1, <2>3, <2>4, <2>5 DEF Owned
  <1>10. \A h \in H : own2[h] = Held
    BY <1>1, <1>3, <1>6 DEF Tidy
  <1>11. IsMem(n)
    BY <1>1, <1>2, <1>4 DEF Sound, IsMem, t
  <1>12. Tidy(n, R, H, own2)
    BY <1>2, <1>8, <1>9, <1>10 DEF Tidy, t
  <1> QED BY <1>1, <1>2, <1>11, <1>12 DEF Sound

(* Only the data changes.                                                  *)
LEMMA DataSound ==
    ASSUME NEW m, NEW R, NEW H, Sound(m, R, H), NEW n, IsMem(n),
           n.free = m.free, n.table = m.table
    PROVE  Sound(n, R, H)
  <1>1. PICK own : Tidy(m, R, H, own)
    BY DEF Sound
  <1>2. Tidy(n, R, H, own)
    BY <1>1 DEF Tidy
  <1> QED BY <1>2 DEF Sound

-----------------------------------------------------------------------------
(* What an operation on the tables does to the pages: nothing, or one page *)
(* gets the frame x, in all the spaces that share the table it is in.      *)

WalksSame(m, n, R) == \A q \in R, b \in Addresses : walk(n, q, b) = walk(m, q, b)

WalkSet(m, n, R, r, a, x) ==
    \A q \in R, b \in Addresses :
        walk(n, q, b) = IF b = a /\ Holder(q, a[1]) = Holder(r, a[1]) THEN x ELSE walk(m, q, b)

LEMMA AddressParts ==
    /\ \A a \in Addresses : a[1] \in Index /\ a[2] \in Index /\ a = <<a[1], a[2]>>
    /\ \A i \in Index, j \in Index : <<i, j>> \in Addresses
  BY DEF Addresses

(* A page is a frame, and the spaces share the kernel's pages.             *)
LEMMA WalkFacts ==
    ASSUME NEW m, NEW R, NEW H, Sound(m, R, H), NEW r \in R, NEW a \in Addresses
    PROVE  /\ walk(m, r, a) \in Frames \cup {None}
           /\ a[1] >= Half => walk(m, r, a) = walk(m, KernelRoot, a)
           /\ walk(m, r, a) \notin H \cup Range(m.free)
           /\ Mapped(m, r, a) => m.table[r][a[1]] # None
  <1>1. /\ m.table \in Tables /\ R \in SUBSET Frames /\ KernelRoot \in R
        /\ H \in SUBSET Frames /\ m.free \in Seq(Frames)
    BY DEF Sound, IsMem
  <1>2. a[1] \in Index /\ a[2] \in Index
    BY AddressParts
  <1>3. m.table[r][a[1]] \in Frames \cup {None}
    BY <1>1, <1>2 DEF Tables
  <1>4. walk(m, r, a) \in Frames \cup {None}
    BY <1>1, <1>2, <1>3 DEF walk, Tables
  <1>5. PICK own : Tidy(m, R, H, own)
    BY DEF Sound
  <1>6. a[1] >= Half => walk(m, r, a) = walk(m, KernelRoot, a)
    <2>1. a[1] >= Half => m.table[r][a[1]] = m.table[KernelRoot][a[1]]
      BY <1>1, <1>2, <1>5 DEF Tidy, Owned
    <2> QED BY <2>1 DEF walk
  <1>7. Mapped(m, r, a) => m.table[r][a[1]] # None
    BY DEF Mapped, walk
  <1>8. walk(m, r, a) \notin H \cup Range(m.free)
    <2>1. CASE walk(m, r, a) = None
      <3>1. \A k \in DOMAIN m.free : m.free[k] \in Frames
        BY <1>1
      <3> QED BY <1>1, <2>1, <3>1, SpaceConstants DEF Range
    <2>2. CASE walk(m, r, a) # None
      <3>1. own[walk(m, r, a)] = PageMark(Holder(r, a[1]), a[1], a[2])
        BY <1>2, <1>5, <2>2 DEF walk, Tidy, Owned
      <3>2. \A x \in Range(m.free) : own[x] = Free
        <4>1. DOMAIN m.free = 1 .. Len(m.free)
          BY <1>1
        <4> QED BY <1>5, <4>1 DEF Range, Tidy, Listed
      <3>3. \A x \in H : own[x] = Held
        BY <1>5 DEF Tidy
      <3> QED BY <3>1, <3>2, <3>3, MarksDiffer
    <2> QED BY <2>1, <2>2
  <1> QED BY <1>4, <1>6, <1>7, <1>8

(* Two pages with one frame are one page.                                  *)
LEMMA WalkApart ==
    ASSUME NEW m, NEW R, NEW H, Sound(m, R, H), NEW r \in R, NEW a \in Addresses,
           NEW q \in R, NEW b \in Addresses, Mapped(m, r, a), walk(m, q, b) = walk(m, r, a)
    PROVE  a = b /\ Holder(q, b[1]) = Holder(r, a[1])
  <1>1. PICK own : Tidy(m, R, H, own)
    BY DEF Sound
  <1>2. /\ a[1] \in Index /\ a[2] \in Index /\ a = <<a[1], a[2]>>
        /\ b[1] \in Index /\ b[2] \in Index /\ b = <<b[1], b[2]>>
    BY DEF Addresses
  <1>3. /\ own[walk(m, r, a)] = PageMark(Holder(r, a[1]), a[1], a[2])
        /\ own[walk(m, q, b)] = PageMark(Holder(q, b[1]), b[1], b[2])
    BY <1>1, <1>2 DEF Mapped, walk, Tidy, Owned
  <1>4. Holder(q, b[1]) = Holder(r, a[1]) /\ a[1] = b[1] /\ a[2] = b[2]
    BY <1>3, MarksDiffer
  <1> QED BY <1>2, <1>4

(* ensure_next_table.                                                      *)
LEMMA EnsureSound ==
    ASSUME NEW m, NEW R, NEW H, Sound(m, R, H), NEW r \in R, NEW i \in Index,
           i < Half \/ R = {KernelRoot} \/ m.table[r][i] # None,
           NEW w, w = ensure_next_table(m, r, i)
    PROVE  /\ Sound(w.m, R, H) /\ WalksSame(m, w.m, R) /\ w.m.data = m.data
           /\ w.ok \in BOOLEAN /\ w = [m |-> w.m, ok |-> w.ok]
           /\ w.ok => w.m.table[r][i] # None
  <1>1. CASE m.table[r][i] # None
    <2>1. w = [m |-> m, ok |-> TRUE]
      BY <1>1 DEF ensure_next_table
    <2>2. w.m = m /\ w.ok = TRUE
      BY <2>1
    <2> QED BY <1>1, <2>1, <2>2 DEF WalksSame
  <1>2. CASE m.table[r][i] = None
    <2> DEFINE new == pmm_alloc_page(m)
               f == new.frame
    <2>1. w = with_table(new, r, i)
      BY <1>2 DEF ensure_next_table
    <2>2. \/ new.frame = None /\ new.m = m
          \/ /\ new.frame \in Frames /\ new.frame \notin H
             /\ Sound(new.m, R, H \cup {new.frame})
             /\ new.m.table = m.table /\ new.m.data = m.data
      BY AllocSound
    <2> HIDE DEF new
    <2>3. CASE new.frame = None /\ new.m = m
      <3>1. w = [m |-> m, ok |-> FALSE]
        BY <2>1, <2>3 DEF with_table
      <3>2. w.m = m /\ w.ok = FALSE
        BY <3>1
      <3> QED BY <3>1, <3>2 DEF WalksSame
    <2>4. CASE /\ new.frame \in Frames /\ new.frame \notin H
               /\ Sound(new.m, R, H \cup {new.frame})
               /\ new.m.table = m.table /\ new.m.data = m.data
      <3> DEFINE n == [new.m EXCEPT !.table[f] = NoTable, !.table[r][i] = f]
                 tab == EntrySet(TableSet(m.table, f, NoTable), r, i, f)
      <3>1. w = [m |-> n, ok |-> TRUE]
        BY <2>1, <2>4, SpaceConstants DEF with_table
      <3>2. /\ IsMem(new.m) /\ m.table \in Tables /\ R \in SUBSET Frames /\ r \in Frames
            /\ KernelRoot \in R /\ H \in SUBSET Frames
        BY <2>4 DEF Sound, IsMem
      <3>3. n = [free |-> new.m.free, table |-> tab, data |-> m.data]
        <4>1. /\ new.m = [free |-> new.m.free, table |-> m.table, data |-> m.data]
              /\ m.table = [g \in Frames |-> m.table[g]]
              /\ \A g \in Frames : m.table[g] = [k \in Index |-> m.table[g][k]]
          BY <2>4, <3>2 DEF IsMem, Tables
        <4>2. tab = [[m.table EXCEPT ![f] = NoTable] EXCEPT ![r][i] = f]
          BY <2>4, <3>2, <4>1 DEF EntrySet, TableSet, NoTable
        <4> HIDE DEF tab
        <4> DEFINE one == [new.m EXCEPT !.table[f] = NoTable]
        <4>3. one = [free |-> new.m.free, table |-> [m.table EXCEPT ![f] = NoTable], data |-> m.data]
          BY <2>4, <4>1, TableReplaced
        <4>4. n = [one EXCEPT !.table[r][i] = f]
          OBVIOUS
        <4> HIDE DEF one, n
        <4>5. n = [one EXCEPT !.table = tab]
          BY <4>2, <4>3, <4>4
        <4> QED BY <4>3, <4>5, TableReplaced
      <3>4. n.free = new.m.free /\ n.table = tab /\ n.data = m.data
        BY <3>3
      <3>5. PICK own : Tidy(new.m, R, H \cup {f}, own)
        BY <2>4 DEF Sound
      <3>6. own[f] = Held /\ Owned(m.table, R, own)
        BY <2>4, <3>5 DEF Tidy
      <3> DEFINE own2 == Give(own, f, TableMark(r, i))
      <3> HIDE DEF n, f
      <3>7. i < Half \/ R = {KernelRoot}
        BY <1>2
      <3>8. tab \in Tables /\ Owned(tab, R, own2)
        BY <1>2, <2>4, <3>2, <3>6, <3>7, NewTableOwned DEF f
      <3>9. \A g \in Frames : g # f => own2[g] = own[g]
        BY DEF Give
      <3>10. f # r /\ f \in Frames /\ \A q \in R : q # f
        BY <2>4, <3>6, MarksDiffer DEF Owned, f
      <3>11. /\ tab[r][i] = f
             /\ \A k \in Index : tab[f][k] = None
             /\ \A k \in Index : k # i => tab[r][k] = m.table[r][k]
             /\ \A g \in Frames : g # f /\ g # r => tab[g] = m.table[g]
        <4> DEFINE one == TableSet(m.table, f, NoTable)
        <4>1. /\ \A k \in Index : one[f][k] = None
              /\ \A g \in Frames : g # f => one[g] = m.table[g]
          BY <3>10 DEF TableSet, NoTable
        <4> HIDE DEF one
        <4>2. /\ tab[r][i] = f /\ \A k \in Index : k # i => tab[r][k] = one[r][k]
              /\ \A g \in Frames : g # r => tab[g] = one[g]
          BY <3>2 DEF EntrySet, one
        <4> HIDE DEF tab
        <4> QED BY <3>2, <3>10, <4>1, <4>2
      <3> HIDE DEF tab, own2
      <3>12. IsMem(n)
        <4>1. new.m.free \in Seq(Frames) /\ IsMem(new.m) /\ new.m.data = m.data
          BY <2>4, <3>2 DEF IsMem
        <4>2. n = [free |-> new.m.free, table |-> tab, data |-> new.m.data]
          BY <3>3, <4>1
        <4> QED BY <3>8, <4>1, <4>2, MemMade
      <3>13. Listed(n.free, own2) /\ \A h \in H : own2[h] = Held
        <4>1. Listed(new.m.free, own) /\ \A h \in H : own[h] = Held
          BY <3>5 DEF Tidy
        <4>2. \A k \in 1 .. Len(new.m.free) : new.m.free[k] \in Frames /\ new.m.free[k] # f
          <5>1. \A k \in 1 .. Len(new.m.free) : new.m.free[k] \in Frames
            BY <3>2 DEF IsMem
          <5> QED BY <3>6, <4>1, <5>1, MarksDiffer DEF Listed
        <4>3. \A h \in H : h \in Frames /\ h # f
          BY <2>4, <3>2 DEF f
        <4> QED BY <3>4, <3>9, <4>1, <4>2, <4>3 DEF Listed
      <3>14. Sound(n, R, H)
        BY <3>2, <3>4, <3>8, <3>12, <3>13 DEF Sound, Tidy
      <3>15. WalksSame(m, n, R)
        <4> SUFFICES ASSUME NEW q \in R, NEW b \in Addresses
                     PROVE  walk(n, q, b) = walk(m, q, b)
          BY DEF WalksSame
        <4>1. b[1] \in Index /\ b[2] \in Index
          BY AddressParts
        <4>2. CASE q = r /\ b[1] = i
          <5>1. walk(m, q, b) = None
            BY <1>2, <4>2 DEF walk
          <5>2. walk(n, q, b) = None
            BY <3>4, <3>11, <3>10, <4>1, <4>2, SpaceConstants DEF walk
          <5> QED BY <5>1, <5>2
        <4>3. CASE ~(q = r /\ b[1] = i)
          <5>1. tab[q][b[1]] = m.table[q][b[1]]
            BY <3>2, <3>11, <3>10, <4>1, <4>3
          <5>2. CASE m.table[q][b[1]] = None
            BY <3>4, <5>1, <5>2 DEF walk
          <5>3. CASE m.table[q][b[1]] # None
            <6> DEFINE t == m.table[q][b[1]]
            <6>1. t \in Frames /\ own[t] = TableMark(Holder(q, b[1]), b[1]) /\ own[r] = RootMark(r)
              BY <3>2, <3>6, <4>1, <5>3 DEF Owned, Tables
            <6>2. t # f /\ t # r
              BY <3>6, <6>1, MarksDiffer
            <6>3. tab[t] = m.table[t]
              BY <3>11, <6>1, <6>2
            <6> QED BY <3>4, <5>1, <5>3, <6>3 DEF walk
          <5> QED BY <5>2, <5>3
        <4> QED BY <4>2, <4>3
      <3>16. w.m = n /\ w.ok = TRUE
        BY <3>1
      <3> QED BY <3>1, <3>4, <3>11, <3>10, <3>14, <3>15, <3>16, SpaceConstants
    <2> QED BY <2>2, <2>3, <2>4
  <1> QED BY <1>1, <1>2

(* One entry of the table at (r, a[1]) is set: what the pages become.      *)
LEMMA EntryWalks ==
    ASSUME NEW m, NEW R, NEW H, Sound(m, R, H), NEW r \in R, NEW a \in Addresses,
           m.table[r][a[1]] # None, NEW x,
           NEW n, n.table = EntrySet(m.table, m.table[r][a[1]], a[2], x)
    PROVE  WalkSet(m, n, R, r, a, x)
  <1> SUFFICES ASSUME NEW q \in R, NEW b \in Addresses
               PROVE  walk(n, q, b) = IF b = a /\ Holder(q, a[1]) = Holder(r, a[1])
                                      THEN x ELSE walk(m, q, b)
    BY DEF WalkSet
  <1> DEFINE t == m.table[r][a[1]]
  <1>1. m.table \in Tables /\ R \in SUBSET Frames
    BY DEF Sound, IsMem
  <1>2. /\ a[1] \in Index /\ a[2] \in Index /\ a = <<a[1], a[2]>>
        /\ b[1] \in Index /\ b[2] \in Index /\ b = <<b[1], b[2]>>
    BY AddressParts
  <1>3. PICK own : Tidy(m, R, H, own)
    BY DEF Sound
  <1>4. Owned(m.table, R, own)
    BY <1>3 DEF Tidy
  <1>5. t \in Frames /\ own[t] = TableMark(Holder(r, a[1]), a[1])
    BY <1>1, <1>2, <1>4 DEF Tables, Owned
  <1> HIDE DEF t
  <1>6. /\ n.table[t][a[2]] = x
        /\ \A k \in Index : k # a[2] => n.table[t][k] = m.table[t][k]
        /\ \A g \in Frames : g # t => n.table[g] = m.table[g]
    <2> DEFINE tab == n.table
               old == m.table
    <2>1. tab = EntrySet(old, t, a[2], x)
      BY DEF t
    <2> HIDE DEF tab, old
    <2>2. /\ tab[t][a[2]] = x
          /\ \A k \in Index : k # a[2] => tab[t][k] = old[t][k]
          /\ \A g \in Frames : g # t => tab[g] = old[g]
      BY <1>2, <1>5, <2>1 DEF EntrySet
    <2> QED BY <2>2 DEF tab, old
  <1>7. q \in Frames /\ q # t
    BY <1>1, <1>4, <1>5, MarksDiffer DEF Owned
  <1>8. n.table[q][b[1]] = m.table[q][b[1]]
    BY <1>6, <1>7
  <1>9. CASE m.table[q][b[1]] = None
    <2>1. ~(b = a /\ Holder(q, a[1]) = Holder(r, a[1]))
      <3> SUFFICES ASSUME b = a, Holder(q, a[1]) = Holder(r, a[1]) PROVE FALSE
        OBVIOUS
      <3>1. m.table[q][a[1]] = m.table[r][a[1]]
        <4>1. CASE a[1] >= Half
          BY <1>2, <1>4, <4>1 DEF Owned
        <4>2. CASE ~(a[1] >= Half)
          BY <4>2 DEF Holder
        <4> QED BY <4>1, <4>2
      <3> QED BY <1>9, <3>1
    <2> QED BY <1>8, <1>9, <2>1 DEF walk
  <1>10. CASE m.table[q][b[1]] # None
    <2> DEFINE s == m.table[q][b[1]]
    <2>1. s \in Frames
      BY <1>1, <1>2, <1>7, <1>10 DEF Tables
    <2>2. s = t <=> b[1] = a[1] /\ Holder(q, b[1]) = Holder(r, a[1])
      BY <1>2, <1>4, <1>10, SameTable DEF t
    <2>3. walk(n, q, b) = n.table[s][b[2]] /\ walk(m, q, b) = m.table[s][b[2]]
      BY <1>8, <1>10 DEF walk
    <2>4. CASE b = a /\ Holder(q, a[1]) = Holder(r, a[1])
      BY <1>6, <2>2, <2>3, <2>4
    <2>5. CASE ~(b = a /\ Holder(q, a[1]) = Holder(r, a[1]))
      <3>1. s # t \/ b[2] # a[2]
        BY <1>2, <2>2, <2>5
      <3>2. n.table[s][b[2]] = m.table[s][b[2]]
        BY <1>2, <1>6, <2>1, <3>1
      <3> QED BY <2>3, <2>5, <3>2
    <2> QED BY <2>4, <2>5
  <1> QED BY <1>9, <1>10

(* The free list and the held frames do not see a frame get a mark.        *)
LEMMA GiveKeeps ==
    ASSUME NEW m, NEW R, NEW H, NEW own, Tidy(m, R, H, own), IsMem(m), H \in SUBSET Frames,
           NEW f \in Frames, f \notin H, own[f] # Free, NEW mark
    PROVE  Listed(m.free, Give(own, f, mark)) /\ \A h \in H : Give(own, f, mark)[h] = Held
  <1> DEFINE own2 == Give(own, f, mark)
  <1>1. \A g \in Frames : g # f => own2[g] = own[g]
    BY DEF Give
  <1> HIDE DEF own2
  <1>2. \A k \in 1 .. Len(m.free) : m.free[k] \in Frames
    BY DEF IsMem
  <1>3. \A k \in 1 .. Len(m.free) : m.free[k] # f /\ own[m.free[k]] = Free
    BY DEF Tidy, Listed
  <1>4. Listed(m.free, own2)
    BY <1>1, <1>2, <1>3 DEF Tidy, Listed
  <1>5. \A h \in H : own2[h] = Held
    BY <1>1 DEF Tidy
  <1> QED BY <1>4, <1>5 DEF own2

(* The last level of map_page.                                             *)
LEMMA SetPageSound ==
    ASSUME NEW m, NEW R, NEW H, NEW f \in Frames, f \notin H, Sound(m, R, H \cup {f}),
           NEW r \in R, NEW a \in Addresses, m.table[r][a[1]] # None, ~Mapped(m, r, a),
           NEW n, n = [m EXCEPT !.table[m.table[r][a[1]]][a[2]] = f]
    PROVE  Sound(n, R, H) /\ WalkSet(m, n, R, r, a, f) /\ n.data = m.data
  <1> DEFINE t == m.table[r][a[1]]
             tab == EntrySet(m.table, t, a[2], f)
             mark == PageMark(Holder(r, a[1]), a[1], a[2])
  <1>1. /\ IsMem(m) /\ m.table \in Tables /\ R \in SUBSET Frames /\ KernelRoot \in R
        /\ H \in SUBSET Frames /\ m.free \in Seq(Frames)
    BY DEF Sound, IsMem
  <1>2. a[1] \in Index /\ a[2] \in Index
    BY AddressParts
  <1>3. t \in Frames /\ m.table[t][a[2]] = None
    BY <1>1, <1>2 DEF Tables, Mapped, walk
  <1>4. PICK own : Tidy(m, R, H \cup {f}, own)
    BY DEF Sound
  <1>5. own[f] = Held /\ Owned(m.table, R, own) /\ Tidy(m, R, H, own)
    BY <1>4 DEF Tidy
  <1> DEFINE own2 == Give(own, f, mark)
  <1>6. tab \in Tables /\ Owned(tab, R, own2)
    BY <1>1, <1>2, <1>3, <1>5, PageSetOwned
  <1>7. Listed(m.free, own2) /\ \A h \in H : own2[h] = Held
    BY <1>1, <1>5, GiveKeeps, MarksDiffer
  <1>8. n = [free |-> m.free, table |-> tab, data |-> m.data]
    <2>1. /\ m = [free |-> m.free, table |-> m.table, data |-> m.data]
          /\ m.table = [g \in Frames |-> m.table[g]]
          /\ m.table[t] = [k \in Index |-> m.table[t][k]]
      BY <1>1, <1>3 DEF IsMem, Tables
    <2>2. tab = [m.table EXCEPT ![t][a[2]] = f]
      <3> HIDE DEF t
      <3> QED BY <1>2, <1>3, <2>1 DEF EntrySet
    <2>3. n = [m EXCEPT !.table = [m.table EXCEPT ![t][a[2]] = f]]
      OBVIOUS
    <2> HIDE DEF tab, t
    <2> QED BY <2>1, <2>2, <2>3, TableReplaced
  <1> HIDE DEF tab, own2
  <1>9. IsMem(n) /\ n.free = m.free /\ n.table = tab /\ n.data = m.data
    <2>1. \A x : x = [free |-> m.free, table |-> tab, data |-> m.data]
            => IsMem(x) /\ x.free = m.free /\ x.table = tab /\ x.data = m.data
      BY <1>1, <1>6, MemMade
    <2> QED BY <1>8, <2>1, Zenon
  <1>10. Sound(n, R, H)
    BY <1>1, <1>6, <1>7, <1>9 DEF Sound, Tidy
  <1>11. WalkSet(m, n, R, r, a, f)
    BY <1>9, EntryWalks DEF tab
  <1> QED BY <1>9, <1>10, <1>11

(* The frame f is held, and those of H.                                    *)
Holding(m, R, H, f) == f \in Frames /\ f \notin H /\ Sound(m, R, H \cup {f})

(* map_page: one that fails has mapped nothing, and its frame is as before. *)
MapDone(m, w, R, H, r, a, f) ==
    /\ w.ok \in BOOLEAN /\ w = [m |-> w.m, ok |-> w.ok] /\ w.m.data = m.data
    /\ w.ok => Sound(w.m, R, H) /\ WalkSet(m, w.m, R, r, a, f) /\ ~Mapped(m, r, a)
    /\ ~w.ok => Sound(w.m, R, H \cup {f}) /\ WalksSame(m, w.m, R)

LEMMA MapPageSound ==
    ASSUME NEW m, NEW R, NEW H, NEW f, Holding(m, R, H, f), NEW r \in R, NEW a \in Addresses,
           a[1] < Half \/ R = {KernelRoot} \/ m.table[r][a[1]] # None,
           NEW w, w = map_page(m, r, a, f)
    PROVE  MapDone(m, w, R, H, r, a, f)
  <1>0. f \in Frames /\ f \notin H /\ Sound(m, R, H \cup {f})
    BY DEF Holding
  <1> DEFINE v == ensure_next_table(m, r, a[1])
  <1>1. a[1] \in Index
    BY AddressParts
  <1>2. /\ Sound(v.m, R, H \cup {f}) /\ WalksSame(m, v.m, R) /\ v.m.data = m.data
        /\ v.ok \in BOOLEAN /\ v = [m |-> v.m, ok |-> v.ok]
        /\ v.ok => v.m.table[r][a[1]] # None
    BY <1>0, <1>1, EnsureSound
  <1>3. w = set_page(v, r, a, f)
    BY DEF map_page
  <1> HIDE DEF v
  <1>4. CASE ~v.ok \/ Mapped(v.m, r, a)
    <2>1. w = [m |-> v.m, ok |-> FALSE]
      BY <1>2, <1>3, <1>4 DEF set_page
    <2>2. w.m = v.m /\ w.ok = FALSE
      BY <2>1
    <2> QED BY <1>2, <2>1, <2>2 DEF MapDone
  <1>5. CASE v.ok /\ ~Mapped(v.m, r, a)
    <2> DEFINE n == [v.m EXCEPT !.table[v.m.table[r][a[1]]][a[2]] = f]
    <2>1. w = [m |-> n, ok |-> TRUE]
      <3>1. w = [v EXCEPT !.m.table[v.m.table[r][a[1]]][a[2]] = f]
        BY <1>3, <1>5 DEF set_page
      <3>2. w = [v EXCEPT !.m = n]
        BY <3>1
      <3> HIDE DEF n
      <3>3. w = [m |-> n, ok |-> v.ok]
        BY <1>2, <3>2
      <3> QED BY <1>2, <1>5, <3>3
    <2>2. Sound(n, R, H) /\ WalkSet(v.m, n, R, r, a, f) /\ n.data = v.m.data
      BY <1>0, <1>2, <1>5, SetPageSound
    <2> HIDE DEF n
    <2>3. w.m = n /\ w.ok = TRUE
      BY <2>1
    <2>4. WalkSet(m, n, R, r, a, f)
      BY <1>2, <2>2 DEF WalkSet, WalksSame
    <2>5. ~Mapped(m, r, a)
      BY <1>2, <1>5 DEF Mapped, WalksSame
    <2> QED BY <1>2, <2>1, <2>2, <2>3, <2>4, <2>5 DEF MapDone
  <1> QED BY <1>2, <1>4, <1>5

(* A round of rollback_heap_mapping.                                       *)
LEMMA GiveBackSound ==
    ASSUME NEW m, NEW R, NEW H, Sound(m, R, H), NEW r \in R, NEW a \in Addresses,
           Mapped(m, r, a), NEW n, n = give_back(m, r, a)
    PROVE  Sound(n, R, H) /\ WalkSet(m, n, R, r, a, None) /\ n.data = m.data
  <1> DEFINE t == m.table[r][a[1]]
             f == walk(m, r, a)
             tab == EntrySet(m.table, t, a[2], None)
             k == unmap_page(m, r, a)
  <1>1. /\ IsMem(m) /\ m.table \in Tables /\ R \in SUBSET Frames /\ KernelRoot \in R
        /\ H \in SUBSET Frames /\ m.free \in Seq(Frames)
    BY DEF Sound, IsMem
  <1>2. a[1] \in Index /\ a[2] \in Index
    BY AddressParts
  <1>3. t # None /\ t \in Frames /\ f \in Frames /\ f \notin H /\ m.table[t][a[2]] = f
    <2>1. f \in Frames /\ f \notin H /\ t # None
      BY WalkFacts DEF Mapped
    <2> QED BY <1>1, <1>2, <2>1 DEF Tables, walk
  <1>4. PICK own : Tidy(m, R, H, own)
    BY DEF Sound
  <1> DEFINE own2 == Give(own, f, Held)
  <1>5. /\ tab \in Tables /\ Owned(tab, R, own2)
        /\ own[f] = PageMark(Holder(r, a[1]), a[1], a[2])
    <2>1. Owned(m.table, R, own)
      BY <1>4 DEF Tidy
    <2> HIDE DEF f
    <2> QED BY <1>1, <1>2, <1>3, <2>1, PageClearedOwned
  <1>6. Listed(m.free, own2) /\ \A h \in H : own2[h] = Held
    <2>1. own[f] # Free
      BY <1>5, MarksDiffer
    <2> HIDE DEF f
    <2> QED BY <1>1, <1>3, <1>4, <2>1, GiveKeeps
  <1>7. k = [free |-> m.free, table |-> tab, data |-> m.data]
    <2>1. /\ m = [free |-> m.free, table |-> m.table, data |-> m.data]
          /\ m.table = [g \in Frames |-> m.table[g]]
          /\ m.table[t] = [l \in Index |-> m.table[t][l]]
      BY <1>1, <1>3 DEF IsMem, Tables
    <2>2. tab = [m.table EXCEPT ![t][a[2]] = None]
      <3> HIDE DEF t
      <3> QED BY <1>2, <1>3, <2>1 DEF EntrySet
    <2>3. k = [m EXCEPT !.table = [m.table EXCEPT ![t][a[2]] = None]]
      BY DEF unmap_page
    <2> HIDE DEF tab, t, k
    <2> QED BY <2>1, <2>2, <2>3, TableReplaced
  <1>8. n = pmm_free_page(k, f)
    BY DEF give_back
  <1>9. own2[f] = Held
    BY <1>3 DEF Give
  <1> HIDE DEF tab, own2, k
  <1>10. IsMem(k) /\ k.free = m.free /\ k.table = tab /\ k.data = m.data
    BY <1>1, <1>5, <1>7, MemMade
  <1>11. Sound(k, R, H \cup {f})
    <2> HIDE DEF f
    <2>1. \A h \in H \cup {f} : own2[h] = Held
      BY <1>6, <1>9
    <2> QED BY <1>1, <1>3, <1>5, <1>6, <1>10, <2>1 DEF Sound, Tidy
  <1>12. WalkSet(m, k, R, r, a, None)
    BY <1>3, <1>10, EntryWalks DEF tab
  <1>13. Sound(n, R, H) /\ n.table = k.table /\ n.data = k.data
    <2> HIDE DEF f
    <2> QED BY <1>3, <1>8, <1>11, FreeSound
  <1>14. WalkSet(m, n, R, r, a, None)
    BY <1>12, <1>13 DEF WalkSet, walk
  <1> QED BY <1>10, <1>13, <1>14

(* copy_kernel_half: a new root.                                           *)
RootDone(m, n, R, H, f) ==
    /\ Sound(n, R \cup {f}, H) /\ WalksSame(m, n, R) /\ n.data = m.data
    /\ f \notin R /\ \A a \in Addresses : a[1] < Half => ~Mapped(n, f, a)

LEMMA NewRootSound ==
    ASSUME NEW m, NEW R, NEW H, NEW f, Holding(m, R, H, f),
           NEW r \in R, NEW n, n = copy_kernel_half(m, f, r)
    PROVE  RootDone(m, n, R, H, f)
  <1>0. f \in Frames /\ f \notin H /\ Sound(m, R, H \cup {f})
    BY DEF Holding
  <1> DEFINE tab == TableSet(m.table, f, KernelHalf(m.table, r))
  <1>1. /\ IsMem(m) /\ m.table \in Tables /\ R \in SUBSET Frames /\ KernelRoot \in R
        /\ H \in SUBSET Frames /\ m.free \in Seq(Frames)
    BY <1>0 DEF Sound, IsMem
  <1>2. PICK own : Tidy(m, R, H \cup {f}, own)
    BY <1>0 DEF Sound
  <1>3. own[f] = Held /\ Owned(m.table, R, own) /\ Tidy(m, R, H, own)
    BY <1>2 DEF Tidy
  <1> DEFINE own2 == Give(own, f, RootMark(f))
  <1>4. tab \in Tables /\ Owned(tab, R \cup {f}, own2)
    BY <1>0, <1>1, <1>3, NewRootOwned
  <1>5. Listed(m.free, own2) /\ \A h \in H : own2[h] = Held
    BY <1>0, <1>1, <1>3, GiveKeeps, MarksDiffer
  <1>6. n = [free |-> m.free, table |-> tab, data |-> m.data]
    <2>1. /\ m = [free |-> m.free, table |-> m.table, data |-> m.data]
          /\ m.table = [g \in Frames |-> m.table[g]]
      BY <1>1 DEF IsMem, Tables
    <2>2. n = [m EXCEPT !.table = [m.table EXCEPT ![f] = KernelHalf(m.table, r)]]
      BY DEF copy_kernel_half, KernelHalf
    <2>3. tab = [m.table EXCEPT ![f] = KernelHalf(m.table, r)]
      BY <1>0, <2>1 DEF TableSet
    <2> HIDE DEF tab
    <2> QED BY <2>1, <2>2, <2>3, TableReplaced
  <1>7. /\ \A g \in Frames : g # f => tab[g] = m.table[g]
        /\ \A i \in Index : i < Half => tab[f][i] = None
    BY <1>0, SpaceConstants DEF TableSet, KernelHalf
  <1> HIDE DEF tab, own2
  <1>8. IsMem(n) /\ n.free = m.free /\ n.table = tab /\ n.data = m.data
    BY <1>1, <1>4, <1>6, MemMade
  <1>9. Sound(n, R \cup {f}, H)
    BY <1>0, <1>1, <1>4, <1>5, <1>8 DEF Sound, Tidy
  <1>10. \A q \in R : q # f
    BY <1>3, MarksDiffer DEF Owned
  <1>11. WalksSame(m, n, R)
    <2> SUFFICES ASSUME NEW q \in R, NEW b \in Addresses
                 PROVE  walk(n, q, b) = walk(m, q, b)
      BY DEF WalksSame
    <2>1. tab[q] = m.table[q]
      BY <1>1, <1>7, <1>10
    <2>2. b[1] \in Index
      BY AddressParts
    <2>3. CASE m.table[q][b[1]] = None
      BY <1>8, <2>1, <2>3 DEF walk
    <2>4. CASE m.table[q][b[1]] # None
      <3> DEFINE t == m.table[q][b[1]]
      <3>1. t \in Frames /\ own[t] = TableMark(Holder(q, b[1]), b[1])
        BY <1>1, <1>3, <2>2, <2>4 DEF Tables, Owned
      <3>2. t # f
        BY <1>3, <3>1, MarksDiffer
      <3>3. tab[t] = m.table[t]
        BY <1>7, <3>1, <3>2
      <3> QED BY <1>8, <2>1, <2>4, <3>3 DEF walk
    <2> QED BY <2>3, <2>4
  <1>12. \A a \in Addresses : a[1] < Half => ~Mapped(n, f, a)
    BY <1>7, <1>8, AddressParts DEF Mapped, walk
  <1> QED BY <1>8, <1>9, <1>10, <1>11, <1>12 DEF RootDone

-----------------------------------------------------------------------------
(* The kernel heap grows and shrinks.                                      *)

(* The recursive function in rollback is the one its equation says.        *)
LEMMA RollbackIs ==
    ASSUME NEW m, NEW r, NEW from \in Int, NEW to \in Int, from <= to
    PROVE  \E g : /\ rollback(m, r, from, to) = g[to - from] /\ g[0] = m
                  /\ \A k \in 1 .. to - from :
                        g[k] = give_back(g[k - 1], r, KernelPage(from + k - 1))
  <1> DEFINE N == to - from
             Round(g, k) == IF k = 0 THEN m ELSE give_back(g[k - 1], r, KernelPage(from + k - 1))
             Has == {n \in Nat : \E g : g = [k \in 0 .. n |-> Round(g, k)]}
  <1>1. N \in Nat
    OBVIOUS
  <1>2. 0 \in Has
    <2> DEFINE g == [k \in 0 .. 0 |-> m]
    <2>1. g = [k \in 0 .. 0 |-> Round(g, k)]
      OBVIOUS
    <2> QED BY <2>1
  <1>3. \A n \in 0 .. N - 1 : n \in Has => n + 1 \in Has
    <2> SUFFICES ASSUME NEW n \in 0 .. N - 1, n \in Has PROVE n + 1 \in Has
      OBVIOUS
    <2>1. PICK g : g = [k \in 0 .. n |-> Round(g, k)]
      OBVIOUS
    <2> HIDE DEF N
    <2>2. n \in Nat
      BY <1>1
    <2> DEFINE h == [k \in 0 .. n + 1 |-> IF k = n + 1 THEN Round(g, k) ELSE g[k]]
    <2>3. \A k \in 0 .. n : h[k] = g[k]
      BY <2>2
    <2>4. h[n + 1] = Round(g, n + 1)
      BY <2>2
    <2>5. \A k \in 0 .. n : g[k] = Round(g, k)
      <3> HIDE DEF Round
      <3> QED BY <2>1
    <2>6. h = [k \in 0 .. n + 1 |-> h[k]]
      OBVIOUS
    <2> HIDE DEF h
    <2>7. \A k \in 0 .. n + 1 : Round(h, k) = Round(g, k)
      <3> TAKE k \in 0 .. n + 1
      <3>1. k # 0 => k - 1 \in 0 .. n
        BY <2>2
      <3>2. k # 0 => h[k - 1] = g[k - 1]
        BY <2>3, <3>1
      <3> QED BY <3>2
    <2> HIDE DEF Round
    <2>8. \A k \in 0 .. n + 1 : h[k] = Round(h, k)
      <3> TAKE k \in 0 .. n + 1
      <3>1. k = n + 1 \/ k \in 0 .. n
        BY <2>2
      <3> QED BY <2>3, <2>4, <2>5, <2>7, <3>1
    <2>9. h = [k \in 0 .. n + 1 |-> Round(h, k)]
      BY <2>6, <2>8
    <2> QED BY <2>2, <2>9
  <1> HIDE DEF N, Has
  <1>4. N \in Has
    <2>1. \A n \in 0 .. N : n \in Has
      BY <1>1, <1>2, <1>3, Induction
    <2>2. N \in 0 .. N
      BY <1>1
    <2> QED BY <2>1, <2>2
  <1> USE DEF Has
  <1> DEFINE f == CHOOSE g : g = [k \in 0 .. N |-> Round(g, k)]
  <1>5. f = [k \in 0 .. N |-> Round(f, k)]
    <2> HIDE DEF Round
    <2> QED BY <1>4
  <1>6. rollback(m, r, from, to) = f[N]
    BY Zenon DEF rollback, N
  <1> HIDE DEF f
  <1>7. \A k \in 0 .. N : f[k] = Round(f, k)
    BY <1>5
  <1>8. f[0] = m /\ \A k \in 1 .. N : f[k] = give_back(f[k - 1], r, KernelPage(from + k - 1))
    BY <1>1, <1>7
  <1> QED BY <1>6, <1>8 DEF N

(* Nothing happened to what was mapped, nor to any page of a program.      *)
Kern(m, n, R) ==
    /\ n.data = m.data
    /\ \A q \in R, b \in Addresses :
          b[1] < Half \/ Mapped(m, q, b) => walk(n, q, b) = walk(m, q, b)

LEMMA KernelPageFacts ==
    /\ KernelPages \in Nat
    /\ \A n \in 0 .. KernelPages - 1 :
          /\ KernelPage(n) \in Addresses /\ KernelPage(n)[1] = KernelTop /\ KernelPage(n)[2] = n
          /\ KernelPage(n)[1] >= Half /\ ~(KernelPage(n)[1] < Half)
  <1>1. KernelPages \in Nat /\ KernelPages <= Entries /\ Entries \in Nat
    BY SpacesAssumption
  <1>2. \A n \in 0 .. KernelPages - 1 : n \in Index
    BY <1>1 DEF Index
  <1>3. KernelTop \in Index /\ KernelTop >= Half /\ Half \in Int /\ KernelTop \in Int
    BY SpaceConstants
  <1> QED BY <1>1, <1>2, <1>3, AddressParts DEF KernelPage

(* rollback_heap_mapping undoes what was mapped since m.                   *)
LEMMA RollbackSound ==
    ASSUME NEW m, NEW n, NEW R, NEW H, Sound(n, R, H), NEW r \in R, Kern(m, n, R),
           NEW from \in Nat, NEW to \in Nat, from <= to, to <= KernelPages,
           \A j \in from .. to - 1 : Mapped(n, r, KernelPage(j)),
           \A j \in from .. to - 1 : \A q \in R : ~Mapped(m, q, KernelPage(j)),
           NEW x, x = rollback(n, r, from, to)
    PROVE  Sound(x, R, H) /\ Kern(m, x, R)
  <1> DEFINE N == to - from
  <1>1. PICK g : /\ rollback(n, r, from, to) = g[N] /\ g[0] = n
                 /\ \A k \in 1 .. N : g[k] = give_back(g[k - 1], r, KernelPage(from + k - 1))
    BY RollbackIs
  <1> DEFINE P(k) == /\ Sound(g[k], R, H) /\ Kern(m, g[k], R)
                     /\ \A j \in from + k .. to - 1 : Mapped(g[k], r, KernelPage(j))
             S == {k \in Nat : P(k)}
  <1>2. N \in Nat
    OBVIOUS
  <1>3. P(0)
    BY <1>1
  <1>4. ASSUME NEW k \in 0 .. N - 1, P(k)
        PROVE  P(k + 1)
    <2> DEFINE a == KernelPage(from + k)
               u == g[k]
               v == g[k + 1]
    <2>1. /\ k \in Nat /\ k + 1 \in 1 .. N /\ (k + 1) - 1 = k /\ from + (k + 1) - 1 = from + k
          /\ from + k \in 0 .. KernelPages - 1 /\ from + k \in from .. to - 1
          /\ from + k \in from + k .. to - 1
      BY KernelPageFacts
    <2>2. v = give_back(u, r, a)
      BY <1>1, <2>1
    <2>3. a \in Addresses /\ Mapped(u, r, a) /\ a[1] >= Half /\ ~(a[1] < Half)
      BY <1>4, <2>1, KernelPageFacts
    <2>4. Sound(u, R, H) /\ Kern(m, u, R)
      BY <1>4
    <2> HIDE DEF u, v
    <2>5. Sound(v, R, H) /\ WalkSet(u, v, R, r, a, None) /\ v.data = u.data
      <3> HIDE DEF a
      <3> QED BY <2>2, <2>3, <2>4, GiveBackSound
    <2>6. Kern(m, v, R)
      <3>1. \A q \in R : ~Mapped(m, q, a)
        BY <2>1
      <3> HIDE DEF a
      <3>2. ASSUME NEW q \in R, NEW b \in Addresses, b[1] < Half \/ Mapped(m, q, b)
            PROVE  walk(v, q, b) = walk(m, q, b)
        <4>1. b # a
          BY <2>3, <3>1, <3>2
        <4>2. walk(v, q, b) = walk(u, q, b)
          BY <2>5, <4>1 DEF WalkSet
        <4> QED BY <2>4, <3>2, <4>2 DEF Kern
      <3>3. v.data = m.data
        BY <2>4, <2>5 DEF Kern
      <3> QED BY <3>2, <3>3 DEF Kern
    <2>7. ASSUME NEW j \in from + (k + 1) .. to - 1
          PROVE  Mapped(v, r, KernelPage(j))
      <3>1. j \in from + k .. to - 1 /\ j # from + k /\ j \in 0 .. KernelPages - 1
        BY <2>1, KernelPageFacts
      <3>2. Mapped(u, r, KernelPage(j))
        BY <1>4, <3>1 DEF u
      <3>3. KernelPage(j) # a /\ KernelPage(j) \in Addresses
        BY <2>1, <3>1, KernelPageFacts
      <3> HIDE DEF a
      <3>4. walk(v, r, KernelPage(j)) = walk(u, r, KernelPage(j))
        BY <2>5, <3>3 DEF WalkSet
      <3> QED BY <3>2, <3>4 DEF Mapped
    <2> QED BY <2>5, <2>6, <2>7 DEF v
  <1> HIDE DEF P, N
  <1>5. N \in S
    <2>1. 0 \in S
      BY <1>3
    <2>2. \A k \in 0 .. N - 1 : k \in S => k + 1 \in S
      BY <1>2, <1>4
    <2> HIDE DEF S
    <2>3. N \in 0 .. N
      BY <1>2
    <2> QED BY <1>2, <2>1, <2>2, <2>3, Induction
  <1> QED BY <1>1, <1>5 DEF P

(* The same for expand_heap.                                               *)
LEMMA ExpandIs ==
    ASSUME NEW m, NEW r, NEW pages \in Nat, ~(heap_end + pages > KernelPages)
    PROVE  \E g : /\ expand_heap(m, r, pages) = g[pages] /\ g[0] = [m |-> m, ok |-> TRUE]
                  /\ \A k \in 1 .. pages : g[k] = grow_next(g[k - 1], r, heap_end + k - 1, heap_end)
  <1> DEFINE N == pages
             Round(g, k) == IF k = 0 THEN [m |-> m, ok |-> TRUE] ELSE grow_next(g[k - 1], r, heap_end + k - 1, heap_end)
             Has == {n \in Nat : \E g : g = [k \in 0 .. n |-> Round(g, k)]}
  <1>1. N \in Nat
    OBVIOUS
  <1>2. 0 \in Has
    <2> DEFINE g == [k \in 0 .. 0 |-> [m |-> m, ok |-> TRUE]]
    <2>1. g = [k \in 0 .. 0 |-> Round(g, k)]
      OBVIOUS
    <2> QED BY <2>1
  <1>3. \A n \in 0 .. N - 1 : n \in Has => n + 1 \in Has
    <2> SUFFICES ASSUME NEW n \in 0 .. N - 1, n \in Has PROVE n + 1 \in Has
      OBVIOUS
    <2>1. PICK g : g = [k \in 0 .. n |-> Round(g, k)]
      OBVIOUS
    <2> HIDE DEF N
    <2>2. n \in Nat
      BY <1>1
    <2> DEFINE h == [k \in 0 .. n + 1 |-> IF k = n + 1 THEN Round(g, k) ELSE g[k]]
    <2>3. \A k \in 0 .. n : h[k] = g[k]
      BY <2>2
    <2>4. h[n + 1] = Round(g, n + 1)
      BY <2>2
    <2>5. \A k \in 0 .. n : g[k] = Round(g, k)
      <3> HIDE DEF Round
      <3> QED BY <2>1
    <2>6. h = [k \in 0 .. n + 1 |-> h[k]]
      OBVIOUS
    <2> HIDE DEF h
    <2>7. \A k \in 0 .. n + 1 : Round(h, k) = Round(g, k)
      <3> TAKE k \in 0 .. n + 1
      <3>1. k # 0 => k - 1 \in 0 .. n
        BY <2>2
      <3>2. k # 0 => h[k - 1] = g[k - 1]
        BY <2>3, <3>1
      <3> QED BY <3>2
    <2> HIDE DEF Round
    <2>8. \A k \in 0 .. n + 1 : h[k] = Round(h, k)
      <3> TAKE k \in 0 .. n + 1
      <3>1. k = n + 1 \/ k \in 0 .. n
        BY <2>2
      <3> QED BY <2>3, <2>4, <2>5, <2>7, <3>1
    <2>9. h = [k \in 0 .. n + 1 |-> Round(h, k)]
      BY <2>6, <2>8
    <2> QED BY <2>2, <2>9
  <1> HIDE DEF N, Has
  <1>4. N \in Has
    <2>1. \A n \in 0 .. N : n \in Has
      BY <1>1, <1>2, <1>3, Induction
    <2>2. N \in 0 .. N
      BY <1>1
    <2> QED BY <2>1, <2>2
  <1> USE DEF Has
  <1> DEFINE f == CHOOSE g : g = [k \in 0 .. N |-> Round(g, k)]
  <1>5. f = [k \in 0 .. N |-> Round(f, k)]
    <2> HIDE DEF Round
    <2> QED BY <1>4
  <1>6. expand_heap(m, r, pages) = f[N]
    BY Zenon DEF expand_heap, N
  <1> HIDE DEF f
  <1>7. \A k \in 0 .. N : f[k] = Round(f, k)
    BY <1>5
  <1>8. f[0] = [m |-> m, ok |-> TRUE]
    <2>1. 0 \in 0 .. N
      BY <1>1
    <2>2. f[0] = Round(f, 0)
      <3> HIDE DEF Round
      <3> QED BY <1>7, <2>1
    <2> QED BY <2>2, Zenon
  <1>9. ASSUME NEW k \in 1 .. N
        PROVE  f[k] = grow_next(f[k - 1], r, heap_end + k - 1, heap_end)
    <2>1. k \in 0 .. N /\ k # 0
      BY <1>1
    <2>2. f[k] = Round(f, k)
      <3> HIDE DEF Round
      <3> QED BY <1>7, <2>1
    <2> QED BY <2>1, <2>2, Zenon
  <1> QED BY <1>6, <1>8, <1>9 DEF N


(* walk reads the tables only.                                             *)
LEMMA WalkReads ==
    ASSUME NEW m, NEW n, n.table = m.table
    PROVE  \A q, b : walk(n, q, b) = walk(m, q, b)
  BY DEF walk

(* The heap pages from .. page - 1 are mapped now and were not before.     *)
Grew(m, u, R, r, from, page) ==
    /\ \A j \in from .. page - 1 : Mapped(u, r, KernelPage(j))
    /\ \A j \in from .. page - 1 : \A q \in R : ~Mapped(m, q, KernelPage(j))

LEMMA GrowPageSound ==
    ASSUME NEW m, NEW u, NEW R, Sound(u, R, {}), NEW r \in R, Kern(m, u, R),
           NEW from \in Nat, NEW page \in Nat, from <= page, page < KernelPages,
           Grew(m, u, R, r, from, page), R = {KernelRoot} \/ u.table[r][KernelTop] # None,
           NEW w, w = grow_page(pmm_alloc_page(u), r, page, from)
    PROVE  /\ w.ok \in BOOLEAN /\ Sound(w.m, R, {}) /\ Kern(m, w.m, R)
           /\ w.ok => Grew(m, w.m, R, r, from, page + 1)
  <1> DEFINE new == pmm_alloc_page(u)
             f == new.frame
             a == KernelPage(page)
  <1>1. \/ new.frame = None /\ new.m = u
        \/ /\ f \in Frames /\ f \notin {} /\ Sound(new.m, R, {} \cup {f})
           /\ new.m.table = u.table /\ new.m.data = u.data
    BY AllocSound
  <1>2. w = grow_page(new, r, page, from)
    OBVIOUS
  <1>3. /\ a \in Addresses /\ a[1] = KernelTop /\ a[2] = page /\ a[1] >= Half /\ ~(a[1] < Half)
        /\ page \in 0 .. KernelPages - 1
    BY KernelPageFacts
  <1>4. \A x, y : /\ Sound(x, R, {}) /\ Kern(m, x, R) /\ Grew(m, x, R, r, from, page)
                  /\ y = rollback(x, r, from, page)
                  => Sound(y, R, {}) /\ Kern(m, y, R)
    <2> TAKE x, y
    <2> HAVE /\ Sound(x, R, {}) /\ Kern(m, x, R) /\ Grew(m, x, R, r, from, page)
             /\ y = rollback(x, r, from, page)
    <2>1. page <= KernelPages
      BY <1>3, KernelPageFacts
    <2> QED BY <2>1, RollbackSound DEF Grew
  <1> HIDE DEF new
  <1>5. CASE new.frame = None /\ new.m = u
    <2>1. w = [m |-> rollback(u, r, from, page), ok |-> FALSE]
      BY <1>2, <1>5 DEF grow_page
    <2>2. w.m = rollback(u, r, from, page) /\ w.ok = FALSE
      BY <2>1
    <2> QED BY <1>4, <2>2
  <1>6. CASE /\ f \in Frames /\ f \notin {} /\ Sound(new.m, R, {} \cup {f})
             /\ new.m.table = u.table /\ new.m.data = u.data
    <2> DEFINE v == map_page(new.m, r, a, f)
    <2>1. w = grown(v, r, page, f, from)
      BY <1>2, <1>6, SpaceConstants DEF grow_page
    <2> HIDE DEF a, f
    <2>2. a[1] < Half \/ R = {KernelRoot} \/ new.m.table[r][a[1]] # None
      BY <1>3, <1>6
    <2>3. /\ v.ok \in BOOLEAN /\ v = [m |-> v.m, ok |-> v.ok] /\ v.m.data = new.m.data
          /\ v.ok => Sound(v.m, R, {}) /\ WalkSet(new.m, v.m, R, r, a, f) /\ ~Mapped(new.m, r, a)
          /\ ~v.ok => Sound(v.m, R, {} \cup {f}) /\ WalksSame(new.m, v.m, R)
      <3>1. Holding(new.m, R, {}, f)
        BY <1>6 DEF Holding, f
      <3> QED BY <1>3, <2>2, <3>1, MapPageSound DEF MapDone
    <2> HIDE DEF v
    <2>4. \A q, b : walk(new.m, q, b) = walk(u, q, b)
      BY <1>6, WalkReads
    <2>5. CASE v.ok
      <3>1. w = v
        BY <2>1, <2>5 DEF grown
      <3>2. \A q \in R : ~Mapped(m, q, a)
        <4> TAKE q \in R
        <4> SUFFICES ASSUME Mapped(m, q, a) PROVE FALSE
          OBVIOUS
        <4>1. walk(u, q, a) = walk(m, q, a)
          BY <1>3 DEF Kern
        <4>2. walk(u, q, a) = walk(u, r, a)
          BY <1>3, WalkFacts
        <4>3. Mapped(new.m, r, a)
          BY <2>4, <4>1, <4>2 DEF Mapped
        <4> QED BY <2>3, <2>5, <4>3
      <3>3. \A q \in R, b \in Addresses : b # a => walk(v.m, q, b) = walk(u, q, b)
        BY <2>3, <2>4, <2>5 DEF WalkSet
      <3>4. walk(v.m, r, a) = f
        BY <1>3, <2>3, <2>5 DEF WalkSet
      <3>5. Kern(m, v.m, R)
        <4>1. ASSUME NEW q \in R, NEW b \in Addresses, b[1] < Half \/ Mapped(m, q, b)
              PROVE  walk(v.m, q, b) = walk(m, q, b)
          <5>1. b # a
            BY <1>3, <3>2, <4>1
          <5>2. walk(u, q, b) = walk(m, q, b)
            BY <4>1 DEF Kern
          <5> QED BY <3>3, <5>1, <5>2
        <4>2. v.m.data = m.data
          BY <1>6, <2>3 DEF Kern
        <4> QED BY <4>1, <4>2 DEF Kern
      <3>6. Grew(m, v.m, R, r, from, page + 1)
        <4>1. ASSUME NEW j \in from .. (page + 1) - 1
              PROVE  Mapped(v.m, r, KernelPage(j)) /\ \A q \in R : ~Mapped(m, q, KernelPage(j))
          <5>1. CASE j = page
            <6>1. Mapped(v.m, r, a)
              BY <1>6, <3>4, SpaceConstants DEF Mapped
            <6> QED BY <3>2, <5>1, <6>1 DEF a
          <5>2. CASE j # page
            <6>1. j \in from .. page - 1 /\ j \in 0 .. KernelPages - 1
              BY <1>3, <5>2, KernelPageFacts
            <6>2. KernelPage(j) \in Addresses /\ KernelPage(j) # a
              BY <1>3, <5>2, <6>1, KernelPageFacts
            <6>3. Mapped(u, r, KernelPage(j)) /\ \A q \in R : ~Mapped(m, q, KernelPage(j))
              BY <6>1 DEF Grew
            <6> QED BY <3>3, <6>2, <6>3 DEF Mapped
          <5> QED BY <5>1, <5>2
        <4> QED BY <4>1 DEF Grew
      <3> QED BY <2>3, <2>5, <3>1, <3>5, <3>6
    <2>6. CASE ~v.ok
      <3> DEFINE x == pmm_free_page(v.m, f)
                 y == rollback(x, r, from, page)
      <3>1. w = [m |-> y, ok |-> FALSE]
        <4>1. w = [v EXCEPT !.m = y]
          BY <2>1, <2>6 DEF grown
        <4> HIDE DEF y
        <4> QED BY <2>3, <2>6, <4>1
      <3>2. Sound(x, R, {}) /\ x.table = v.m.table /\ x.data = v.m.data
        BY <1>6, <2>3, <2>6, FreeSound DEF f
      <3> HIDE DEF x, y
      <3>3. \A q \in R, b \in Addresses : walk(x, q, b) = walk(u, q, b)
        <4>1. \A q, b : walk(x, q, b) = walk(v.m, q, b)
          BY <3>2, WalkReads
        <4> QED BY <2>3, <2>4, <2>6, <4>1 DEF WalksSame
      <3>4. Kern(m, x, R)
        BY <1>6, <2>3, <3>2, <3>3 DEF Kern
      <3>5. Grew(m, x, R, r, from, page)
        <4>1. ASSUME NEW j \in from .. page - 1
              PROVE  Mapped(x, r, KernelPage(j))
          <5>1. j \in 0 .. KernelPages - 1
            BY <1>3, KernelPageFacts
          <5>2. KernelPage(j) \in Addresses /\ Mapped(u, r, KernelPage(j))
            BY <5>1, KernelPageFacts DEF Grew
          <5> QED BY <3>3, <5>2 DEF Mapped
        <4> QED BY <4>1 DEF Grew
      <3>6. Sound(y, R, {}) /\ Kern(m, y, R)
        BY <1>4, <3>2, <3>4, <3>5 DEF y
      <3>7. w.m = y /\ w.ok = FALSE
        BY <3>1
      <3> QED BY <3>6, <3>7
    <2> QED BY <2>3, <2>5, <2>6
  <1> QED BY <1>1, <1>5, <1>6

(* expand_heap: the new pages are mapped, or everything is as it was but   *)
(* for the tables it made.                                                 *)
LEMMA ExpandSound ==
    ASSUME NEW m, NEW R, Sound(m, R, {}), NEW r \in R, NEW pages \in Nat, heap_end \in Nat,
           R = {KernelRoot} \/ m.table[r][KernelTop] # None,
           NEW w, w = expand_heap(m, r, pages)
    PROVE  /\ w.ok \in BOOLEAN /\ Sound(w.m, R, {}) /\ Kern(m, w.m, R)
           /\ w.ok => /\ heap_end + pages <= KernelPages
                      /\ \A j \in heap_end .. heap_end + pages - 1 : Mapped(w.m, r, KernelPage(j))
  <1>0. KernelPages \in Nat
    BY KernelPageFacts
  <1>1. Kern(m, m, R)
    BY DEF Kern
  <1>2. CASE heap_end + pages > KernelPages
    <2>1. w = [m |-> m, ok |-> FALSE]
      BY <1>2 DEF expand_heap
    <2>2. w.m = m /\ w.ok = FALSE
      BY <2>1
    <2> QED BY <1>1, <2>2
  <1>3. CASE ~(heap_end + pages > KernelPages)
    <2>1. PICK g : /\ expand_heap(m, r, pages) = g[pages] /\ g[0] = [m |-> m, ok |-> TRUE]
                   /\ \A k \in 1 .. pages :
                         g[k] = grow_next(g[k - 1], r, heap_end + k - 1, heap_end)
      BY <1>3, ExpandIs
    <2> DEFINE P(k) == /\ g[k].ok \in BOOLEAN /\ Sound(g[k].m, R, {}) /\ Kern(m, g[k].m, R)
                       /\ g[k].ok => Grew(m, g[k].m, R, r, heap_end, heap_end + k)
               S == {k \in Nat : P(k)}
    <2>2. P(0)
      <3>1. g[0].m = m /\ g[0].ok = TRUE
        BY <2>1
      <3>2. Grew(m, m, R, r, heap_end, heap_end + 0)
        BY DEF Grew
      <3> QED BY <1>1, <3>1, <3>2
    <2>3. ASSUME NEW k \in 0 .. pages - 1, P(k)
          PROVE  P(k + 1)
      <3> DEFINE v == g[k]
                 x == g[k + 1]
                 page == heap_end + k
      <3>1. /\ k \in Nat /\ k + 1 \in 1 .. pages /\ (k + 1) - 1 = k /\ heap_end + (k + 1) - 1 = page
            /\ page \in Nat /\ page < KernelPages /\ heap_end <= page /\ heap_end + (k + 1) = page + 1
        BY <1>0, <1>3
      <3>2. x = grow_next(v, r, page, heap_end)
        BY <2>1, <3>1
      <3>3. /\ v.ok \in BOOLEAN /\ Sound(v.m, R, {}) /\ Kern(m, v.m, R)
            /\ v.ok => Grew(m, v.m, R, r, heap_end, page)
        BY <2>3
      <3>4. k = 0 => v.m = m
        BY <2>1
      <3> HIDE DEF v, x
      <3>5. CASE ~v.ok
        <4>1. x = v
          BY <3>2, <3>5 DEF grow_next
        <4> QED BY <3>1, <3>3, <3>5, <4>1 DEF x
      <3>6. CASE v.ok
        <4>1. x = grow_page(pmm_alloc_page(v.m), r, page, heap_end)
          BY <3>2, <3>6 DEF grow_next
        <4>2. R = {KernelRoot} \/ v.m.table[r][KernelTop] # None
          <5>1. CASE k = 0
            BY <3>4, <5>1
          <5>2. CASE k # 0
            <6>1. heap_end \in heap_end .. page - 1 /\ heap_end \in 0 .. KernelPages - 1
              BY <1>0, <3>1, <5>2
            <6>2. Mapped(v.m, r, KernelPage(heap_end))
              BY <3>3, <3>6, <6>1 DEF Grew
            <6>3. KernelPage(heap_end) \in Addresses /\ KernelPage(heap_end)[1] = KernelTop
              BY <6>1, KernelPageFacts
            <6> QED BY <3>3, <6>2, <6>3, WalkFacts
          <5> QED BY <5>1, <5>2
        <4> HIDE DEF page
        <4>3. /\ x.ok \in BOOLEAN /\ Sound(x.m, R, {}) /\ Kern(m, x.m, R)
              /\ x.ok => Grew(m, x.m, R, r, heap_end, page + 1)
          BY <3>1, <3>3, <3>6, <4>1, <4>2, GrowPageSound
        <4> QED BY <3>1, <4>3 DEF x
      <3> QED BY <3>3, <3>5, <3>6
    <2> HIDE DEF P
    <2>4. pages \in S
      <3>1. 0 \in S
        BY <2>2
      <3>2. \A k \in 0 .. pages - 1 : k \in S => k + 1 \in S
        BY <2>3
      <3> HIDE DEF S
      <3>3. pages \in 0 .. pages
        OBVIOUS
      <3> QED BY <3>1, <3>2, <3>3, Induction
    <2>5. heap_end + pages <= KernelPages
      BY <1>0, <1>3
    <2> QED BY <2>1, <2>4, <2>5 DEF P, Grew
  <1> QED BY <1>2, <1>3

-----------------------------------------------------------------------------
(* Pages by number.                                                        *)

(* The pages of programs.                                                  *)
UserNumbers == 0 .. Half * Entries - 1
IsUser(b) == b \in Addresses /\ b[1] < Half

LEMMA UserConstants ==
    /\ Half \in Nat /\ Half <= Entries /\ Half * Entries \in Nat
    /\ PageUnits \in Nat \ {0} /\ Entries \in Nat \ {0}
  <1>1. Half \in Index /\ Entries \in Nat
    BY SpacesAssumption
  <1>2. Half \in Nat /\ Half <= Entries /\ Entries \in Nat \ {0}
    BY <1>1 DEF Index
  <1>3. Half * Entries \in Nat
    BY <1>2, Z3
  <1> QED BY <1>2, <1>3, ElfAssumption

LEMMA PageOfNumber ==
    ASSUME NEW n \in UserNumbers
    PROVE  IsUser(Page(n)) /\ Number(Page(n)) = n
  <1> DEFINE q == n \div Entries
             x == n % Entries
  <1>1. n \in Nat /\ n < Half * Entries
    BY UserConstants DEF UserNumbers
  <1>2. q \in Nat /\ x \in 0 .. Entries - 1 /\ n = q * Entries + x
    BY <1>1, UserConstants, DivMod
  <1>3. Page(n) = <<q % Entries, x>>
    BY DEF Page
  <1> HIDE DEF q, x
  <1>4. q < Half /\ q % Entries = q
    <2>1. q < Half
      BY <1>1, <1>2, UserConstants, Below
    <2>2. q \in 0 .. Entries - 1 /\ q = 0 * Entries + q
      BY <1>2, <2>1, UserConstants
    <2>3. (0 * Entries + q) % Entries = q
      BY <2>2, UserConstants, DivUnique
    <2> QED BY <2>1, <2>2, <2>3
  <1>5. q \in Index /\ x \in Index
    BY <1>2, <1>4, UserConstants DEF Index
  <1>6. Page(n)[1] = q /\ Page(n)[2] = x /\ Page(n) \in Addresses
    BY <1>3, <1>4, <1>5, AddressParts
  <1> QED BY <1>2, <1>4, <1>6 DEF IsUser, Number

LEMMA NumberOfPage ==
    ASSUME NEW a, IsUser(a)
    PROVE  Number(a) \in UserNumbers /\ Page(Number(a)) = a
  <1>1. /\ a[1] \in Nat /\ a[1] < Half /\ a[2] \in 0 .. Entries - 1 /\ a = <<a[1], a[2]>>
    BY AddressParts, UserConstants DEF IsUser, Index
  <1> DEFINE q == a[1]
             x == a[2]
  <1> HIDE DEF q, x
  <1>2. q \in Nat /\ q < Half /\ x \in 0 .. Entries - 1 /\ a = <<q, x>>
    BY <1>1 DEF q, x
  <1>3. (q * Entries + x) \div Entries = q /\ (q * Entries + x) % Entries = x
    BY <1>2, UserConstants, DivUnique
  <1>4. q * Entries + x < Half * Entries
    BY <1>2, UserConstants, Below
  <1>5. q * Entries \in Nat
    BY <1>2, UserConstants, Z3
  <1>6. Number(a) = q * Entries + x
    BY DEF Number, q, x
  <1>7. q * Entries + x \in UserNumbers
    <2> DEFINE y == q * Entries
               z == Half * Entries
    <2>1. y \in Nat /\ z \in Nat /\ y + x < z
      BY <1>4, <1>5, UserConstants
    <2> HIDE DEF y, z
    <2>2. y + x \in 0 .. z - 1
      BY <1>2, <2>1
    <2> QED BY <2>2, Zenon DEF y, z, UserNumbers
  <1>8. q % Entries = q
    <2>1. q \in 0 .. Entries - 1 /\ q = 0 * Entries + q
      BY <1>2, UserConstants
    <2>2. (0 * Entries + q) % Entries = q
      BY <2>1, UserConstants, DivUnique
    <2> QED BY <2>1, <2>2
  <1> QED BY <1>2, <1>3, <1>6, <1>7, <1>8 DEF Page

-----------------------------------------------------------------------------
(* Pages are given to programs.                                            *)

Filled(part) == [u \in Units |-> IF u \in DOMAIN part THEN part[u] ELSE Zero]

(* Every page there was is there, with what it had.                        *)
Kept(m, n, R) ==
    \A q \in R, b \in Addresses :
        Mapped(m, q, b) => /\ walk(n, q, b) = walk(m, q, b)
                           /\ n.data[walk(m, q, b)] = m.data[walk(m, q, b)]

UserSame(m, n, q) == \A b : IsUser(b) => walk(n, q, b) = walk(m, q, b)

LEMMA KeptTwice ==
    ASSUME NEW m, NEW n, NEW x, NEW R, Kept(m, n, R), Kept(n, x, R)
    PROVE  Kept(m, x, R)
  BY DEF Kept, Mapped

(* The page a is placed, or w.ok is FALSE and no page is.                  *)
PlacedOne(m, w, R, H, r, a, part) ==
    /\ w.ok \in BOOLEAN /\ Sound(w.m, R, H) /\ Kept(m, w.m, R)
    /\ \A q \in R : q # r => UserSame(m, w.m, q)
    /\ \A b : IsUser(b) /\ b # a => walk(w.m, r, b) = walk(m, r, b)
    /\ ~w.ok => walk(w.m, r, a) = walk(m, r, a)
    /\ w.ok => /\ ~Mapped(m, r, a) /\ Mapped(w.m, r, a)
               /\ w.m.data[walk(w.m, r, a)] = Filled(part)

(* The data of one frame is set.                                           *)
data_set(m, f, d) == [m EXCEPT !.data[f] = d]

DataDone(m, n, R, H, f, d) ==
    /\ Sound(n, R, H) /\ n.table = m.table /\ n.free = m.free
    /\ n.data[f] = d /\ \A g \in Frames : g # f => n.data[g] = m.data[g]

LEMMA DataSet ==
    ASSUME NEW m, NEW R, NEW H, Sound(m, R, H), NEW f \in Frames, NEW d,
           d = [u \in Units |-> d[u]], NEW n, n = data_set(m, f, d)
    PROVE  DataDone(m, n, R, H, f, d)
  <1> DEFINE new == [g \in Frames |-> IF g = f THEN d ELSE m.data[g]]
  <1>1. /\ m = [free |-> m.free, table |-> m.table, data |-> m.data]
        /\ m.free \in Seq(Frames) /\ m.table \in Tables
        /\ m.data = [g \in Frames |-> [u \in Units |-> m.data[g][u]]]
    BY DEF Sound, IsMem
  <1>2. m.data = [g \in Frames |-> m.data[g]]
    BY <1>1
  <1>3. new = [m.data EXCEPT ![f] = d]
    BY <1>2
  <1>4. \A g \in Frames : new[g] = [u \in Units |-> new[g][u]]
    <2>1. \A g \in Frames : m.data[g] = [u \in Units |-> m.data[g][u]]
      BY <1>1
    <2>2. \A g \in Frames : new[g] = IF g = f THEN d ELSE m.data[g]
      OBVIOUS
    <2> HIDE DEF new
    <2> QED BY <2>1, <2>2
  <1>5. new[f] = d /\ (\A g \in Frames : g # f => new[g] = m.data[g])
        /\ new = [g \in Frames |-> new[g]]
    OBVIOUS
  <1> HIDE DEF new
  <1>6. n = [free |-> m.free, table |-> m.table, data |-> new]
    <2>1. n = [m EXCEPT !.data = new]
      BY <1>3 DEF data_set
    <2> QED BY <1>1, <2>1
  <1>7. n.free = m.free /\ n.table = m.table /\ n.data = new
    BY <1>6
  <1>8. new = [g \in Frames |-> [u \in Units |-> new[g][u]]]
    BY <1>4, <1>5
  <1>9. IsMem(n)
    BY <1>1, <1>6, <1>7, <1>8 DEF IsMem
  <1>10. Sound(n, R, H)
    BY <1>7, <1>9, DataSound
  <1> QED BY <1>5, <1>7, <1>10 DEF DataDone

LEMMA PlaceSound ==
    ASSUME NEW m, NEW R, NEW H, Sound(m, R, H), NEW r \in R, NEW a, IsUser(a),
           NEW part, DOMAIN part \subseteq Units,
           NEW w, w = place(pmm_alloc_page(m), r, a, part)
    PROVE  PlacedOne(m, w, R, H, r, a, part)
  <1> DEFINE new == pmm_alloc_page(m)
             f == new.frame
  <1>0. a \in Addresses /\ a[1] < Half
    BY DEF IsUser
  <1>1. \/ new.frame = None /\ new.m = m
        \/ /\ f \in Frames /\ f \notin H /\ Sound(new.m, R, H \cup {f})
           /\ new.m.table = m.table /\ new.m.data = m.data
    BY AllocSound
  <1>2. w = place(new, r, a, part)
    OBVIOUS
  <1> HIDE DEF new
  <1>3. CASE new.frame = None /\ new.m = m
    <2>1. w = [m |-> m, ok |-> FALSE]
      BY <1>2, <1>3 DEF place
    <2>2. w.m = m /\ w.ok = FALSE
      BY <2>1
    <2> QED BY <2>2 DEF PlacedOne, Kept, UserSame
  <1>4. CASE /\ f \in Frames /\ f \notin H /\ Sound(new.m, R, H \cup {f})
             /\ new.m.table = m.table /\ new.m.data = m.data
    <2> DEFINE zeros == [u \in Units |-> Zero]
               d == Filled(part)
               c == cleared(new.m, f)
               x == copied(c, f, part)
    <2>0. f \in Frames /\ f \notin H /\ Sound(new.m, R, H \cup {f}) /\ f # None
      BY <1>4, SpaceConstants
    <2>1. w = map_page(x, r, a, f)
      BY <1>2, <1>4, SpaceConstants DEF place
    <2> HIDE DEF f
    <2>2. /\ Sound(c, R, H \cup {f}) /\ c.table = m.table /\ c.data[f] = zeros
          /\ \A g \in Frames : g # f => c.data[g] = m.data[g]
      <3>1. c = data_set(new.m, f, zeros) /\ zeros = [u \in Units |-> zeros[u]]
        BY DEF cleared, data_set
      <3> HIDE DEF c, zeros
      <3>2. /\ Sound(c, R, H \cup {f}) /\ c.table = new.m.table /\ c.data[f] = zeros
            /\ \A g \in Frames : g # f => c.data[g] = new.m.data[g]
        <4>1. DataDone(new.m, c, R, H \cup {f}, f, zeros)
          BY <2>0, <3>1, DataSet
        <4> QED BY <4>1 DEF DataDone
      <3> QED BY <1>4, <3>2
    <2>3. d = [u \in Units |-> IF u \in DOMAIN part THEN part[u] ELSE zeros[u]]
      BY DEF Filled
    <2>4. d = [u \in Units |-> d[u]]
      BY DEF Filled
    <2> HIDE DEF c, d, zeros
    <2>5. /\ Sound(x, R, H \cup {f}) /\ x.table = m.table /\ x.data[f] = d
          /\ \A g \in Frames : g # f => x.data[g] = m.data[g]
      <3>1. x = data_set(c, f, d)
        <4> DEFINE old == c.data[f]
        <4>1. x = [c EXCEPT !.data[f] = [u \in Units |-> IF u \in DOMAIN part THEN part[u] ELSE old[u]]]
          BY DEF copied
        <4>2. old = zeros
          BY <2>2
        <4> HIDE DEF old
        <4> QED BY <2>3, <4>1, <4>2 DEF data_set
      <3> HIDE DEF x
      <3>2. /\ Sound(x, R, H \cup {f}) /\ x.table = c.table /\ x.data[f] = d
            /\ \A g \in Frames : g # f => x.data[g] = c.data[g]
        <4>1. DataDone(c, x, R, H \cup {f}, f, d)
          BY <2>0, <2>2, <2>4, <3>1, DataSet
        <4> QED BY <4>1 DEF DataDone
      <3> QED BY <2>2, <3>2
    <2> HIDE DEF x
    <2>6. /\ w.ok \in BOOLEAN /\ w.m.data = x.data
          /\ w.ok => Sound(w.m, R, H) /\ WalkSet(x, w.m, R, r, a, f) /\ ~Mapped(x, r, a)
          /\ ~w.ok => Sound(w.m, R, H \cup {f}) /\ WalksSame(x, w.m, R)
      <3>1. Holding(x, R, H, f)
        BY <2>0, <2>5 DEF Holding
      <3>2. MapDone(x, w, R, H, r, a, f)
        BY <1>0, <2>1, <3>1, MapPageSound
      <3> QED BY <3>2 DEF MapDone
    <2>7. \A q, b : walk(x, q, b) = walk(m, q, b)
      BY <2>5, WalkReads
    <2>8. Sound(w.m, R, H)
      <3>1. H \in SUBSET (H \cup {f}) /\ R \in SUBSET R /\ KernelRoot \in R
        BY DEF Sound
      <3> QED BY <2>6, <3>1, SoundLess
    <2>9. ASSUME NEW q \in R, NEW b \in Addresses, Mapped(m, q, b)
          PROVE  /\ walk(m, q, b) \in Frames /\ walk(m, q, b) # f
                 /\ x.data[walk(m, q, b)] = m.data[walk(m, q, b)]
      <3>1. walk(x, q, b) \in Frames \cup {None} /\ walk(x, q, b) \notin H \cup {f}
        BY <2>5, WalkFacts
      <3>2. walk(m, q, b) \in Frames /\ walk(m, q, b) # f
        BY <2>7, <2>9, <3>1 DEF Mapped
      <3> QED BY <2>5, <3>2
    <2>10. CASE ~w.ok
      <3>1. \A q \in R, b \in Addresses : walk(w.m, q, b) = walk(m, q, b)
        BY <2>6, <2>7, <2>10 DEF WalksSame
      <3>2. Kept(m, w.m, R)
        BY <2>6, <2>9, <3>1 DEF Kept
      <3> QED BY <1>0, <2>6, <2>8, <2>10, <3>1, <3>2 DEF PlacedOne, UserSame, IsUser
    <2>11. CASE w.ok
      <3>1. \A q \in R, b \in Addresses :
              walk(w.m, q, b) = IF b = a /\ Holder(q, a[1]) = Holder(r, a[1])
                                THEN f ELSE walk(m, q, b)
        BY <2>6, <2>7, <2>11 DEF WalkSet
      <3>2. \A q : Holder(q, a[1]) = q
        <4>1. ~(a[1] >= Half)
          <5>1. a[1] \in Int /\ Half \in Int
            BY <1>0, AddressParts, SpaceConstants
          <5> QED BY <1>0, <5>1
        <4> QED BY <4>1 DEF Holder
      <3>3. ~Mapped(m, r, a)
        BY <2>6, <2>7, <2>11 DEF Mapped
      <3>4. walk(w.m, r, a) = f /\ Mapped(w.m, r, a) /\ w.m.data[f] = Filled(part)
        BY <1>0, <2>0, <2>5, <2>6, <3>1 DEF Mapped, d
      <3>5. \A q \in R, b \in Addresses : ~(b = a /\ q = r) => walk(w.m, q, b) = walk(m, q, b)
        BY <3>1, <3>2
      <3>6. Kept(m, w.m, R)
        BY <2>6, <2>9, <3>3, <3>5 DEF Kept
      <3>7. \A q \in R : q # r => UserSame(m, w.m, q)
        BY <3>5 DEF UserSame, IsUser
      <3>8. \A b : IsUser(b) /\ b # a => walk(w.m, r, b) = walk(m, r, b)
        BY <3>5 DEF IsUser
      <3> QED BY <2>6, <2>8, <2>11, <3>3, <3>4, <3>6, <3>7, <3>8 DEF PlacedOne
    <2> QED BY <2>6, <2>10, <2>11
  <1> QED BY <1>1, <1>3, <1>4

(* The recursive function in place_all is the one its equation says.       *)
PlaceRun(g, m, r, pages, part) ==
    /\ place_all(m, r, pages, part) = g[Len(pages)] /\ g[0] = [m |-> m, ok |-> TRUE]
    /\ \A k \in 1 .. Len(pages) : g[k] = place_next(g[k - 1], r, pages[k], part[pages[k]])

LEMMA PlaceAllIs ==
    ASSUME NEW m, NEW r, NEW pages, Len(pages) \in Nat, NEW part
    PROVE  \E g : PlaceRun(g, m, r, pages, part)
  <1> DEFINE N == Len(pages)
             Round(g, k) == IF k = 0 THEN [m |-> m, ok |-> TRUE] ELSE place_next(g[k - 1], r, pages[k], part[pages[k]])
             Has == {n \in Nat : \E g : g = [k \in 0 .. n |-> Round(g, k)]}
  <1>1. N \in Nat
    OBVIOUS
  <1>2. 0 \in Has
    <2> DEFINE g == [k \in 0 .. 0 |-> [m |-> m, ok |-> TRUE]]
    <2>1. g = [k \in 0 .. 0 |-> Round(g, k)]
      OBVIOUS
    <2> QED BY <2>1
  <1>3. \A n \in 0 .. N - 1 : n \in Has => n + 1 \in Has
    <2> SUFFICES ASSUME NEW n \in 0 .. N - 1, n \in Has PROVE n + 1 \in Has
      OBVIOUS
    <2>1. PICK g : g = [k \in 0 .. n |-> Round(g, k)]
      OBVIOUS
    <2> HIDE DEF N
    <2>2. n \in Nat
      BY <1>1
    <2> DEFINE h == [k \in 0 .. n + 1 |-> IF k = n + 1 THEN Round(g, k) ELSE g[k]]
    <2>3. \A k \in 0 .. n : h[k] = g[k]
      BY <2>2
    <2>4. h[n + 1] = Round(g, n + 1)
      BY <2>2
    <2>5. \A k \in 0 .. n : g[k] = Round(g, k)
      <3> HIDE DEF Round
      <3> QED BY <2>1
    <2>6. h = [k \in 0 .. n + 1 |-> h[k]]
      OBVIOUS
    <2> HIDE DEF h
    <2>7. \A k \in 0 .. n + 1 : Round(h, k) = Round(g, k)
      <3> TAKE k \in 0 .. n + 1
      <3>1. k # 0 => k - 1 \in 0 .. n
        BY <2>2
      <3>2. k # 0 => h[k - 1] = g[k - 1]
        BY <2>3, <3>1
      <3> QED BY <3>2
    <2> HIDE DEF Round
    <2>8. \A k \in 0 .. n + 1 : h[k] = Round(h, k)
      <3> TAKE k \in 0 .. n + 1
      <3>1. k = n + 1 \/ k \in 0 .. n
        BY <2>2
      <3> QED BY <2>3, <2>4, <2>5, <2>7, <3>1
    <2>9. h = [k \in 0 .. n + 1 |-> Round(h, k)]
      BY <2>6, <2>8
    <2> QED BY <2>2, <2>9
  <1> HIDE DEF N, Has
  <1>4. N \in Has
    <2>1. \A n \in 0 .. N : n \in Has
      BY <1>1, <1>2, <1>3, Induction
    <2>2. N \in 0 .. N
      BY <1>1
    <2> QED BY <2>1, <2>2
  <1> USE DEF Has
  <1> DEFINE f == CHOOSE g : g = [k \in 0 .. N |-> Round(g, k)]
  <1>5. f = [k \in 0 .. N |-> Round(f, k)]
    <2> HIDE DEF Round
    <2> QED BY <1>4
  <1>6. place_all(m, r, pages, part) = f[N]
    BY Zenon DEF place_all, N
  <1> HIDE DEF f
  <1>7. \A k \in 0 .. N : f[k] = Round(f, k)
    BY <1>5
  <1>8. f[0] = [m |-> m, ok |-> TRUE]
    <2>1. 0 \in 0 .. N
      BY <1>1
    <2>2. f[0] = Round(f, 0)
      <3> HIDE DEF Round
      <3> QED BY <1>7, <2>1
    <2> QED BY <2>2, Zenon
  <1>9. ASSUME NEW k \in 1 .. N
        PROVE  f[k] = place_next(f[k - 1], r, pages[k], part[pages[k]])
    <2>1. k \in 0 .. N /\ k # 0
      BY <1>1
    <2>2. f[k] = Round(f, k)
      <3> HIDE DEF Round
      <3> QED BY <1>7, <2>1
    <2> QED BY <2>1, <2>2, Zenon
  <1> QED BY <1>6, <1>8, <1>9 DEF N, PlaceRun

(* place_all, after k pages.                                               *)
Placed(m, w, R, H, r, pages, part, k) ==
    /\ w.ok \in BOOLEAN /\ Sound(w.m, R, H) /\ Kept(m, w.m, R)
    /\ \A q \in R : q # r => UserSame(m, w.m, q)
    /\ \A b : IsUser(b) =>
          \/ walk(w.m, r, b) = walk(m, r, b)
          \/ \E l \in 1 .. k : /\ b = Page(pages[l]) /\ ~Mapped(m, r, b)
                               /\ w.m.data[walk(w.m, r, b)] = Filled(part[pages[l]])
    /\ w.ok => \A l \in 1 .. k :
                  /\ Mapped(w.m, r, Page(pages[l]))
                  /\ w.m.data[walk(w.m, r, Page(pages[l]))] = Filled(part[pages[l]])

LEMMA PlaceNextSound ==
    ASSUME NEW m, NEW R, NEW H, NEW r \in R, NEW pages, NEW part, NEW k \in Nat,
           \A l \in 1 .. k + 1 : IsUser(Page(pages[l])),
           DOMAIN part[pages[k + 1]] \subseteq Units,
           NEW v, Placed(m, v, R, H, r, pages, part, k),
           NEW w, w = place_next(v, r, pages[k + 1], part[pages[k + 1]])
    PROVE  Placed(m, w, R, H, r, pages, part, k + 1)
  <1> DEFINE a == Page(pages[k + 1])
             p == part[pages[k + 1]]
  <1>1. \A l \in 1 .. k + 1 : l \in 1 .. k \/ l = k + 1
    OBVIOUS
  <1>2. CASE ~v.ok
    <2>1. w = v
      BY <1>2 DEF place_next
    <2> QED BY <1>2, <2>1 DEF Placed
  <1>3. CASE v.ok
    <2>1. w = place(pmm_alloc_page(v.m), r, a, p)
      BY <1>3 DEF place_next
    <2>2. Sound(v.m, R, H) /\ Kept(m, v.m, R)
      BY DEF Placed
    <2>3. IsUser(a) /\ a \in Addresses /\ DOMAIN p \subseteq Units
      BY DEF IsUser
    <2> HIDE DEF a, p
    <2>4. PlacedOne(v.m, w, R, H, r, a, p)
      BY <2>1, <2>2, <2>3, PlaceSound
    <2>5. Kept(v.m, w.m, R)
      BY <2>4 DEF PlacedOne
    <2>6. Kept(m, w.m, R)
      BY <2>2, <2>5, KeptTwice
    <2>7. \A q \in R : q # r => UserSame(m, w.m, q)
      BY <2>4 DEF PlacedOne, Placed, UserSame
    <2>8. ASSUME NEW l \in 1 .. k
          PROVE  /\ Mapped(w.m, r, Page(pages[l]))
                 /\ w.m.data[walk(w.m, r, Page(pages[l]))] = Filled(part[pages[l]])
      <3> DEFINE b == Page(pages[l])
      <3>1. Mapped(v.m, r, b) /\ v.m.data[walk(v.m, r, b)] = Filled(part[pages[l]])
        BY <1>3 DEF Placed
      <3>2. b \in Addresses
        BY DEF IsUser
      <3> HIDE DEF b
      <3>3. /\ walk(w.m, r, b) = walk(v.m, r, b)
            /\ w.m.data[walk(v.m, r, b)] = v.m.data[walk(v.m, r, b)]
        BY <2>5, <3>1, <3>2 DEF Kept
      <3>4. Mapped(w.m, r, b) /\ w.m.data[walk(w.m, r, b)] = Filled(part[pages[l]])
        BY <3>1, <3>3 DEF Mapped
      <3> QED BY <3>4 DEF b
    <2>9. w.ok => /\ Mapped(w.m, r, a) /\ w.m.data[walk(w.m, r, a)] = Filled(p)
                  /\ ~Mapped(v.m, r, a)
      BY <2>4 DEF PlacedOne
    <2>10. w.ok => \A l \in 1 .. k + 1 :
                  /\ Mapped(w.m, r, Page(pages[l]))
                  /\ w.m.data[walk(w.m, r, Page(pages[l]))] = Filled(part[pages[l]])
      BY <1>1, <2>8, <2>9 DEF a, p
    <2>11. ASSUME NEW b, IsUser(b)
           PROVE  \/ walk(w.m, r, b) = walk(m, r, b)
                  \/ \E l \in 1 .. k + 1 :
                        /\ b = Page(pages[l]) /\ ~Mapped(m, r, b)
                        /\ w.m.data[walk(w.m, r, b)] = Filled(part[pages[l]])
      <3>1. CASE b = a /\ w.ok
        <4>1. ~Mapped(m, r, b)
          <5> SUFFICES ASSUME Mapped(m, r, b) PROVE FALSE
            OBVIOUS
          <5>1. walk(v.m, r, b) = walk(m, r, b)
            BY <2>2, <2>3, <3>1 DEF Kept
          <5> QED BY <2>9, <3>1, <5>1 DEF Mapped
        <4>2. k + 1 \in 1 .. k + 1 /\ b = Page(pages[k + 1])
          BY <3>1 DEF a
        <4>3. w.m.data[walk(w.m, r, b)] = Filled(part[pages[k + 1]])
          BY <2>9, <3>1 DEF p
        <4> QED BY <4>1, <4>2, <4>3
      <3>2. CASE ~(b = a /\ w.ok)
        <4>1. walk(w.m, r, b) = walk(v.m, r, b)
          BY <2>4, <2>11, <3>2 DEF PlacedOne
        <4>2. CASE walk(v.m, r, b) = walk(m, r, b)
          BY <4>1, <4>2
        <4>3. CASE walk(v.m, r, b) # walk(m, r, b)
          <5>1. PICK l \in 1 .. k : /\ b = Page(pages[l]) /\ ~Mapped(m, r, b)
                                    /\ v.m.data[walk(v.m, r, b)] = Filled(part[pages[l]])
            BY <2>11, <4>3 DEF Placed
          <5>2. Mapped(v.m, r, b)
            BY <4>3, <5>1 DEF Mapped
          <5>3. w.m.data[walk(v.m, r, b)] = v.m.data[walk(v.m, r, b)]
            BY <2>5, <2>11, <5>2 DEF Kept, IsUser
          <5>4. l \in 1 .. k + 1
            OBVIOUS
          <5> QED BY <4>1, <5>1, <5>3, <5>4
        <4> QED BY <4>2, <4>3
      <3> QED BY <3>1, <3>2
    <2>12. w.ok \in BOOLEAN /\ Sound(w.m, R, H)
      BY <2>4 DEF PlacedOne
    <2> QED BY <2>6, <2>7, <2>10, <2>11, <2>12 DEF Placed
  <1> QED BY <1>2, <1>3

LEMMA PlaceAllSound ==
    ASSUME NEW m, NEW R, NEW H, Sound(m, R, H), NEW r \in R, NEW pages, Len(pages) \in Nat,
           NEW part, \A l \in 1 .. Len(pages) : /\ IsUser(Page(pages[l]))
                                                /\ DOMAIN part[pages[l]] \subseteq Units,
           NEW w, w = place_all(m, r, pages, part)
    PROVE  Placed(m, w, R, H, r, pages, part, Len(pages))
  <1> DEFINE N == Len(pages)
  <1>0. PICK g : PlaceRun(g, m, r, pages, part)
    BY PlaceAllIs
  <1>1. /\ w = g[N] /\ g[0] = [m |-> m, ok |-> TRUE]
        /\ \A k \in 1 .. N : g[k] = place_next(g[k - 1], r, pages[k], part[pages[k]])
    BY <1>0 DEF PlaceRun
  <1> DEFINE P(k) == Placed(m, g[k], R, H, r, pages, part, k)
             S == {k \in Nat : P(k)}
  <1>2. P(0)
    <2>1. g[0].m = m /\ g[0].ok = TRUE
      BY <1>1
    <2> DEFINE u == g[0]
    <2> HIDE DEF u
    <2>2. u.m = m /\ u.ok = TRUE
      BY <2>1 DEF u
    <2>3. Kept(m, u.m, R) /\ \A q \in R : UserSame(m, u.m, q)
      BY <2>2 DEF Kept, UserSame
    <2>4. \A l : l \notin 1 .. 0
      OBVIOUS
    <2>5. Placed(m, u, R, H, r, pages, part, 0)
      BY <2>2, <2>3, <2>4, Zenon DEF Placed
    <2> QED BY <2>5 DEF u
  <1>3. ASSUME NEW k \in 0 .. N - 1, P(k)
        PROVE  P(k + 1)
    <2> DEFINE u == g[k]
               v == g[k + 1]
    <2>1. k \in Nat /\ k + 1 \in 1 .. N /\ (k + 1) - 1 = k
      OBVIOUS
    <2>2. v = place_next(u, r, pages[k + 1], part[pages[k + 1]])
      BY <1>1, <2>1
    <2>3. Placed(m, u, R, H, r, pages, part, k)
      BY <1>3
    <2>4. /\ \A l \in 1 .. k + 1 : IsUser(Page(pages[l]))
          /\ DOMAIN part[pages[k + 1]] \subseteq Units
      BY <2>1
    <2> HIDE DEF u, v
    <2>5. Placed(m, v, R, H, r, pages, part, k + 1)
      BY <2>1, <2>2, <2>3, <2>4, PlaceNextSound
    <2> QED BY <2>5 DEF v
  <1> HIDE DEF P
  <1>4. N \in S
    <2>1. 0 \in S
      BY <1>2
    <2>2. \A k \in 0 .. N - 1 : k \in S => k + 1 \in S
      BY <1>3
    <2> HIDE DEF S
    <2>3. N \in 0 .. N
      OBVIOUS
    <2> QED BY <2>1, <2>2, <2>3, Induction
  <1> QED BY <1>1, <1>4 DEF P

-----------------------------------------------------------------------------
(* The segments of a program that elf64_validate_user_image has passed.    *)

Pages(ph) == first_page(ph) .. end_page(ph) - 1

(* The theorems on memory are about files whose empty segments, which      *)
(* elf64_validate_user_image passes over, begin at addresses of programs.  *)
EmptyInside ==
    \A img \in Images : \A ph \in Range(Program[img].phdrs) :
        ph.load /\ ph.memsz = 0 => ph.vaddr <= MaxVaddr

(* A segment whose end does not wrap and is a program's address.           *)
Fits(ph) ==
    /\ ph.vaddr \in Nat /\ ph.memsz \in Nat /\ ph.filesz \in Nat /\ ph.offset \in Nat
    /\ segment_end(ph) = ph.vaddr + ph.memsz
    /\ ph.memsz # 0 => ph.filesz <= ph.memsz
    /\ ph.filesz = 0 \/ ph.memsz # 0 => file_end(ph) = ph.vaddr + ph.filesz
    /\ ph.vaddr + ph.memsz <= (Half * Entries) * PageUnits

(* A sum that wraps at Word falls below what was added to.                 *)
LEMMA NoWrap ==
    ASSUME NEW W \in Nat, NEW x \in 0 .. W - 1, NEW y \in 1 .. W - 1, (x + y - 1) % W >= x
    PROVE  x + y - 1 < W /\ (x + y - 1) % W = x + y - 1
  <1>1. W > 0 /\ x \in Nat /\ y \in Nat
    OBVIOUS
  <1>2. x + y - 1 < W
    <2> SUFFICES ASSUME x + y - 1 >= W PROVE FALSE
      OBVIOUS
    <2> DEFINE z == x + y - 1 - W
    <2>1. z \in 0 .. W - 1 /\ z < x /\ x + y - 1 = 1 * W + z
      OBVIOUS
    <2> HIDE DEF z
    <2>2. (1 * W + z) % W = z
      BY <1>1, <2>1, DivUnique
    <2> QED BY <2>1, <2>2
  <1>3. x + y - 1 = 0 * W + (x + y - 1) /\ x + y - 1 \in 0 .. W - 1
    BY <1>2
  <1>4. (0 * W + (x + y - 1)) % W = x + y - 1
    BY <1>1, <1>3, DivUnique
  <1> QED BY <1>2, <1>3, <1>4

LEMMA WordFacts ==
    /\ Word \in Nat /\ MaxVaddr \in Nat /\ MaxVaddr + PageUnits < Word
    /\ MaxVaddr + 1 = (Half * Entries) * PageUnits
  <1>2. /\ Word \in Nat /\ MaxVaddr \in Nat /\ MaxVaddr + PageUnits < Word
    BY ElfAssumption
  <1>3. MaxVaddr = Half * Entries * PageUnits - 1
    BY SpacesAssumption
  <1>4. MaxVaddr + 1 = (Half * Entries) * PageUnits
    <2> DEFINE z == (Half * Entries) * PageUnits
    <2>1. z \in Nat
      BY UserConstants, Z3
    <2>2. MaxVaddr = z - 1
      BY <1>3
    <2> HIDE DEF z
    <2>3. MaxVaddr + 1 = z
      BY <2>1, <2>2
    <2> QED BY <2>3 DEF z
  <1> QED BY <1>2, <1>4

LEMMA ProgramFacts ==
    ASSUME NEW img \in Images
    PROVE  /\ Program[img].size \in Nat /\ Len(Program[img].phdrs) \in Nat
           /\ \A k \in 1 .. Len(Program[img].phdrs) : Program[img].phdrs[k] \in Range(Program[img].phdrs)
           /\ \A ph \in Range(Program[img].phdrs) :
                 /\ \E k \in 1 .. Len(Program[img].phdrs) : ph = Program[img].phdrs[k]
                 /\ ph.offset \in 0 .. Word - 1 /\ ph.vaddr \in 0 .. Word - 1
                 /\ ph.filesz \in 0 .. Word - 1 /\ ph.memsz \in 0 .. Word - 1
           /\ Word \in Nat /\ MaxVaddr \in Nat /\ MaxVaddr + PageUnits < Word
           /\ MaxVaddr + 1 = (Half * Entries) * PageUnits
  <1> DEFINE e == Program[img]
             s == e.phdrs
  <1>1. /\ e.size \in Nat /\ s \in Seq(Range(s))
        /\ \A ph \in Range(s) :
              {ph.offset, ph.vaddr, ph.filesz, ph.memsz, ph.align} \subseteq 0 .. Word - 1
    BY ElfAssumption
  <1>2. /\ Word \in Nat /\ MaxVaddr \in Nat /\ MaxVaddr + PageUnits < Word
        /\ MaxVaddr + 1 = (Half * Entries) * PageUnits
    BY WordFacts
  <1> HIDE DEF e
  <1>5. Len(s) \in Nat /\ DOMAIN s = 1 .. Len(s)
    BY <1>1
  <1>6. /\ \A k \in 1 .. Len(s) : s[k] \in Range(s)
        /\ \A ph \in Range(s) : \E k \in 1 .. Len(s) : ph = s[k]
    BY <1>5 DEF Range
  <1>7. \A ph \in Range(s) :
              /\ ph.offset \in 0 .. Word - 1 /\ ph.vaddr \in 0 .. Word - 1
              /\ ph.filesz \in 0 .. Word - 1 /\ ph.memsz \in 0 .. Word - 1
    BY <1>1
  <1> QED BY <1>1, <1>2, <1>5, <1>6, <1>7 DEF e

LEMMA SegmentFits ==
    ASSUME NEW img \in Images, elf64_validate_user_image(Program[img]),
           NEW ph \in Range(Program[img].phdrs), ph.load, ph.memsz = 0 => ph.vaddr <= MaxVaddr
    PROVE  Fits(ph)
  <1> DEFINE M == MaxVaddr
             W == Word
             x == ph.vaddr
             y == ph.memsz
  <1>1. /\ x \in 0 .. W - 1 /\ y \in 0 .. W - 1 /\ ph.filesz \in 0 .. W - 1
        /\ ph.offset \in 0 .. W - 1 /\ W \in Nat /\ M \in Nat /\ M + PageUnits < W
        /\ PageUnits \in Nat \ {0}
        /\ y = 0 => x <= M
        /\ M + 1 = (Half * Entries) * PageUnits
    BY ProgramFacts, UserConstants
  <1>2. y # 0 => /\ ph.filesz <= y /\ (x + y - 1) % W >= x /\ (x + y - 1) % W <= M
    <2> SUFFICES ASSUME y # 0
                 PROVE  ph.filesz <= y /\ (x + y - 1) % W >= x /\ (x + y - 1) % W <= M
      OBVIOUS
    <2>1. ph \in Loadable(Program[img])
      BY DEF Loadable
    <2>2. segment_is_valid(ph, Program[img].size)
      BY <2>1 DEF elf64_validate_user_image
    <2>3. y >= ph.filesz
      BY <2>2 DEF segment_is_valid
    <2>4. (x + y - 1) % W >= x /\ (x + y - 1) % W <= M
      BY <2>2, Zenon DEF segment_is_valid, userspace_range_is_valid
    <2>5. ph.filesz <= y
      BY <1>1, <2>3
    <2> QED BY <2>4, <2>5
  <1> HIDE DEF M, W, x, y
  <1>3. x + y <= M + 1 /\ (y # 0 => ph.filesz <= y) /\ x \in Nat /\ y \in Nat
    <2>1. CASE y = 0
      BY <1>1, <2>1
    <2>2. CASE y # 0
      <3>1. y \in 1 .. W - 1
        BY <1>1, <2>2
      <3>2. (x + y - 1) % W = x + y - 1
        BY <1>1, <1>2, <2>2, <3>1, NoWrap
      <3> QED BY <1>1, <1>2, <2>2, <3>1, <3>2
    <2> QED BY <2>1, <2>2
  <1>4. x + y \in 0 .. W - 1
    BY <1>1, <1>3
  <1>5. (x + y) % W = x + y
    <2> DEFINE z == x + y
    <2>1. z \in 0 .. W - 1 /\ W \in Nat \ {0} /\ z = 0 * W + z
      BY <1>1, <1>4
    <2> HIDE DEF z
    <2>2. (0 * W + z) % W = z
      BY <2>1, DivUnique
    <2>3. z % W = z
      BY <2>1, <2>2
    <2> QED BY <2>3 DEF z
  <1>6. segment_end(ph) = x + y
    BY <1>5 DEF segment_end, x, y, W
  <1>7. ph.filesz \in Nat /\ ph.offset \in Nat
    BY <1>1
  <1>8. x + y <= (Half * Entries) * PageUnits
    BY <1>1, <1>3
  <1>9. ASSUME ph.filesz = 0 \/ y # 0
        PROVE  file_end(ph) = x + ph.filesz
    <2> DEFINE z == x + ph.filesz
    <2>1. z \in 0 .. W - 1 /\ W \in Nat \ {0} /\ z = 0 * W + z
      BY <1>1, <1>3, <1>4, <1>9
    <2>2. file_end(ph) = z % W
      BY DEF file_end, x, W
    <2> HIDE DEF z
    <2>3. (0 * W + z) % W = z
      BY <2>1, DivUnique
    <2>4. z % W = z
      BY <2>1, <2>3
    <2> QED BY <2>2, <2>4 DEF z
  <1> QED BY <1>3, <1>6, <1>7, <1>8, <1>9 DEF Fits, x, y

(* Rounding to pages.                                                      *)
LEMMA RoundPages ==
    ASSUME NEW p \in Nat \ {0}, NEW x \in Nat, NEW z \in Nat, x <= z, NEW h \in Nat, z <= h * p
    PROVE  /\ x \div p \in Nat /\ (z + p - 1) \div p \in Nat
           /\ x \div p <= (z + p - 1) \div p /\ (z + p - 1) \div p <= h
           /\ \A y \in x .. z - 1 : x \div p <= y \div p /\ y \div p < (z + p - 1) \div p
  <1> DEFINE up == (z + p - 1) \div p
             lo == x \div p
             rest == (z + p - 1) % p
  <1>1. /\ lo \in Nat /\ x % p \in 0 .. p - 1 /\ x = lo * p + (x % p)
    BY DivMod
  <1>2. up \in Nat /\ rest \in 0 .. p - 1 /\ z + p - 1 = up * p + rest
    <2>1. z + p - 1 \in Nat
      OBVIOUS
    <2> QED BY <2>1, DivMod
  <1> HIDE DEF up, lo, rest
  <1>3. lo <= up
    <2> SUFFICES ASSUME up < lo PROVE FALSE
      BY <1>1, <1>2
    <2>1. up + 1 <= lo
      BY <1>1, <1>2
    <2>2. (up + 1) * p <= lo * p /\ (up + 1) * p = up * p + p
      BY <1>1, <1>2, <2>1, Z3
    <2>3. up * p \in Nat /\ lo * p \in Nat
      BY <1>1, <1>2, Z3
    <2>4. x >= lo * p
      BY <1>1, <2>3
    <2>5. z + p - 1 < up * p + p
      BY <1>2, <2>3
    <2> QED BY <2>2, <2>3, <2>4, <2>5
  <1>4. up <= h
    <2> SUFFICES ASSUME h < up PROVE FALSE
      BY <1>2
    <2>1. h + 1 <= up
      BY <1>2
    <2>2. (h + 1) * p <= up * p /\ (h + 1) * p = h * p + p
      BY <1>2, <2>1, Z3
    <2>3. up * p \in Nat /\ h * p \in Nat
      BY <1>2, Z3
    <2>4. z + p - 1 >= up * p
      BY <1>2, <2>3
    <2> QED BY <2>2, <2>3, <2>4
  <1>5. ASSUME NEW y \in x .. z - 1
        PROVE  lo <= y \div p /\ y \div p < up
    <2> DEFINE q == y \div p
    <2>0. y \in Nat
      OBVIOUS
    <2>1. q \in Nat /\ y % p \in 0 .. p - 1 /\ y = q * p + (y % p)
      BY <2>0, DivMod
    <2> HIDE DEF q
    <2>2. q * p \in Nat /\ up * p \in Nat /\ lo * p \in Nat
      BY <1>1, <1>2, <2>1, Z3
    <2>3. q * p <= y /\ y < q * p + p
      BY <2>1, <2>2
    <2>4. lo * p <= x
      BY <1>1, <2>2
    <2>5. lo <= q
      <3> SUFFICES ASSUME q + 1 <= lo PROVE FALSE
        BY <1>1, <2>1
      <3>1. (q + 1) * p <= lo * p /\ (q + 1) * p = q * p + p
        BY <1>1, <2>1, Z3
      <3> QED BY <2>2, <2>3, <2>4, <3>1
    <2>6. q < up
      <3> SUFFICES ASSUME up <= q PROVE FALSE
        BY <1>2, <2>1
      <3>1. up * p <= q * p
        BY <1>2, <2>1, Z3
      <3>2. z + p - 1 < up * p + p
        BY <1>2, <2>2
      <3> QED BY <2>2, <2>3, <3>1, <3>2
    <2> QED BY <2>5, <2>6 DEF q
  <1> QED BY <1>1, <1>2, <1>3, <1>4, <1>5 DEF up, lo

(* A sequence given by a function of its positions.                        *)
numbers(from, n) == [k \in 1 .. n |-> from + k - 1]

Counts(s, from, n) ==
    /\ Len(s) = n /\ \A k \in 1 .. n : s[k] = from + k - 1
    /\ \A x : x \in Range(s) <=> x \in from .. from + n - 1
    /\ \A x \in from .. from + n - 1 : \E k \in 1 .. n : s[k] = x

LEMMA Counted ==
    ASSUME NEW n \in Nat, NEW from \in Int, NEW s, s = numbers(from, n)
    PROVE  Counts(s, from, n)
  <1>1. Len(s) = n /\ DOMAIN s = 1 .. n /\ \A k \in 1 .. n : s[k] = from + k - 1
    BY DEF numbers
  <1>2. ASSUME NEW x \in from .. from + n - 1
        PROVE  \E k \in 1 .. n : s[k] = x
    <2>1. x - from + 1 \in 1 .. n /\ from + (x - from + 1) - 1 = x
      OBVIOUS
    <2> QED BY <1>1, <2>1
  <1>3. \A k \in 1 .. n : s[k] \in from .. from + n - 1
    BY <1>1
  <1>4. \A x : x \in Range(s) <=> \E k \in 1 .. n : s[k] = x
    BY <1>1 DEF Range
  <1>5. \A x : x \in Range(s) <=> x \in from .. from + n - 1
    BY <1>2, <1>3, <1>4
  <1> QED BY <1>1, <1>2, <1>5 DEF Counts

(* s lists the pages of the segment, which are a program's.                *)
ListsPages(s, ph) ==
    /\ Len(s) \in Nat /\ \A l \in 1 .. Len(s) : s[l] \in Pages(ph)
    /\ \A n \in Pages(ph) : \E l \in 1 .. Len(s) : s[l] = n
    /\ \A n : n \in Range(s) <=> n \in Pages(ph)
    /\ Pages(ph) \subseteq UserNumbers

LEMMA SegmentPages ==
    ASSUME NEW ph, Fits(ph)
    PROVE  /\ ListsPages(segment_pages(ph), ph)
           /\ \A x \in ph.vaddr .. ph.vaddr + ph.memsz - 1 : x \div PageUnits \in Pages(ph)
  <1> DEFINE p == PageUnits
             x == ph.vaddr
             z == ph.vaddr + ph.memsz
             h == Half * Entries
             lo == first_page(ph)
             up == end_page(ph)
  <1>1. /\ p \in Nat \ {0} /\ x \in Nat /\ z \in Nat /\ x <= z /\ h \in Nat /\ z <= h * p
    BY UserConstants DEF Fits
  <1>2. lo = x \div p /\ up = (z + p - 1) \div p
    <2>1. up = ((z + p - 1) % Word) \div p
      BY DEF end_page, Fits
    <2>2. z + p - 1 \in 0 .. Word - 1 /\ Word \in Nat \ {0}
      <3>1. /\ Word \in Nat /\ MaxVaddr \in Nat /\ MaxVaddr + PageUnits < Word
            /\ MaxVaddr + 1 = (Half * Entries) * PageUnits
        BY WordFacts
      <3> QED BY <1>1, <3>1
    <2> DEFINE k == z + p - 1
    <2> HIDE DEF k
    <2>3. k \in 0 .. Word - 1 /\ k = 0 * Word + k
      BY <2>2 DEF k
    <2>4. (0 * Word + k) % Word = k
      BY <2>2, <2>3, DivUnique
    <2>5. k % Word = k
      BY <2>3, <2>4
    <2> QED BY <2>1, <2>5 DEF first_page, k
  <1> HIDE DEF p, x, z, h, lo, up
  <1>3. /\ lo \in Nat /\ up \in Nat /\ lo <= up /\ up <= h
        /\ \A y \in x .. z - 1 : lo <= y \div p /\ y \div p < up
    BY <1>1, <1>2, RoundPages
  <1>4. \A y \in x .. z - 1 : y \div p \in lo .. up - 1
    <2> TAKE y \in x .. z - 1
    <2>1. y \in Nat
      BY <1>1
    <2>2. y \div p \in Nat
      BY <1>1, <2>1, DivMod
    <2>3. lo <= y \div p /\ y \div p < up
      BY <1>3
    <2> DEFINE q == y \div p
    <2> HIDE DEF q
    <2>4. q \in Nat /\ lo <= q /\ q < up
      BY <2>2, <2>3 DEF q
    <2>5. q \in lo .. up - 1
      BY <1>3, <2>4
    <2> QED BY <2>5 DEF q
  <1>5. lo .. up - 1 \subseteq UserNumbers
    BY <1>1, <1>3 DEF UserNumbers, h
  <1> DEFINE s == segment_pages(ph)
             n == up - lo
  <1>6. s = numbers(lo, n) /\ n \in Nat /\ lo + n - 1 = up - 1
    BY <1>3 DEF segment_pages, numbers, lo, up
  <1> HIDE DEF s, n
  <1>7. /\ Len(s) = n /\ \A k \in 1 .. n : s[k] = lo + k - 1
        /\ \A y : y \in Range(s) <=> y \in lo .. lo + n - 1
        /\ \A y \in lo .. lo + n - 1 : \E k \in 1 .. n : s[k] = y
    <2>1. Counts(s, lo, n)
      BY <1>3, <1>6, Counted
    <2> QED BY <2>1 DEF Counts
  <1>8. \A k \in 1 .. n : s[k] \in lo .. up - 1
    <2> TAKE k \in 1 .. n
    <2>1. lo + k - 1 \in lo .. lo + n - 1
      BY <1>3, <1>6
    <2>2. s[k] = lo + k - 1
      BY <1>7
    <2> QED BY <1>6, <2>1, <2>2
  <1>9. Pages(ph) = lo .. up - 1
    BY DEF Pages, lo, up
  <1>10. /\ \A y : y \in Range(s) <=> y \in lo .. up - 1
         /\ \A y \in lo .. up - 1 : \E k \in 1 .. n : s[k] = y
    BY <1>6, <1>7
  <1> HIDE DEF Pages
  <1>11. ListsPages(s, ph)
    BY <1>5, <1>6, <1>7, <1>8, <1>9, <1>10 DEF ListsPages
  <1>12. \A y \in x .. z - 1 : y \div p \in Pages(ph)
    BY <1>4, <1>9
  <1>13. ph.vaddr + ph.memsz - 1 = z - 1
    BY DEF Fits, z
  <1>14. \A y \in ph.vaddr .. ph.vaddr + ph.memsz - 1 : y \div PageUnits \in Pages(ph)
    BY <1>12, <1>13, Zenon DEF x, p
  <1> QED BY <1>11, <1>14, Zenon DEF s

(* The page of an empty segment is the one it begins inside.               *)
LEMMA EmptyPages ==
    ASSUME NEW ph, Fits(ph), ph.memsz = 0, NEW n \in Pages(ph)
    PROVE  n = first_page(ph) /\ ph.vaddr % PageUnits # 0
  <1> DEFINE p == PageUnits
             x == ph.vaddr
             lo == x \div p
             k == x % p
             e == x + p - 1
  <1>1. /\ p \in Nat \ {0} /\ x \in Nat
    BY UserConstants DEF Fits
  <1>2. lo \in Nat /\ k \in 0 .. p - 1 /\ x = lo * p + k
    BY <1>1, DivMod
  <1>3. first_page(ph) = lo /\ end_page(ph) = (e % Word) \div p
    BY DEF first_page, end_page, Fits
  <1>4. e \in 0 .. Word - 1 /\ Word \in Nat \ {0}
    <2>1. /\ Word \in Nat /\ MaxVaddr \in Nat /\ MaxVaddr + p < Word
          /\ MaxVaddr + 1 = (Half * Entries) * PageUnits
      BY WordFacts
    <2>2. x <= (Half * Entries) * PageUnits
      BY DEF Fits
    <2> QED BY <1>1, <2>1, <2>2
  <1>5. e % Word = e
    <2> HIDE DEF e
    <2>1. e = 0 * Word + e
      BY <1>4
    <2>2. (0 * Word + e) % Word = e
      BY <1>4, DivUnique
    <2> QED BY <2>1, <2>2
  <1>6. n \in lo .. (e \div p) - 1
    BY <1>3, <1>5 DEF Pages
  <1> HIDE DEF lo, k, x, p
  <1>7. CASE k = 0
    <2>1. e = lo * p + (p - 1) /\ p - 1 \in 0 .. p - 1
      <3>1. lo * p \in Nat
        BY <1>1, <1>2, Z3
      <3> QED BY <1>1, <1>2, <1>7, <3>1
    <2>2. (lo * p + (p - 1)) \div p = lo
      BY <1>1, <1>2, <2>1, DivUnique
    <2>3. e \div p = lo
      BY <2>1, <2>2
    <2> HIDE DEF e
    <2> QED BY <1>2, <1>6, <2>3
  <1>8. CASE k # 0
    <2>1. e = (lo + 1) * p + (k - 1) /\ k - 1 \in 0 .. p - 1 /\ lo + 1 \in Nat
      <3>1. lo * p \in Nat /\ (lo + 1) * p = lo * p + p
        BY <1>1, <1>2, Z3
      <3> QED BY <1>1, <1>2, <1>8, <3>1
    <2>2. ((lo + 1) * p + (k - 1)) \div p = lo + 1
      BY <1>1, <2>1, DivUnique
    <2>3. e \div p = lo + 1
      BY <2>1, <2>2
    <2> HIDE DEF e
    <2>4. n = lo
      BY <1>2, <1>6, <2>3
    <2> QED BY <1>3, <1>8, <2>4 DEF k, x, p
  <1> QED BY <1>7, <1>8

-----------------------------------------------------------------------------
(* Loading.                                                                *)

(* The recursive function that goes through the segments.                  *)
LoadRun(g, m, r, img) ==
    /\ load_user_image_segments(m, r, img) = g[Len(Program[img].phdrs)]
    /\ g[0] = [m |-> m, ok |-> TRUE]
    /\ \A k \in 1 .. Len(Program[img].phdrs) :
          g[k] = load_next(g[k - 1], r, img, Program[img].phdrs[k])

LEMMA LoadIs ==
    ASSUME NEW m, NEW r, NEW img, Len(Program[img].phdrs) \in Nat
    PROVE  \E g : LoadRun(g, m, r, img)
  <1> DEFINE N == Len(Program[img].phdrs)
             Round(g, k) == IF k = 0 THEN [m |-> m, ok |-> TRUE] ELSE load_next(g[k - 1], r, img, Program[img].phdrs[k])
             Has == {n \in Nat : \E g : g = [k \in 0 .. n |-> Round(g, k)]}
  <1>1. N \in Nat
    OBVIOUS
  <1>2. 0 \in Has
    <2> DEFINE g == [k \in 0 .. 0 |-> [m |-> m, ok |-> TRUE]]
    <2>1. g = [k \in 0 .. 0 |-> Round(g, k)]
      OBVIOUS
    <2> QED BY <2>1
  <1>3. \A n \in 0 .. N - 1 : n \in Has => n + 1 \in Has
    <2> SUFFICES ASSUME NEW n \in 0 .. N - 1, n \in Has PROVE n + 1 \in Has
      OBVIOUS
    <2>1. PICK g : g = [k \in 0 .. n |-> Round(g, k)]
      OBVIOUS
    <2> HIDE DEF N
    <2>2. n \in Nat
      BY <1>1
    <2> DEFINE h == [k \in 0 .. n + 1 |-> IF k = n + 1 THEN Round(g, k) ELSE g[k]]
    <2>3. \A k \in 0 .. n : h[k] = g[k]
      BY <2>2
    <2>4. h[n + 1] = Round(g, n + 1)
      BY <2>2
    <2>5. \A k \in 0 .. n : g[k] = Round(g, k)
      <3> HIDE DEF Round
      <3> QED BY <2>1
    <2>6. h = [k \in 0 .. n + 1 |-> h[k]]
      OBVIOUS
    <2> HIDE DEF h
    <2>7. \A k \in 0 .. n + 1 : Round(h, k) = Round(g, k)
      <3> TAKE k \in 0 .. n + 1
      <3>1. k # 0 => k - 1 \in 0 .. n
        BY <2>2
      <3>2. k # 0 => h[k - 1] = g[k - 1]
        BY <2>3, <3>1
      <3> QED BY <3>2
    <2> HIDE DEF Round
    <2>8. \A k \in 0 .. n + 1 : h[k] = Round(h, k)
      <3> TAKE k \in 0 .. n + 1
      <3>1. k = n + 1 \/ k \in 0 .. n
        BY <2>2
      <3> QED BY <2>3, <2>4, <2>5, <2>7, <3>1
    <2>9. h = [k \in 0 .. n + 1 |-> Round(h, k)]
      BY <2>6, <2>8
    <2> QED BY <2>2, <2>9
  <1> HIDE DEF N, Has
  <1>4. N \in Has
    <2>1. \A n \in 0 .. N : n \in Has
      BY <1>1, <1>2, <1>3, Induction
    <2>2. N \in 0 .. N
      BY <1>1
    <2> QED BY <2>1, <2>2
  <1> USE DEF Has
  <1> DEFINE f == CHOOSE g : g = [k \in 0 .. N |-> Round(g, k)]
  <1>5. f = [k \in 0 .. N |-> Round(f, k)]
    <2> HIDE DEF Round
    <2> QED BY <1>4
  <1>6. load_user_image_segments(m, r, img) = f[N]
    BY Zenon DEF load_user_image_segments, N
  <1> HIDE DEF f
  <1>7. \A k \in 0 .. N : f[k] = Round(f, k)
    BY <1>5
  <1>8. f[0] = [m |-> m, ok |-> TRUE]
    <2>1. 0 \in 0 .. N
      BY <1>1
    <2>2. f[0] = Round(f, 0)
      <3> HIDE DEF Round
      <3> QED BY <1>7, <2>1
    <2> QED BY <2>2, Zenon
  <1>9. ASSUME NEW k \in 1 .. N
        PROVE  f[k] = load_next(f[k - 1], r, img, Program[img].phdrs[k])
    <2>1. k \in 0 .. N /\ k # 0
      BY <1>1
    <2>2. f[k] = Round(f, k)
      <3> HIDE DEF Round
      <3> QED BY <1>7, <2>1
    <2> QED BY <2>1, <2>2, Zenon
  <1> QED BY <1>6, <1>8, <1>9 DEF N, LoadRun

(* load_user_segment: each page has what page_part says, over zeros.       *)
HasSegment(m, r, img, ph) ==
    \A n \in Pages(ph) : /\ Mapped(m, r, Page(n))
                         /\ m.data[walk(m, r, Page(n))] = Filled(page_part(img, ph, n))

(* What a load leaves alone.                                               *)
Safe(m, w, R, H, r) ==
    /\ w.ok \in BOOLEAN /\ Sound(w.m, R, H) /\ Kept(m, w.m, R)
    /\ \A q \in R : q # r => UserSame(m, w.m, q)

SegmentDone(m, w, R, H, r, img, ph) ==
    /\ Safe(m, w, R, H, r)
    /\ \A b : IsUser(b) => walk(w.m, r, b) = walk(m, r, b) \/ Number(b) \in Pages(ph)
    /\ w.ok => HasSegment(w.m, r, img, ph)

LEMMA SegmentSound ==
    ASSUME NEW m, NEW R, NEW H, Sound(m, R, H), NEW r \in R, NEW img, NEW ph, Fits(ph), ph.load,
           NEW w, w = load_user_segment(m, r, img, ph)
    PROVE  SegmentDone(m, w, R, H, r, img, ph)
  <1> DEFINE pages == segment_pages(ph)
             part == [page \in Range(segment_pages(ph)) |-> page_part(img, ph, page)]
  <1>1. w = place_all(m, r, pages, part)
    <2>1. ~(segment_end(ph) < ph.vaddr)
      BY DEF Fits
    <2> QED BY <2>1 DEF load_user_segment
  <1>2. ListsPages(pages, ph)
    BY SegmentPages
  <1>3. \A n \in Pages(ph) : part[n] = page_part(img, ph, n)
    BY <1>2 DEF ListsPages
  <1>4. \A n : DOMAIN page_part(img, ph, n) \subseteq Units
    BY DEF page_part, Units
  <1>5. \A n \in Pages(ph) : n \in UserNumbers
    BY <1>2 DEF ListsPages
  <1> HIDE DEF pages, part
  <1>6. \A l \in 1 .. Len(pages) : /\ pages[l] \in Pages(ph) /\ IsUser(Page(pages[l]))
                                   /\ Number(Page(pages[l])) = pages[l]
                                   /\ part[pages[l]] = page_part(img, ph, pages[l])
                                   /\ DOMAIN part[pages[l]] \subseteq Units
    <2> TAKE l \in 1 .. Len(pages)
    <2>1. pages[l] \in Pages(ph)
      BY <1>2 DEF ListsPages
    <2> QED BY <1>3, <1>4, <1>5, <2>1, PageOfNumber
  <1>7. Len(pages) \in Nat
    BY <1>2 DEF ListsPages
  <1>8. Placed(m, w, R, H, r, pages, part, Len(pages))
    BY <1>1, <1>6, <1>7, PlaceAllSound
  <1>9. Safe(m, w, R, H, r)
    BY <1>8 DEF Placed, Safe
  <1>10. ASSUME NEW b, IsUser(b)
         PROVE  walk(w.m, r, b) = walk(m, r, b) \/ Number(b) \in Pages(ph)
    BY <1>6, <1>8, <1>10 DEF Placed
  <1>11. ASSUME w.ok, NEW n \in Pages(ph)
         PROVE  /\ Mapped(w.m, r, Page(n))
                /\ w.m.data[walk(w.m, r, Page(n))] = Filled(page_part(img, ph, n))
    <2>1. PICK l \in 1 .. Len(pages) : pages[l] = n
      BY <1>2 DEF ListsPages
    <2>2. /\ Mapped(w.m, r, Page(pages[l]))
          /\ w.m.data[walk(w.m, r, Page(pages[l]))] = Filled(part[pages[l]])
      BY <1>8, <1>11 DEF Placed
    <2> QED BY <1>6, <2>1, <2>2
  <1> QED BY <1>9, <1>10, <1>11 DEF SegmentDone, HasSegment

(* Of the first k program headers, in a space that had no page.            *)
Loaded(m, w, R, H, r, img, k) ==
    /\ Safe(m, w, R, H, r)
    /\ w.ok => \A l \in 1 .. k : Program[img].phdrs[l].load
                  => HasSegment(w.m, r, img, Program[img].phdrs[l])
    /\ \A b : IsUser(b) /\ Mapped(w.m, r, b)
          => \E l \in 1 .. k : /\ Program[img].phdrs[l].load
                               /\ Number(b) \in Pages(Program[img].phdrs[l])

LEMMA SegmentKept ==
    ASSUME NEW m, NEW n, NEW R, NEW r \in R, Kept(m, n, R), NEW img, NEW ph,
           Pages(ph) \subseteq UserNumbers, HasSegment(m, r, img, ph)
    PROVE  HasSegment(n, r, img, ph)
  <1> SUFFICES ASSUME NEW k \in Pages(ph)
               PROVE  /\ Mapped(n, r, Page(k))
                      /\ n.data[walk(n, r, Page(k))] = Filled(page_part(img, ph, k))
    BY DEF HasSegment
  <1> DEFINE a == Page(k)
  <1>1. a \in Addresses
    BY PageOfNumber DEF IsUser
  <1>2. Mapped(m, r, a) /\ m.data[walk(m, r, a)] = Filled(page_part(img, ph, k))
    BY DEF HasSegment
  <1> HIDE DEF a
  <1>3. walk(n, r, a) = walk(m, r, a) /\ n.data[walk(m, r, a)] = m.data[walk(m, r, a)]
    BY <1>1, <1>2 DEF Kept
  <1>4. Mapped(n, r, a) /\ n.data[walk(n, r, a)] = Filled(page_part(img, ph, k))
    BY <1>2, <1>3 DEF Mapped
  <1> QED BY <1>4 DEF a

LEMMA SafeTwice ==
    ASSUME NEW m, NEW v, NEW w, NEW R, NEW H, NEW r, Safe(m, v, R, H, r), Safe(v.m, w, R, H, r)
    PROVE  Safe(m, w, R, H, r)
  <1>1. Kept(m, w.m, R)
    BY KeptTwice DEF Safe
  <1>2. \A q \in R : q # r => UserSame(m, w.m, q)
    BY DEF Safe, UserSame
  <1> QED BY <1>1, <1>2 DEF Safe

LEMMA LoadNextSound ==
    ASSUME NEW m, NEW R, NEW H, NEW r \in R, NEW img, NEW k \in Nat,
           \A l \in 1 .. k + 1 : Program[img].phdrs[l].load => Fits(Program[img].phdrs[l]),
           NEW v, Loaded(m, v, R, H, r, img, k),
           NEW w, w = load_next(v, r, img, Program[img].phdrs[k + 1])
    PROVE  Loaded(m, w, R, H, r, img, k + 1)
  <1> DEFINE ph(l) == Program[img].phdrs[l]
  <1>1. /\ \A l \in 1 .. k + 1 : l \in 1 .. k \/ l = k + 1
        /\ \A l \in 1 .. k : l \in 1 .. k + 1
        /\ k + 1 \in 1 .. k + 1
    OBVIOUS
  <1>2. \A l \in 1 .. k + 1 : ph(l).load => Pages(ph(l)) \subseteq UserNumbers
    BY SegmentPages DEF ListsPages
  <1>3. /\ Safe(m, v, R, H, r)
        /\ v.ok => \A l \in 1 .. k : ph(l).load => HasSegment(v.m, r, img, ph(l))
        /\ \A b : IsUser(b) /\ Mapped(v.m, r, b)
              => \E l \in 1 .. k : ph(l).load /\ Number(b) \in Pages(ph(l))
    BY DEF Loaded
  <1>4. w = load_next(v, r, img, ph(k + 1)) /\ (ph(k + 1).load => Fits(ph(k + 1)))
    BY <1>1
  <1>5. ASSUME Safe(m, w, R, H, r),
               w.ok => \A l \in 1 .. k + 1 : ph(l).load => HasSegment(w.m, r, img, ph(l)),
               \A b : IsUser(b) /\ Mapped(w.m, r, b)
                 => \E l \in 1 .. k + 1 : ph(l).load /\ Number(b) \in Pages(ph(l))
        PROVE  Loaded(m, w, R, H, r, img, k + 1)
    BY <1>5 DEF Loaded
  <1> HIDE DEF ph
  <1>6. CASE ~v.ok
    <2>1. w = v
      BY <1>4, <1>6 DEF load_next
    <2> QED BY <1>1, <1>3, <1>5, <1>6, <2>1
  <1>7. CASE v.ok /\ ~ph(k + 1).load
    <2>1. w = [m |-> v.m, ok |-> TRUE]
      BY <1>4, <1>7 DEF load_next, load_user_segment
    <2>2. w.m = v.m /\ w.ok = TRUE
      BY <2>1
    <2>3. Safe(m, w, R, H, r)
      BY <1>3, <2>2 DEF Safe
    <2>4. \A l \in 1 .. k + 1 : ph(l).load => HasSegment(w.m, r, img, ph(l))
      BY <1>1, <1>3, <1>7, <2>2
    <2>5. \A b : IsUser(b) /\ Mapped(w.m, r, b)
            => \E l \in 1 .. k + 1 : ph(l).load /\ Number(b) \in Pages(ph(l))
      BY <1>1, <1>3, <2>2
    <2> QED BY <1>5, <2>3, <2>4, <2>5
  <1>8. CASE v.ok /\ ph(k + 1).load
    <2>1. w = load_user_segment(v.m, r, img, ph(k + 1))
      BY <1>4, <1>8 DEF load_next
    <2>2. Sound(v.m, R, H)
      BY <1>3 DEF Safe
    <2>3. SegmentDone(v.m, w, R, H, r, img, ph(k + 1))
      BY <1>4, <1>8, <2>1, <2>2, SegmentSound
    <2>4. Safe(v.m, w, R, H, r) /\ Kept(v.m, w.m, R)
      BY <2>3 DEF SegmentDone, Safe
    <2>5. Safe(m, w, R, H, r)
      BY <1>3, <2>4, SafeTwice
    <2>6. ASSUME w.ok, NEW l \in 1 .. k + 1, ph(l).load
          PROVE  HasSegment(w.m, r, img, ph(l))
      <3>1. CASE l = k + 1
        BY <2>3, <2>6, <3>1 DEF SegmentDone
      <3>2. CASE l \in 1 .. k
        <4>1. HasSegment(v.m, r, img, ph(l)) /\ Pages(ph(l)) \subseteq UserNumbers
          BY <1>2, <1>3, <1>8, <2>6, <3>2
        <4> QED BY <2>4, <4>1, SegmentKept
      <3> QED BY <1>1, <3>1, <3>2
    <2>7. ASSUME NEW b, IsUser(b), Mapped(w.m, r, b)
          PROVE  \E l \in 1 .. k + 1 : ph(l).load /\ Number(b) \in Pages(ph(l))
      <3>1. CASE Number(b) \in Pages(ph(k + 1))
        BY <1>1, <1>8, <3>1
      <3>2. CASE walk(w.m, r, b) = walk(v.m, r, b)
        <4>1. Mapped(v.m, r, b)
          BY <2>7, <3>2 DEF Mapped
        <4>2. PICK l \in 1 .. k : ph(l).load /\ Number(b) \in Pages(ph(l))
          BY <1>3, <2>7, <4>1
        <4> QED BY <1>1, <4>2
      <3> QED BY <2>3, <2>7, <3>1, <3>2 DEF SegmentDone
    <2> QED BY <1>5, <2>5, <2>6, <2>7
  <1> QED BY <1>3, <1>6, <1>7, <1>8

LEMMA LoadSegmentsSound ==
    ASSUME NEW m, NEW R, NEW H, Sound(m, R, H), NEW r \in R, NEW img \in Images,
           elf64_validate_user_image(Program[img]), EmptyInside,
           \A b : IsUser(b) => ~Mapped(m, r, b),
           NEW w, w = load_user_image_segments(m, r, img)
    PROVE  Loaded(m, w, R, H, r, img, Len(Program[img].phdrs))
  <1> DEFINE N == Len(Program[img].phdrs)
  <1>1. N \in Nat
    BY ProgramFacts
  <1>2. \A l \in 1 .. N : Program[img].phdrs[l].load => Fits(Program[img].phdrs[l])
    <2> TAKE l \in 1 .. N
    <2>1. Program[img].phdrs[l] \in Range(Program[img].phdrs)
      BY ProgramFacts
    <2> QED BY <2>1, SegmentFits DEF EmptyInside
  <1>3. PICK g : LoadRun(g, m, r, img)
    BY <1>1, LoadIs
  <1>4. /\ w = g[N] /\ g[0] = [m |-> m, ok |-> TRUE]
        /\ \A k \in 1 .. N : g[k] = load_next(g[k - 1], r, img, Program[img].phdrs[k])
    BY <1>3 DEF LoadRun
  <1> DEFINE P(k) == Loaded(m, g[k], R, H, r, img, k)
             S == {k \in Nat : P(k)}
  <1> HIDE DEF N
  <1>5. P(0)
    <2> DEFINE u == g[0]
    <2>1. u.m = m /\ u.ok = TRUE
      BY <1>4
    <2> HIDE DEF u
    <2>2. Safe(m, u, R, H, r)
      BY <2>1 DEF Safe, Kept, UserSame
    <2>3. \A l : l \notin 1 .. 0
      OBVIOUS
    <2>4. Loaded(m, u, R, H, r, img, 0)
      BY <2>1, <2>2, <2>3, Zenon DEF Loaded
    <2> QED BY <2>4 DEF u
  <1>6. ASSUME NEW k \in 0 .. N - 1, P(k)
        PROVE  P(k + 1)
    <2> DEFINE u == g[k]
               v == g[k + 1]
    <2>1. k \in Nat /\ k + 1 \in 1 .. N /\ (k + 1) - 1 = k
      BY <1>1
    <2>2. v = load_next(u, r, img, Program[img].phdrs[k + 1])
      BY <1>4, <2>1
    <2>3. Loaded(m, u, R, H, r, img, k)
      BY <1>6
    <2>4. \A l \in 1 .. k + 1 : Program[img].phdrs[l].load => Fits(Program[img].phdrs[l])
      <3>1. \A l \in 1 .. k + 1 : l \in 1 .. N
        BY <1>1, <2>1
      <3> QED BY <1>2, <3>1
    <2> HIDE DEF u, v
    <2>5. Loaded(m, v, R, H, r, img, k + 1)
      BY <2>1, <2>2, <2>3, <2>4, LoadNextSound
    <2> QED BY <2>5 DEF v
  <1> HIDE DEF P
  <1>7. N \in S
    <2>1. 0 \in S
      BY <1>5
    <2>2. \A k \in 0 .. N - 1 : k \in S => k + 1 \in S
      BY <1>1, <1>6
    <2> HIDE DEF S
    <2>3. N \in 0 .. N
      BY <1>1
    <2>4. \A k \in 0 .. N : k \in S
      BY <1>1, <2>1, <2>2, Induction
    <2> QED BY <2>3, <2>4
  <1> QED BY <1>4, <1>7 DEF P, N

-----------------------------------------------------------------------------
(* What a program that has been loaded finds.                              *)

HasProgram(m, r, img) ==
    \A ph \in Loadable(Program[img]) : \A x \in ph.vaddr .. ph.vaddr + ph.memsz - 1 :
        Mapped(m, r, Page(x \div PageUnits))

(* Nothing but what its file has there, but for the pages of strays.       *)
Pristine(m, r, img) ==
    \A b : IsUser(b) /\ Mapped(m, r, b) /\ b \notin StrayPages(img) =>
        \A u \in Units : m.data[walk(m, r, b)][u] \in AtStart(img, Number(b) * PageUnits + u)

LEMMA UnitOfPage ==
    ASSUME NEW n \in Nat, NEW u \in Units
    PROVE  /\ n * PageUnits + u \in Nat /\ n * PageUnits \in Nat /\ u \in Nat
           /\ (n * PageUnits + u) \div PageUnits = n
  <1>1. PageUnits \in Nat \ {0} /\ u \in 0 .. PageUnits - 1
    BY UserConstants DEF Units
  <1>2. n * PageUnits \in Nat
    BY <1>1, Z3
  <1>3. (n * PageUnits + u) \div PageUnits = n
    BY <1>1, DivUnique
  <1> QED BY <1>1, <1>2, <1>3

(* A unit of a valid segment that is in the file is before its end.        *)
LEMMA UnitInFile ==
    ASSUME NEW img \in Images, elf64_validate_user_image(Program[img]),
           NEW ph \in Loadable(Program[img]), NEW x \in ph.vaddr .. ph.vaddr + ph.filesz - 1
    PROVE  /\ Fits(ph) /\ x \in ph.vaddr .. ph.vaddr + ph.memsz - 1
           /\ x >= ph.vaddr /\ x < file_end(ph) /\ x \in Nat
           /\ FileUnit(img, (ph.offset + (x - ph.vaddr)) % Word)
                = <<"file", img, ph.offset + (x - ph.vaddr)>>
  <1>1. ph \in Range(Program[img].phdrs) /\ ph.load
    BY DEF Loadable
  <1>2. Fits(ph) /\ ph.memsz # 0
    BY <1>1, SegmentFits DEF Loadable
  <1> DEFINE v == ph.vaddr
             o == ph.offset
             z == ph.filesz
             size == Program[img].size
  <1>3. /\ v \in Nat /\ o \in 0 .. Word - 1 /\ z \in 0 .. Word - 1 /\ Word \in Nat
        /\ ph.memsz \in Nat /\ z <= ph.memsz /\ size \in Nat
    BY <1>1, <1>2, ProgramFacts DEF Fits
  <1>4. range_within_image(o, z, size)
    BY DEF elf64_validate_user_image, segment_is_valid
  <1>5. x \in v .. v + z - 1
    OBVIOUS
  <1>6. z # 0 /\ z \in 1 .. Word - 1 /\ x \in Nat /\ x >= v /\ x < v + z
    BY <1>3, <1>5
  <1>7. (o + z - 1) % Word >= o /\ (o + z - 1) % Word < size
    BY <1>4, <1>6, Zenon DEF range_within_image
  <1> HIDE DEF v, o, z, size
  <1>8. o + z - 1 < size
    <2>1. (o + z - 1) % Word = o + z - 1
      BY <1>3, <1>6, <1>7, NoWrap
    <2> QED BY <1>7, <2>1
  <1>9. o + (x - v) < size /\ (o + (x - v)) % Word = o + (x - v)
    <2> DEFINE k == o + (x - v)
    <2>1. k < size /\ k \in 0 .. Word - 1 /\ k = 0 * Word + k /\ Word \in Nat \ {0}
      <3>1. o + z - 1 < Word
        BY <1>3, <1>6, <1>7, NoWrap
      <3> QED BY <1>3, <1>6, <1>8, <3>1
    <2> HIDE DEF k
    <2>2. (0 * Word + k) % Word = k
      BY <2>1, DivUnique
    <2>3. k % Word = k
      BY <2>1, <2>2
    <2> QED BY <2>1, <2>3 DEF k
  <1>10. FileUnit(img, (o + (x - v)) % Word) = <<"file", img, o + (x - v)>>
    BY <1>9 DEF FileUnit, size
  <1>11. x \in v .. v + ph.memsz - 1
    BY <1>3, <1>6
  <1>12. file_end(ph) = v + z
    BY <1>2 DEF Fits, v, z
  <1> QED BY <1>2, <1>6, <1>10, <1>11, <1>12 DEF v, o

LEMMA LoadedProgram ==
    ASSUME NEW m, NEW R, NEW H, NEW r \in R, NEW img \in Images,
           elf64_validate_user_image(Program[img]), EmptyInside,
           NEW w, w.ok, Loaded(m, w, R, H, r, img, Len(Program[img].phdrs))
    PROVE  HasProgram(w.m, r, img) /\ Pristine(w.m, r, img)
  <1> DEFINE phs == Range(Program[img].phdrs)
             n == w.m
  <1>1. \A ph \in phs : ph.load => Fits(ph) /\ HasSegment(n, r, img, ph)
    <2> TAKE ph \in phs
    <2> HAVE ph.load
    <2>1. PICK k \in 1 .. Len(Program[img].phdrs) : ph = Program[img].phdrs[k]
      BY ProgramFacts
    <2>2. Fits(ph)
      BY SegmentFits DEF EmptyInside
    <2> QED BY <2>1, <2>2 DEF Loaded
  <1>2. \A ph \in Loadable(Program[img]) : ph \in phs /\ ph.load
    BY DEF Loadable
  <1>3. \A b : IsUser(b) /\ Mapped(n, r, b) => \E ph \in phs : ph.load /\ Number(b) \in Pages(ph)
    BY ProgramFacts DEF Loaded
  <1> HIDE DEF phs, n
  <1>4. HasProgram(n, r, img)
    <2> SUFFICES ASSUME NEW ph \in Loadable(Program[img]),
                        NEW x \in ph.vaddr .. ph.vaddr + ph.memsz - 1
                 PROVE  Mapped(n, r, Page(x \div PageUnits))
      BY DEF HasProgram
    <2>1. x \div PageUnits \in Pages(ph)
      BY <1>1, <1>2, SegmentPages
    <2> QED BY <1>1, <1>2, <2>1 DEF HasSegment
  <1>5. ASSUME NEW b, IsUser(b), Mapped(n, r, b), b \notin StrayPages(img), NEW u \in Units
        PROVE  n.data[walk(n, r, b)][u] \in AtStart(img, Number(b) * PageUnits + u)
    <2> DEFINE p == Number(b)
               x == p * PageUnits + u
               here == {ph \in Loadable(Program[img]) : x \in ph.vaddr .. ph.vaddr + ph.filesz - 1}
    <2>1. p \in UserNumbers /\ Page(p) = b
      BY <1>5, NumberOfPage
    <2>2. p \in Nat
      BY <2>1, UserConstants DEF UserNumbers
    <2> HIDE DEF p
    <2>3. x \in Nat /\ x \div PageUnits = p /\ p * PageUnits \in Nat /\ u \in Nat
      BY <2>2, UnitOfPage
    <2>4. PICK ph \in phs : ph.load /\ p \in Pages(ph)
      BY <1>3, <1>5 DEF p
    <2>5. CASE here = {}
      <3>1. AtStart(img, x) = {Zero}
        BY <2>5 DEF AtStart
      <3>2. n.data[walk(n, r, b)] = Filled(page_part(img, ph, p))
        BY <1>1, <2>1, <2>4 DEF HasSegment
      <3>3. u \notin DOMAIN page_part(img, ph, p)
        <4> SUFFICES ASSUME u \in DOMAIN page_part(img, ph, p) PROVE FALSE
          OBVIOUS
        <4>1. x >= ph.vaddr /\ x < file_end(ph)
          BY DEF page_part
        <4>2. /\ ph.vaddr \in Nat /\ ph.filesz \in Nat /\ ph.memsz \in Nat
              /\ ph.filesz = 0 \/ ph.memsz # 0
              /\ file_end(ph) = ph.vaddr + ph.filesz
          <5>1. Fits(ph)
            BY <1>1, <2>4
          <5>2. ASSUME ph.filesz # 0, ph.memsz = 0
                PROVE  FALSE
            <6>1. p = first_page(ph) /\ ph.vaddr % PageUnits # 0
              BY <2>4, <5>1, <5>2, EmptyPages
            <6>2. ph \in Strays(Program[img])
              BY <2>4, <5>2, <6>1 DEF Strays, phs
            <6>3. b = Page(first_page(ph))
              BY <2>1, <6>1
            <6> QED BY <1>5, <6>2, <6>3 DEF StrayPages
          <5> QED BY <5>1, <5>2 DEF Fits
        <4> HIDE DEF x
        <4>3. ph.memsz # 0 /\ x \in ph.vaddr .. ph.vaddr + ph.filesz - 1
          BY <2>3, <4>1, <4>2
        <4>4. ph \in Loadable(Program[img])
          BY <2>4, <4>3 DEF Loadable, phs
        <4> QED BY <2>5, <4>3, <4>4 DEF x
      <3>4. Filled(page_part(img, ph, p))[u] = Zero
        BY <3>3 DEF Filled
      <3> QED BY <3>1, <3>2, <3>4 DEF p
    <2>6. CASE here # {}
      <3>1. PICK q \in here : TRUE
        BY <2>6
      <3>2. q \in Loadable(Program[img]) /\ x \in q.vaddr .. q.vaddr + q.filesz - 1
        OBVIOUS
      <3>3. <<"file", img, q.offset + x - q.vaddr>> \in AtStart(img, x)
        BY <2>6 DEF AtStart
      <3> HIDE DEF here, x
      <3>4. /\ Fits(q) /\ x \in q.vaddr .. q.vaddr + q.memsz - 1
            /\ x >= q.vaddr /\ x < file_end(q)
            /\ FileUnit(img, (q.offset + (x - q.vaddr)) % Word)
                 = <<"file", img, q.offset + (x - q.vaddr)>>
        BY <3>2, UnitInFile
      <3>5. x \div PageUnits \in Pages(q)
        BY <3>4, SegmentPages
      <3>6. p \in Pages(q)
        BY <2>3, <3>5
      <3>7. n.data[walk(n, r, b)] = Filled(page_part(img, q, p))
        BY <1>1, <1>2, <2>1, <3>2, <3>6 DEF HasSegment
      <3>8. u \in DOMAIN page_part(img, q, p)
        BY <3>4 DEF page_part, Units, x
      <3>9. page_part(img, q, p)[u] = FileUnit(img, (q.offset + p * PageUnits + u - q.vaddr) % Word)
        BY <3>8 DEF page_part
      <3>10. q.offset + p * PageUnits + u - q.vaddr = q.offset + (x - q.vaddr)
        <4> DEFINE y == p * PageUnits
        <4>1. y \in Nat /\ u \in Nat /\ q.offset \in Nat /\ q.vaddr \in Nat /\ x = y + u
          BY <2>3, <3>4 DEF Fits, x
        <4> HIDE DEF y
        <4>2. q.offset + y + u - q.vaddr = q.offset + (x - q.vaddr)
          BY <4>1
        <4> QED BY <4>2 DEF y
      <3>11. Filled(page_part(img, q, p))[u] = page_part(img, q, p)[u]
        BY <3>8 DEF Filled
      <3>12. n.data[walk(n, r, b)][u] = <<"file", img, q.offset + (x - q.vaddr)>>
        BY <3>4, <3>7, <3>9, <3>10, <3>11, Zenon
      <3> QED BY <3>3, <3>12, Zenon DEF x, p
    <2> QED BY <2>5, <2>6
  <1> QED BY <1>4, <1>5 DEF Pristine, n

-----------------------------------------------------------------------------
(* What a program finds after its space has grown: a page that is new has  *)
(* zeros, and there no segment has anything of the file.                   *)

Blank == [u \in Units |-> Zero]

(* What is in the pages is from W or from the file.                        *)
Clean(m, r, img, W) ==
    \A b : IsUser(b) /\ Mapped(m, r, b) /\ b \notin StrayPages(img) =>
        \A u \in Units :
            m.data[walk(m, r, b)][u] \in W \cup AtStart(img, Number(b) * PageUnits + u)

Grown(m, n, r) ==
    \A b : IsUser(b) /\ Mapped(n, r, b) => Mapped(m, r, b) \/ n.data[walk(n, r, b)] = Blank

LEMMA NewPageZero ==
    ASSUME NEW m, NEW r, NEW img \in Images, elf64_validate_user_image(Program[img]),
           HasProgram(m, r, img), NEW b, IsUser(b), ~Mapped(m, r, b), NEW u \in Units
    PROVE  AtStart(img, Number(b) * PageUnits + u) = {Zero}
  <1> DEFINE p == Number(b)
             x == p * PageUnits + u
  <1>1. p \in UserNumbers /\ Page(p) = b
    BY NumberOfPage
  <1>2. p \in Nat
    BY <1>1, UserConstants DEF UserNumbers
  <1> HIDE DEF p
  <1>3. x \div PageUnits = p
    BY <1>2, UnitOfPage
  <1> HIDE DEF x
  <1>4. ASSUME NEW ph \in Loadable(Program[img]), x \in ph.vaddr .. ph.vaddr + ph.filesz - 1
        PROVE  FALSE
    <2>1. x \in ph.vaddr .. ph.vaddr + ph.memsz - 1
      BY <1>4, UnitInFile
    <2>2. Mapped(m, r, Page(x \div PageUnits))
      BY <2>1 DEF HasProgram
    <2> QED BY <1>1, <1>3, <2>2
  <1>5. AtStart(img, x) = {Zero}
    BY <1>4 DEF AtStart
  <1> QED BY <1>5 DEF x, p

LEMMA ProgramGrown ==
    ASSUME NEW m, NEW n, NEW R, NEW r \in R, NEW img \in Images,
           elf64_validate_user_image(Program[img]), NEW W,
           HasProgram(m, r, img), Clean(m, r, img, W), Kept(m, n, R), Grown(m, n, r)
    PROVE  HasProgram(n, r, img) /\ Clean(n, r, img, W)
  <1>1. ASSUME NEW ph \in Loadable(Program[img]), NEW x \in ph.vaddr .. ph.vaddr + ph.memsz - 1
        PROVE  Mapped(n, r, Page(x \div PageUnits))
    <2> DEFINE a == Page(x \div PageUnits)
    <2>1. ph \in Range(Program[img].phdrs) /\ ph.load
      BY DEF Loadable
    <2>2. Fits(ph)
      BY <2>1, SegmentFits DEF Loadable
    <2>3. x \div PageUnits \in Pages(ph) /\ Pages(ph) \subseteq UserNumbers
      BY <2>2, SegmentPages DEF ListsPages
    <2>4. a \in Addresses
      BY <2>3, PageOfNumber DEF IsUser
    <2>5. Mapped(m, r, a)
      BY DEF HasProgram
    <2> HIDE DEF a
    <2>6. Mapped(n, r, a)
      BY <2>4, <2>5 DEF Kept, Mapped
    <2> QED BY <2>6 DEF a
  <1>2. ASSUME NEW b, IsUser(b), Mapped(n, r, b), b \notin StrayPages(img), NEW u \in Units
        PROVE  n.data[walk(n, r, b)][u] \in W \cup AtStart(img, Number(b) * PageUnits + u)
    <2> DEFINE x == Number(b) * PageUnits + u
    <2>1. CASE Mapped(m, r, b)
      <3>1. b \in Addresses
        BY <1>2 DEF IsUser
      <3>2. walk(n, r, b) = walk(m, r, b) /\ n.data[walk(m, r, b)] = m.data[walk(m, r, b)]
        BY <2>1, <3>1 DEF Kept
      <3>3. m.data[walk(m, r, b)][u] \in W \cup AtStart(img, x)
        BY <1>2, <2>1 DEF Clean
      <3> HIDE DEF x
      <3>4. n.data[walk(n, r, b)][u] \in W \cup AtStart(img, x)
        BY <3>2, <3>3
      <3> QED BY <3>4 DEF x
    <2>2. CASE ~Mapped(m, r, b)
      <3>1. n.data[walk(n, r, b)] = Blank
        BY <1>2, <2>2 DEF Grown
      <3>2. n.data[walk(n, r, b)][u] = Zero
        BY <3>1 DEF Blank
      <3>3. AtStart(img, x) = {Zero}
        BY <1>2, <2>2, NewPageZero
      <3> QED BY <3>2, <3>3
    <2> QED BY <2>1, <2>2
  <1> QED BY <1>1, <1>2 DEF HasProgram, Clean

LEMMA SameIsGrown ==
    ASSUME NEW m, NEW n, NEW r, UserSame(m, n, r)
    PROVE  Grown(m, n, r)
  BY DEF UserSame, Grown, Mapped

(* Nothing a program can see has changed, in any of the spaces R.          *)
Quiet(m, n, R) == Kept(m, n, R) /\ \A q \in R : UserSame(m, n, q)

LEMMA QuietTwice ==
    ASSUME NEW m, NEW n, NEW x, NEW R, Quiet(m, n, R), Quiet(n, x, R)
    PROVE  Quiet(m, x, R)
  <1>1. Kept(m, x, R)
    BY KeptTwice DEF Quiet
  <1> QED BY <1>1 DEF Quiet, UserSame

LEMMA QuietReads ==
    ASSUME NEW m, NEW n, n.table = m.table, n.data = m.data, NEW R
    PROVE  Quiet(m, n, R)
  <1>1. \A q, b : walk(n, q, b) = walk(m, q, b)
    BY WalkReads
  <1> QED BY <1>1 DEF Quiet, Kept, UserSame

LEMMA QuietWalks ==
    ASSUME NEW m, NEW n, NEW R, WalksSame(m, n, R), n.data = m.data
    PROVE  Quiet(m, n, R)
  BY DEF Quiet, Kept, UserSame, WalksSame, IsUser

LEMMA QuietLess ==
    ASSUME NEW m, NEW n, NEW R, NEW Q \in SUBSET R, Quiet(m, n, R)
    PROVE  Quiet(m, n, Q)
  BY DEF Quiet, Kept

(* The data of a frame that is held is no page's.                          *)
LEMMA QuietHeld ==
    ASSUME NEW m, NEW n, NEW R, NEW H, NEW f \in H, NEW d, Sound(m, R, H),
           DataDone(m, n, R, H, f, d)
    PROVE  Quiet(m, n, R)
  <1>1. \A q, b : walk(n, q, b) = walk(m, q, b)
    BY WalkReads DEF DataDone
  <1>2. ASSUME NEW q \in R, NEW b \in Addresses, Mapped(m, q, b)
        PROVE  n.data[walk(m, q, b)] = m.data[walk(m, q, b)]
    <2>1. walk(m, q, b) \in Frames \cup {None} /\ walk(m, q, b) \notin H
      BY WalkFacts
    <2> QED BY <1>2, <2>1 DEF Mapped, DataDone
  <1> QED BY <1>1, <1>2 DEF Quiet, Kept, UserSame

-----------------------------------------------------------------------------
(* process_load_user_image_bytes.                                          *)

Started(m, r, img) ==
    /\ elf64_validate_user_image(Program[img])
    /\ Mapped(m, r, StackPage) /\ HasProgram(m, r, img) /\ Pristine(m, r, img)

(* A load that fails has changed nothing a running program can see; after  *)
(* one that succeeds there is a new root with the program and its stack.   *)
PagesDone(m, w, R, f, img) ==
    /\ w.ok \in BOOLEAN /\ Sound(w.m, R, {}) /\ Quiet(m, w.m, R)
    /\ w.ok => Sound(w.m, R \cup {f}, {}) /\ Started(w.m, f, img)

(* The stack's page, over a space with the segments.                       *)
LEMMA StackSound ==
    ASSUME NEW m, NEW R, NEW f \in Frames, f \notin R, NEW g, Holding(m, R \cup {f}, {}, g),
           KernelRoot \in R, NEW img \in Images, elf64_validate_user_image(Program[img]),
           HasProgram(m, f, img), Pristine(m, f, img),
           NEW w, w = map_page(cleared(m, g), f, StackPage, g)
    PROVE  PagesDone(m, w, R, f, img)
  <1> DEFINE Q == R \cup {f}
             n == cleared(m, g)
             a == StackPage
  <1>0. /\ g \in Frames /\ g \in {} \cup {g} /\ Sound(m, Q, {} \cup {g})
        /\ a \in Addresses /\ a[1] < Half /\ f \in Q /\ g \notin {}
    BY SpaceConstants DEF Holding, Addresses
  <1>1. DataDone(m, n, Q, {} \cup {g}, g, Blank)
    <2>1. n = data_set(m, g, Blank)
      BY DEF cleared, data_set, Blank
    <2>2. Blank = [u \in Units |-> Blank[u]]
      BY DEF Blank
    <2> HIDE DEF n, Q
    <2> QED BY <1>0, <2>1, <2>2, DataSet
  <1>2. Quiet(m, n, Q)
    BY <1>0, <1>1, QuietHeld
  <1>3. Holding(n, Q, {}, g)
    BY <1>0, <1>1 DEF Holding, DataDone
  <1> HIDE DEF n, Q
  <1>4. w = map_page(n, f, a, g)
    BY DEF n
  <1>5. MapDone(n, w, Q, {}, f, a, g)
    BY <1>0, <1>3, <1>4, MapPageSound
  <1>6. R \subseteq Q
    BY DEF Q
  <1>7. CASE ~w.ok
    <2>1. Sound(w.m, Q, {} \cup {g}) /\ WalksSame(n, w.m, Q) /\ w.m.data = n.data
          /\ w.ok \in BOOLEAN
      BY <1>5, <1>7 DEF MapDone
    <2>2. Quiet(m, w.m, Q)
      BY <1>2, <2>1, QuietWalks, QuietTwice
    <2>3. Sound(w.m, R, {})
      BY <1>6, <2>1, SoundLess
    <2> QED BY <1>6, <1>7, <2>1, <2>2, <2>3, QuietLess DEF PagesDone
  <1>8. CASE w.ok
    <2>1. /\ Sound(w.m, Q, {}) /\ WalkSet(n, w.m, Q, f, a, g) /\ ~Mapped(n, f, a)
          /\ w.m.data = n.data /\ w.ok \in BOOLEAN
      BY <1>5, <1>8 DEF MapDone
    <2>2. \A q \in Q : Holder(q, a[1]) = q
      <3>1. a[1] \in Int /\ Half \in Int
        BY <1>0, AddressParts, SpaceConstants
      <3>2. ~(a[1] >= Half)
        BY <1>0, <3>1
      <3> QED BY <3>2 DEF Holder
    <2>3. \A q \in Q, b \in Addresses :
             walk(w.m, q, b) = IF b = a /\ q = f THEN g ELSE walk(n, q, b)
      BY <1>0, <2>1, <2>2 DEF WalkSet
    <2>4. Kept(n, w.m, Q)
      BY <2>1, <2>3 DEF Kept, Mapped
    <2>5. Quiet(m, w.m, R)
      <3>1. \A q \in R : UserSame(n, w.m, q)
        BY <1>6, <2>3 DEF UserSame, IsUser
      <3>2. Kept(n, w.m, R)
        BY <1>6, <2>4 DEF Kept
      <3>3. Quiet(n, w.m, R)
        BY <3>1, <3>2 DEF Quiet
      <3>4. Quiet(m, n, R)
        BY <1>2, <1>6, QuietLess
      <3> QED BY <3>3, <3>4, QuietTwice
    <2>6. Grown(m, w.m, f)
      <3> SUFFICES ASSUME NEW b, IsUser(b), Mapped(w.m, f, b)
                   PROVE  Mapped(m, f, b) \/ w.m.data[walk(w.m, f, b)] = Blank
        BY DEF Grown
      <3>1. b \in Addresses
        BY DEF IsUser
      <3>2. CASE b = a
        <4>1. walk(w.m, f, b) = g
          BY <1>0, <2>3, <3>1, <3>2
        <4> QED BY <1>1, <2>1, <4>1 DEF DataDone
      <3>3. CASE b # a
        <4>1. walk(w.m, f, b) = walk(n, f, b)
          BY <1>0, <2>3, <3>1, <3>3
        <4>2. walk(n, f, b) = walk(m, f, b)
          BY <1>0, <1>2 DEF Quiet, UserSame
        <4> QED BY <4>1, <4>2 DEF Mapped
      <3> QED BY <3>2, <3>3
    <2>7. Kept(m, w.m, Q)
      BY <1>2, <2>4, KeptTwice DEF Quiet
    <2>8. Clean(m, f, img, {})
      BY DEF Pristine, Clean
    <2>9. HasProgram(w.m, f, img) /\ Clean(w.m, f, img, {})
      BY <1>0, <2>6, <2>7, <2>8, ProgramGrown
    <2>10. Pristine(w.m, f, img)
      BY <2>9 DEF Pristine, Clean
    <2>11. Mapped(w.m, f, StackPage)
      <3>1. walk(w.m, f, a) = g
        BY <1>0, <2>3
      <3> QED BY <1>0, <3>1, SpaceConstants DEF Mapped
    <2>12. Sound(w.m, R, {})
      BY <1>6, <2>1, SoundLess
    <2> QED BY <2>1, <2>5, <2>9, <2>10, <2>11, <2>12 DEF PagesDone, Started, Q
  <1> QED BY <1>5, <1>7, <1>8 DEF MapDone

(* The pages of a space that has just been made.                           *)
LEMMA LoadPagesSound ==
    ASSUME NEW m, NEW R, NEW f \in Frames, f \notin R, Sound(m, R \cup {f}, {}), KernelRoot \in R,
           \A b : IsUser(b) => ~Mapped(m, f, b), NEW img \in Images, EmptyInside,
           NEW top, top.m = m, top.frame = f,
           NEW w, w = load_pages(top, pmm_alloc_page(m), img)
    PROVE  PagesDone(m, w, R, f, img)
  <1> DEFINE Q == R \cup {f}
             stack == pmm_alloc_page(m)
             g == stack.frame
             v == load_user_image_segments(stack.m, f, img)
             k == Len(Program[img].phdrs)
  <1>0. R \in SUBSET Q /\ f \in Q /\ f # None /\ {} \in SUBSET {} /\ {} \cup {} = {}
    BY SpaceConstants
  <1>1. \/ stack.frame = None /\ stack.m = m
        \/ /\ g \in Frames /\ g \notin {} /\ Sound(stack.m, Q, {} \cup {g})
           /\ stack.m.table = m.table /\ stack.m.data = m.data
    BY AllocSound
  <1>2. w = IF stack.frame = None \/ ~elf64_validate_user_image(Program[img])
            THEN [m |-> stack.m, ok |-> FALSE]
            ELSE IF ~v.ok THEN v
            ELSE map_page(cleared(v.m, g), f, StackPage, g)
    BY <1>0 DEF load_pages
  <1> HIDE DEF stack, v, k
  <1>3. Quiet(m, stack.m, Q) /\ Sound(stack.m, R, {})
    <2>1. CASE stack.frame = None /\ stack.m = m
      BY <1>0, <2>1, SoundLess, QuietReads
    <2>2. CASE g \in Frames /\ g \notin {} /\ Sound(stack.m, Q, {} \cup {g})
               /\ stack.m.table = m.table /\ stack.m.data = m.data
      <3>1. Sound(stack.m, R, {})
        BY <1>0, <2>2, SoundLess
      <3> QED BY <2>2, <3>1, QuietReads
    <2> QED BY <1>1, <2>1, <2>2
  <1>4. CASE stack.frame = None \/ ~elf64_validate_user_image(Program[img])
    <2>1. w = [m |-> stack.m, ok |-> FALSE]
      BY <1>2, <1>4
    <2>2. w.m = stack.m /\ w.ok = FALSE
      BY <2>1
    <2> HIDE DEF Q
    <2> QED BY <1>0, <1>3, <2>2, QuietLess DEF PagesDone
  <1>5. CASE ~(stack.frame = None \/ ~elf64_validate_user_image(Program[img]))
    <2>1. /\ g \in Frames /\ Sound(stack.m, Q, {} \cup {g}) /\ elf64_validate_user_image(Program[img])
          /\ stack.m.table = m.table /\ stack.m.data = m.data
      BY <1>1, <1>5
    <2>2. \A b : IsUser(b) => ~Mapped(stack.m, f, b)
      BY <2>1, WalkReads DEF Mapped
    <2> HIDE DEF Q
    <2>3. Loaded(stack.m, v, Q, {} \cup {g}, f, img, k)
      BY <1>0, <2>1, <2>2, LoadSegmentsSound DEF v, k
    <2>4. Safe(stack.m, v, Q, {} \cup {g}, f)
      BY <2>3 DEF Loaded
    <2>5. /\ v.ok \in BOOLEAN /\ Sound(v.m, Q, {} \cup {g}) /\ Kept(stack.m, v.m, Q)
          /\ \A q \in Q : q # f => UserSame(stack.m, v.m, q)
      BY <2>4 DEF Safe
    <2>6. Quiet(stack.m, v.m, R)
      <3>1. Kept(stack.m, v.m, R)
        BY <1>0, <2>5 DEF Kept
      <3> QED BY <1>0, <2>5, <3>1 DEF Quiet
    <2>7. Quiet(m, v.m, R)
      BY <1>0, <1>3, <2>6, QuietLess, QuietTwice
    <2>8. CASE ~v.ok
      <3>1. w = v
        BY <1>2, <1>5, <2>8
      <3>2. Sound(v.m, R, {})
        BY <1>0, <2>5, SoundLess
      <3> QED BY <2>5, <2>7, <2>8, <3>1, <3>2 DEF PagesDone
    <2>9. CASE v.ok
      <3>1. w = map_page(cleared(v.m, g), f, StackPage, g)
        BY <1>2, <1>5, <2>9
      <3>2. HasProgram(v.m, f, img) /\ Pristine(v.m, f, img)
        BY <1>0, <2>1, <2>3, <2>9, LoadedProgram DEF k
      <3>3. Holding(v.m, R \cup {f}, {}, g)
        BY <2>1, <2>5 DEF Holding, Q
      <3>4. PagesDone(v.m, w, R, f, img)
        BY <2>1, <3>1, <3>2, <3>3, StackSound
      <3> QED BY <2>7, <3>4, QuietTwice DEF PagesDone
    <2> QED BY <2>5, <2>8, <2>9
  <1> QED BY <1>4, <1>5

LoadDone(m, w, R, img) ==
    /\ w.ok \in BOOLEAN /\ Sound(w.m, R, {}) /\ Quiet(m, w.m, R) /\ w.image = img
    /\ w.ok => /\ w.root \in Frames /\ w.root \notin R
               /\ Sound(w.m, R \cup {w.root}, {}) /\ Started(w.m, w.root, img)

LEMMA LoadSound ==
    ASSUME NEW m, NEW R, Sound(m, R, {}), root \in R, NEW img \in Images, EmptyInside,
           NEW w, w = load_user_image(m, img)
    PROVE  LoadDone(m, w, R, img)
  <1> DEFINE new == pmm_alloc_page(m)
             f == new.frame
             top == create_address_space(new, root)
             v == load_pages(top, pmm_alloc_page(top.m), img)
  <1>0. KernelRoot \in R
    BY DEF Sound
  <1>1. w = [m |-> v.m, ok |-> v.ok, root |-> top.frame, image |-> img]
    BY DEF load_user_image, loaded
  <1>2. w.m = v.m /\ w.ok = v.ok /\ w.root = top.frame /\ w.image = img
    BY <1>1
  <1>3. \/ new.frame = None /\ new.m = m
        \/ /\ f \in Frames /\ f \notin {} /\ Sound(new.m, R, {} \cup {f})
           /\ new.m.table = m.table /\ new.m.data = m.data
    BY AllocSound
  <1>4. new = [m |-> new.m, frame |-> new.frame]
    BY DEF pmm_alloc_page
  <1>5. CASE new.frame = None
    <2>1. top = new /\ new.m = m
      BY <1>3, <1>5, SpaceConstants DEF create_address_space
    <2> DEFINE stack == pmm_alloc_page(m)
    <2>2. v = [m |-> stack.m, ok |-> FALSE]
      BY <1>5, <2>1 DEF load_pages
    <2>3. v.m = stack.m /\ v.ok = FALSE
      BY <2>2
    <2>4. \/ stack.frame = None /\ stack.m = m
          \/ /\ stack.frame \in Frames /\ stack.frame \notin {} /\ Sound(stack.m, R, {} \cup {stack.frame})
             /\ stack.m.table = m.table /\ stack.m.data = m.data
      BY AllocSound
    <2> HIDE DEF stack
    <2>5. R \in SUBSET R /\ {} \in SUBSET ({} \cup {stack.frame})
      OBVIOUS
    <2>6. Sound(stack.m, R, {})
      BY <1>0, <2>4, <2>5, SoundLess
    <2>7. Quiet(m, stack.m, R)
      BY <2>4, QuietReads
    <2> HIDE DEF v, top, new
    <2> QED BY <1>2, <2>3, <2>6, <2>7 DEF LoadDone
  <1>6. CASE new.frame # None
    <2>1. /\ f \in Frames /\ f \notin {} /\ Sound(new.m, R, {} \cup {f})
          /\ new.m.table = m.table /\ new.m.data = m.data
      BY <1>3, <1>6
    <2> DEFINE n == copy_kernel_half(new.m, f, root)
    <2>2. top = [m |-> n, frame |-> f]
      <3>1. top = [new EXCEPT !.m = copy_kernel_half(@, new.frame, root)]
        BY <1>6 DEF create_address_space
      <3>2. top = [new EXCEPT !.m = n]
        BY <3>1
      <3> HIDE DEF n, new, top
      <3> QED BY <1>4, <3>2
    <2> HIDE DEF new, n, top
    <2>3. /\ Sound(n, R \cup {f}, {}) /\ WalksSame(new.m, n, R) /\ n.data = new.m.data
          /\ f \notin R /\ \A a \in Addresses : a[1] < Half => ~Mapped(n, f, a)
      <3>1. n = copy_kernel_half(new.m, f, root)
        BY DEF n
      <3>2. Holding(new.m, R, {}, f)
        BY <2>1 DEF Holding
      <3>3. RootDone(new.m, n, R, {}, f)
        BY <3>1, <3>2, NewRootSound
      <3> QED BY <3>3 DEF RootDone
    <2>4. top.m = n /\ top.frame = f
      BY <2>2
    <2>5. Quiet(m, n, R)
      BY <2>1, <2>3, QuietReads, QuietWalks, QuietTwice
    <2>6. v = load_pages(top, pmm_alloc_page(n), img)
      BY <2>4
    <2> HIDE DEF v
    <2>7. PagesDone(n, v, R, f, img)
      BY <1>0, <2>1, <2>3, <2>4, <2>6, LoadPagesSound DEF IsUser
    <2>8. Quiet(m, v.m, R)
      BY <2>5, <2>7, QuietTwice DEF PagesDone
    <2> QED BY <1>2, <2>1, <2>3, <2>4, <2>7, <2>8 DEF PagesDone, LoadDone
  <1> QED BY <1>5, <1>6

-----------------------------------------------------------------------------
(* What holds of a process that runs in slot s with the record p: its      *)
(* program, stack and heap are mapped, and what is in its pages is its own *)
(* or from its file.                                                       *)

Runs(m, s, p) ==
    /\ p.image \in Images /\ elf64_validate_user_image(Program[p.image])
    /\ Mapped(m, p.pml4, StackPage) /\ HasProgram(m, p.pml4, p.image)
    /\ p.brk \in Nat /\ p.brk <= HeapPages * PageUnits
    /\ \A n \in 0 .. pages_of(p.brk) - 1 : Mapped(m, p.pml4, Page(HeapBase + n))
    /\ Clean(m, p.pml4, p.image, {Written(s)})

LEMMA HeapNumbers ==
    /\ HeapPages \in Nat /\ HeapBase \in Nat
    /\ \A n \in 0 .. HeapPages - 1 : HeapBase + n \in UserNumbers /\ IsUser(Page(HeapBase + n))
  <1>1. /\ HeapPages \in Nat /\ HeapFirst \in Nat /\ HeapFirst + HeapPages <= Entries
        /\ HeapTop \in Nat /\ HeapTop < Half
    BY SpacesAssumption, UserConstants DEF Index
  <1> DEFINE y == HeapTop * Entries
  <1>2. y \in Nat
    BY <1>1, UserConstants, Z3
  <1>3. HeapBase = y + HeapFirst
    BY DEF HeapBase, Number
  <1>4. ASSUME NEW n \in 0 .. HeapPages - 1
        PROVE  HeapBase + n \in UserNumbers
    <2> DEFINE x == HeapFirst + n
    <2>1. x \in 0 .. Entries - 1
      BY <1>1, UserConstants
    <2> HIDE DEF x
    <2>2. y + x < Half * Entries
      BY <1>1, <2>1, UserConstants, Below
    <2> HIDE DEF y
    <2>3. y + x = HeapBase + n
      BY <1>1, <1>2, <1>3 DEF x
    <2>4. y + x \in Nat
      BY <1>2, <2>1, UserConstants
    <2> QED BY <2>2, <2>3, <2>4, UserConstants DEF UserNumbers
  <1> HIDE DEF y
  <1> QED BY <1>1, <1>2, <1>3, <1>4, PageOfNumber

LEMMA PagesOf ==
    ASSUME NEW x \in Nat, x <= HeapPages * PageUnits
    PROVE  /\ pages_of(x) \in Nat /\ pages_of(x) <= HeapPages
           /\ \A y \in 0 .. x - 1 : y \div PageUnits \in 0 .. pages_of(x) - 1
  <1>1. PageUnits \in Nat \ {0} /\ HeapPages \in Nat /\ 0 <= x /\ 0 \in Nat
    BY UserConstants, HeapNumbers
  <1>2. /\ (x + PageUnits - 1) \div PageUnits \in Nat
        /\ (x + PageUnits - 1) \div PageUnits <= HeapPages
        /\ \A y \in 0 .. x - 1 : y \div PageUnits < (x + PageUnits - 1) \div PageUnits
    BY <1>1, RoundPages
  <1>3. \A y \in 0 .. x - 1 : y \div PageUnits \in Nat
    BY <1>1, DivMod
  <1> QED BY <1>2, <1>3 DEF pages_of

LEMMA RunsKept ==
    ASSUME NEW m, NEW n, NEW R, NEW s, NEW p, Runs(m, s, p), p.pml4 \in R,
           Kept(m, n, R), Grown(m, n, p.pml4)
    PROVE  Runs(n, s, p)
  <1> DEFINE r == p.pml4
  <1>1. HasProgram(n, r, p.image) /\ Clean(n, r, p.image, {Written(s)})
    BY ProgramGrown DEF Runs
  <1>2. \A b \in Addresses : Mapped(m, r, b) => Mapped(n, r, b)
    BY DEF Kept, Mapped
  <1>3. StackPage \in Addresses
    BY SpaceConstants DEF Addresses
  <1>4. \A k \in 0 .. pages_of(p.brk) - 1 : Page(HeapBase + k) \in Addresses
    <2>1. pages_of(p.brk) \in Nat /\ pages_of(p.brk) <= HeapPages /\ HeapPages \in Nat
      BY PagesOf, HeapNumbers DEF Runs
    <2> QED BY <2>1, HeapNumbers DEF IsUser
  <1> HIDE DEF r
  <1> QED BY <1>1, <1>2, <1>3, <1>4 DEF Runs, r

-----------------------------------------------------------------------------
(* The whole memory: r is the active root, sp the records of the slots, ch *)
(* the processes that run or wait, h the pages of the kernel heap.         *)

RootsOf(sp, ch) == {KernelRoot} \cup {sp[s].pml4 : s \in Range(ch)}

KernelMapped(m, h) ==
    /\ h \in Nat /\ h <= KernelPages
    /\ \A n \in 0 .. h - 1 : Mapped(m, KernelRoot, KernelPage(n))

Active(r, sp, ch, h) ==
    /\ ch = <<>> => r = KernelRoot
    /\ ch # <<>> => r = sp[Last(ch)].pml4 /\ h > 0

Apart(sp, ch) == \A s, t \in Range(ch) : sp[s].pml4 = sp[t].pml4 => s = t

World(m, r, sp, ch, h) ==
    /\ Sound(m, RootsOf(sp, ch), {}) /\ KernelMapped(m, h) /\ Active(r, sp, ch, h)
    /\ Apart(sp, ch) /\ \A s \in Range(ch) : Runs(m, s, sp[s])

LEMMA SeqRange ==
    ASSUME NEW S, NEW ch \in Seq(S)
    PROVE  /\ Range(ch) \subseteq S
           /\ ch # <<>> => Last(ch) \in Range(ch)
           /\ ch = <<>> => Range(ch) = {}
           /\ \A s \in S : /\ Range(Append(ch, s)) = Range(ch) \cup {s}
                           /\ Last(Append(ch, s)) = s /\ Append(ch, s) # <<>>
           /\ Len(ch) > 1 => Range(Front(ch)) \subseteq Range(ch) /\ Front(ch) # <<>>
  <1>1. DOMAIN ch = 1 .. Len(ch) /\ Len(ch) \in Nat /\ \A k \in 1 .. Len(ch) : ch[k] \in S
    OBVIOUS
  <1>2. ch # <<>> => Len(ch) \in 1 .. Len(ch)
    OBVIOUS
  <1>3. ASSUME NEW s \in S
        PROVE  /\ Range(Append(ch, s)) = Range(ch) \cup {s}
               /\ Last(Append(ch, s)) = s /\ Append(ch, s) # <<>>
    <2> DEFINE t == Append(ch, s)
    <2>1. /\ Len(t) = Len(ch) + 1 /\ DOMAIN t = 1 .. Len(ch) + 1 /\ t[Len(ch) + 1] = s
          /\ \A k \in 1 .. Len(ch) : t[k] = ch[k]
      OBVIOUS
    <2> HIDE DEF t
    <2>2. Range(t) = Range(ch) \cup {s}
      <3>1. \A x \in Range(t) : x \in Range(ch) \cup {s}
        <4> TAKE x \in Range(t)
        <4>1. PICK k \in 1 .. Len(ch) + 1 : x = t[k]
          BY <2>1 DEF Range
        <4>2. k \in 1 .. Len(ch) \/ k = Len(ch) + 1
          BY <1>1
        <4> QED BY <1>1, <2>1, <4>1, <4>2 DEF Range
      <3>2. \A x \in Range(ch) : x \in Range(t)
        <4>1. \A k \in 1 .. Len(ch) : k \in 1 .. Len(ch) + 1
          BY <1>1
        <4> QED BY <1>1, <2>1, <4>1 DEF Range
      <3>3. s \in Range(t)
        <4>1. Len(ch) + 1 \in 1 .. Len(ch) + 1
          BY <1>1
        <4> QED BY <2>1, <4>1 DEF Range
      <3> QED BY <3>1, <3>2, <3>3
    <2>3. Last(t) = s
      BY <2>1 DEF Last
    <2>4. t # <<>>
      BY <1>1, <2>1
    <2> QED BY <2>2, <2>3, <2>4 DEF t
  <1>4. ASSUME Len(ch) > 1
        PROVE  Range(Front(ch)) \subseteq Range(ch) /\ Front(ch) # <<>>
    <2> DEFINE t == Front(ch)
    <2>1. Len(t) = Len(ch) - 1 /\ DOMAIN t = 1 .. Len(ch) - 1 /\ \A k \in 1 .. Len(ch) - 1 : t[k] = ch[k]
      BY <1>4 DEF Front
    <2> HIDE DEF t
    <2>2. \A k \in 1 .. Len(ch) - 1 : k \in 1 .. Len(ch)
      BY <1>1
    <2>3. Range(t) \subseteq Range(ch)
      BY <1>1, <2>1, <2>2 DEF Range
    <2>4. t # <<>>
      BY <1>1, <1>4, <2>1
    <2> QED BY <2>3, <2>4 DEF t
  <1>5. \A x \in Range(ch) : x \in S
    BY <1>1 DEF Range
  <1>6. ch # <<>> => Last(ch) \in Range(ch)
    BY <1>1, <1>2 DEF Range, Last
  <1>7. ch = <<>> => Range(ch) = {}
    BY <1>1 DEF Range
  <1> QED BY <1>3, <1>4, <1>5, <1>6, <1>7

(* Pages that are mapped stay mapped.                                      *)
LEMMA KernelKept ==
    ASSUME NEW m, NEW n, NEW R, KernelRoot \in R, NEW h, KernelMapped(m, h), Kept(m, n, R)
    PROVE  KernelMapped(n, h)
  <1>1. \A k \in 0 .. h - 1 : KernelPage(k) \in Addresses
    BY KernelPageFacts DEF KernelMapped
  <1> QED BY <1>1 DEF KernelMapped, Kept, Mapped

(* Nothing but the kernel's half, and pages no program can see, changes.   *)
LEMMA WorldQuiet ==
    ASSUME NEW m, NEW n, NEW r, NEW sp, NEW ch, NEW h, NEW k, World(m, r, sp, ch, h),
           Sound(n, RootsOf(sp, ch), {}), Quiet(m, n, RootsOf(sp, ch)),
           KernelMapped(n, k), h <= k
    PROVE  World(n, r, sp, ch, k)
  <1> DEFINE R == RootsOf(sp, ch)
  <1>1. \A s \in Range(ch) : sp[s].pml4 \in R
    BY DEF RootsOf
  <1> HIDE DEF R
  <1>2. Kept(m, n, R) /\ \A q \in R : Grown(m, n, q)
    BY SameIsGrown DEF Quiet, R
  <1>3. \A s \in Range(ch) : Runs(n, s, sp[s])
    BY <1>1, <1>2, RunsKept DEF World
  <1>4. Active(r, sp, ch, k)
    BY DEF World, Active, KernelMapped
  <1> QED BY <1>3, <1>4 DEF World

(* A program has been loaded and runs in slot s.                           *)
LEMMA WorldEnter ==
    ASSUME NEW m, NEW r, NEW sp, NEW ch \in Seq(Slots), NEW h, World(m, r, sp, ch, h), h > 0,
           NEW img \in Images, NEW w, w.ok, LoadDone(m, w, RootsOf(sp, ch), img),
           NEW s \in Slots, s \notin Range(ch), NEW tp, \A t \in Range(ch) : tp[t] = sp[t],
           tp[s].pml4 = w.root, tp[s].image = img, tp[s].brk = 0
    PROVE  World(w.m, w.root, tp, Append(ch, s), h)
  <1> DEFINE R == RootsOf(sp, ch)
             f == w.root
             dh == Append(ch, s)
             n == w.m
  <1>0. Range(dh) = Range(ch) \cup {s} /\ Last(dh) = s /\ dh # <<>>
    BY SeqRange
  <1> HIDE DEF dh
  <1>1. RootsOf(tp, dh) = R \cup {f}
    BY <1>0 DEF RootsOf
  <1>2. /\ f \in Frames /\ f \notin R /\ Sound(n, R \cup {f}, {}) /\ Started(n, f, img)
        /\ Quiet(m, n, R)
    BY DEF LoadDone
  <1>3. \A t \in Range(ch) : sp[t].pml4 \in R
    BY DEF RootsOf
  <1>4. KernelRoot \in R
    BY DEF RootsOf
  <1> HIDE DEF R, n, f
  <1>5. KernelMapped(n, h)
    BY <1>2, <1>4, KernelKept DEF World, Quiet
  <1>6. Active(f, tp, dh, h)
    BY <1>0 DEF Active, f
  <1>7. Apart(tp, dh)
    <2> SUFFICES ASSUME NEW t \in Range(dh), NEW u \in Range(dh), tp[t].pml4 = tp[u].pml4
                 PROVE  t = u
      BY DEF Apart
    <2>1. CASE t = s \/ u = s
      <3>1. tp[s].pml4 = f
        BY DEF f
      <3>2. \A x \in Range(ch) : tp[x].pml4 \in R
        BY <1>3
      <3> QED BY <1>0, <1>2, <2>1, <3>1, <3>2
    <2>2. CASE t # s /\ u # s
      <3>1. t \in Range(ch) /\ u \in Range(ch)
        BY <1>0, <2>2
      <3> QED BY <3>1 DEF World, Apart
    <2> QED BY <2>1, <2>2
  <1>8. ASSUME NEW t \in Range(dh)
        PROVE  Runs(n, t, tp[t])
    <2>1. CASE t = s
      <3> DEFINE p == tp[s]
      <3>1. p.pml4 = f /\ p.image = img /\ p.brk = 0
        BY DEF f
      <3> HIDE DEF p
      <3>2. pages_of(0) = 0
        <4>1. PageUnits \in Nat \ {0}
          BY UserConstants
        <4>2. (0 + PageUnits - 1) \div PageUnits = 0
          <5>1. (0 * PageUnits + (PageUnits - 1)) \div PageUnits = 0
            BY <4>1, DivUnique
          <5>2. 0 * PageUnits + (PageUnits - 1) = 0 + PageUnits - 1
            BY <4>1
          <5> QED BY <5>1, <5>2
        <4> QED BY <4>2 DEF pages_of
      <3>3. 0 <= HeapPages * PageUnits
        BY HeapNumbers, UserConstants, Z3
      <3>4. \A k : k \notin 0 .. 0 - 1
        OBVIOUS
      <3>5. Clean(n, f, img, {Written(s)})
        BY <1>2 DEF Started, Pristine, Clean
      <3>6. \A k \in 0 .. pages_of(p.brk) - 1 : Mapped(n, p.pml4, Page(HeapBase + k))
        BY <3>1, <3>2, <3>4
      <3>7. p.brk \in Nat /\ p.brk <= HeapPages * PageUnits
        BY <3>1, <3>3
      <3>8. Runs(n, s, p)
        BY <1>2, <3>1, <3>5, <3>6, <3>7 DEF Runs, Started
      <3> QED BY <2>1, <3>8 DEF p
    <2>2. CASE t # s
      <3>1. t \in Range(ch) /\ tp[t] = sp[t]
        BY <1>0, <2>2
      <3>2. Kept(m, n, R) /\ Grown(m, n, sp[t].pml4) /\ sp[t].pml4 \in R
        BY <1>2, <1>3, <3>1, SameIsGrown DEF Quiet
      <3>3. Runs(n, t, sp[t])
        BY <3>1, <3>2, RunsKept DEF World
      <3> QED BY <3>1, <3>3
    <2> QED BY <2>1, <2>2
  <1>9. Sound(n, RootsOf(tp, dh), {})
    BY <1>1, <1>2
  <1> QED BY <1>5, <1>6, <1>7, <1>8, <1>9 DEF World, n, f, dh

(* The last program exits.                                                 *)
LEMMA WorldExit ==
    ASSUME NEW m, NEW r, NEW sp, NEW ch \in Seq(Slots), NEW h, World(m, r, sp, ch, h), Len(ch) > 1
    PROVE  World(m, sp[Last(Front(ch))].pml4, sp, Front(ch), h)
  <1> DEFINE dh == Front(ch)
  <1>1. Range(dh) \subseteq Range(ch) /\ dh # <<>> /\ ch # <<>>
    BY SeqRange
  <1> HIDE DEF dh
  <1>2. /\ RootsOf(sp, dh) \in SUBSET RootsOf(sp, ch) /\ KernelRoot \in RootsOf(sp, dh)
    BY <1>1 DEF RootsOf
  <1>3. Sound(m, RootsOf(sp, dh), {})
    BY <1>2, SoundLess DEF World
  <1>4. Active(sp[Last(dh)].pml4, sp, dh, h)
    BY <1>1 DEF World, Active
  <1> QED BY <1>1, <1>3, <1>4 DEF World, Apart, dh

(* The process in slot c has changed its own pages.                        *)
LEMMA WorldUser ==
    ASSUME NEW m, NEW n, NEW r, NEW sp, NEW ch \in Seq(Slots), NEW h, World(m, r, sp, ch, h),
           NEW c \in Range(ch), NEW tp, tp[c].pml4 = sp[c].pml4,
           \A t \in Range(ch) : t # c => tp[t] = sp[t],
           Sound(n, RootsOf(sp, ch), {}), KernelMapped(n, h), Runs(n, c, tp[c]),
           \A t \in Range(ch) : t # c => Kept(m, n, {sp[t].pml4}) /\ UserSame(m, n, sp[t].pml4)
    PROVE  World(n, r, tp, ch, h)
  <1>1. \A t \in Range(ch) : tp[t].pml4 = sp[t].pml4
    OBVIOUS
  <1>2. RootsOf(tp, ch) = RootsOf(sp, ch)
    BY <1>1 DEF RootsOf
  <1>3. Active(r, tp, ch, h)
    <2>1. ch # <<>> => tp[Last(ch)].pml4 = sp[Last(ch)].pml4
      <3>1. ch # <<>> => Last(ch) \in Range(ch)
        BY SeqRange
      <3> QED BY <1>1, <3>1
    <2> QED BY <2>1 DEF World, Active
  <1>4. ASSUME NEW t \in Range(ch)
        PROVE  Runs(n, t, tp[t])
    <2>1. CASE t # c
      <3> DEFINE q == sp[t].pml4
      <3>1. Kept(m, n, {q}) /\ Grown(m, n, q) /\ q \in {q}
        BY <2>1, SameIsGrown
      <3>2. Runs(n, t, sp[t])
        BY <3>1, RunsKept DEF World
      <3> QED BY <2>1, <3>2
    <2> QED BY <2>1
  <1> QED BY <1>1, <1>2, <1>3, <1>4 DEF World, Apart

LEMMA DivUp ==
    ASSUME NEW e \in Nat \ {0}, NEW x \in Nat, NEW y \in Nat, x <= y
    PROVE  x \div e <= y \div e
  <1> DEFINE q == x \div e
             r == y \div e
  <1>1. q \in Nat /\ x % e \in 0 .. e - 1 /\ x = q * e + (x % e)
    BY DivMod
  <1>2. r \in Nat /\ y % e \in 0 .. e - 1 /\ y = r * e + (y % e)
    BY DivMod
  <1> DEFINE a == x % e
             b == y % e
  <1> HIDE DEF q, r, a, b
  <1>3. a \in 0 .. e - 1 /\ b \in 0 .. e - 1 /\ x = q * e + a /\ y = r * e + b
    BY <1>1, <1>2 DEF a, b
  <1>4. SUFFICES ASSUME r < q PROVE FALSE
    BY <1>1, <1>2 DEF q, r
  <1>5. r * e + b < q * e
    BY <1>1, <1>2, <1>3, <1>4, Below
  <1>6. q * e \in Nat /\ r * e \in Nat
    BY <1>1, <1>2, Z3
  <1> QED BY <1>3, <1>5, <1>6

(* The running program, or the kernel for it, writes in a page of its own. *)
LEMMA WorldWrite ==
    ASSUME NEW m, NEW r, NEW sp, NEW ch \in Seq(Slots), NEW h, World(m, r, sp, ch, h), ch # <<>>,
           NEW a, IsUser(a), Mapped(m, r, a), NEW d, d = [u \in Units |-> d[u]],
           \A u \in Units : d[u] \in {Written(Last(ch)), m.data[walk(m, r, a)][u]},
           NEW n, n = data_set(m, walk(m, r, a), d)
    PROVE  World(n, r, sp, ch, h)
  <1> DEFINE R == RootsOf(sp, ch)
             f == walk(m, r, a)
             c == Last(ch)
  <1>1. c \in Range(ch) /\ r = sp[c].pml4 /\ Sound(m, R, {})
    BY SeqRange DEF World, Active
  <1>2. \A s \in Range(ch) : sp[s].pml4 \in R
    BY DEF RootsOf
  <1>3. r \in R /\ a \in Addresses /\ a[1] < Half
    BY <1>1, <1>2 DEF IsUser
  <1> HIDE DEF R, c
  <1>4. f \in Frames
    BY <1>1, <1>3, WalkFacts DEF Mapped
  <1>5. DataDone(m, n, R, {}, f, d)
    BY <1>1, <1>4, DataSet
  <1>6. \A q, b : walk(n, q, b) = walk(m, q, b)
    BY <1>5, WalkReads DEF DataDone
  <1>7. ASSUME NEW t \in Range(ch), t # c
        PROVE  Kept(m, n, {sp[t].pml4}) /\ UserSame(m, n, sp[t].pml4)
    <2> DEFINE q == sp[t].pml4
    <2>1. q \in R /\ q # r
      BY <1>1, <1>2, <1>7 DEF World, Apart
    <2> HIDE DEF q
    <2>2. ASSUME NEW b \in Addresses, Mapped(m, q, b)
          PROVE  n.data[walk(m, q, b)] = m.data[walk(m, q, b)]
      <3>1. walk(m, q, b) \in Frames
        BY <1>1, <2>1, <2>2, WalkFacts DEF Mapped
      <3>2. walk(m, q, b) # f
        <4> SUFFICES ASSUME walk(m, q, b) = f PROVE FALSE
          OBVIOUS
        <4>1. a = b /\ Holder(q, b[1]) = Holder(r, a[1])
          BY <1>1, <1>3, <2>1, WalkApart
        <4>2. a[1] \in Int /\ Half \in Int
          BY <1>3, AddressParts, SpaceConstants
        <4>3. ~(a[1] >= Half)
          BY <1>3, <4>2
        <4> QED BY <2>1, <4>1, <4>3 DEF Holder
      <3> QED BY <1>5, <3>1, <3>2 DEF DataDone
    <2>3. Kept(m, n, {q}) /\ UserSame(m, n, q)
      BY <1>6, <2>2 DEF Kept, UserSame
    <2> QED BY <2>3 DEF q
  <1>8. KernelMapped(n, h)
    BY <1>6 DEF World, KernelMapped, Mapped
  <1>9. Runs(n, c, sp[c])
    <2> DEFINE p == sp[c]
    <2>1. Runs(m, c, p)
      BY <1>1 DEF World
    <2>2. Clean(n, r, p.image, {Written(c)})
      <3> SUFFICES ASSUME NEW b, IsUser(b), Mapped(n, r, b), b \notin StrayPages(p.image),
                          NEW u \in Units
                   PROVE  n.data[walk(n, r, b)][u]
                            \in {Written(c)} \cup AtStart(p.image, Number(b) * PageUnits + u)
        BY DEF Clean
      <3> DEFINE A == AtStart(p.image, Number(b) * PageUnits + u)
      <3>1. walk(n, r, b) = walk(m, r, b) /\ Mapped(m, r, b) /\ b \in Addresses
        BY <1>6 DEF Mapped, IsUser
      <3>2. m.data[walk(m, r, b)][u] \in {Written(c)} \cup A
        BY <1>1, <2>1, <3>1 DEF Runs, Clean
      <3> HIDE DEF A
      <3>3. walk(m, r, b) \in Frames
        BY <1>1, <1>3, <3>1, WalkFacts DEF Mapped
      <3>4. CASE walk(m, r, b) = f
        <4>1. n.data[walk(n, r, b)][u] = d[u]
          BY <1>5, <3>1, <3>4 DEF DataDone
        <4>2. d[u] \in {Written(c), m.data[f][u]}
          BY DEF c
        <4>3. d[u] \in {Written(c)} \cup A
          BY <3>2, <3>4, <4>2
        <4> QED BY <4>1, <4>3 DEF A
      <3>5. CASE walk(m, r, b) # f
        <4>1. n.data[walk(n, r, b)] = m.data[walk(m, r, b)]
          BY <1>5, <3>1, <3>3, <3>5 DEF DataDone
        <4> QED BY <3>2, <4>1 DEF A
      <3> QED BY <3>4, <3>5
    <2> HIDE DEF p
    <2>3. r = p.pml4
      BY <1>1 DEF p
    <2>4. HasProgram(n, p.pml4, p.image)
      BY <1>6, <2>1 DEF Runs, HasProgram, Mapped
    <2>5. Runs(n, c, p)
      BY <1>6, <2>1, <2>2, <2>3, <2>4 DEF Runs, Mapped
    <2> QED BY <2>5 DEF p
  <1>10. Sound(n, R, {})
    BY <1>5 DEF DataDone
  <1> QED BY <1>1, <1>7, <1>8, <1>9, <1>10, WorldUser DEF R

-----------------------------------------------------------------------------
(* process_sbrk.                                                           *)

MemoryInv == EmptyInside /\ SpacesInv /\ World(mem, root, space, chain, heap_end)

(* What the space of the process that calls has after a call.              *)
SbrkDone(w, inc) ==
    /\ w.ok \in BOOLEAN /\ Sound(w.m, RootsOf(space, chain), {})
    /\ Kept(mem, w.m, RootsOf(space, chain))
    /\ \A q \in RootsOf(space, chain) : q # root => UserSame(mem, w.m, q)
    /\ Grown(mem, w.m, root)
    /\ w.ok => /\ inc \in Nat /\ space[current].brk + inc <= HeapPages * PageUnits
               /\ \A n \in 0 .. pages_of(space[current].brk + inc) - 1 :
                     Mapped(w.m, root, Page(HeapBase + n))

LEMMA SbrkSound ==
    ASSUME MemoryInv, chain # <<>>, NEW inc \in Int, NEW w, w = process_sbrk(inc)
    PROVE  SbrkDone(w, inc)
  <1> DEFINE R == RootsOf(space, chain)
             old == space[current].brk
  <1>1. /\ current \in Range(chain) /\ root = space[current].pml4 /\ Sound(mem, R, {})
        /\ Runs(mem, current, space[current])
    BY SeqRange DEF MemoryInv, SpacesInv, World, Active, current
  <1>2. root \in R
    BY <1>1 DEF RootsOf
  <1>3. /\ old \in Nat /\ old <= HeapPages * PageUnits
        /\ \A n \in 0 .. pages_of(old) - 1 : Mapped(mem, root, Page(HeapBase + n))
    BY <1>1 DEF Runs
  <1>4. HeapPages * PageUnits \in Nat
    BY HeapNumbers, UserConstants, Z3
  <1> DEFINE top == HeapPages * PageUnits
  <1> HIDE DEF R, old, top
  <1>5. CASE inc <= 0 \/ old + inc > top
    <2> DEFINE none == inc = 0
    <2>1. w = [m |-> mem, ok |-> none]
      BY <1>5 DEF process_sbrk, old, top
    <2>2. none \in BOOLEAN
      OBVIOUS
    <2>3. none => inc = 0
      OBVIOUS
    <2> HIDE DEF none
    <2>4. w.m = mem /\ w.ok = none
      BY <2>1
    <2>5. UserSame(mem, w.m, root) /\ Kept(mem, w.m, R) /\ \A q \in R : UserSame(mem, w.m, q)
      BY <2>4 DEF UserSame, Kept
    <2>6. Grown(mem, w.m, root)
      BY <2>5, SameIsGrown
    <2>7. w.ok => inc \in Nat /\ old + inc = old
      BY <1>3, <2>3, <2>4
    <2>8. w.ok => /\ inc \in Nat /\ old + inc <= top
                  /\ \A n \in 0 .. pages_of(old + inc) - 1 : Mapped(w.m, root, Page(HeapBase + n))
      BY <1>3, <2>4, <2>7 DEF top
    <2> QED BY <1>1, <2>2, <2>4, <2>5, <2>6, <2>8 DEF SbrkDone, R, old, top
  <1>6. CASE ~(inc <= 0 \/ old + inc > top)
    <2> DEFINE new == old + inc
               lo == pages_of(old)
               up == pages_of(new)
               pages == new_pages(old, new)
               part == [page \in Range(pages) |-> <<>>]
    <2>1. inc \in Nat /\ new \in Nat /\ new <= top
      BY <1>3, <1>4, <1>6 DEF top
    <2>2. /\ lo \in Nat /\ lo <= HeapPages /\ up \in Nat /\ up <= HeapPages
      BY <1>3, <2>1, PagesOf DEF top
    <2>3. lo <= up
      <3>1. PageUnits \in Nat \ {0}
        BY UserConstants
      <3>2. old + PageUnits - 1 \in Nat /\ new + PageUnits - 1 \in Nat
            /\ old + PageUnits - 1 <= new + PageUnits - 1
        BY <1>3, <2>1, <3>1
      <3> QED BY <3>1, <3>2, DivUp DEF pages_of
    <2>4. w = place_all(mem, root, pages, part)
      BY <1>6 DEF process_sbrk, old, top
    <2>5. pages = numbers(HeapBase + lo, up - lo)
      <3>1. \A k \in 1 .. up - lo : HeapBase + lo + k - 1 = (HeapBase + lo) + k - 1
        BY <2>2, HeapNumbers
      <3> QED BY <3>1 DEF new_pages, numbers
    <2> HIDE DEF new, lo, up
    <2>6. HeapBase + lo \in Nat /\ up - lo \in Nat
      BY <2>2, <2>3, HeapNumbers
    <2>7. Counts(pages, HeapBase + lo, up - lo)
      BY <2>5, <2>6, Counted
    <2> HIDE DEF pages
    <2>8. /\ Len(pages) = up - lo
          /\ \A l \in 1 .. up - lo : pages[l] = HeapBase + (lo + l - 1) /\ pages[l] \in Range(pages)
      <3>1. \A l \in 1 .. up - lo : pages[l] = HeapBase + lo + l - 1
        BY <2>7 DEF Counts
      <3>2. \A l \in 1 .. up - lo :
               /\ HeapBase + lo + l - 1 = HeapBase + (lo + l - 1)
               /\ HeapBase + lo + l - 1 \in HeapBase + lo .. HeapBase + lo + (up - lo) - 1
        BY <2>2, <2>3, HeapNumbers
      <3>3. \A l \in 1 .. up - lo : pages[l] \in Range(pages)
        BY <2>7, <3>1, <3>2 DEF Counts
      <3> QED BY <2>7, <3>1, <3>2, <3>3 DEF Counts
    <2>9. \A l \in 1 .. Len(pages) : IsUser(Page(pages[l])) /\ part[pages[l]] = <<>>
      <3>1. \A l \in 1 .. up - lo : lo + l - 1 \in 0 .. HeapPages - 1
        BY <2>2, <2>3, HeapNumbers
      <3> QED BY <2>8, <3>1, HeapNumbers
    <2> HIDE DEF part
    <2>10. DOMAIN <<>> = {}
      OBVIOUS
    <2>11. \A l \in 1 .. Len(pages) : /\ IsUser(Page(pages[l])) /\ DOMAIN part[pages[l]] \subseteq Units
                                      /\ Filled(part[pages[l]]) = Blank
      <3>1. Filled(<<>>) = Blank
        BY <2>10 DEF Filled, Blank
      <3> QED BY <2>9, <2>10, <3>1
    <2>12. Placed(mem, w, R, {}, root, pages, part, Len(pages))
      <3>1. Len(pages) \in Nat
        BY <2>6, <2>8
      <3> QED BY <1>1, <1>2, <2>4, <2>11, <3>1, PlaceAllSound
    <2>13. Grown(mem, w.m, root)
      <3> SUFFICES ASSUME NEW b, IsUser(b), Mapped(w.m, root, b)
                   PROVE  Mapped(mem, root, b) \/ w.m.data[walk(w.m, root, b)] = Blank
        BY DEF Grown
      <3>1. \/ walk(w.m, root, b) = walk(mem, root, b)
            \/ \E l \in 1 .. Len(pages) :
                  w.m.data[walk(w.m, root, b)] = Filled(part[pages[l]])
        BY <2>12 DEF Placed
      <3> QED BY <2>11, <3>1 DEF Mapped
    <2>14. /\ w.ok \in BOOLEAN /\ Sound(w.m, R, {}) /\ Kept(mem, w.m, R)
           /\ \A q \in R : q # root => UserSame(mem, w.m, q)
           /\ w.ok => \A l \in 1 .. up - lo : Mapped(w.m, root, Page(pages[l]))
      BY <2>8, <2>12 DEF Placed
    <2>15. ASSUME w.ok, NEW n \in 0 .. up - 1
           PROVE  Mapped(w.m, root, Page(HeapBase + n))
      <3>1. CASE n < lo
        <4> DEFINE a == Page(HeapBase + n)
        <4>1. n \in 0 .. lo - 1 /\ n \in 0 .. HeapPages - 1
          BY <2>2, <2>15, <3>1, HeapNumbers
        <4>2. Mapped(mem, root, a) /\ a \in Addresses
          BY <1>3, <4>1, HeapNumbers DEF lo, IsUser
        <4> HIDE DEF a
        <4>3. Mapped(w.m, root, a)
          BY <1>2, <2>14, <4>2 DEF Kept, Mapped
        <4> QED BY <4>3 DEF a
      <3>2. CASE ~(n < lo)
        <4>1. n - lo + 1 \in 1 .. up - lo /\ lo + (n - lo + 1) - 1 = n
          BY <2>2, <2>15, <3>2
        <4>2. pages[n - lo + 1] = HeapBase + n
          BY <2>8, <4>1
        <4> QED BY <2>14, <2>15, <4>1, <4>2
      <3> QED BY <3>1, <3>2
    <2>16. w.ok => /\ inc \in Nat /\ old + inc <= top
                   /\ \A n \in 0 .. pages_of(old + inc) - 1 : Mapped(w.m, root, Page(HeapBase + n))
      BY <2>1, <2>15 DEF new, up
    <2> QED BY <2>13, <2>14, <2>16 DEF SbrkDone, R, old, top
  <1> QED BY <1>5, <1>6

-----------------------------------------------------------------------------
(* Each action keeps the memory in order.                                  *)

LEMMA InitWorld == EmptyInside /\ Init => MemoryInv
  <1> SUFFICES ASSUME EmptyInside, Init PROVE MemoryInv
    OBVIOUS
  <1>1. SpacesInv
    <2>1. space = [s \in Slots |-> NoSpace] /\ chain = <<>>
      BY DEF Init
    <2>2. Packed(NoSpace)
      BY DEF Packed, NoSpace
    <2> QED BY <2>1, <2>2 DEF SpacesInv
  <1> DEFINE list == [k \in 1 .. TotalFrames |-> k]
             tab == [f \in Frames |-> NoTable]
             dat == [f \in Frames |-> [u \in Units |-> Junk]]
             own == [f \in Frames |-> IF f = KernelRoot THEN RootMark(KernelRoot) ELSE Free]
  <1>2. /\ mem = [free |-> list, table |-> tab, data |-> dat] /\ root = KernelRoot
        /\ chain = <<>> /\ heap_end = 0
    BY DEF Init
  <1>3. list \in Seq(Frames) /\ Len(list) = TotalFrames /\ \A k \in 1 .. TotalFrames : list[k] = k
    <2>1. TotalFrames \in Nat
      BY SpacesAssumption
    <2>2. \A k \in 1 .. TotalFrames : k \in Frames
      BY <2>1 DEF Frames
    <2> QED BY <2>1, <2>2
  <1>4. tab \in Tables
    BY DEF Tables, NoTable
  <1>5. dat = [f \in Frames |-> [u \in Units |-> dat[f][u]]]
    OBVIOUS
  <1>6. /\ \A f \in Frames : \A i \in Index : tab[f][i] = None
        /\ own[KernelRoot] = RootMark(KernelRoot)
        /\ \A f \in Frames : f # KernelRoot => own[f] = Free
    BY SpaceConstants DEF NoTable
  <1> HIDE DEF list, tab, dat, own
  <1>7. mem.free = list /\ mem.table = tab /\ mem.data = dat
    BY <1>2
  <1>8. IsMem(mem)
    BY <1>2, <1>3, <1>4, <1>5, <1>7 DEF IsMem
  <1>9. Listed(mem.free, own)
    <2>1. \A k \in 1 .. TotalFrames : list[k] = k /\ k \in Frames /\ k # KernelRoot
      BY <1>3, SpacesAssumption DEF Frames, KernelRoot
    <2> QED BY <1>3, <1>6, <1>7, <2>1 DEF Listed
  <1>10. Owned(mem.table, {KernelRoot}, own)
    <2>1. \A i \in Index : mem.table[KernelRoot][i] = None
      BY <1>6, <1>7, SpaceConstants
    <2> QED BY <1>6, <2>1 DEF Owned
  <1>11. Tidy(mem, {KernelRoot}, {}, own)
    BY <1>9, <1>10 DEF Tidy
  <1>12. Sound(mem, {KernelRoot}, {})
    BY <1>8, <1>11, SpaceConstants DEF Sound
  <1>13. Range(chain) = {}
    BY <1>2 DEF Range
  <1>14. RootsOf(space, chain) = {KernelRoot}
    BY <1>13 DEF RootsOf
  <1>15. KernelMapped(mem, heap_end)
    BY <1>2, KernelPageFacts DEF KernelMapped
  <1>16. Active(root, space, chain, heap_end) /\ Apart(space, chain)
    BY <1>2, <1>13 DEF Active, Apart
  <1>17. World(mem, root, space, chain, heap_end)
    BY <1>12, <1>13, <1>14, <1>15, <1>16 DEF World
  <1> QED BY <1>1, <1>17 DEF MemoryInv

(* The kernel heap grows in the space that is active.                      *)
LEMMA GrowWorld ==
    ASSUME MemoryInv, NEW n \in Nat, NEW w, w = expand_heap(mem, root, n)
    PROVE  /\ w.ok \in BOOLEAN
           /\ World(w.m, root, space, chain, heap_end)
           /\ w.ok => World(w.m, root, space, chain, heap_end + n)
  <1> DEFINE R == RootsOf(space, chain)
  <1>1. /\ Sound(mem, R, {}) /\ heap_end \in Nat /\ KernelMapped(mem, heap_end)
        /\ World(mem, root, space, chain, heap_end) /\ KernelRoot \in R
    BY DEF MemoryInv, World, KernelMapped, RootsOf
  <1>2. root \in R /\ (R = {KernelRoot} \/ mem.table[root][KernelTop] # None)
    <2>1. CASE chain = <<>>
      <3>1. Range(chain) = {}
        BY <2>1, SeqRange DEF MemoryInv, SpacesInv
      <3>2. R = {KernelRoot} /\ root = KernelRoot
        BY <1>1, <2>1, <3>1 DEF RootsOf, World, Active
      <3> QED BY <3>2
    <2>2. CASE chain # <<>>
      <3>1. Last(chain) \in Range(chain) /\ root = space[Last(chain)].pml4 /\ heap_end > 0
        BY <1>1, <2>2, SeqRange DEF MemoryInv, SpacesInv, World, Active
      <3>2. root \in R
        BY <3>1 DEF RootsOf
      <3>3. 0 \in 0 .. heap_end - 1 /\ 0 \in 0 .. KernelPages - 1
        BY <1>1, <3>1, KernelPageFacts DEF KernelMapped
      <3> DEFINE a == KernelPage(0)
      <3>4. a \in Addresses /\ a[1] = KernelTop /\ a[1] >= Half /\ Mapped(mem, KernelRoot, a)
        BY <1>1, <3>3, KernelPageFacts DEF KernelMapped
      <3> HIDE DEF a, R
      <3>5. walk(mem, root, a) = walk(mem, KernelRoot, a)
        BY <1>1, <3>2, <3>4, WalkFacts
      <3>6. Mapped(mem, root, a)
        BY <3>4, <3>5 DEF Mapped
      <3>7. mem.table[root][a[1]] # None
        BY <1>1, <3>2, <3>4, <3>6, WalkFacts
      <3> QED BY <3>2, <3>4, <3>7
    <2> QED BY <2>1, <2>2
  <1> HIDE DEF R
  <1>3. /\ w.ok \in BOOLEAN /\ Sound(w.m, R, {}) /\ Kern(mem, w.m, R)
        /\ w.ok => /\ heap_end + n <= KernelPages
                   /\ \A j \in heap_end .. heap_end + n - 1 : Mapped(w.m, root, KernelPage(j))
    BY <1>1, <1>2, ExpandSound
  <1>4. Quiet(mem, w.m, R)
    BY <1>3 DEF Kern, Quiet, Kept, UserSame, IsUser
  <1>5. KernelMapped(w.m, heap_end)
    BY <1>1, <1>4, KernelKept DEF Quiet
  <1>6. World(w.m, root, space, chain, heap_end)
    BY <1>1, <1>3, <1>4, <1>5, WorldQuiet DEF R
  <1>7. ASSUME w.ok
        PROVE  World(w.m, root, space, chain, heap_end + n)
    <2> DEFINE h == heap_end + n
    <2>1. h \in Nat /\ h <= KernelPages /\ heap_end <= h
      BY <1>1, <1>3, <1>7
    <2>2. ASSUME NEW j \in 0 .. h - 1
          PROVE  Mapped(w.m, KernelRoot, KernelPage(j))
      <3>1. CASE j \in 0 .. heap_end - 1
        BY <1>5, <3>1 DEF KernelMapped
      <3>2. CASE j \notin 0 .. heap_end - 1
        <4> DEFINE a == KernelPage(j)
        <4>1. j \in heap_end .. heap_end + n - 1 /\ j \in 0 .. KernelPages - 1
          BY <1>1, <2>1, <2>2, <3>2, KernelPageFacts
        <4>2. a \in Addresses /\ a[1] >= Half /\ Mapped(w.m, root, a)
          BY <1>3, <1>7, <4>1, KernelPageFacts
        <4> HIDE DEF a
        <4>3. walk(w.m, root, a) = walk(w.m, KernelRoot, a)
          BY <1>2, <1>3, <4>2, WalkFacts
        <4>4. Mapped(w.m, KernelRoot, a)
          BY <4>2, <4>3 DEF Mapped
        <4> QED BY <4>4 DEF a
      <3> QED BY <3>1, <3>2
    <2> HIDE DEF h
    <2>3. KernelMapped(w.m, h)
      BY <2>1, <2>2 DEF KernelMapped
    <2>4. World(w.m, root, space, chain, h)
      BY <1>1, <1>3, <1>4, <2>1, <2>3, WorldQuiet DEF R
    <2> QED BY <2>4 DEF h
  <1> QED BY <1>3, <1>6, <1>7

LEMMA RunWorld ==
    ASSUME MemoryInv, RunProgram
    PROVE  World(mem', root', space', chain', heap_end')
  <1>1. PICK img \in Images, n \in Growth :
          needs(n) /\ Launch(expand_heap(mem, root, n), img, n)
    BY DEF RunProgram
  <1> DEFINE grow == expand_heap(mem, root, n)
  <1>2. n \in Nat
    BY SpacesAssumption
  <1>3. /\ grow.ok \in BOOLEAN
        /\ World(grow.m, root, space, chain, heap_end)
        /\ grow.ok => World(grow.m, root, space, chain, heap_end + n)
    BY <1>2, GrowWorld
  <1>4. Launch(grow, img, n)
    BY <1>1
  <1>5. heap_end \in Nat /\ chain \in Seq(Slots)
    BY DEF MemoryInv, World, KernelMapped, SpacesInv
  <1>6. heap_end + n > 0
    <2>1. heap_end = 0 => n > 0
      BY <1>1 DEF needs
    <2> QED BY <1>2, <1>5, <2>1
  <1> HIDE DEF grow
  <1>7. CASE ~grow.ok /\ Refuse(grow.m) /\ UNCHANGED heap_end
    BY <1>3, <1>7 DEF Refuse
  <1>8. CASE grow.ok /\ FreeSlots = {} /\ Refuse(grow.m) /\ heap_end' = heap_end + n
    BY <1>3, <1>8 DEF Refuse
  <1>9. CASE /\ grow.ok /\ FreeSlots # {} /\ Enter(load_user_image(grow.m, img))
             /\ heap_end' = heap_end + n
    <2> DEFINE w == load_user_image(grow.m, img)
               m == grow.m
               h == heap_end + n
               R == RootsOf(space, chain)
    <2>1. World(m, root, space, chain, h)
      BY <1>3, <1>9
    <2>2. root \in R
      <3>1. CASE chain = <<>>
        BY <2>1, <3>1 DEF World, Active, RootsOf
      <3>2. CASE chain # <<>>
        <4>1. Last(chain) \in Range(chain) /\ root = space[Last(chain)].pml4
          BY <1>5, <2>1, <3>2, SeqRange DEF World, Active
        <4> QED BY <4>1 DEF RootsOf
      <3> QED BY <3>1, <3>2
    <2>3. Enter(w) /\ heap_end' = h
      BY <1>9
    <2> HIDE DEF h, m
    <2>4. Sound(m, R, {})
      BY <2>1 DEF World
    <2>5. w = load_user_image(m, img)
      BY DEF m
    <2> HIDE DEF R, w
    <2>6. LoadDone(m, w, R, img)
      BY <2>2, <2>4, <2>5, LoadSound DEF MemoryInv
    <2>7. CASE ~w.ok
      <3>1. mem' = w.m /\ chain' = chain /\ space' = space /\ root' = root
        BY <2>3, <2>7 DEF Enter
      <3>2. Sound(w.m, R, {}) /\ Quiet(m, w.m, R)
        BY <2>6 DEF LoadDone
      <3>3. KernelMapped(w.m, h) /\ h \in Nat
        <4>1. KernelMapped(m, h) /\ KernelRoot \in R
          BY <2>1 DEF World, RootsOf, R
        <4> QED BY <3>2, <4>1, KernelKept DEF Quiet, KernelMapped
      <3>4. h <= h
        BY <3>3
      <3>5. World(w.m, root, space, chain, h)
        BY <2>1, <3>2, <3>3, <3>4, WorldQuiet DEF R
      <3> QED BY <2>3, <3>1, <3>5
    <2>8. CASE w.ok
      <3> DEFINE s == Min(FreeSlots)
                 q == [NoSpace EXCEPT !.pml4 = w.root, !.image = w.image]
      <3>1. /\ mem' = w.m /\ chain' = Append(chain, s) /\ space' = [space EXCEPT ![s] = q]
            /\ root' = w.root
        BY <2>3, <2>8 DEF Enter
      <3>2. s \in Slots /\ s \notin Range(chain)
        <4>1. FreeSlots \in SUBSET Nat /\ FreeSlots # {}
          BY <1>9 DEF FreeSlots, Slots
        <4>2. s \in FreeSlots
          BY <4>1, MinIsLeast
        <4> HIDE DEF s
        <4> QED BY <4>2 DEF FreeSlots
      <3>3. q.pml4 = w.root /\ q.image = img /\ q.brk = 0
        BY <2>6 DEF NoSpace, LoadDone
      <3> HIDE DEF s, q
      <3> DEFINE tp == space'
      <3>4. space = [t \in Slots |-> space[t]]
        BY DEF MemoryInv, SpacesInv
      <3>5. Range(chain) \subseteq Slots
        BY <1>5, SeqRange
      <3>6. tp[s] = q /\ \A t \in Range(chain) : tp[t] = space[t]
        BY <3>1, <3>2, <3>4, <3>5
      <3> HIDE DEF tp
      <3>7. h > 0
        BY <1>6 DEF h
      <3>8. World(w.m, w.root, tp, Append(chain, s), h)
        <4>1. LoadDone(m, w, RootsOf(space, chain), img)
          BY <2>6 DEF R
        <4>2. tp[s].pml4 = w.root /\ tp[s].image = img /\ tp[s].brk = 0
          BY <3>3, <3>6
        <4> QED BY <1>5, <2>1, <2>8, <3>2, <3>6, <3>7, <4>1, <4>2, WorldEnter
      <3> QED BY <2>3, <3>1, <3>8 DEF tp
    <2> QED BY <2>6, <2>7, <2>8 DEF LoadDone
  <1> QED BY <1>4, <1>7, <1>8, <1>9 DEF Launch

(* tp has the records of the slots, of which the current one's break may   *)
(* have moved.                                                             *)
Moved(tp, brk) ==
    /\ tp[current].pml4 = space[current].pml4 /\ tp[current].image = space[current].image
    /\ tp[current].brk = brk /\ \A t \in Range(chain) : t # current => tp[t] = space[t]

LEMMA SbrkWorld ==
    ASSUME MemoryInv, chain # <<>>, NEW inc, NEW w, SbrkDone(w, inc), NEW tp, NEW brk,
           Moved(tp, brk), brk = IF w.ok THEN space[current].brk + inc ELSE space[current].brk
    PROVE  World(w.m, root, tp, chain, heap_end)
  <1> DEFINE R == RootsOf(space, chain)
             p == space[current]
  <1>1. /\ current \in Range(chain) /\ root = p.pml4 /\ Runs(mem, current, p)
        /\ chain \in Seq(Slots) /\ World(mem, root, space, chain, heap_end)
    BY SeqRange DEF MemoryInv, SpacesInv, World, Active, current
  <1>2. /\ w.ok \in BOOLEAN /\ Sound(w.m, R, {}) /\ Kept(mem, w.m, R) /\ Grown(mem, w.m, root)
        /\ \A q \in R : q # root => UserSame(mem, w.m, q)
    BY DEF SbrkDone
  <1>3. KernelRoot \in R /\ \A t \in Range(chain) : space[t].pml4 \in R
    BY DEF RootsOf
  <1>4. KernelMapped(w.m, heap_end)
    BY <1>1, <1>2, <1>3, KernelKept DEF World
  <1>5. Runs(w.m, current, p)
    BY <1>1, <1>2, <1>3, RunsKept
  <1>6. Runs(w.m, current, tp[current])
    <2> DEFINE q == tp[current]
    <2>1. q.pml4 = p.pml4 /\ q.image = p.image /\ q.brk = brk
      BY DEF Moved
    <2>2. p.brk \in Nat
      BY <1>1 DEF Runs
    <2> HIDE DEF q
    <2>3. CASE w.ok
      <3>1. /\ brk = p.brk + inc /\ inc \in Nat /\ brk <= HeapPages * PageUnits
            /\ \A n \in 0 .. pages_of(brk) - 1 : Mapped(w.m, root, Page(HeapBase + n))
        BY <2>3 DEF SbrkDone
      <3>2. brk \in Nat
        BY <2>2, <3>1
      <3> HIDE DEF p
      <3>3. Runs(w.m, current, q)
        BY <1>1, <1>5, <2>1, <3>1, <3>2 DEF Runs
      <3> QED BY <3>3 DEF q
    <2>4. CASE ~w.ok
      <3>1. brk = p.brk
        BY <2>4
      <3> HIDE DEF p
      <3>2. Runs(w.m, current, q)
        BY <1>1, <1>5, <2>1, <3>1 DEF Runs
      <3> QED BY <3>2 DEF q
    <2> QED BY <1>2, <2>3, <2>4
  <1>7. ASSUME NEW t \in Range(chain), t # current
        PROVE  Kept(mem, w.m, {space[t].pml4}) /\ UserSame(mem, w.m, space[t].pml4)
    <2> DEFINE q == space[t].pml4
    <2>1. q \in R /\ q # root
      BY <1>1, <1>3, <1>7 DEF World, Apart
    <2> HIDE DEF q, R
    <2>2. Kept(mem, w.m, {q}) /\ UserSame(mem, w.m, q)
      BY <1>2, <2>1 DEF Kept
    <2> QED BY <2>2 DEF q
  <1>8. tp[current].pml4 = space[current].pml4 /\ \A t \in Range(chain) : t # current => tp[t] = space[t]
    BY DEF Moved
  <1> HIDE DEF p
  <1> QED BY <1>1, <1>2, <1>4, <1>6, <1>7, <1>8, WorldUser

LEMMA SbrkStep ==
    ASSUME MemoryInv, Sbrk
    PROVE  World(mem', root', space', chain', heap_end')
  <1>1. PICK inc \in Increments :
          /\ chain # <<>> /\ mem' = process_sbrk(inc).m
          /\ space' = IF process_sbrk(inc).ok
                      THEN [space EXCEPT ![current].brk = @ + inc] ELSE space
          /\ root' = root /\ chain' = chain /\ heap_end' = heap_end
    BY DEF Sbrk
  <1> DEFINE w == process_sbrk(inc)
             brk == IF w.ok THEN space[current].brk + inc ELSE space[current].brk
             tp == space'
  <1>2. inc \in Int
    OBVIOUS
  <1>3. SbrkDone(w, inc)
    BY <1>1, <1>2, SbrkSound
  <1>4. current \in Slots /\ Packed(space[current]) /\ space = [s \in Slots |-> space[s]]
        /\ Range(chain) \subseteq Slots
    BY <1>1, CurrentSlot, SeqRange DEF MemoryInv, SpacesInv
  <1>5. space' = IF w.ok THEN [space EXCEPT ![current].brk = @ + inc] ELSE space
    BY <1>1
  <1> HIDE DEF w
  <1>6. Moved(tp, brk)
    BY <1>4, <1>5 DEF Moved, Packed
  <1> HIDE DEF tp
  <1>7. World(w.m, root, tp, chain, heap_end)
    BY <1>1, <1>3, <1>6, SbrkWorld
  <1> QED BY <1>1, <1>7 DEF tp, w

LEMMA MallocStep ==
    ASSUME MemoryInv, Malloc
    PROVE  World(mem', root', space', chain', heap_end')
  <1>1. PICK size \in Requests :
          /\ chain # <<>>
          /\ IF process_sbrk(signed(total(size))).ok
             THEN /\ mem' = write_header(process_sbrk(signed(total(size))).m, space[current].brk)
                  /\ space' = [space EXCEPT ![current].brk = @ + total(size),
                                ![current].blocks =
                                  Append(@, [at |-> space[current].brk + HeaderUnits,
                                             size |-> aligned(size), asked |-> size])]
             ELSE mem' = process_sbrk(signed(total(size))).m /\ space' = space
          /\ root' = root /\ chain' = chain /\ heap_end' = heap_end
    BY DEF Malloc
  <1> DEFINE inc == signed(total(size))
             w == process_sbrk(inc)
             old == space[current].brk
             brk == IF w.ok THEN old + inc ELSE old
             tp == space'
  <1>2. inc \in Int /\ (w.ok => inc = total(size)) /\ total(size) \in Nat \ {0}
    <2>1. total(size) \in Nat \ {0} /\ Word \in Nat
      BY AlignedFits
    <2> QED BY <2>1, MallocAsks DEF signed
  <1>3. SbrkDone(w, inc)
    BY <1>1, <1>2, SbrkSound
  <1>4. current \in Slots /\ Packed(space[current]) /\ space = [s \in Slots |-> space[s]]
        /\ Range(chain) \subseteq Slots /\ chain \in Seq(Slots)
    BY <1>1, CurrentSlot, SeqRange DEF MemoryInv, SpacesInv
  <1>5. IF w.ok
        THEN /\ mem' = write_header(w.m, old)
             /\ space' = [space EXCEPT ![current].brk = @ + inc,
                           ![current].blocks =
                             Append(@, [at |-> old + HeaderUnits,
                                        size |-> aligned(size), asked |-> size])]
        ELSE mem' = w.m /\ space' = space
    BY <1>1, <1>2
  <1> HIDE DEF w, inc
  <1>6. Moved(tp, brk)
    BY <1>4, <1>5 DEF Moved, Packed
  <1> HIDE DEF tp
  <1>7. World(w.m, root, tp, chain, heap_end)
    BY <1>1, <1>3, <1>6, SbrkWorld
  <1>8. CASE ~w.ok
    BY <1>1, <1>5, <1>7, <1>8 DEF tp
  <1>9. CASE w.ok
    <2> DEFINE k == old \div PageUnits
               a == Page(HeapBase + k)
               m == w.m
               f == walk(m, root, a)
               d == [m.data[f] EXCEPT ![old % PageUnits] = Written(current)]
    <2>0. current = Last(chain)
      BY DEF current
    <2>1. old \in Nat /\ brk = old + inc
      BY <1>4, <1>9 DEF Packed
    <2>2. /\ brk <= HeapPages * PageUnits
          /\ \A n \in 0 .. pages_of(brk) - 1 : Mapped(m, root, Page(HeapBase + n))
      BY <1>3, <1>9 DEF SbrkDone
    <2> HIDE DEF brk, old
    <2>3. brk \in Nat /\ old \in 0 .. brk - 1
      BY <1>2, <1>9, <2>1
    <2>4. k \in 0 .. pages_of(brk) - 1 /\ pages_of(brk) \in Nat /\ pages_of(brk) <= HeapPages
      BY <2>2, <2>3, PagesOf
    <2>5. k \in 0 .. HeapPages - 1
      BY <2>4, HeapNumbers
    <2> HIDE DEF k
    <2>6. IsUser(a) /\ Mapped(m, root, a)
      BY <2>2, <2>4, <2>5, HeapNumbers
    <2>7. Sound(m, RootsOf(tp, chain), {}) /\ root \in RootsOf(tp, chain)
      <3>1. Last(chain) \in Range(chain) /\ root = tp[Last(chain)].pml4
        BY <1>1, <1>4, <1>7, SeqRange DEF World, Active
      <3> QED BY <1>7, <3>1 DEF World, RootsOf
    <2>8. f \in Frames
      <3> HIDE DEF a, m
      <3>1. a \in Addresses
        BY <2>6 DEF IsUser
      <3>2. f \in Frames \cup {None}
        BY <2>7, <3>1, WalkFacts
      <3> QED BY <2>6, <3>2 DEF Mapped
    <2> HIDE DEF a, m
    <2>9. m.data[f] = [u \in Units |-> m.data[f][u]]
      BY <2>7, <2>8 DEF Sound, IsMem
    <2>10. mem' = [m EXCEPT !.data[f][old % PageUnits] = Written(current)]
      BY <1>5, <1>9 DEF write_header, a, k, m
    <2>11. mem' = data_set(m, f, d)
      BY <2>10 DEF data_set
    <2> HIDE DEF f
    <2>12. d = [u \in Units |-> d[u]] /\ \A u \in Units : d[u] \in {Written(current), m.data[f][u]}
      BY <2>9
    <2> HIDE DEF d
    <2>13. World(mem', root, tp, chain, heap_end)
      BY <1>1, <1>4, <1>7, <2>0, <2>6, <2>11, <2>12, WorldWrite DEF f, m
    <2> QED BY <1>1, <2>13 DEF tp
  <1>10. w.ok \in BOOLEAN
    BY <1>3 DEF SbrkDone
  <1> QED BY <1>8, <1>9, <1>10

LEMMA UserPage ==
    ASSUME NEW r, NEW a \in UserPages(r)
    PROVE  IsUser(a) /\ Mapped(mem, r, a)
  <1>1. a \in (0 .. Half - 1) \X Index /\ Mapped(mem, r, a)
    BY DEF UserPages
  <1>2. Half \in Nat /\ Half <= Entries /\ Entries \in Nat
    BY UserConstants
  <1>3. \A i \in 0 .. Half - 1 : i \in Index /\ i < Half
    BY <1>2 DEF Index
  <1>4. a \in Addresses /\ a[1] < Half
    BY <1>1, <1>3 DEF Addresses
  <1> QED BY <1>1, <1>4 DEF IsUser

LEMMA WriteStep ==
    ASSUME MemoryInv, WriteUser
    PROVE  World(mem', root', space', chain', heap_end')
  <1>1. /\ chain # <<>> /\ UNCHANGED <<root, space, chain, heap_end>> /\ current = Last(chain)
    BY DEF WriteUser, current
  <1>2. PICK a \in UserPages(root) :
          mem' = [mem EXCEPT !.data[walk(mem, root, a)] = [u \in Units |-> Written(current)]]
    BY DEF WriteUser
  <1> DEFINE d == [u \in Units |-> Written(current)]
  <1>3. mem' = data_set(mem, walk(mem, root, a), d)
    BY <1>2 DEF data_set
  <1>4. d = [u \in Units |-> d[u]]
        /\ \A u \in Units : d[u] \in {Written(Last(chain)), mem.data[walk(mem, root, a)][u]}
    BY <1>1
  <1>5. IsUser(a) /\ Mapped(mem, root, a)
    BY UserPage
  <1> HIDE DEF d
  <1>6. chain \in Seq(Slots) /\ World(mem, root, space, chain, heap_end)
    BY DEF MemoryInv, SpacesInv
  <1>7. World(mem', root, space, chain, heap_end)
    BY <1>1, <1>3, <1>4, <1>5, <1>6, WorldWrite
  <1> QED BY <1>1, <1>7

LEMMA MemoryStep == MemoryInv /\ [Next]_vars => MemoryInv'
  <1> SUFFICES ASSUME MemoryInv, [Next]_vars PROVE MemoryInv'
    OBVIOUS
  <1>1. SpacesInv'
    BY SpacesStep DEF MemoryInv
  <1>2. World(mem', root', space', chain', heap_end')
    <2>1. CASE RunProgram
      BY <2>1, RunWorld
    <2>2. CASE Exit
      <3>1. /\ Len(chain) > 1 /\ chain' = Front(chain) /\ mem' = mem /\ space' = space
            /\ root' = space[Last(Front(chain))].pml4 /\ heap_end' = heap_end
        BY <2>2 DEF Exit
      <3>2. chain \in Seq(Slots) /\ World(mem, root, space, chain, heap_end)
        BY DEF MemoryInv, SpacesInv
      <3>3. World(mem, space[Last(Front(chain))].pml4, space, Front(chain), heap_end)
        BY <3>1, <3>2, WorldExit
      <3> QED BY <3>1, <3>3
    <2>3. CASE Sbrk
      BY <2>3, SbrkStep
    <2>4. CASE Malloc
      BY <2>4, MallocStep
    <2>5. CASE WriteUser
      BY <2>5, WriteStep
    <2>6. CASE UNCHANGED vars
      BY <2>6 DEF vars, MemoryInv
    <2> QED BY <2>1, <2>2, <2>3, <2>4, <2>5, <2>6 DEF Next
  <1> QED BY <1>1, <1>2 DEF MemoryInv, EmptyInside

-----------------------------------------------------------------------------
(* What follows for every run.                                             *)

LEMMA MemoryAlways == EmptyInside /\ Spec => []MemoryInv
  BY InitWorld, MemoryStep, PTL DEF Spec

(* The three kinds of places, and the mark of the frame in each.           *)
LEMMA PlaceMarks ==
    ASSUME MemoryInv, NEW own, Tidy(mem, Roots, {}, own), NEW p \in Places
    PROVE  \/ \E r : p = <<"root", r>> /\ own[FrameAt(p)] = RootMark(r)
           \/ \E r, i : p = <<"table", <<r, i>>>> /\ own[FrameAt(p)] = TableMark(r, i)
           \/ \E r, i, j : /\ p = <<"page", <<<<r, i>>, j>>>>
                           /\ own[FrameAt(p)] = PageMark(r, i, j)
  <1> DEFINE tab == mem.table
  <1>0. Owned(tab, Roots, own)
    BY DEF Tidy
  <1>1. CASE p \in {<<"root", r>> : r \in Roots}
    <2>1. PICK r \in Roots : p = <<"root", r>>
      BY <1>1
    <2>2. FrameAt(p) = r
      BY <2>1 DEF FrameAt
    <2> QED BY <1>0, <2>1, <2>2 DEF Owned
  <1>2. ASSUME NEW t \in TablePlaces
        PROVE  \E r \in Roots, i \in Index : t = <<r, i>> /\ tab[r][i] # None /\ Holder(r, i) = r
    <2>1. /\ t \in Roots \X Index /\ tab[t[1]][t[2]] # None
          /\ t[2] >= Half => t[1] = KernelRoot
      BY DEF TablePlaces
    <2>2. t[1] \in Roots /\ t[2] \in Index /\ t = <<t[1], t[2]>>
      BY <2>1
    <2>3. Holder(t[1], t[2]) = t[1]
      BY <2>1 DEF Holder
    <2> QED BY <2>1, <2>2, <2>3
  <1>3. CASE p \in {<<"table", t>> : t \in TablePlaces}
    <2>1. PICK t \in TablePlaces : p = <<"table", t>>
      BY <1>3
    <2>2. PICK r \in Roots, i \in Index : t = <<r, i>> /\ tab[r][i] # None /\ Holder(r, i) = r
      BY <1>2
    <2>3. FrameAt(p) = tab[r][i]
      BY <2>1, <2>2 DEF FrameAt
    <2>4. own[tab[r][i]] = TableMark(r, i)
      BY <1>0, <2>2 DEF Owned
    <2> QED BY <2>1, <2>2, <2>3, <2>4
  <1>4. CASE p \in {<<"page", t>> : t \in PagePlaces}
    <2>1. PICK x \in PagePlaces : p = <<"page", x>>
      BY <1>4
    <2>2. x \in TablePlaces \X Index /\ tab[tab[x[1][1]][x[1][2]]][x[2]] # None
      BY DEF PagePlaces
    <2>3. x[1] \in TablePlaces /\ x[2] \in Index /\ x = <<x[1], x[2]>>
      BY <2>2
    <2>4. PICK r \in Roots, i \in Index : x[1] = <<r, i>> /\ tab[r][i] # None /\ Holder(r, i) = r
      BY <1>2, <2>3
    <2> DEFINE j == x[2]
    <2>5. tab[tab[r][i]][j] # None
      BY <2>2, <2>4
    <2>6. p = <<"page", <<<<r, i>>, j>>>>
      BY <2>1, <2>3, <2>4
    <2> HIDE DEF j
    <2>7. FrameAt(p) = tab[tab[r][i]][j]
      BY <2>6 DEF FrameAt
    <2>8. own[tab[tab[r][i]][j]] = PageMark(r, i, j)
      BY <1>0, <2>3, <2>4, <2>5 DEF Owned, j
    <2> QED BY <2>6, <2>7, <2>8
  <1> QED BY <1>1, <1>3, <1>4 DEF Places

(* pmm_alloc_page, map_page and what undoes them never let a frame of the  *)
(* page tables be in two places or be free, whatever failed half way, for  *)
(* any number of frames, processes and sizes of tables.  Of the files it   *)
(* takes that their empty segments are inside the addresses of programs.   *)
THEOREM EveryFrameOwnedOnce == EmptyInside /\ Spec => []FramesOwnedOnce
  <1>1. MemoryInv => FramesOwnedOnce
    <2> SUFFICES ASSUME MemoryInv PROVE FramesOwnedOnce
      OBVIOUS
    <2>1. Sound(mem, Roots, {})
      BY DEF MemoryInv, World, RootsOf, Roots
    <2>2. PICK own : Tidy(mem, Roots, {}, own)
      BY <2>1 DEF Sound
    <2>3. ASSUME NEW p \in Places, NEW q \in Places, FrameAt(p) = FrameAt(q)
          PROVE  p = q
      <3> DEFINE x == own[FrameAt(p)]
      <3>1. \/ \E r : p = <<"root", r>> /\ x = RootMark(r)
            \/ \E r, i : p = <<"table", <<r, i>>>> /\ x = TableMark(r, i)
            \/ \E r, i, j : p = <<"page", <<<<r, i>>, j>>>> /\ x = PageMark(r, i, j)
        BY <2>2, PlaceMarks
      <3>2. \/ \E r : q = <<"root", r>> /\ x = RootMark(r)
            \/ \E r, i : q = <<"table", <<r, i>>>> /\ x = TableMark(r, i)
            \/ \E r, i, j : q = <<"page", <<<<r, i>>, j>>>> /\ x = PageMark(r, i, j)
        BY <2>2, <2>3, PlaceMarks
      <3> HIDE DEF x
      <3> QED BY <3>1, <3>2, MarksDiffer
    <2>4. ASSUME NEW p \in Places
          PROVE  FrameAt(p) \notin Range(mem.free)
      <3>1. own[FrameAt(p)] # Free
        BY <2>2, PlaceMarks, MarksDiffer
      <3>2. \A x \in Range(mem.free) : own[x] = Free
        <4>1. mem.free \in Seq(Frames)
          BY <2>1 DEF Sound, IsMem
        <4>2. DOMAIN mem.free = 1 .. Len(mem.free)
          BY <4>1
        <4> QED BY <2>2, <4>2 DEF Range, Tidy, Listed
      <3> QED BY <3>1, <3>2
    <2> QED BY <2>3, <2>4 DEF FramesOwnedOnce
  <1> QED BY <1>1, MemoryAlways, PTL

(* expand_heap maps the new pages in whichever space is active, and        *)
(* vmm_create_address_space copies the kernel's half once: the pages of    *)
(* the kernel heap are the same in all spaces all the same, because the    *)
(* heap is never empty when the first space is made.  Of the files it      *)
(* takes that their empty segments are inside the addresses of programs.   *)
THEOREM KernelHeapIsShared == EmptyInside /\ Spec => []KernelHeapEverywhere
  <1>1. MemoryInv => KernelHeapEverywhere
    <2> SUFFICES ASSUME MemoryInv, NEW n \in 0 .. heap_end - 1
                 PROVE  /\ Mapped(mem, KernelRoot, KernelPage(n))
                        /\ \A r \in Roots :
                              walk(mem, r, KernelPage(n)) = walk(mem, KernelRoot, KernelPage(n))
      BY DEF KernelHeapEverywhere
    <2>1. Sound(mem, Roots, {}) /\ KernelMapped(mem, heap_end)
      BY DEF MemoryInv, World, RootsOf, Roots
    <2>2. n \in 0 .. KernelPages - 1 /\ Mapped(mem, KernelRoot, KernelPage(n))
      BY <2>1, KernelPageFacts DEF KernelMapped
    <2>3. KernelPage(n) \in Addresses /\ KernelPage(n)[1] >= Half
      BY <2>2, KernelPageFacts
    <2> QED BY <2>1, <2>2, <2>3, WalkFacts
  <1> QED BY <1>1, MemoryAlways, PTL

(* load_segment_page, process_sbrk and the stack clear every page before   *)
(* they map it, and no page is in two spaces: a program reads its file,    *)
(* zeros and what it wrote, however the frames were used before.  Of the   *)
(* files it takes that their empty segments are inside the addresses of    *)
(* programs; the pages in which empty segments begin are the exception     *)
(* OwnData states.                                                         *)
THEOREM MemoryIsOwnData == EmptyInside /\ Spec => []OwnData
  <1>1. MemoryInv => OwnData
    <2> SUFFICES ASSUME MemoryInv, NEW s \in Range(chain), NEW a \in UserPages(space[s].pml4),
                        a \notin StrayPages(space[s].image), NEW u \in Units
                 PROVE  mem.data[walk(mem, space[s].pml4, a)][u]
                          \in {Written(s)} \cup AtStart(space[s].image, Number(a) * PageUnits + u)
      BY DEF OwnData
    <2>1. Clean(mem, space[s].pml4, space[s].image, {Written(s)})
      BY DEF MemoryInv, World, Runs
    <2>2. IsUser(a) /\ Mapped(mem, space[s].pml4, a)
      BY UserPage
    <2> QED BY <2>1, <2>2 DEF Clean
  <1> QED BY <1>1, MemoryAlways, PTL

(* A process that runs or waits has its entry point, its stack, every unit *)
(* of its segments and its heap up to the break mapped, for every file     *)
(* elf64_validate_user_image lets through whose empty segments are inside  *)
(* the addresses of programs, and every sequence of calls.                 *)
THEOREM PromisesAreKept == EmptyInside /\ Spec => []PromisedIsMapped
  <1>1. MemoryInv => PromisedIsMapped
    <2> SUFFICES ASSUME MemoryInv, NEW s \in Range(chain)
                 PROVE  LET there(n) == Mapped(mem, space[s].pml4, Page(n))
                            e == Program[space[s].image]
                        IN  /\ there(Number(StackPage)) /\ there(e.entry \div PageUnits)
                            /\ \A ph \in Loadable(e) :
                                  \A x \in ph.vaddr .. ph.vaddr + ph.memsz - 1 : there(x \div PageUnits)
                            /\ \A n \in 0 .. pages_of(space[s].brk) - 1 : there(HeapBase + n)
      BY DEF PromisedIsMapped
    <2> DEFINE img == space[s].image
               r == space[s].pml4
               there(n) == Mapped(mem, r, Page(n))
    <2>1. /\ img \in Images /\ elf64_validate_user_image(Program[img])
          /\ Mapped(mem, r, StackPage) /\ HasProgram(mem, r, img)
          /\ \A n \in 0 .. pages_of(space[s].brk) - 1 : there(HeapBase + n)
      BY DEF MemoryInv, World, Runs
    <2>2. there(Number(StackPage))
      <3>1. IsUser(StackPage)
        BY SpaceConstants DEF IsUser, Addresses
      <3> QED BY <2>1, <3>1, NumberOfPage
    <2> HIDE DEF img, r
    <2>3. \A ph \in Loadable(Program[img]) :
             \A x \in ph.vaddr .. ph.vaddr + ph.memsz - 1 : there(x \div PageUnits)
      BY <2>1 DEF HasProgram
    <2>4. there(Program[img].entry \div PageUnits)
      <3> DEFINE x == Program[img].entry
      <3>1. PICK ph \in Loadable(Program[img]) : x >= ph.vaddr /\ x < ph.vaddr + ph.memsz
        BY <2>1 DEF elf64_validate_user_image
      <3>2. ph \in Range(Program[img].phdrs) /\ ph.load
        BY DEF Loadable
      <3>3. ph.vaddr \in Nat /\ ph.memsz \in Nat
        BY <2>1, <3>2, SegmentFits DEF Fits, Loadable
      <3>4. x \in Int
        BY <2>1, ElfAssumption
      <3> HIDE DEF x
      <3>5. x \in ph.vaddr .. ph.vaddr + ph.memsz - 1
        BY <3>1, <3>3, <3>4
      <3> QED BY <2>3, <3>5 DEF x
    <2> QED BY <2>1, <2>2, <2>3, <2>4 DEF img, r
  <1> QED BY <1>1, MemoryAlways, PTL

=============================================================================
