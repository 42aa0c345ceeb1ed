-------------------------- MODULE KernelHeap_proofs --------------------------
(***************************************************************************)
(* Proofs about KernelHeap, for every heap size, page size, chunk size,    *)
(* number of frames and set of requests.                                   *)
(*                                                                         *)
(* Each operation on the list of blocks is first reduced to what it does   *)
(* to every single block (Split, Merged, Appended); the invariants are     *)
(* then shown from that, and the allocator's calls are built from the      *)
(* three.                                                                  *)
(***************************************************************************)
EXTENDS KernelHeap, IndexLemmas

USE UnitsAssumption DEF NULL

-----------------------------------------------------------------------------
(* Arithmetic.                                                             *)

LEMMA MulDiv ==
    ASSUME NEW p \in Nat \ {0}, NEW k \in Nat
    PROVE  (k * p) \div p = k
  BY Z3

LEMMA DivBounds ==
    ASSUME NEW p \in Nat \ {0}, NEW x \in Nat
    PROVE  x \div p \in Nat /\ (x \div p) * p <= x /\ x < (x \div p) * p + p
  BY Z3

LEMMA Times ==
    ASSUME NEW p \in Nat, NEW k \in Nat, NEW j \in Nat
    PROVE  /\ k * p \in Nat /\ (k + j) * p = k * p + j * p
           /\ k * (j * p) = (k * j) * p /\ k * j \in Nat
  BY Z3

LEMMA Cancel ==
    ASSUME NEW p \in Nat \ {0}, NEW k \in Nat, NEW j \in Nat
    PROVE  (k * p <= j * p <=> k <= j) /\ (k * p < j * p <=> k < j)
  BY Z3

(* A request is rounded to a positive number of units, an expansion to     *)
(* whole pages that hold the request and its header.                       *)
LEMMA UnitsPositive ==
    ASSUME NEW size \in Nat \ {0}
    PROVE  units(size) \in Nat \ {0}
  <1> DEFINE q == (size + Align - 1) \div Align
  <1>1. q \in Nat /\ size + Align - 1 < q * Align + Align
    <2>1. size + Align - 1 \in Nat
      OBVIOUS
    <2> QED BY <2>1, DivBounds
  <1>2. q # 0
    BY <1>1
  <1>3. units(size) = (q * Align) \div Align
    BY DEF units, align_up
  <1> HIDE DEF q
  <1>4. (q * Align) \div Align = q
    BY <1>1, MulDiv
  <1> QED BY <1>1, <1>2, <1>3, <1>4

LEMMA ExpandBytes ==
    ASSUME NEW n \in Nat \ {0}
    PROVE  /\ expand_bytes(n) \in Nat /\ expand_bytes(n) >= n + Overhead
           /\ \E k \in Nat : expand_bytes(n) = k * PageUnits
  <1> DEFINE x == n + Overhead
             c == ChunkPages * PageUnits
             q == (x + c - 1) \div c
  <1>1. c \in Nat \ {0} /\ x \in Nat
    BY Z3
  <1>2. expand_bytes(n) = q * c
    BY DEF expand_bytes, align_up, Chunk
  <1> HIDE DEF x, c
  <1>3. q \in Nat /\ x + c - 1 < q * c + c
    <2>1. x + c - 1 \in Nat
      BY <1>1
    <2> QED BY <1>1, <2>1, DivBounds
  <1> HIDE DEF q
  <1>4. q * c \in Nat /\ q * c >= x
    BY <1>1, <1>3, Times
  <1>5. q * ChunkPages \in Nat /\ q * c = (q * ChunkPages) * PageUnits
    BY <1>3, Times DEF c
  <1> QED BY <1>2, <1>4, <1>5 DEF x

-----------------------------------------------------------------------------
(* Lists of blocks.                                                        *)

Links == Nat \cup {NULL}
Headers == [use : {"free", "used"}, size : Nat \ {0}, prev : Links, next : Links]

IsHeap(h) ==
    /\ h = [blocks |-> h.blocks, first |-> h.first, last |-> h.last,
            allocated |-> h.allocated]
    /\ Blocks(h) \subseteq Nat
    /\ h.blocks \in [Blocks(h) -> Headers]

(* A well-formed list that tiles the heap up to end.                       *)
Good(h, end) ==
    /\ IsHeap(h) /\ TiledBy(h, end) /\ end \in Nat
    /\ \A b \in Blocks(h) : BlockEnd(h.blocks, b) <= end

(* Nothing of c changes from h to r, its predecessor aside.                *)
SameBlock(h, r, c) ==
    /\ r.blocks[c].use = h.blocks[c].use
    /\ r.blocks[c].size = h.blocks[c].size
    /\ r.blocks[c].next = h.blocks[c].next

resized(hdr, size, next) == [hdr EXCEPT !.size = size, !.next = next]

LEMMA Resized ==
    ASSUME NEW hdr \in Headers, NEW size \in Nat \ {0}, NEW next \in Links
    PROVE  /\ resized(hdr, size, next) \in Headers
           /\ resized(hdr, size, next).use = hdr.use
           /\ resized(hdr, size, next).prev = hdr.prev
           /\ resized(hdr, size, next).size = size
           /\ resized(hdr, size, next).next = next
  BY DEF Headers, resized

(* s is h with block b cut to n units and a free block of the rest.        *)
Split(h, s, b, n) ==
    LET cut == b + Overhead + n
    IN  /\ IsHeap(s) /\ Blocks(s) = Blocks(h) \cup {cut}
        /\ s.first = h.first
        /\ s.last = IF h.blocks[b].next = NULL THEN cut ELSE h.last
        /\ s.blocks[cut].use = "free"
        /\ s.blocks[cut].size = h.blocks[b].size - n - Overhead
        /\ s.blocks[cut].prev = b
        /\ s.blocks[cut].next = h.blocks[b].next
        /\ s.blocks[b].use = h.blocks[b].use
        /\ s.blocks[b].size = n
        /\ s.blocks[b].prev = h.blocks[b].prev
        /\ s.blocks[b].next = cut
        /\ \A c \in Blocks(h) \ {b} :
              /\ SameBlock(h, s, c)
              /\ s.blocks[c].prev = IF c = h.blocks[b].next THEN cut ELSE h.blocks[c].prev

LEMMA SplitEffect ==
    ASSUME NEW h, NEW end, Good(h, end), NEW b \in Blocks(h), NEW n \in Nat \ {0},
           h.blocks[b].size >= n + Overhead + 1
    PROVE  Split(h, split_block(h, b, n), b, n) /\ b + Overhead + n \notin Blocks(h)
  <1> DEFINE cut == b + Overhead + n
             next == h.blocks[b].next
             bs == h.blocks
             hdr == Header("free", bs[b].size - n - Overhead, b, next)
             linked == SetPrev(bs, next, cut)
             shorter == [linked EXCEPT ![b].size = n, ![b].next = cut]
             new == Put(shorter, cut, hdr)
             s == split_block(h, b, n)
  <1>0. /\ IsHeap(h) /\ Blocks(h) = DOMAIN bs /\ b \in Nat /\ bs \in [DOMAIN bs -> Headers]
        /\ bs[b] \in Headers /\ DOMAIN bs \subseteq Nat
    BY DEF Good, IsHeap, Blocks
  <1>1. s = [h EXCEPT !.blocks = new, !.last = IF next = NULL THEN cut ELSE h.last]
    BY <1>0 DEF split_block, Headers
  <1>2. next = NULL \/ (next \in DOMAIN bs /\ next # b)
    <2>1. next # NULL => next \in DOMAIN bs /\ next = BlockEnd(bs, b)
      BY <1>0 DEF Good, TiledBy
    <2> QED BY <1>0, <2>1 DEF BlockEnd, Headers
  <1>3. cut \in Nat /\ cut # b
    BY <1>0
  <1>4. cut \notin DOMAIN bs
    <2>1. b < cut /\ cut < BlockEnd(bs, b)
      BY <1>0 DEF BlockEnd, Headers
    <2>2. cut \in DOMAIN bs => BlockEnd(bs, b) <= cut
      BY <1>0, <2>1 DEF Good, TiledBy
    <2>3. BlockEnd(bs, b) \in Nat
      BY <1>0 DEF BlockEnd, Headers
    <2> QED BY <1>3, <2>1, <2>2, <2>3
  <1>5. /\ linked \in [DOMAIN bs -> Headers]
        /\ \A c \in DOMAIN bs : /\ SameBlock([blocks |-> bs], [blocks |-> linked], c)
                                /\ linked[c].prev = IF c = next THEN cut ELSE bs[c].prev
    <2>1. CASE next = NULL
      BY <1>0, <2>1 DEF SetPrev, SameBlock
    <2>2. CASE next # NULL
      BY <1>0, <1>2, <1>3, <2>2 DEF SetPrev, SameBlock, Headers, Links
    <2> QED BY <2>1, <2>2
  <1> HIDE DEF linked
  <1>6. /\ shorter \in [DOMAIN bs -> Headers]
        /\ \A c \in DOMAIN bs \ {b} : shorter[c] = linked[c]
        /\ shorter[b].use = linked[b].use /\ shorter[b].prev = linked[b].prev
        /\ shorter[b].size = n /\ shorter[b].next = cut
    <2>1. /\ DOMAIN shorter = DOMAIN bs
          /\ \A c \in DOMAIN bs \ {b} : shorter[c] = linked[c]
          /\ shorter[b] = resized(linked[b], n, cut)
      BY <1>0, <1>5 DEF resized
    <2>2. linked[b] \in Headers /\ cut \in Links
      BY <1>0, <1>3, <1>5 DEF Links
    <2>3. shorter = [c \in DOMAIN bs |-> shorter[c]]
      BY <1>5
    <2> HIDE DEF shorter
    <2>4. /\ shorter[b] \in Headers
          /\ shorter[b].use = linked[b].use /\ shorter[b].prev = linked[b].prev
          /\ shorter[b].size = n /\ shorter[b].next = cut
      BY <2>1, <2>2, Resized
    <2>5. \A c \in DOMAIN bs : shorter[c] \in Headers
      BY <1>5, <2>1, <2>4
    <2> QED BY <2>1, <2>3, <2>4, <2>5
  <1> HIDE DEF shorter
  <1>7. hdr \in Headers
    BY <1>0 DEF Header, Headers, Links
  <1>8. /\ DOMAIN new = DOMAIN bs \cup {cut} /\ new \in [DOMAIN new -> Headers]
        /\ new[cut] = hdr /\ \A c \in DOMAIN bs : new[c] = shorter[c]
    BY <1>4, <1>6, <1>7 DEF Put
  <1> HIDE DEF new
  <1>9. /\ s.blocks = new /\ s.first = h.first
        /\ s.last = IF next = NULL THEN cut ELSE h.last
        /\ s = [blocks |-> s.blocks, first |-> s.first, last |-> s.last,
                allocated |-> s.allocated]
    BY <1>0, <1>1 DEF IsHeap
  <1> HIDE DEF s
  <1>10. IsHeap(s) /\ Blocks(s) = Blocks(h) \cup {cut}
    BY <1>0, <1>3, <1>8, <1>9 DEF IsHeap, Blocks
  <1>11. \A c \in Blocks(h) \ {b} :
            /\ SameBlock(h, s, c)
            /\ s.blocks[c].prev = IF c = next THEN cut ELSE h.blocks[c].prev
    BY <1>0, <1>5, <1>6, <1>8, <1>9 DEF SameBlock
  <1>12. /\ s.blocks[b].use = bs[b].use /\ s.blocks[b].size = n
         /\ s.blocks[b].prev = bs[b].prev /\ s.blocks[b].next = cut
    BY <1>0, <1>2, <1>5, <1>6, <1>8, <1>9 DEF SameBlock
  <1>13. s.blocks[cut] = hdr
    BY <1>8, <1>9
  <1> QED BY <1>0, <1>4, <1>9, <1>10, <1>11, <1>12, <1>13 DEF Split, s, Header

(* What every block of a tiled list looks like.                            *)
LEMMA BlockFacts ==
    ASSUME NEW h, NEW end, Good(h, end), NEW b \in Blocks(h)
    PROVE  /\ b \in Nat /\ h.blocks[b].size \in Nat \ {0} /\ h.blocks[b] \in Headers
           /\ BlockEnd(h.blocks, b) \in Nat /\ BlockEnd(h.blocks, b) <= end
           /\ BlockEnd(h.blocks, b) = b + Overhead + h.blocks[b].size
           /\ IF b = h.last THEN h.blocks[b].next = NULL /\ BlockEnd(h.blocks, b) = end
              ELSE /\ h.blocks[b].next = BlockEnd(h.blocks, b)
                   /\ h.blocks[b].next \in Blocks(h) \ {b, 0}
                   /\ h.blocks[h.blocks[b].next].prev = b
           /\ IF b = 0 THEN h.blocks[b].prev = NULL
              ELSE /\ h.blocks[b].prev \in Blocks(h) \ {b}
                   /\ h.blocks[h.blocks[b].prev].next = b
           /\ \A c \in Blocks(h) : b < c => BlockEnd(h.blocks, b) <= c
           /\ h.last \in Blocks(h) /\ h.last # NULL /\ 0 \in Blocks(h) /\ h.first = 0
  <1>1. /\ b \in Nat /\ h.blocks[b] \in Headers /\ h.blocks[b].size \in Nat \ {0}
        /\ Blocks(h) \subseteq Nat
    BY DEF Good, IsHeap, Headers
  <1>2. /\ BlockEnd(h.blocks, b) = b + Overhead + h.blocks[b].size
        /\ BlockEnd(h.blocks, b) \in Nat /\ BlockEnd(h.blocks, b) > b
    BY <1>1 DEF BlockEnd
  <1>3. h.last \in Blocks(h) /\ h.last \in Nat /\ 0 \in Blocks(h) /\ h.first = 0
    BY <1>1 DEF Good, TiledBy
  <1>4. \A c \in Blocks(h) : b < c => BlockEnd(h.blocks, b) <= c
    BY DEF Good, TiledBy
  <1>5. BlockEnd(h.blocks, b) <= end
    BY DEF Good
  <1>6. /\ IF b = h.last THEN h.blocks[b].next = NULL /\ BlockEnd(h.blocks, b) = end
           ELSE /\ h.blocks[b].next = BlockEnd(h.blocks, b)
                /\ h.blocks[b].next \in Blocks(h)
                /\ h.blocks[h.blocks[b].next].prev = b
        /\ IF b = 0 THEN h.blocks[b].prev = NULL
           ELSE /\ h.blocks[b].prev \in Blocks(h)
                /\ h.blocks[h.blocks[b].prev].next = b
    BY DEF Good, TiledBy
  <1>7. b # h.last => h.blocks[b].next \in Blocks(h) \ {b, 0}
    BY <1>1, <1>2, <1>6
  <1>8. b # 0 => h.blocks[b].prev # b
    <2>1. SUFFICES ASSUME b # 0, h.blocks[b].prev = b PROVE FALSE
      OBVIOUS
    <2>2. h.blocks[b].next = b
      BY <1>6, <2>1
    <2> QED BY <1>1, <1>2, <1>6, <2>2
  <1> QED BY <1>1, <1>2, <1>3, <1>4, <1>5, <1>6, <1>7, <1>8

(* The conditions on one block of a tiled list.                            *)
Linked(h, end, b) ==
    /\ IF b = h.last
       THEN h.blocks[b].next = NULL /\ BlockEnd(h.blocks, b) = end
       ELSE /\ h.blocks[b].next = BlockEnd(h.blocks, b)
            /\ h.blocks[b].next \in Blocks(h)
            /\ h.blocks[h.blocks[b].next].prev = b
    /\ IF b = 0
       THEN h.blocks[b].prev = NULL
       ELSE /\ h.blocks[b].prev \in Blocks(h)
            /\ h.blocks[h.blocks[b].prev].next = b
    /\ \A c \in Blocks(h) : b < c => BlockEnd(h.blocks, b) <= c
    /\ BlockEnd(h.blocks, b) <= end

LEMMA GoodIf ==
    ASSUME NEW h, NEW end \in Nat, IsHeap(h), h.first = 0, 0 \in Blocks(h), h.last \in Blocks(h),
           \A b \in Blocks(h) : Linked(h, end, b)
    PROVE  Good(h, end)
  <1>1. \A b \in Blocks(h) : Linked(h, end, b) <=> 
           /\ IF b = h.last
              THEN h.blocks[b].next = NULL /\ BlockEnd(h.blocks, b) = end
              ELSE /\ h.blocks[b].next = BlockEnd(h.blocks, b)
                   /\ h.blocks[b].next \in Blocks(h)
                   /\ h.blocks[h.blocks[b].next].prev = b
           /\ IF b = 0
              THEN h.blocks[b].prev = NULL
              ELSE /\ h.blocks[b].prev \in Blocks(h)
                   /\ h.blocks[h.blocks[b].prev].next = b
           /\ \A c \in Blocks(h) : b < c => BlockEnd(h.blocks, b) <= c
           /\ BlockEnd(h.blocks, b) <= end
    BY DEF Linked
  <1>2. TiledBy(h, end)
    BY <1>1, Zenon DEF TiledBy
  <1> QED BY <1>1, <1>2 DEF Good

LEMMA SplitGood ==
    ASSUME NEW h, NEW end, NEW s, NEW b \in Blocks(h), NEW n \in Nat \ {0}, Good(h, end),
           Split(h, s, b, n), b + Overhead + n \notin Blocks(h),
           h.blocks[b].size >= n + Overhead + 1
    PROVE  Good(s, end)
  <1> DEFINE cut == b + Overhead + n
             next == h.blocks[b].next
  <1>1. /\ IsHeap(s) /\ Blocks(s) = Blocks(h) \cup {cut} /\ s.first = h.first
        /\ s.last = IF next = NULL THEN cut ELSE h.last
        /\ s.blocks[cut].size = h.blocks[b].size - n - Overhead
        /\ s.blocks[cut].prev = b /\ s.blocks[cut].next = next
        /\ s.blocks[b].size = n /\ s.blocks[b].prev = h.blocks[b].prev
        /\ s.blocks[b].next = cut
    BY DEF Split
  <1>2. \A c \in Blocks(h) \ {b} :
           /\ s.blocks[c].size = h.blocks[c].size /\ s.blocks[c].next = h.blocks[c].next
           /\ s.blocks[c].prev = IF c = next THEN cut ELSE h.blocks[c].prev
    BY DEF Split, SameBlock
  <1>3. /\ b \in Nat /\ h.blocks[b].size \in Nat /\ end \in Nat /\ cut \in Nat /\ cut > b
        /\ cut # 0 /\ cut # b /\ cut \notin Blocks(h)
    BY BlockFacts DEF Good
  <1>4. /\ BlockEnd(h.blocks, b) = b + Overhead + h.blocks[b].size
        /\ BlockEnd(h.blocks, b) \in Nat /\ BlockEnd(h.blocks, b) <= end
        /\ (next = NULL <=> b = h.last) /\ next # b /\ next # 0 /\ next # cut
        /\ (next # NULL => next \in Blocks(h) /\ next = BlockEnd(h.blocks, b))
        /\ 0 \in Blocks(h) /\ h.first = 0 /\ h.last \in Blocks(h)
    BY <1>3, BlockFacts
  <1>5. /\ BlockEnd(s.blocks, cut) = BlockEnd(h.blocks, b)
        /\ BlockEnd(s.blocks, b) = cut
        /\ \A c \in Blocks(h) \ {b} : BlockEnd(s.blocks, c) = BlockEnd(h.blocks, c)
    BY <1>1, <1>2, <1>3, <1>4 DEF BlockEnd
  <1>6. \A c \in Blocks(h) \ {b} : /\ c \in Nat /\ (c < b => BlockEnd(h.blocks, c) <= b)
                                   /\ (c > b => BlockEnd(h.blocks, b) <= c)
                                   /\ BlockEnd(h.blocks, c) \in Nat
    BY <1>3, BlockFacts
  <1>7. cut < BlockEnd(h.blocks, b)
    BY <1>3, <1>4
  <1> HIDE DEF cut, next
  <1>8. ASSUME NEW c \in Blocks(h) \ {b}
        PROVE  Linked(s, end, c)
    <2>1. /\ IF c = h.last THEN h.blocks[c].next = NULL /\ BlockEnd(h.blocks, c) = end
             ELSE /\ h.blocks[c].next = BlockEnd(h.blocks, c)
                  /\ h.blocks[c].next \in Blocks(h) \ {c, 0}
                  /\ h.blocks[h.blocks[c].next].prev = c
          /\ IF c = 0 THEN h.blocks[c].prev = NULL
             ELSE /\ h.blocks[c].prev \in Blocks(h) \ {c}
                  /\ h.blocks[h.blocks[c].prev].next = c
          /\ \A d \in Blocks(h) : c < d => BlockEnd(h.blocks, c) <= d
          /\ BlockEnd(h.blocks, c) <= end
      BY BlockFacts
    <2>2. IF c = s.last
          THEN s.blocks[c].next = NULL /\ BlockEnd(s.blocks, c) = end
          ELSE /\ s.blocks[c].next = BlockEnd(s.blocks, c)
               /\ s.blocks[c].next \in Blocks(s)
               /\ s.blocks[s.blocks[c].next].prev = c
      <3>1. CASE c = h.last
        <4>1. c = s.last
          BY <1>1, <1>3, <1>4, <3>1
        <4> QED BY <1>2, <1>5, <2>1, <3>1, <4>1
      <3>2. CASE c # h.last
        <4>1. c # s.last
          BY <1>1, <1>3, <3>2
        <4> DEFINE d == h.blocks[c].next
        <4>2. d \in Blocks(h) /\ h.blocks[d].prev = c /\ s.blocks[c].next = d
          BY <1>2, <2>1, <3>2
        <4> HIDE DEF d
        <4>3. d # next
          <5>1. next # NULL => h.blocks[next].prev = b
            BY <1>4, BlockFacts DEF next
          <5>2. d \in Nat
            BY <4>2 DEF Good, IsHeap
          <5> QED BY <4>2, <5>1, <5>2
        <4>4. s.blocks[d].prev = c
          BY <1>1, <1>2, <4>2, <4>3
        <4> QED BY <1>1, <1>2, <1>5, <2>1, <3>2, <4>1, <4>2, <4>4 DEF d
      <3> QED BY <3>1, <3>2
    <2>3. IF c = 0 THEN s.blocks[c].prev = NULL
          ELSE /\ s.blocks[c].prev \in Blocks(s)
               /\ s.blocks[s.blocks[c].prev].next = c
      <3>1. CASE c = next
        BY <1>1, <1>2, <1>4, <3>1
      <3>2. CASE c # next
        <4>1. s.blocks[c].prev = h.blocks[c].prev
          BY <1>2, <3>2
        <4>2. CASE c = 0
          BY <2>1, <4>1, <4>2
        <4>3. CASE c # 0
          <5> DEFINE d == h.blocks[c].prev
          <5>1. d \in Blocks(h) /\ h.blocks[d].next = c
            BY <2>1, <4>3
          <5>2. d # b
            BY <3>2, <5>1 DEF next
          <5> HIDE DEF d
          <5>3. s.blocks[d].next = c
            BY <1>2, <5>1, <5>2
          <5> QED BY <1>1, <4>1, <4>3, <5>1, <5>3 DEF d
        <4> QED BY <4>2, <4>3
      <3> QED BY <3>1, <3>2
    <2>4. ASSUME NEW d \in Blocks(s), c < d
          PROVE  BlockEnd(s.blocks, c) <= d
      <3>1. CASE d \in Blocks(h)
        BY <1>5, <2>1, <2>4, <3>1
      <3>2. CASE d = cut
        <4>1. c < b
          BY <1>3, <1>4, <1>6, <1>7, <2>4, <3>2
        <4> QED BY <1>3, <1>5, <1>6, <3>2, <4>1
      <3> QED BY <1>1, <3>1, <3>2
    <2> QED BY <1>5, <2>1, <2>2, <2>3, <2>4 DEF Linked
  <1>9. Linked(s, end, b)
    <2>1. b # s.last
      BY <1>1, <1>3, <1>4
    <2>2. IF b = 0 THEN s.blocks[b].prev = NULL
          ELSE /\ s.blocks[b].prev \in Blocks(s)
               /\ s.blocks[s.blocks[b].prev].next = b
      <3>1. CASE b = 0
        BY <1>1, <3>1, BlockFacts
      <3>2. CASE b # 0
        <4> DEFINE d == h.blocks[b].prev
        <4>1. d \in Blocks(h) \ {b} /\ h.blocks[d].next = b
          BY <3>2, BlockFacts
        <4> HIDE DEF d
        <4>2. s.blocks[d].next = b
          BY <1>2, <4>1
        <4> QED BY <1>1, <3>2, <4>1, <4>2 DEF d
      <3> QED BY <3>1, <3>2
    <2>3. \A d \in Blocks(s) : b < d => cut <= d
      BY <1>1, <1>3, <1>4, <1>6, <1>7
    <2> QED BY <1>1, <1>3, <1>4, <1>5, <1>7, <2>1, <2>2, <2>3 DEF Linked
  <1>10. Linked(s, end, cut)
    <2>1. IF cut = s.last
          THEN s.blocks[cut].next = NULL /\ BlockEnd(s.blocks, cut) = end
          ELSE /\ s.blocks[cut].next = BlockEnd(s.blocks, cut)
               /\ s.blocks[cut].next \in Blocks(s)
               /\ s.blocks[s.blocks[cut].next].prev = cut
      <3>1. CASE next = NULL
        <4>1. BlockEnd(h.blocks, b) = end
          BY <1>4, <3>1, BlockFacts
        <4> QED BY <1>1, <1>5, <3>1, <4>1
      <3>2. CASE next # NULL
        BY <1>1, <1>2, <1>3, <1>4, <1>5, <3>2
      <3> QED BY <3>1, <3>2
    <2>2. ASSUME NEW d \in Blocks(s), cut < d
          PROVE  BlockEnd(s.blocks, cut) <= d
      <3>1. d \in Blocks(h) \ {b} /\ d \in Nat
        BY <1>1, <1>3, <1>6, <2>2
      <3>2. d > b
        BY <1>3, <2>2, <3>1
      <3> QED BY <1>5, <1>6, <3>1, <3>2
    <2> QED BY <1>1, <1>3, <1>4, <1>5, <2>1, <2>2 DEF Linked
  <1>11. s.last \in Blocks(s)
    BY <1>1, <1>4
  <1> QED BY <1>1, <1>3, <1>4, <1>8, <1>9, <1>10, <1>11, GoodIf

-----------------------------------------------------------------------------
(* Joining two blocks.                                                     *)

(* r is h with the block after b joined to b.                              *)
Merged(h, r, b) ==
    LET next == h.blocks[b].next
        after == h.blocks[next].next
    IN  /\ IsHeap(r) /\ Blocks(r) = Blocks(h) \ {next}
        /\ r.first = h.first
        /\ r.last = IF after = NULL THEN b ELSE h.last
        /\ r.blocks[b].use = h.blocks[b].use
        /\ r.blocks[b].size = h.blocks[b].size + Overhead + h.blocks[next].size
        /\ r.blocks[b].prev = h.blocks[b].prev
        /\ r.blocks[b].next = after
        /\ \A c \in Blocks(h) \ {b, next} :
              /\ SameBlock(h, r, c)
              /\ r.blocks[c].prev = IF c = after THEN b ELSE h.blocks[c].prev

LEMMA MergeEffect ==
    ASSUME NEW h, NEW end, Good(h, end), NEW b \in Blocks(h), h.blocks[b].next # NULL,
           h.blocks[h.blocks[b].next].use # "used"
    PROVE  Merged(h, coalesce_with_next(h, b), b)
  <1> DEFINE bs == h.blocks
             next == bs[b].next
             after == bs[next].next
             linked == SetPrev(bs, after, b)
             longer == [linked EXCEPT ![b].size = @ + Overhead + bs[next].size, ![b].next = after]
             new == Restrict(longer, DOMAIN bs \ {next})
             r == coalesce_with_next(h, b)
  <1>0. /\ IsHeap(h) /\ Blocks(h) = DOMAIN bs /\ b \in Nat /\ bs \in [DOMAIN bs -> Headers]
        /\ bs[b] \in Headers /\ DOMAIN bs \subseteq Nat
    BY DEF Good, IsHeap, Blocks
  <1>1. r = [h EXCEPT !.blocks = new, !.last = IF after = NULL THEN b ELSE h.last]
    BY DEF coalesce_with_next
  <1>2. next \in DOMAIN bs /\ next # b /\ bs[next] \in Headers
    BY <1>0, BlockFacts
  <1>3. after = NULL \/ (after \in DOMAIN bs /\ after # next)
    BY <1>0, <1>2, BlockFacts
  <1>4. after # b
    <2>1. next = BlockEnd(bs, b) /\ next > b
      BY <1>0, <1>2, BlockFacts
    <2>2. after # NULL => after > next
      BY <1>0, <1>2, BlockFacts
    <2> QED BY <1>0, <1>2, <2>1, <2>2
  <1>5. /\ linked \in [DOMAIN bs -> Headers]
        /\ \A c \in DOMAIN bs : /\ SameBlock([blocks |-> bs], [blocks |-> linked], c)
                                /\ linked[c].prev = IF c = after THEN b ELSE bs[c].prev
    <2>1. CASE after = NULL
      BY <1>0, <2>1 DEF SetPrev, SameBlock
    <2>2. CASE after # NULL
      BY <1>0, <1>3, <2>2 DEF SetPrev, SameBlock, Headers, Links
    <2> QED BY <2>1, <2>2
  <1> DEFINE size == bs[b].size + Overhead + bs[next].size
  <1>6. size \in Nat \ {0} /\ after \in Links
    BY <1>0, <1>2 DEF Headers
  <1> HIDE DEF linked
  <1>7. linked[b].size = bs[b].size /\ linked[b] \in Headers
    BY <1>0, <1>5 DEF SameBlock
  <1>8. /\ longer \in [DOMAIN bs -> Headers]
        /\ \A c \in DOMAIN bs \ {b} : longer[c] = linked[c]
        /\ longer[b].use = linked[b].use /\ longer[b].prev = linked[b].prev
        /\ longer[b].size = size /\ longer[b].next = after
    <2>1. /\ DOMAIN longer = DOMAIN bs
          /\ \A c \in DOMAIN bs \ {b} : longer[c] = linked[c]
          /\ longer[b] = resized(linked[b], size, after)
      BY <1>0, <1>5, <1>7 DEF resized
    <2>2. longer = [c \in DOMAIN bs |-> longer[c]]
      BY <1>5
    <2> HIDE DEF longer, size, after
    <2>3. /\ longer[b] \in Headers
          /\ longer[b].use = linked[b].use /\ longer[b].prev = linked[b].prev
          /\ longer[b].size = size /\ longer[b].next = after
      BY <1>6, <1>7, <2>1, Resized
    <2>4. \A c \in DOMAIN bs : longer[c] \in Headers
      BY <1>5, <2>1, <2>3
    <2> QED BY <2>1, <2>2, <2>3, <2>4
  <1> HIDE DEF longer
  <1>9. /\ DOMAIN new = DOMAIN bs \ {next} /\ new \in [DOMAIN new -> Headers]
        /\ \A c \in DOMAIN bs \ {next} : new[c] = longer[c]
    BY <1>8 DEF Restrict
  <1> HIDE DEF new
  <1>10. /\ r.blocks = new /\ r.first = h.first
         /\ r.last = IF after = NULL THEN b ELSE h.last
         /\ r = [blocks |-> r.blocks, first |-> r.first, last |-> r.last,
                 allocated |-> r.allocated]
    BY <1>0, <1>1 DEF IsHeap
  <1> HIDE DEF r
  <1>11. IsHeap(r) /\ Blocks(r) = Blocks(h) \ {next}
    BY <1>0, <1>9, <1>10 DEF IsHeap, Blocks
  <1>12. \A c \in Blocks(h) \ {b, next} :
            /\ SameBlock(h, r, c)
            /\ r.blocks[c].prev = IF c = after THEN b ELSE h.blocks[c].prev
    BY <1>0, <1>5, <1>8, <1>9, <1>10 DEF SameBlock
  <1>13. /\ r.blocks[b].use = bs[b].use /\ r.blocks[b].size = size
         /\ r.blocks[b].prev = bs[b].prev /\ r.blocks[b].next = after
    BY <1>0, <1>2, <1>4, <1>5, <1>8, <1>9, <1>10 DEF SameBlock
  <1> QED BY <1>10, <1>11, <1>12, <1>13 DEF Merged, r

LEMMA MergeGood ==
    ASSUME NEW h, NEW end, NEW r, NEW b \in Blocks(h), Good(h, end), h.blocks[b].next # NULL,
           Merged(h, r, b)
    PROVE  Good(r, end)
  <1> DEFINE next == h.blocks[b].next
             after == h.blocks[next].next
  <1>1. /\ IsHeap(r) /\ Blocks(r) = Blocks(h) \ {next} /\ r.first = h.first
        /\ r.last = IF after = NULL THEN b ELSE h.last
        /\ r.blocks[b].size = h.blocks[b].size + Overhead + h.blocks[next].size
        /\ r.blocks[b].prev = h.blocks[b].prev /\ r.blocks[b].next = after
    BY DEF Merged
  <1>2. \A c \in Blocks(h) \ {b, next} :
           /\ r.blocks[c].size = h.blocks[c].size /\ r.blocks[c].next = h.blocks[c].next
           /\ r.blocks[c].prev = IF c = after THEN b ELSE h.blocks[c].prev
    BY DEF Merged, SameBlock
  <1>3. /\ b \in Nat /\ h.blocks[b].size \in Nat /\ end \in Nat /\ b # h.last
        /\ next = BlockEnd(h.blocks, b) /\ next \in Blocks(h) \ {b, 0} /\ h.blocks[next].prev = b
        /\ BlockEnd(h.blocks, b) = b + Overhead + h.blocks[b].size
        /\ 0 \in Blocks(h) /\ h.first = 0 /\ h.last \in Blocks(h)
    BY BlockFacts DEF Good
  <1>4. /\ next \in Nat /\ h.blocks[next].size \in Nat
        /\ BlockEnd(h.blocks, next) = next + Overhead + h.blocks[next].size
        /\ BlockEnd(h.blocks, next) \in Nat /\ BlockEnd(h.blocks, next) <= end
        /\ (after = NULL <=> next = h.last)
        /\ (after = NULL => BlockEnd(h.blocks, next) = end)
        /\ (after # NULL => /\ after \in Blocks(h) \ {next, 0} /\ after = BlockEnd(h.blocks, next)
                            /\ h.blocks[after].prev = next)
    BY <1>3, BlockFacts
  <1>5. /\ BlockEnd(r.blocks, b) = BlockEnd(h.blocks, next)
        /\ \A c \in Blocks(h) \ {b, next} : BlockEnd(r.blocks, c) = BlockEnd(h.blocks, c)
    BY <1>1, <1>2, <1>3, <1>4 DEF BlockEnd
  <1>6. \A c \in Blocks(h) \ {b, next} :
           /\ c \in Nat /\ (c > b => BlockEnd(h.blocks, b) <= c)
           /\ (c > next => BlockEnd(h.blocks, next) <= c)
    BY <1>3, BlockFacts
  <1> HIDE DEF next, after
  <1>a. b < next /\ after # b /\ after # next /\ after # 0
    BY <1>3, <1>4
  <1>7. ASSUME NEW c \in Blocks(h) \ {b, next}
        PROVE  Linked(r, end, c)
    <2>1. /\ IF c = h.last THEN h.blocks[c].next = NULL /\ BlockEnd(h.blocks, c) = end
             ELSE /\ h.blocks[c].next = BlockEnd(h.blocks, c)
                  /\ h.blocks[c].next \in Blocks(h) \ {c, 0}
                  /\ h.blocks[h.blocks[c].next].prev = c
          /\ IF c = 0 THEN h.blocks[c].prev = NULL
             ELSE /\ h.blocks[c].prev \in Blocks(h) \ {c}
                  /\ h.blocks[h.blocks[c].prev].next = c
          /\ \A d \in Blocks(h) : c < d => BlockEnd(h.blocks, c) <= d
          /\ BlockEnd(h.blocks, c) <= end
      BY BlockFacts
    <2>2. IF c = r.last
          THEN r.blocks[c].next = NULL /\ BlockEnd(r.blocks, c) = end
          ELSE /\ r.blocks[c].next = BlockEnd(r.blocks, c)
               /\ r.blocks[c].next \in Blocks(r)
               /\ r.blocks[r.blocks[c].next].prev = c
      <3>1. CASE c = h.last
        <4>1. c = r.last
          BY <1>1, <1>4, <3>1
        <4> QED BY <1>2, <1>5, <2>1, <3>1, <4>1
      <3>2. CASE c # h.last
        <4>1. c # r.last
          BY <1>1, <3>2
        <4> DEFINE d == h.blocks[c].next
        <4>2. d \in Blocks(h) /\ h.blocks[d].prev = c /\ r.blocks[c].next = d
          BY <1>2, <2>1, <3>2
        <4> HIDE DEF d
        <4>3. d # next
          BY <1>3, <4>2
        <4>4. d # after
          <5>1. d \in Nat
            BY <4>2 DEF Good, IsHeap
          <5> QED BY <1>4, <4>2, <5>1
        <4>5. r.blocks[d].prev = c
          BY <1>1, <1>2, <4>2, <4>3, <4>4
        <4> QED BY <1>1, <1>2, <1>5, <2>1, <3>2, <4>1, <4>2, <4>3, <4>5 DEF d
      <3> QED BY <3>1, <3>2
    <2>3. IF c = 0 THEN r.blocks[c].prev = NULL
          ELSE /\ r.blocks[c].prev \in Blocks(r)
               /\ r.blocks[r.blocks[c].prev].next = c
      <3>1. CASE c = after
        BY <1>1, <1>2, <1>3, <1>a, <3>1
      <3>2. CASE c # after
        <4>1. r.blocks[c].prev = h.blocks[c].prev
          BY <1>2, <3>2
        <4>2. CASE c = 0
          BY <2>1, <4>1, <4>2
        <4>3. CASE c # 0
          <5> DEFINE d == h.blocks[c].prev
          <5>1. d \in Blocks(h) /\ h.blocks[d].next = c
            BY <2>1, <4>3
          <5>2. d # b /\ d # next
            BY <3>2, <5>1 DEF next, after
          <5> HIDE DEF d
          <5>3. r.blocks[d].next = c
            BY <1>2, <5>1, <5>2
          <5> QED BY <1>1, <4>1, <4>3, <5>1, <5>2, <5>3 DEF d
        <4> QED BY <4>2, <4>3
      <3> QED BY <3>1, <3>2
    <2> QED BY <1>1, <1>5, <2>1, <2>2, <2>3 DEF Linked
  <1>8. Linked(r, end, b)
    <2>1. IF b = r.last
          THEN r.blocks[b].next = NULL /\ BlockEnd(r.blocks, b) = end
          ELSE /\ r.blocks[b].next = BlockEnd(r.blocks, b)
               /\ r.blocks[b].next \in Blocks(r)
               /\ r.blocks[r.blocks[b].next].prev = b
      <3>1. CASE after = NULL
        BY <1>1, <1>4, <1>5, <3>1
      <3>2. CASE after # NULL
        BY <1>1, <1>2, <1>3, <1>4, <1>5, <1>a, <3>2
      <3> QED BY <3>1, <3>2
    <2>2. IF b = 0 THEN r.blocks[b].prev = NULL
          ELSE /\ r.blocks[b].prev \in Blocks(r)
               /\ r.blocks[r.blocks[b].prev].next = b
      <3>1. CASE b = 0
        BY <1>1, <3>1, BlockFacts
      <3>2. CASE b # 0
        <4> DEFINE d == h.blocks[b].prev
        <4>1. d \in Blocks(h) \ {b} /\ h.blocks[d].next = b
          BY <3>2, BlockFacts
        <4>2. d # next
          BY <1>a, <4>1 DEF after
        <4> HIDE DEF d
        <4>3. r.blocks[d].next = b
          BY <1>2, <4>1, <4>2
        <4> QED BY <1>1, <3>2, <4>1, <4>2, <4>3 DEF d
      <3> QED BY <3>1, <3>2
    <2>3. ASSUME NEW d \in Blocks(r), b < d
          PROVE  BlockEnd(r.blocks, b) <= d
      <3>1. d \in Blocks(h) \ {b, next} /\ d \in Nat
        BY <1>1, <1>3, <1>6, <2>3
      <3>2. d > next
        BY <1>3, <1>4, <1>6, <2>3, <3>1
      <3> QED BY <1>5, <1>6, <3>1, <3>2
    <2> QED BY <1>4, <1>5, <2>1, <2>2, <2>3 DEF Linked
  <1>9. r.last \in Blocks(r) /\ 0 \in Blocks(r) /\ \A c \in Blocks(r) : Linked(r, end, c)
    BY <1>1, <1>3, <1>4, <1>7, <1>8
  <1> QED BY <1>1, <1>3, <1>9, GoodIf

-----------------------------------------------------------------------------
(* Marking a block, and a new block at the end of the list.                *)

(* r differs from h in the use of blocks and in the count only.            *)
SameShape(h, r) ==
    /\ IsHeap(r) /\ Blocks(r) = Blocks(h) /\ r.first = h.first /\ r.last = h.last
    /\ \A c \in Blocks(h) : /\ r.blocks[c].size = h.blocks[c].size
                            /\ r.blocks[c].prev = h.blocks[c].prev
                            /\ r.blocks[c].next = h.blocks[c].next

LEMMA SameShapeGood ==
    ASSUME NEW h, NEW end, NEW r, Good(h, end), SameShape(h, r)
    PROVE  Good(r, end)
  <1>1. /\ IsHeap(r) /\ Blocks(r) = Blocks(h) /\ r.first = h.first /\ r.last = h.last
        /\ end \in Nat
    BY DEF SameShape, Good
  <1>2. CASE Blocks(h) = {}
    BY <1>1, <1>2 DEF Good, TiledBy
  <1>3. CASE Blocks(h) # {}
    <2>1. \A c \in Blocks(h) : BlockEnd(r.blocks, c) = BlockEnd(h.blocks, c)
      BY DEF SameShape, BlockEnd
    <2>2. r.first = 0 /\ 0 \in Blocks(r) /\ r.last \in Blocks(r)
      BY <1>1, <1>3 DEF Good, TiledBy
    <2>3. ASSUME NEW b \in Blocks(r)
          PROVE  Linked(r, end, b)
      <3>1. /\ r.blocks[b].prev = h.blocks[b].prev /\ r.blocks[b].next = h.blocks[b].next
            /\ BlockEnd(r.blocks, b) = BlockEnd(h.blocks, b) /\ b \in Blocks(h)
        BY <1>1, <2>1 DEF SameShape
      <3>2. b # h.last => /\ h.blocks[b].next \in Blocks(h)
                          /\ r.blocks[h.blocks[b].next].prev = b
        <4>1. b # h.last => h.blocks[b].next \in Blocks(h) /\ h.blocks[h.blocks[b].next].prev = b
          BY <3>1, BlockFacts
        <4> QED BY <4>1 DEF SameShape
      <3>3. b # 0 => /\ h.blocks[b].prev \in Blocks(h)
                     /\ r.blocks[h.blocks[b].prev].next = b
        <4>1. b # 0 => h.blocks[b].prev \in Blocks(h) /\ h.blocks[h.blocks[b].prev].next = b
          BY <3>1, BlockFacts
        <4> QED BY <4>1 DEF SameShape
      <3>4. /\ b = h.last => h.blocks[b].next = NULL /\ BlockEnd(h.blocks, b) = end
            /\ b # h.last => h.blocks[b].next = BlockEnd(h.blocks, b)
            /\ b = 0 => h.blocks[b].prev = NULL
            /\ \A c \in Blocks(h) : b < c => BlockEnd(h.blocks, b) <= c
            /\ BlockEnd(h.blocks, b) <= end
        BY <3>1, BlockFacts
      <3> QED BY <1>1, <3>1, <3>2, <3>3, <3>4 DEF Linked
    <2> QED BY <1>1, <2>2, <2>3, GoodIf
  <1> QED BY <1>2, <1>3

with_use(h, b, use, count) == [h EXCEPT !.blocks[b].use = use, !.allocated = count]
with_count(h, count) == [h EXCEPT !.allocated = count]

LEMMA MarkEffect ==
    ASSUME NEW h, IsHeap(h), NEW b \in Blocks(h), NEW use \in {"free", "used"}, NEW count,
           NEW r, r = with_use(h, b, use, count)
    PROVE  /\ SameShape(h, r) /\ r.blocks[b].use = use
           /\ \A c \in Blocks(h) \ {b} : r.blocks[c].use = h.blocks[c].use
  <1> DEFINE bs == h.blocks
             new == [bs EXCEPT ![b].use = use]
  <1>1. /\ bs \in [DOMAIN bs -> Headers] /\ b \in DOMAIN bs /\ Blocks(h) = DOMAIN bs
        /\ DOMAIN bs \subseteq Nat
    BY DEF IsHeap, Blocks
  <1>2. /\ new \in [DOMAIN bs -> Headers] /\ new[b].use = use
        /\ \A c \in DOMAIN bs \ {b} : new[c] = bs[c]
        /\ new[b].size = bs[b].size /\ new[b].prev = bs[b].prev /\ new[b].next = bs[b].next
    BY <1>1 DEF Headers
  <1>3. /\ r.blocks = new /\ r.first = h.first /\ r.last = h.last
        /\ r = [blocks |-> r.blocks, first |-> r.first, last |-> r.last,
                allocated |-> r.allocated]
    <2>1. r = [h EXCEPT !.blocks = new, !.allocated = count]
      BY DEF with_use
    <2> HIDE DEF new
    <2> QED BY <2>1 DEF IsHeap
  <1> HIDE DEF new
  <1>4. IsHeap(r) /\ Blocks(r) = Blocks(h)
    BY <1>1, <1>2, <1>3 DEF IsHeap, Blocks
  <1>5. SameShape(h, r)
    BY <1>1, <1>2, <1>3, <1>4 DEF SameShape
  <1>6. r.blocks[b].use = use /\ \A c \in Blocks(h) \ {b} : r.blocks[c].use = h.blocks[c].use
    BY <1>1, <1>2, <1>3
  <1> QED BY <1>5, <1>6

LEMMA CountEffect ==
    ASSUME NEW h, IsHeap(h), NEW count, NEW r, r = with_count(h, count)
    PROVE  SameShape(h, r) /\ r.blocks = h.blocks
  <1>1. /\ r.blocks = h.blocks /\ r.first = h.first /\ r.last = h.last
        /\ r = [blocks |-> r.blocks, first |-> r.first, last |-> r.last,
                allocated |-> r.allocated]
    BY DEF IsHeap, with_count
  <1>2. IsHeap(r) /\ Blocks(r) = Blocks(h)
    BY <1>1 DEF IsHeap, Blocks
  <1> QED BY <1>1, <1>2 DEF SameShape

(* r is h with a free block of size units appended at b.                   *)
Appended(h, r, b, size) ==
    /\ IsHeap(r) /\ Blocks(r) = Blocks(h) \cup {b}
    /\ r.first = (IF h.last = NULL THEN b ELSE h.first) /\ r.last = b
    /\ r.blocks[b].use = "free" /\ r.blocks[b].size = size
    /\ r.blocks[b].prev = h.last /\ r.blocks[b].next = NULL
    /\ \A c \in Blocks(h) :
          /\ r.blocks[c].use = h.blocks[c].use /\ r.blocks[c].size = h.blocks[c].size
          /\ r.blocks[c].prev = h.blocks[c].prev
          /\ r.blocks[c].next = IF c = h.last THEN b ELSE h.blocks[c].next

LEMMA AppendEffect ==
    ASSUME NEW h, NEW end, Good(h, end), NEW size \in Nat \ {0}
    PROVE  Appended(h, append_block(h, end, size), end, size) /\ end \notin Blocks(h)
  <1> DEFINE bs == h.blocks
             hdr == Header("free", size, h.last, NULL)
             linked == SetNext(bs, h.last, end)
             new == Put(linked, end, hdr)
             r == append_block(h, end, size)
  <1>0. /\ IsHeap(h) /\ Blocks(h) = DOMAIN bs /\ bs \in [DOMAIN bs -> Headers]
        /\ DOMAIN bs \subseteq Nat /\ end \in Nat
    BY DEF Good, IsHeap, Blocks
  <1>1. h.last = NULL \/ (h.last \in DOMAIN bs /\ h.last \in Nat)
    BY <1>0 DEF Good, TiledBy
  <1>2. end \notin DOMAIN bs
    <2>1. SUFFICES ASSUME end \in Blocks(h) PROVE FALSE
      BY <1>0
    <2>2. /\ BlockEnd(bs, end) <= end /\ bs[end].size \in Nat
          /\ BlockEnd(bs, end) = end + Overhead + bs[end].size
      BY <2>1, BlockFacts
    <2> QED BY <1>0, <2>2
  <1>3. r = [h EXCEPT !.blocks = new, !.first = IF h.last = NULL THEN end ELSE h.first,
                      !.last = end]
    BY DEF append_block
  <1>4. /\ linked \in [DOMAIN bs -> Headers]
        /\ \A c \in DOMAIN bs : /\ linked[c].use = bs[c].use /\ linked[c].size = bs[c].size
                                /\ linked[c].prev = bs[c].prev
                                /\ linked[c].next = IF c = h.last THEN end ELSE bs[c].next
    <2>1. CASE h.last = NULL
      BY <1>0, <2>1 DEF SetNext
    <2>2. CASE h.last # NULL
      BY <1>0, <1>1, <2>2 DEF SetNext, Headers, Links
    <2> QED BY <2>1, <2>2
  <1> HIDE DEF linked
  <1>5. hdr \in Headers
    BY <1>1 DEF Header, Headers, Links
  <1>6. /\ DOMAIN new = DOMAIN bs \cup {end} /\ new \in [DOMAIN new -> Headers]
        /\ new[end] = hdr /\ \A c \in DOMAIN bs : new[c] = linked[c]
    BY <1>2, <1>4, <1>5 DEF Put
  <1> HIDE DEF new
  <1>7. /\ r.blocks = new /\ r.first = (IF h.last = NULL THEN end ELSE h.first)
        /\ r.last = end
        /\ r = [blocks |-> r.blocks, first |-> r.first, last |-> r.last,
                allocated |-> r.allocated]
    BY <1>0, <1>3 DEF IsHeap
  <1> HIDE DEF r
  <1>8. IsHeap(r) /\ Blocks(r) = Blocks(h) \cup {end}
    BY <1>0, <1>6, <1>7 DEF IsHeap, Blocks
  <1>9. \A c \in Blocks(h) :
           /\ r.blocks[c].use = h.blocks[c].use /\ r.blocks[c].size = h.blocks[c].size
           /\ r.blocks[c].prev = h.blocks[c].prev
           /\ r.blocks[c].next = IF c = h.last THEN end ELSE h.blocks[c].next
    BY <1>0, <1>4, <1>6, <1>7
  <1>10. r.blocks[end] = hdr
    BY <1>6, <1>7
  <1> QED BY <1>0, <1>2, <1>7, <1>8, <1>9, <1>10 DEF Appended, Header, r

LEMMA AppendGood ==
    ASSUME NEW h, NEW end, NEW r, NEW size \in Nat \ {0}, Good(h, end), end \notin Blocks(h),
           Appended(h, r, end, size)
    PROVE  Good(r, end + Overhead + size)
  <1>1. /\ IsHeap(r) /\ Blocks(r) = Blocks(h) \cup {end}
        /\ r.first = (IF h.last = NULL THEN end ELSE h.first) /\ r.last = end
        /\ r.blocks[end].size = size
        /\ r.blocks[end].prev = h.last /\ r.blocks[end].next = NULL
        /\ \A c \in Blocks(h) :
              /\ r.blocks[c].size = h.blocks[c].size /\ r.blocks[c].prev = h.blocks[c].prev
              /\ r.blocks[c].next = IF c = h.last THEN end ELSE h.blocks[c].next
    BY DEF Appended
  <1> DEFINE top == end + Overhead + size
  <1>2. end \in Nat /\ top \in Nat /\ top > end
    BY DEF Good
  <1>3. /\ BlockEnd(r.blocks, end) = top
        /\ \A c \in Blocks(h) : BlockEnd(r.blocks, c) = BlockEnd(h.blocks, c)
    BY <1>1 DEF BlockEnd
  <1> HIDE DEF top
  <1>4. CASE Blocks(h) = {}
    <2>1. end = 0 /\ h.last = NULL
      BY <1>4 DEF Good, TiledBy
    <2>2. Blocks(r) = {0} /\ r.first = 0 /\ r.last = 0
      BY <1>1, <1>4, <2>1
    <2>3. Linked(r, top, 0)
      BY <1>1, <1>2, <1>3, <2>1, <2>2 DEF Linked
    <2> QED BY <1>1, <1>2, <2>2, <2>3, GoodIf DEF top
  <1>5. CASE Blocks(h) # {}
    <2>1. h.last \in Blocks(h) /\ h.last \in Nat /\ h.first = 0 /\ 0 \in Blocks(h) /\ end # 0
      BY <1>5 DEF Good, TiledBy, IsHeap
    <2>2. ASSUME NEW b \in Blocks(h)
          PROVE  Linked(r, top, b)
      <3>1. /\ b = h.last => BlockEnd(h.blocks, b) = end
            /\ b # h.last => /\ h.blocks[b].next = BlockEnd(h.blocks, b)
                             /\ h.blocks[b].next \in Blocks(h)
                             /\ h.blocks[h.blocks[b].next].prev = b
            /\ b = 0 => h.blocks[b].prev = NULL
            /\ b # 0 => h.blocks[b].prev \in Blocks(h) /\ h.blocks[h.blocks[b].prev].next = b
            /\ \A c \in Blocks(h) : b < c => BlockEnd(h.blocks, b) <= c
            /\ BlockEnd(h.blocks, b) <= end /\ BlockEnd(h.blocks, b) \in Nat
        BY BlockFacts
      <3>2. b # r.last /\ r.blocks[b].next = BlockEnd(r.blocks, b)
        BY <1>1, <1>3, <3>1
      <3>3. r.blocks[b].next \in Blocks(r) /\ r.blocks[r.blocks[b].next].prev = b
        <4>1. CASE b = h.last
          BY <1>1, <4>1
        <4>2. CASE b # h.last
          BY <1>1, <3>1, <4>2
        <4> QED BY <4>1, <4>2
      <3>4. b # 0 => r.blocks[b].prev \in Blocks(r) /\ r.blocks[r.blocks[b].prev].next = b
        <4> SUFFICES ASSUME b # 0 PROVE r.blocks[b].prev \in Blocks(r) /\ r.blocks[r.blocks[b].prev].next = b
          OBVIOUS
        <4> DEFINE d == h.blocks[b].prev
        <4>1. d \in Blocks(h) /\ h.blocks[d].next = b
          BY <3>1
        <4>2. d # h.last
          <5>1. h.blocks[h.last].next = NULL
            BY <2>1, BlockFacts
          <5>2. b \in Nat
            BY BlockFacts
          <5> QED BY <4>1, <5>1, <5>2
        <4> HIDE DEF d
        <4> QED BY <1>1, <4>1, <4>2 DEF d
      <3>5. b = 0 => r.blocks[b].prev = NULL
        BY <1>1, <3>1
      <3>6. \A c \in Blocks(r) : b < c => BlockEnd(r.blocks, b) <= c
        BY <1>1, <1>3, <3>1
      <3>7. BlockEnd(r.blocks, b) <= top
        BY <1>2, <1>3, <3>1
      <3> QED BY <3>2, <3>3, <3>4, <3>5, <3>6, <3>7 DEF Linked
    <2>3. Linked(r, top, end)
      <3>1. \A c \in Blocks(h) : c \in Nat /\ c <= end
        <4> SUFFICES ASSUME NEW c \in Blocks(h) PROVE c \in Nat /\ c <= end
          OBVIOUS
        <4>1. /\ c \in Nat /\ BlockEnd(h.blocks, c) <= end /\ h.blocks[c].size \in Nat
              /\ BlockEnd(h.blocks, c) = c + Overhead + h.blocks[c].size
          BY BlockFacts
        <4> QED BY <1>2, <4>1
      <3>2. \A c \in Blocks(r) : ~(end < c)
        BY <1>1, <1>2, <3>1
      <3> QED BY <1>1, <1>2, <1>3, <2>1, <3>2 DEF Linked
    <2>4. r.first = 0 /\ 0 \in Blocks(r) /\ r.last \in Blocks(r)
      BY <1>1, <2>1
    <2> QED BY <1>1, <1>2, <2>2, <2>3, <2>4, GoodIf DEF top
  <1> QED BY <1>4, <1>5

-----------------------------------------------------------------------------
(* The calls on the list: what they do to the blocks in use, and that they *)
(* leave no two free blocks side by side.                                  *)

Used(h) == {b \in Blocks(h) : h.blocks[b].use = "used"}

(* A free block c has no free block after it.                              *)
Alone(h, c) ==
    h.blocks[c].use = "free" /\ h.blocks[c].next # NULL
        => h.blocks[h.blocks[c].next].use = "used"

Sound(h, end) == Good(h, end) /\ \A c \in Blocks(h) : Alone(h, c)

(* The blocks in use, those of S aside, are the same in h and r.           *)
SameUsed(h, r, S) ==
    \A c \in Used(h) \ S : c \in Used(r) /\ r.blocks[c].size = h.blocks[c].size

LEMMA FreeOrUsed ==
    ASSUME NEW h, NEW end, Good(h, end), NEW b \in Blocks(h)
    PROVE  h.blocks[b].use \in {"free", "used"}
  BY BlockFacts DEF Headers

LEMMA CoalesceNext ==
    ASSUME NEW h, NEW end, Good(h, end), NEW b \in Blocks(h), NEW r,
           r = coalesce_with_next(h, b),
           h.blocks[b].next # NULL => Alone(h, h.blocks[b].next)
    PROVE  /\ Good(r, end) /\ Alone(r, b)
           /\ b \in Blocks(r) /\ Blocks(r) \subseteq Blocks(h) /\ Used(r) = Used(h)
           /\ SameUsed(h, r, {b}) /\ r.blocks[b].use = h.blocks[b].use
           /\ r.blocks[b].prev = h.blocks[b].prev /\ r.blocks[b].size >= h.blocks[b].size
           /\ \A c \in Blocks(r) \ {b} : Alone(h, c) => Alone(r, c)
  <1> DEFINE next == h.blocks[b].next
             after == h.blocks[next].next
  <1>0. next = NULL \/ next \in Blocks(h) \ {b}
    BY BlockFacts
  <1>1. CASE next = NULL \/ h.blocks[next].use = "used"
    <2>1. r = h
      BY <1>1 DEF coalesce_with_next
    <2>2. Alone(h, b)
      BY <1>1 DEF Alone
    <2>3. h.blocks[b].size \in Nat
      BY BlockFacts
    <2> QED BY <2>1, <2>2, <2>3 DEF SameUsed
  <1>2. CASE next # NULL /\ h.blocks[next].use # "used"
    <2>1. Merged(h, r, b)
      BY <1>2, MergeEffect
    <2>2. Good(r, end)
      BY <1>2, <2>1, MergeGood
    <2>3. /\ Blocks(r) = Blocks(h) \ {next} /\ r.blocks[b].use = h.blocks[b].use
          /\ r.blocks[b].next = after /\ r.blocks[b].prev = h.blocks[b].prev
          /\ r.blocks[b].size = h.blocks[b].size + Overhead + h.blocks[next].size
          /\ \A c \in Blocks(h) \ {b, next} : /\ r.blocks[c].use = h.blocks[c].use
                                              /\ r.blocks[c].size = h.blocks[c].size
                                              /\ r.blocks[c].next = h.blocks[c].next
      BY <2>1 DEF Merged, SameBlock
    <2>4. /\ h.blocks[next].use = "free" /\ next \in Blocks(h) \ {b}
          /\ h.blocks[next].size \in Nat /\ h.blocks[b].size \in Nat
      BY <1>0, <1>2, FreeOrUsed, BlockFacts
    <2>5. after = NULL \/ (after \in Blocks(h) \ {b, next})
      <3>1. next > b /\ (after # NULL => after \in Blocks(h) /\ after > next)
        BY <2>4, BlockFacts
      <3>2. b \in Nat /\ next \in Nat
        BY <2>4, BlockFacts
      <3>3. after # NULL => after \in Nat
        BY <3>1 DEF Good, IsHeap
      <3> QED BY <3>1, <3>2, <3>3
    <2>6. Alone(r, b)
      BY <1>2, <2>3, <2>4, <2>5 DEF Alone
    <2>7. ASSUME NEW c \in Blocks(r) \ {b}, Alone(h, c)
          PROVE  Alone(r, c)
      <3> DEFINE d == h.blocks[c].next
      <3>1. c \in Blocks(h) \ {b, next}
        BY <2>3
      <3>2. d = NULL \/ (d \in Blocks(h) /\ h.blocks[d].prev = c)
        BY <3>1, BlockFacts
      <3>3. h.blocks[next].prev = b
        BY <1>2, BlockFacts
      <3>4. d = NULL \/ d \in Blocks(h) \ {next}
        BY <3>1, <3>2, <3>3
      <3> HIDE DEF next
      <3>5. d # NULL => r.blocks[d].use = h.blocks[d].use
        BY <2>3, <3>4
      <3> QED BY <2>3, <2>7, <3>1, <3>5 DEF Alone
    <2> HIDE DEF next
    <2>8. Used(r) = Used(h) /\ SameUsed(h, r, {b})
      BY <2>3, <2>4 DEF Used, SameUsed
    <2>9. r.blocks[b].size >= h.blocks[b].size
      BY <2>3, <2>4
    <2> QED BY <2>2, <2>3, <2>4, <2>6, <2>7, <2>8, <2>9
  <1> QED BY <1>1, <1>2

LEMMA CoalescePrev ==
    ASSUME NEW h, NEW end, Good(h, end), NEW b \in Blocks(h), NEW r,
           r = coalesce_with_prev(h, b), h.blocks[b].use = "free",
           \A c \in Blocks(h) \ {h.blocks[b].prev} : Alone(h, c)
    PROVE  Sound(r, end) /\ Used(r) = Used(h) /\ SameUsed(h, r, {})
  <1> DEFINE prev == h.blocks[b].prev
  <1>0. prev = NULL \/ (prev \in Blocks(h) \ {b} /\ h.blocks[prev].next = b)
    BY BlockFacts
  <1>1. CASE prev = NULL \/ h.blocks[prev].use = "used"
    <2>1. r = h
      BY <1>1 DEF coalesce_with_prev
    <2>2. ASSUME NEW c \in Blocks(h)
          PROVE  Alone(h, c)
      <3>1. CASE c = prev
        <4>1. c \in Nat
          BY DEF Good, IsHeap
        <4> QED BY <1>1, <3>1, <4>1 DEF Alone
      <3> QED BY <3>1
    <2> QED BY <2>1, <2>2 DEF Sound, SameUsed
  <1>2. CASE prev # NULL /\ h.blocks[prev].use # "used"
    <2>1. r = coalesce_with_next(h, prev)
      BY <1>2 DEF coalesce_with_prev
    <2>2. prev \in Blocks(h) /\ h.blocks[prev].next = b /\ Alone(h, b) /\ prev # b
      BY <1>0, <1>2
    <2> HIDE DEF prev
    <2>3. /\ Good(r, end) /\ Alone(r, prev) /\ Used(r) = Used(h)
          /\ Blocks(r) \subseteq Blocks(h) /\ SameUsed(h, r, {prev})
          /\ \A c \in Blocks(r) \ {prev} : Alone(h, c) => Alone(r, c)
      BY <2>1, <2>2, CoalesceNext
    <2>4. \A c \in Blocks(r) : Alone(r, c)
      BY <2>3 DEF prev
    <2>5. SameUsed(h, r, {})
      BY <1>2, <2>3 DEF SameUsed, Used
    <2> QED BY <2>3, <2>4, <2>5 DEF Sound
  <1> QED BY <1>1, <1>2

(* kmalloc's last lines.                                                   *)
LEMMA TakenSound ==
    ASSUME NEW h, NEW end, Sound(h, end), NEW b \in Blocks(h), NEW n \in Nat \ {0},
           fits(h, b, n), NEW t, t = taken(h, b, n)
    PROVE  /\ Sound(t, end) /\ Used(t) = Used(h) \cup {b} /\ b \notin Used(h)
           /\ SameUsed(h, t, {}) /\ t.blocks[b].size >= n
  <1> DEFINE s == split_block(h, b, n)
             cut == b + Overhead + n
             next == h.blocks[b].next
  <1>0. /\ Good(h, end) /\ h.blocks[b].use = "free" /\ h.blocks[b].size >= n
        /\ h.blocks[b].size \in Nat /\ b \in Nat
    BY BlockFacts DEF Sound, fits
  <1>1. next = NULL \/ (next \in Blocks(h) \ {b} /\ h.blocks[next].use = "used")
    <2>1. next = NULL \/ next \in Blocks(h) \ {b}
      BY <1>0, BlockFacts
    <2> QED BY <1>0, <2>1 DEF Sound, Alone
  <1>2. /\ Good(s, end) /\ b \in Blocks(s) /\ s.blocks[b].size >= n
        /\ Blocks(h) \subseteq Blocks(s) /\ Blocks(s) \subseteq Blocks(h) \cup {cut}
        /\ \A c \in Blocks(h) \ {b} : SameBlock(h, s, c)
        /\ \A c \in Blocks(s) \ Blocks(h) : s.blocks[c].use = "free" /\ s.blocks[c].next = next
    <2>1. CASE h.blocks[b].size < n + Overhead + 1
      <3>1. s = h
        BY <2>1 DEF split_block
      <3> QED BY <1>0, <3>1 DEF SameBlock
    <2>2. CASE h.blocks[b].size >= n + Overhead + 1
      <3>1. Split(h, s, b, n) /\ cut \notin Blocks(h)
        BY <1>0, <2>2, SplitEffect
      <3>2. Good(s, end)
        BY <1>0, <2>2, <3>1, SplitGood
      <3> HIDE DEF s
      <3> QED BY <3>1, <3>2 DEF Split
    <2> QED BY <1>0, <2>1, <2>2
  <1>3. t = with_use(s, b, "used", s.allocated + s.blocks[b].size)
    BY DEF taken, with_use
  <1> HIDE DEF s
  <1>4. /\ SameShape(s, t) /\ t.blocks[b].use = "used"
        /\ \A c \in Blocks(s) \ {b} : t.blocks[c].use = s.blocks[c].use
    <2>1. IsHeap(s)
      BY <1>2 DEF Good
    <2> QED BY <1>2, <1>3, <2>1, MarkEffect
  <1>5. Good(t, end)
    BY <1>2, <1>4, SameShapeGood
  <1>6. /\ Blocks(t) = Blocks(s)
        /\ \A c \in Blocks(s) : /\ t.blocks[c].size = s.blocks[c].size
                                /\ t.blocks[c].next = s.blocks[c].next
    BY <1>4 DEF SameShape
  <1>7. /\ \A c \in Blocks(h) \ {b} : SameBlock(h, t, c)
        /\ \A c \in Blocks(t) \ Blocks(h) : t.blocks[c].use = "free" /\ t.blocks[c].next = next
    BY <1>2, <1>4, <1>6 DEF SameBlock
  <1>8. ASSUME NEW c \in Blocks(t)
        PROVE  Alone(t, c)
    <2>1. CASE c = b
      BY <1>4, <2>1 DEF Alone
    <2>2. CASE c \in Blocks(h) \ {b}
      <3> DEFINE d == h.blocks[c].next
      <3>1. Alone(h, c) /\ (d = NULL \/ d \in Blocks(h))
        BY <1>0, <2>2, BlockFacts DEF Sound
      <3>2. t.blocks[c].next = d /\ t.blocks[c].use = h.blocks[c].use
        BY <1>7, <2>2 DEF SameBlock
      <3>3. d # NULL /\ h.blocks[d].use = "used" => t.blocks[d].use = "used"
        BY <1>0, <1>7, <3>1 DEF SameBlock
      <3> HIDE DEF d
      <3> QED BY <3>1, <3>2, <3>3 DEF Alone, d
    <2>3. CASE c \in Blocks(t) \ Blocks(h)
      <3>1. t.blocks[c].next = next /\ (next # NULL => t.blocks[next].use = "used")
        BY <1>1, <1>7, <2>3 DEF SameBlock
      <3> QED BY <3>1 DEF Alone
    <2> QED BY <2>1, <2>2, <2>3
  <1>9. Used(t) = Used(h) \cup {b} /\ b \notin Used(h) /\ SameUsed(h, t, {})
    <2>1. \A c \in Blocks(t) : t.blocks[c].use = "used" <=> c \in Used(h) \cup {b}
      BY <1>2, <1>4, <1>6, <1>7 DEF Used, SameBlock
    <2>2. Used(h) \subseteq Blocks(t) /\ b \in Blocks(t)
      BY <1>2, <1>6 DEF Used
    <2>3. b \notin Used(h) /\ Used(h) \subseteq Blocks(h)
      BY <1>0 DEF Used
    <2>4. Used(t) = Used(h) \cup {b}
      BY <2>1, <2>2 DEF Used
    <2> QED BY <1>7, <2>3, <2>4 DEF SameUsed, SameBlock
  <1> QED BY <1>2, <1>5, <1>6, <1>8, <1>9 DEF Sound

(* kfree.                                                                  *)
LEMMA ReleasedSound ==
    ASSUME NEW h, NEW end, Sound(h, end), NEW b \in Used(h), NEW r, r = released(h, b)
    PROVE  Sound(r, end) /\ Used(r) = Used(h) \ {b} /\ SameUsed(h, r, {b})
  <1> DEFINE f == with_use(h, b, "free", h.allocated - h.blocks[b].size)
             g == coalesce_with_next(f, b)
             prev == h.blocks[b].prev
             next == h.blocks[b].next
  <1>0. Good(h, end) /\ b \in Blocks(h)
    BY DEF Sound, Used
  <1>1. /\ SameShape(h, f) /\ f.blocks[b].use = "free"
        /\ \A c \in Blocks(h) \ {b} : f.blocks[c].use = h.blocks[c].use
    <2>1. IsHeap(h)
      BY <1>0 DEF Good
    <2> QED BY <1>0, <2>1, MarkEffect
  <1>2. r = coalesce_with_prev(g, b)
    BY DEF released, with_use
  <1> HIDE DEF f
  <1>3. /\ Good(f, end) /\ Blocks(f) = Blocks(h) /\ f.blocks[b].prev = prev
        /\ f.blocks[b].next = next
    BY <1>0, <1>1, SameShapeGood DEF SameShape
  <1>4. Used(f) = Used(h) \ {b} /\ SameUsed(h, f, {b})
    BY <1>0, <1>1, <1>3 DEF Used, SameUsed, SameShape
  <1>5. ASSUME NEW c \in Blocks(f) \ {b, prev}
        PROVE  Alone(f, c)
    <2> DEFINE d == h.blocks[c].next
    <2>1. c \in Blocks(h) /\ Alone(h, c) /\ f.blocks[c].next = d /\ f.blocks[c].use = h.blocks[c].use
      BY <1>1, <1>3 DEF Sound, SameShape
    <2>2. d = NULL \/ (d \in Blocks(h) /\ h.blocks[d].prev = c)
      BY <1>0, <2>1, BlockFacts
    <2>3. d # b
      BY <1>0, <2>2, BlockFacts
    <2> HIDE DEF d
    <2>4. d # NULL => f.blocks[d].use = h.blocks[d].use
      BY <1>1, <2>2, <2>3
    <2> QED BY <2>1, <2>4 DEF Alone, d
  <1>6. next # NULL => next \in Blocks(f) \ {b, prev}
    <2>1. /\ next # NULL => next \in Blocks(h) /\ next > b
          /\ prev # NULL => prev \in Blocks(h) /\ prev < b
      <3>1. next # NULL => next \in Blocks(h) /\ next > b
        BY <1>0, BlockFacts
      <3>2. prev # NULL => prev \in Blocks(h) /\ h.blocks[prev].next = b
        BY <1>0, BlockFacts
      <3>3. prev # NULL => prev < h.blocks[prev].next
        <4> SUFFICES ASSUME prev # NULL PROVE prev < h.blocks[prev].next
          OBVIOUS
        <4>1. prev \in Blocks(h) /\ b \in Nat
          BY <1>0, <3>2 DEF Good, IsHeap
        <4> HIDE DEF prev
        <4> QED BY <1>0, <3>2, <4>1, BlockFacts
      <3> QED BY <3>1, <3>2, <3>3
    <2>2. b \in Nat /\ (next # NULL => next \in Nat) /\ (prev # NULL => prev \in Nat)
      BY <1>0, <2>1 DEF Good, IsHeap
    <2> QED BY <1>3, <2>1, <2>2
  <1>7. /\ Good(g, end) /\ Alone(g, b) /\ b \in Blocks(g) /\ Blocks(g) \subseteq Blocks(f)
        /\ Used(g) = Used(f) /\ SameUsed(f, g, {b}) /\ g.blocks[b].use = "free"
        /\ g.blocks[b].prev = prev
        /\ \A c \in Blocks(g) \ {b} : Alone(f, c) => Alone(g, c)
    <2>1. f.blocks[b].next # NULL => Alone(f, f.blocks[b].next)
      BY <1>3, <1>5, <1>6
    <2>2. b \in Blocks(f)
      BY <1>0, <1>3
    <2> HIDE DEF prev, next
    <2> QED BY <1>1, <1>3, <2>1, <2>2, CoalesceNext
  <1> HIDE DEF g, prev
  <1>8. \A c \in Blocks(g) \ {prev} : Alone(g, c)
    BY <1>5, <1>7
  <1>9. Sound(r, end) /\ Used(r) = Used(g) /\ SameUsed(g, r, {})
    BY <1>2, <1>7, <1>8, CoalescePrev
  <1>10. SameUsed(h, r, {b})
    BY <1>4, <1>7, <1>9 DEF SameUsed
  <1> QED BY <1>4, <1>7, <1>9, <1>10

(* krealloc in place.                                                      *)
LEMMA ShrunkSound ==
    ASSUME NEW h, NEW end, Sound(h, end), NEW b \in Used(h), NEW n \in Nat \ {0},
           h.blocks[b].size >= n, NEW r, r = shrunk(h, b, n)
    PROVE  /\ Sound(r, end) /\ Used(r) = Used(h) /\ SameUsed(h, r, {b})
           /\ r.blocks[b].size >= n
  <1> DEFINE s == split_block(h, b, n)
             tail == s.blocks[b].next
             c == IF tail = NULL THEN s
                  ELSE IF s.blocks[tail].use = "used" THEN s
                  ELSE coalesce_with_next(s, tail)
  <1>0. /\ Good(h, end) /\ b \in Blocks(h) /\ h.blocks[b].use = "used"
        /\ h.blocks[b].size \in Nat /\ b \in Nat
    BY BlockFacts DEF Sound, Used
  <1>1. r = with_count(c, c.allocated - (h.blocks[b].size - c.blocks[b].size))
    BY DEF shrunk, with_count
  <1>2. /\ Sound(c, end) /\ Used(c) = Used(h) /\ SameUsed(h, c, {b})
        /\ c.blocks[b].size >= n
    <2>1. CASE h.blocks[b].size < n + Overhead + 1
      <3>1. s = h
        BY <2>1 DEF split_block
      <3>2. tail = NULL \/ (tail \in Blocks(h) /\ Alone(h, tail))
        BY <1>0, <3>1, BlockFacts DEF Sound
      <3>3. c = h
        <4>1. CASE tail = NULL \/ s.blocks[tail].use = "used"
          BY <3>1, <4>1
        <4>2. CASE tail # NULL /\ s.blocks[tail].use # "used"
          <5>1. c = coalesce_with_next(h, tail) /\ h.blocks[tail].use = "free"
            BY <1>0, <3>1, <3>2, <4>2, FreeOrUsed
          <5> HIDE DEF tail, c
          <5>2. \/ h.blocks[tail].next = NULL
                \/ h.blocks[h.blocks[tail].next].use = "used"
            BY <3>2, <4>2, <5>1 DEF Alone
          <5> QED BY <5>1, <5>2 DEF coalesce_with_next
        <4> QED BY <4>1, <4>2
      <3> HIDE DEF c
      <3> QED BY <3>3 DEF SameUsed
    <2>2. CASE h.blocks[b].size >= n + Overhead + 1
      <3> DEFINE cut == b + Overhead + n
                 next == h.blocks[b].next
      <3>1. Split(h, s, b, n) /\ cut \notin Blocks(h)
        BY <1>0, <2>2, SplitEffect
      <3>2. Good(s, end)
        BY <1>0, <2>2, <3>1, SplitGood
      <3> HIDE DEF s
      <3>3. /\ Blocks(s) = Blocks(h) \cup {cut} /\ tail = cut
            /\ s.blocks[cut].use = "free" /\ s.blocks[cut].next = next
            /\ s.blocks[b].use = "used" /\ s.blocks[b].size = n /\ cut \in Nat /\ cut # b
            /\ \A d \in Blocks(h) \ {b} : SameBlock(h, s, d)
        BY <1>0, <3>1 DEF Split
      <3>4. c = coalesce_with_next(s, cut)
        BY <3>3
      <3>5. ASSUME NEW d \in Blocks(h)
            PROVE  Alone(s, d)
        <4>1. CASE d = b
          BY <3>3, <4>1 DEF Alone
        <4>2. CASE d # b
          <5> DEFINE e == h.blocks[d].next
          <5>1. Alone(h, d) /\ (e = NULL \/ e \in Blocks(h))
            BY <1>0, BlockFacts DEF Sound
          <5>2. s.blocks[d].next = e /\ s.blocks[d].use = h.blocks[d].use
            BY <3>3, <4>2 DEF SameBlock
          <5>3. e # NULL => s.blocks[e].use = h.blocks[e].use
            BY <1>0, <3>3, <5>1 DEF SameBlock
          <5> HIDE DEF e
          <5> QED BY <5>1, <5>2, <5>3 DEF Alone, e
        <4> QED BY <4>1, <4>2
      <3>6. s.blocks[cut].next # NULL => Alone(s, s.blocks[cut].next)
        <4>1. next # NULL => next \in Blocks(h)
          BY <1>0, BlockFacts
        <4> QED BY <3>3, <3>5, <4>1
      <3>7. cut \in Blocks(s)
        BY <3>3
      <3> HIDE DEF c, cut, next, tail
      <3>8. /\ Good(c, end) /\ Alone(c, cut) /\ Blocks(c) \subseteq Blocks(s)
            /\ Used(c) = Used(s) /\ SameUsed(s, c, {cut})
            /\ \A d \in Blocks(c) \ {cut} : Alone(s, d) => Alone(c, d)
        BY <3>2, <3>4, <3>6, <3>7, CoalesceNext
      <3>9. \A d \in Blocks(c) : Alone(c, d)
        BY <3>3, <3>5, <3>8
      <3>10. Used(s) = Used(h) /\ SameUsed(h, s, {b})
        <4>1. Used(h) \subseteq Used(s)
          BY <1>0, <3>3 DEF Used, SameBlock
        <4>2. Used(s) \subseteq Used(h)
          BY <1>0, <3>3 DEF Used, SameBlock
        <4>3. SameUsed(h, s, {b})
          BY <3>3, <4>1 DEF SameUsed, SameBlock, Used
        <4> QED BY <4>1, <4>2, <4>3
      <3>11. c.blocks[b].size = n
        BY <3>3, <3>8, <3>10 DEF SameUsed
      <3>12. SameUsed(h, c, {b})
        <4>1. \A d \in Used(h) : d # cut
          BY <3>1 DEF Used, cut
        <4> QED BY <3>8, <3>10, <4>1 DEF SameUsed
      <3> QED BY <3>8, <3>9, <3>10, <3>11, <3>12 DEF Sound
    <2> QED BY <1>0, <2>1, <2>2
  <1> HIDE DEF c
  <1>3. IsHeap(c) /\ Good(c, end)
    BY <1>2 DEF Sound, Good
  <1>4. SameShape(c, r) /\ r.blocks = c.blocks
    BY <1>1, <1>3, CountEffect
  <1>5. Good(r, end) /\ Blocks(r) = Blocks(c)
    BY <1>3, <1>4, SameShapeGood DEF SameShape
  <1> QED BY <1>2, <1>4, <1>5 DEF Sound, Alone, Used, SameUsed

(* The end of expand_heap.                                                 *)
LEMMA ExpandedSound ==
    ASSUME NEW h, NEW end, Sound(h, end), NEW size \in Nat \ {0}, NEW r,
           r = coalesce_with_prev(append_block(h, end, size), end)
    PROVE  /\ Sound(r, end + Overhead + size) /\ Used(r) = Used(h)
           /\ SameUsed(h, r, {})
  <1> DEFINE a == append_block(h, end, size)
             top == end + Overhead + size
  <1>0. Good(h, end) /\ end \in Nat
    BY DEF Sound, Good
  <1>1. Appended(h, a, end, size) /\ end \notin Blocks(h)
    BY <1>0, AppendEffect
  <1> HIDE DEF a
  <1>2. Good(a, top)
    BY <1>0, <1>1, AppendGood
  <1> HIDE DEF top
  <1>3. /\ Blocks(a) = Blocks(h) \cup {end} /\ a.blocks[end].use = "free"
        /\ a.blocks[end].prev = h.last /\ a.blocks[end].next = NULL
        /\ \A c \in Blocks(h) :
              /\ a.blocks[c].use = h.blocks[c].use /\ a.blocks[c].size = h.blocks[c].size
              /\ a.blocks[c].next = IF c = h.last THEN end ELSE h.blocks[c].next
    BY <1>1 DEF Appended
  <1>4. ASSUME NEW c \in Blocks(a) \ {a.blocks[end].prev}
        PROVE  Alone(a, c)
    <2>1. CASE c = end
      BY <1>3, <2>1 DEF Alone
    <2>2. CASE c \in Blocks(h) \ {h.last}
      <3> DEFINE d == h.blocks[c].next
      <3>1. Alone(h, c) /\ d \in Blocks(h)
        BY <1>0, <2>2, BlockFacts DEF Sound
      <3>2. a.blocks[c].next = d /\ a.blocks[c].use = h.blocks[c].use
        BY <1>3, <2>2
      <3>3. a.blocks[d].use = h.blocks[d].use
        BY <1>3, <3>1
      <3> HIDE DEF d
      <3> QED BY <3>1, <3>2, <3>3 DEF Alone, d
    <2> QED BY <1>3, <2>1, <2>2
  <1>5. Sound(r, top) /\ Used(r) = Used(a) /\ SameUsed(a, r, {})
    <2>1. r = coalesce_with_prev(a, end) /\ end \in Blocks(a)
      BY <1>3 DEF a
    <2> QED BY <1>2, <1>3, <1>4, <2>1, CoalescePrev
  <1>6. Used(a) = Used(h)
    BY <1>1, <1>3 DEF Used
  <1>7. \A c \in Used(h) : a.blocks[c].size = h.blocks[c].size
    BY <1>3 DEF Used
  <1>8. SameUsed(h, r, {})
    BY <1>5, <1>6, <1>7 DEF SameUsed
  <1> QED BY <1>5, <1>6, <1>8 DEF top

-----------------------------------------------------------------------------
(* What callers hold, and the allocator's calls.                           *)

(* r records the requests behind the blocks of h that are in use.          *)
Backed(h, r) ==
    /\ r = [b \in DOMAIN r |-> r[b]] /\ DOMAIN r = Used(h)
    /\ \A b \in DOMAIN r : r[b] \in Nat \ {0} /\ h.blocks[b].size >= r[b]

LEMMA StillBacked ==
    ASSUME NEW h, NEW q, NEW r, Backed(h, r), Used(q) = Used(h), SameUsed(h, q, {})
    PROVE  Backed(q, r)
  BY DEF Backed, SameUsed

LEMMA GivenBacked ==
    ASSUME NEW h, NEW q, NEW r, NEW b, NEW n \in Nat \ {0}, Backed(h, r),
           Used(q) = Used(h) \cup {b}, SameUsed(h, q, {b}), q.blocks[b].size >= n,
           NEW g, g = Given(r, b, n)
    PROVE  Backed(q, g)
  <1>1. /\ DOMAIN g = DOMAIN r \cup {b} /\ g = [c \in DOMAIN g |-> g[c]]
        /\ g[b] = n /\ \A c \in DOMAIN r \ {b} : g[c] = r[c]
    BY DEF Given
  <1>2. \A c \in DOMAIN r \ {b} : q.blocks[c].size = h.blocks[c].size
    BY DEF Backed, SameUsed
  <1> QED BY <1>1, <1>2 DEF Backed

LEMMA TakenBacked ==
    ASSUME NEW h, NEW q, NEW r, NEW b \in DOMAIN r, Backed(h, r),
           Used(q) = Used(h) \ {b}, SameUsed(h, q, {b}), NEW g, g = Taken(r, b)
    PROVE  Backed(q, g) /\ DOMAIN g = DOMAIN r \ {b}
  <1>1. /\ DOMAIN g = DOMAIN r \ {b} /\ g = [c \in DOMAIN g |-> g[c]]
        /\ \A c \in DOMAIN r \ {b} : g[c] = r[c]
    BY DEF Taken, Restrict
  <1>2. \A c \in DOMAIN r \ {b} : q.blocks[c].size = h.blocks[c].size
    BY DEF Backed, SameUsed
  <1> QED BY <1>1, <1>2 DEF Backed

(* Serving a request of n units from list h, in place of the region old.   *)
LEMMA FinishSound ==
    ASSUME NEW h, NEW end, Sound(h, end), Backed(h, regions), NEW n \in Nat \ {0},
           NEW old \in {NULL} \cup DOMAIN regions, finish(h, n, old)
    PROVE  Sound(heap', end) /\ Backed(heap', regions')
  <1>1. PICK b \in Blocks(h) :
           /\ fits(h, b, n)
           /\ heap' = IF old = NULL THEN taken(h, b, n)
                      ELSE released(taken(h, b, n), old)
           /\ regions' = Given(IF old = NULL THEN regions ELSE Taken(regions, old), b, n)
    BY DEF finish, find_free_block, Blocks
  <1> DEFINE t == taken(h, b, n)
             g == Given(regions, b, n)
             m == Taken(regions, old)
  <1>2. /\ Sound(t, end) /\ Used(t) = Used(h) \cup {b} /\ b \notin Used(h)
        /\ SameUsed(h, t, {}) /\ t.blocks[b].size >= n
    BY <1>1, TakenSound
  <1> HIDE DEF t
  <1>3. SameUsed(h, t, {b})
    BY <1>2 DEF SameUsed
  <1>4. Backed(t, g)
    BY <1>2, <1>3, GivenBacked
  <1>5. CASE old = NULL
    BY <1>1, <1>2, <1>4, <1>5 DEF t
  <1>6. CASE old # NULL
    <2> DEFINE q == released(t, old)
    <2>1. old \in Used(h) /\ old # b /\ old \in Used(t) /\ old \in DOMAIN regions
      BY <1>2, <1>6 DEF Backed
    <2>2. Sound(q, end) /\ Used(q) = Used(t) \ {old} /\ SameUsed(t, q, {old})
      BY <1>2, <2>1, ReleasedSound
    <2> HIDE DEF q
    <2>3. heap' = q /\ regions' = Given(m, b, n)
      BY <1>1, <1>6 DEF q, t
    <2>4. Used(q) = (Used(h) \ {old}) \cup {b}
      BY <1>2, <2>1, <2>2
    <2>5. /\ DOMAIN m = DOMAIN regions \ {old}
          /\ \A c \in DOMAIN m : m[c] = regions[c]
      BY DEF Taken, Restrict
    <2>6. \A c \in Used(h) \ {old} : c \in Used(q) /\ q.blocks[c].size = h.blocks[c].size
      BY <1>2, <2>2 DEF SameUsed
    <2>7. b \in Used(t) \ {old} /\ q.blocks[b].size = t.blocks[b].size
      BY <1>2, <2>1, <2>2 DEF SameUsed
    <2> HIDE DEF m
    <2>8. /\ DOMAIN regions' = DOMAIN m \cup {b} /\ regions'[b] = n
          /\ regions' = [c \in DOMAIN regions' |-> regions'[c]]
          /\ \A c \in DOMAIN m : c # b => regions'[c] = m[c]
      BY <2>3 DEF Given
    <2>9. Backed(q, regions')
      BY <1>2, <2>1, <2>4, <2>5, <2>6, <2>7, <2>8 DEF Backed
    <2> QED BY <2>2, <2>3, <2>9
  <1> QED BY <1>5, <1>6

-----------------------------------------------------------------------------
(* The list, the regions and the request an expansion works for.           *)

Waiting ==
    /\ growing = [units |-> growing.units, old |-> growing.old,
                  bytes |-> growing.bytes, done |-> growing.done]
    /\ growing.units \in Nat \ {0} /\ growing.old \in {NULL} \cup DOMAIN regions
    /\ growing.bytes = expand_bytes(growing.units) /\ growing.done \in Nat
    /\ heap_end + growing.bytes <= HeapMax

HeapInv ==
    /\ Sound(heap, heap_end) /\ heap_end <= HeapMax
    /\ Backed(heap, regions)
    /\ growing = Idle \/ Waiting

LEMMA HeapInit == Init => HeapInv
  <1> SUFFICES ASSUME Init PROVE HeapInv
    OBVIOUS
  <1>1. /\ heap = EmptyHeap /\ heap_end = 0 /\ growing = Idle
        /\ regions = [b \in {} |-> 0]
    BY DEF Init
  <1>2. Blocks(heap) = {} /\ heap.first = NULL /\ heap.last = NULL
    BY <1>1 DEF Blocks, EmptyHeap
  <1>3. IsHeap(heap)
    BY <1>1, <1>2 DEF IsHeap, EmptyHeap, Blocks
  <1>4. TiledBy(heap, heap_end)
    BY <1>1, <1>2 DEF TiledBy
  <1>5. Sound(heap, heap_end)
    BY <1>1, <1>2, <1>3, <1>4 DEF Sound, Good
  <1>6. Used(heap) = {}
    BY <1>2 DEF Used
  <1>7. Backed(heap, regions)
    BY <1>1, <1>6 DEF Backed
  <1> QED BY <1>1, <1>5, <1>7 DEF HeapInv

(* kmalloc and the moving krealloc, up to the end or to the expansion.     *)
LEMMA AllocateStep ==
    ASSUME HeapInv, growing = Idle, NEW n \in Nat \ {0},
           NEW old \in {NULL} \cup DOMAIN regions, allocate(n, old)
    PROVE  HeapInv'
  <1>1. CASE finish(heap, n, old)
             /\ UNCHANGED <<total_pages, heap_end, frames, mapped, tables, growing>>
    <2>1. Sound(heap', heap_end) /\ Backed(heap', regions')
      BY <1>1, FinishSound DEF HeapInv
    <2>2. heap_end' = heap_end /\ growing' = Idle
      BY <1>1
    <2> QED BY <2>1, <2>2 DEF HeapInv, Idle
  <1>2. CASE /\ heap_end + expand_bytes(n) <= HeapMax
             /\ growing' = [units |-> n, old |-> old, bytes |-> expand_bytes(n), done |-> 0]
             /\ UNCHANGED <<total_pages, heap, heap_end, frames, mapped, tables, regions>>
    <2>1. Waiting'
      BY <1>2 DEF Waiting
    <2> QED BY <1>2, <2>1 DEF HeapInv
  <1>3. CASE UNCHANGED vars
    BY <1>3 DEF HeapInv, Waiting, vars
  <1> QED BY <1>1, <1>2, <1>3 DEF allocate

LEMMA ExpandStep ==
    ASSUME HeapInv, ExpandDone
    PROVE  /\ HeapInv' /\ Waiting
           /\ \E h : /\ Sound(h, heap_end + growing.bytes) /\ Backed(h, regions)
                     /\ finish(h, growing.units, growing.old)
  <1> DEFINE size == growing.bytes - Overhead
             h == coalesce_with_prev(append_block(heap, heap_end, size), heap_end)
  <1>1. /\ growing # Idle /\ heap_end' = heap_end + growing.bytes /\ growing' = Idle
        /\ finish(h, growing.units, growing.old)
    BY DEF ExpandDone
  <1>2. Waiting
    BY <1>1 DEF HeapInv
  <1>3. growing.units \in Nat \ {0} /\ growing.old \in {NULL} \cup DOMAIN regions
    BY <1>2 DEF Waiting
  <1>4. growing.bytes \in Nat /\ growing.bytes >= growing.units + Overhead
    BY <1>2, <1>3, ExpandBytes DEF Waiting
  <1>5. size \in Nat \ {0} /\ heap_end \in Nat
    BY <1>3, <1>4 DEF HeapInv, Sound, Good
  <1>6. heap_end + Overhead + size = heap_end + growing.bytes
    BY <1>4, <1>5
  <1> HIDE DEF size
  <1>7. Sound(heap, heap_end)
    BY DEF HeapInv
  <1>8. Sound(h, heap_end + Overhead + size) /\ Used(h) = Used(heap) /\ SameUsed(heap, h, {})
    BY <1>5, <1>7, ExpandedSound
  <1> HIDE DEF h
  <1>9. Sound(h, heap_end + growing.bytes)
    BY <1>6, <1>8
  <1>10. Backed(h, regions)
    BY <1>8, StillBacked DEF HeapInv
  <1>11. Sound(heap', heap_end + growing.bytes) /\ Backed(heap', regions')
    BY <1>1, <1>3, <1>9, <1>10, FinishSound
  <1>12. heap_end' <= HeapMax
    BY <1>1, <1>2 DEF Waiting
  <1>13. HeapInv'
    BY <1>1, <1>11, <1>12 DEF HeapInv, Idle
  <1> QED BY <1>1, <1>2, <1>9, <1>10, <1>13

LEMMA HeapStep == HeapInv /\ [Next]_vars => HeapInv'
  <1> SUFFICES ASSUME HeapInv, [Next]_vars PROVE HeapInv'
    OBVIOUS
  <1>1. ASSUME NEW size \in Requests, Kmalloc(size)
        PROVE  HeapInv'
    <2>1. CASE size = 0
      <3>1. UNCHANGED vars
        BY <1>1, <2>1 DEF Kmalloc
      <3> QED BY <3>1 DEF HeapInv, Waiting, vars
    <2>2. CASE size # 0
      <3>1. growing = Idle /\ allocate(units(size), NULL)
        BY <1>1, <2>2 DEF Kmalloc
      <3>2. units(size) \in Nat \ {0}
        BY <2>2, UnitsPositive
      <3> QED BY <3>1, <3>2, AllocateStep
    <2> QED BY <2>1, <2>2
  <1>2. ASSUME NEW b \in DOMAIN regions, Kfree(b)
        PROVE  HeapInv'
    <2> DEFINE q == released(heap, b)
               g == Taken(regions, b)
    <2>1. b \in Used(heap) /\ Sound(heap, heap_end)
      BY DEF HeapInv, Backed
    <2>2. /\ heap' = q /\ regions' = g /\ heap_end' = heap_end /\ growing' = Idle
      BY <1>2 DEF Kfree
    <2>3. Sound(q, heap_end) /\ Used(q) = Used(heap) \ {b} /\ SameUsed(heap, q, {b})
      BY <2>1, ReleasedSound
    <2> HIDE DEF q
    <2>4. Backed(q, g)
      BY <2>3, TakenBacked DEF HeapInv
    <2> HIDE DEF g
    <2> QED BY <2>2, <2>3, <2>4 DEF HeapInv, Idle
  <1>3. ASSUME NEW b \in DOMAIN regions, NEW size \in Requests, KreallocInPlace(b, size)
        PROVE  HeapInv'
    <2> DEFINE n == units(size)
               q == shrunk(heap, b, n)
               g == Given(regions, b, n)
    <2>1. b \in Used(heap) /\ Sound(heap, heap_end)
      BY DEF HeapInv, Backed
    <2>2. /\ heap' = q /\ regions' = g /\ heap_end' = heap_end /\ growing' = Idle
          /\ heap.blocks[b].size >= n /\ size # 0
      BY <1>3 DEF KreallocInPlace
    <2>3. n \in Nat \ {0}
      BY <2>2, UnitsPositive
    <2> HIDE DEF n
    <2>4. /\ Sound(q, heap_end) /\ Used(q) = Used(heap) /\ SameUsed(heap, q, {b})
          /\ q.blocks[b].size >= n
      BY <2>1, <2>2, <2>3, ShrunkSound
    <2> HIDE DEF q
    <2>5. Used(q) = Used(heap) \cup {b}
      BY <2>1, <2>4
    <2>6. Backed(q, g)
      BY <2>3, <2>4, <2>5, GivenBacked DEF HeapInv
    <2> HIDE DEF g
    <2> QED BY <2>2, <2>4, <2>6 DEF HeapInv, Idle
  <1>4. ASSUME NEW b \in DOMAIN regions, NEW size \in Requests, KreallocMoves(b, size)
        PROVE  HeapInv'
    <2>1. growing = Idle /\ size # 0 /\ allocate(units(size), b)
      BY <1>4 DEF KreallocMoves
    <2>2. units(size) \in Nat \ {0}
      BY <2>1, UnitsPositive
    <2> QED BY <2>1, <2>2, AllocateStep
  <1>5. CASE ExpandPage
    <2>1. /\ growing' = [growing EXCEPT !.done = @ + 1]
          /\ growing.done * PageUnits < growing.bytes
          /\ heap' = heap /\ heap_end' = heap_end /\ regions' = regions
      BY <1>5 DEF ExpandPage
    <2>2. Waiting
      BY <2>1 DEF HeapInv, Idle
    <2>3. /\ growing' = [units |-> growing.units, old |-> growing.old,
                         bytes |-> growing.bytes, done |-> growing.done + 1]
      BY <2>1, <2>2 DEF Waiting
    <2>4. Waiting'
      BY <2>1, <2>2, <2>3 DEF Waiting
    <2> QED BY <2>1, <2>4 DEF HeapInv
  <1>6. CASE ExpandFails
    BY <1>6 DEF ExpandFails, HeapInv, Idle
  <1>7. CASE ExpandDone
    BY <1>7, ExpandStep
  <1>8. CASE UNCHANGED vars
    BY <1>8 DEF HeapInv, Waiting, vars
  <1> QED BY <1>1, <1>2, <1>3, <1>4, <1>5, <1>6, <1>7, <1>8 DEF Next

LEMMA HeapInvariance == Spec => []HeapInv
  BY HeapInit, HeapStep, PTL DEF Spec

(* Whatever kmalloc, kfree and krealloc do, the blocks of heap.c's list    *)
(* lie end to end from the start of the heap to heap_end, each linked to   *)
(* its neighbours both ways.                                               *)
THEOREM BlocksTileTheHeap == Spec => []Tiled
  <1>1. HeapInv => Tiled
    BY DEF HeapInv, Sound, Good, Tiled
  <1> QED BY <1>1, HeapInvariance, PTL

(* Two free blocks are never neighbours: kfree, the shrinking krealloc     *)
(* and expand_heap coalesce all there is to coalesce.                      *)
THEOREM FreeSpaceIsWhole == Spec => []Coalesced
  <1>1. HeapInv => Coalesced
    BY DEF HeapInv, Sound, Alone, Coalesced
  <1> QED BY <1>1, HeapInvariance, PTL

(* The blocks in use are those callers hold, and each is as large as what  *)
(* kmalloc or krealloc was asked for.                                      *)
THEOREM HeldRegionsAreBacked == Spec => []RegionsBacked
  <1>1. HeapInv => RegionsBacked
    <2> SUFFICES ASSUME HeapInv PROVE RegionsBacked
      OBVIOUS
    <2>1. Backed(heap, regions) /\ IsHeap(heap)
      BY DEF HeapInv, Sound, Good
    <2>2. \A b \in Blocks(heap) : heap.blocks[b].size >= 1
      BY <2>1 DEF IsHeap, Headers
    <2> QED BY <2>1, <2>2 DEF Backed, Used, RegionsBacked
  <1> QED BY <1>1, HeapInvariance, PTL

-----------------------------------------------------------------------------
(* The heap implements Allocator: with its header, the region of every     *)
(* request is one the abstract allocator may hand out.                     *)

Whole(r) == [b \in DOMAIN r |-> Overhead + r[b]]

LEMMA WholeRegions ==
    ASSUME NEW r, NEW b, NEW n
    PROVE  /\ DOMAIN Whole(r) = DOMAIN r
           /\ \A c \in DOMAIN r : Whole(r)[c] = Overhead + r[c]
           /\ Whole(Given(r, b, n)) = Regions!Added(Whole(r), b, Overhead + n)
           /\ Whole(Taken(r, b)) = Regions!Removed(Whole(r), b)
  <1>1. /\ DOMAIN Given(r, b, n) = DOMAIN r \cup {b}
        /\ \A c \in DOMAIN r \cup {b} : Given(r, b, n)[c] = IF c = b THEN n ELSE r[c]
    BY DEF Given
  <1>2. /\ DOMAIN Taken(r, b) = DOMAIN r \ {b}
        /\ \A c \in DOMAIN r \ {b} : Taken(r, b)[c] = r[c]
    BY DEF Taken, Restrict
  <1>3. Whole(Given(r, b, n)) = Regions!Added(Whole(r), b, Overhead + n)
    BY <1>1 DEF Whole, Regions!Added
  <1>4. Whole(Taken(r, b)) = Regions!Removed(Whole(r), b)
    BY <1>2 DEF Whole, Regions!Removed, Regions!Restrict
  <1> QED BY <1>3, <1>4 DEF Whole

(* Room for n units at block b of h, whoever holds the other blocks in use. *)
LEMMA RoomAt ==
    ASSUME NEW h, NEW end, Sound(h, end), end <= HeapMax, NEW r, Backed(h, r),
           NEW b \in Blocks(h), NEW n \in Nat \ {0}, h.blocks[b].size >= n
    PROVE  /\ Overhead + n \in 1 .. HeapMax /\ b + (Overhead + n) <= HeapMax
           /\ \A c \in DOMAIN r \ {b} :
                 Regions!Apart(b, Overhead + n, c, Overhead + r[c])
  <1>1. Good(h, end) /\ end \in Nat
    BY DEF Sound, Good
  <1>2. /\ b \in Nat /\ h.blocks[b].size \in Nat
        /\ b + Overhead + h.blocks[b].size <= end
        /\ \A c \in Blocks(h) : b < c => b + Overhead + h.blocks[b].size <= c
    BY <1>1, BlockFacts
  <1>3. ASSUME NEW c \in DOMAIN r \ {b}
        PROVE  Regions!Apart(b, Overhead + n, c, Overhead + r[c])
    <2>1. c \in Blocks(h) /\ r[c] \in Nat /\ h.blocks[c].size >= r[c]
      BY DEF Backed, Used
    <2>2. /\ c \in Nat /\ h.blocks[c].size \in Nat
          /\ c < b => c + Overhead + h.blocks[c].size <= b
      BY <1>1, <2>1, BlockFacts
    <2>3. b < c => b + Overhead + h.blocks[b].size <= c
      BY <1>2, <2>1
    <2>4. b < c \/ c < b
      BY <1>2, <2>2
    <2> QED BY <1>2, <2>1, <2>2, <2>3, <2>4 DEF Regions!Apart
  <1>4. Overhead + n \in 1 .. HeapMax /\ b + (Overhead + n) <= HeapMax
    BY <1>1, <1>2
  <1> QED BY <1>3, <1>4

(* Handing out a block, and moving a region to one.                        *)
LEMMA FinishServes ==
    ASSUME NEW h, NEW end, Sound(h, end), end <= HeapMax, Backed(h, regions),
           NEW n \in Nat \ {0}, NEW old \in {NULL} \cup DOMAIN regions, finish(h, n, old)
    PROVE  Regions!Alloc \/ Regions!Move
  <1>1. PICK b \in Blocks(h) :
           /\ fits(h, b, n)
           /\ regions' = Given(IF old = NULL THEN regions ELSE Taken(regions, old), b, n)
    BY DEF finish, find_free_block, Blocks
  <1> DEFINE R == Whole(regions)
  <1>2. h.blocks[b].size >= n /\ b \notin DOMAIN regions
    BY <1>1 DEF fits, Backed, Used
  <1>3. /\ Overhead + n \in 1 .. HeapMax /\ b + (Overhead + n) <= HeapMax
        /\ \A c \in DOMAIN regions \ {b} :
              Regions!Apart(b, Overhead + n, c, Overhead + regions[c])
    BY <1>2, RoomAt
  <1>4. Regions!Free(R, b, Overhead + n)
    <2>1. DOMAIN R = DOMAIN regions /\ \A c \in DOMAIN regions : R[c] = Overhead + regions[c]
      BY DEF Whole
    <2> HIDE DEF R
    <2> QED BY <1>2, <1>3, <2>1 DEF Regions!Free
  <1>5. b \in DOMAIN regions'
    BY <1>1 DEF Given
  <1>6. DOMAIN R = DOMAIN regions /\ DOMAIN Whole(regions') = DOMAIN regions'
    BY WholeRegions
  <1>7. R = [c \in DOMAIN regions |-> Overhead + regions[c]]
        /\ Whole(regions') = [c \in DOMAIN regions' |-> Overhead + regions'[c]]
    BY DEF Whole
  <1> HIDE DEF R
  <1>8. CASE old = NULL
    <2>1. Whole(regions') = Regions!Added(R, b, Overhead + n)
      BY <1>1, <1>8, WholeRegions DEF R
    <2> QED BY <1>2, <1>3, <1>4, <1>5, <1>6, <1>7, <2>1 DEF Regions!Alloc
  <1>9. CASE old # NULL
    <2> DEFINE m == Taken(regions, old)
    <2>1. old \in DOMAIN regions /\ regions' = Given(m, b, n)
      BY <1>1, <1>9
    <2>2. Whole(m) = Regions!Removed(R, old)
      BY WholeRegions DEF R
    <2>3. Whole(Given(m, b, n)) = Regions!Added(Whole(m), b, Overhead + n)
      BY WholeRegions
    <2> HIDE DEF m
    <2>4. Whole(regions') = Regions!Added(Regions!Removed(R, old), b, Overhead + n)
      BY <2>1, <2>2, <2>3
    <2> QED BY <1>3, <1>4, <1>5, <1>6, <1>7, <2>1, <2>4 DEF Regions!Move
  <1> QED BY <1>8, <1>9

LEMMA AllocateServes ==
    ASSUME HeapInv, NEW n \in Nat \ {0}, NEW old \in {NULL} \cup DOMAIN regions,
           allocate(n, old)
    PROVE  Regions!Alloc \/ Regions!Move \/ UNCHANGED regions
  <1>1. CASE finish(heap, n, old)
    BY <1>1, FinishServes DEF HeapInv
  <1>2. CASE ~finish(heap, n, old)
    BY <1>2 DEF allocate, vars
  <1> QED BY <1>1, <1>2

LEMMA ServesStep ==
    HeapInv /\ HeapInv' /\ [Next]_vars =>
        \/ Regions!Alloc \/ Regions!Release \/ Regions!Resize \/ Regions!Move
        \/ UNCHANGED regions
  <1> DEFINE Served == \/ Regions!Alloc \/ Regions!Release \/ Regions!Resize
                       \/ Regions!Move \/ UNCHANGED regions
             R == Whole(regions)
  <1> SUFFICES ASSUME HeapInv, HeapInv', [Next]_vars PROVE Served
    OBVIOUS
  <1>0. /\ R = [c \in DOMAIN regions |-> Overhead + regions[c]]
        /\ Whole(regions') = [c \in DOMAIN regions' |-> Overhead + regions'[c]]
        /\ DOMAIN R = DOMAIN regions
    BY DEF Whole
  <1>1. ASSUME NEW size \in Requests, Kmalloc(size)
        PROVE  Served
    <2>1. CASE size = 0
      BY <1>1, <2>1 DEF Kmalloc, vars
    <2>2. CASE size # 0
      <3>1. allocate(units(size), NULL)
        BY <1>1, <2>2 DEF Kmalloc
      <3>2. units(size) \in Nat \ {0}
        BY <2>2, UnitsPositive
      <3> QED BY <3>1, <3>2, AllocateServes
    <2> QED BY <2>1, <2>2
  <1>2. ASSUME NEW b \in DOMAIN regions, Kfree(b)
        PROVE  Served
    <2>1. regions' = Taken(regions, b)
      BY <1>2 DEF Kfree
    <2>2. Whole(regions') = Regions!Removed(R, b)
      BY <2>1, WholeRegions
    <2> HIDE DEF R
    <2> QED BY <1>0, <2>2 DEF Regions!Release
  <1>3. ASSUME NEW b \in DOMAIN regions, NEW size \in Requests, KreallocInPlace(b, size)
        PROVE  Served
    <2> DEFINE n == units(size)
               g == Taken(regions, b)
    <2>1. size # 0 /\ heap.blocks[b].size >= n /\ regions' = Given(regions, b, n)
      BY <1>3 DEF KreallocInPlace
    <2>2. n \in Nat \ {0}
      BY <2>1, UnitsPositive
    <2> HIDE DEF n
    <2>3. b \in Blocks(heap)
      BY DEF HeapInv, Backed, Used
    <2>4. /\ Overhead + n \in 1 .. HeapMax /\ b + (Overhead + n) <= HeapMax
          /\ \A c \in DOMAIN regions \ {b} :
                Regions!Apart(b, Overhead + n, c, Overhead + regions[c])
      BY <2>1, <2>2, <2>3, RoomAt DEF HeapInv
    <2>5. /\ DOMAIN Regions!Removed(R, b) = DOMAIN regions \ {b}
          /\ \A c \in DOMAIN regions \ {b} : Regions!Removed(R, b)[c] = Overhead + regions[c]
      BY <1>0 DEF Regions!Removed, Regions!Restrict
    <2>6. Regions!Free(Regions!Removed(R, b), b, Overhead + n)
      BY <2>4, <2>5 DEF Regions!Free
    <2>7. Whole(regions') = Regions!Added(R, b, Overhead + n)
      BY <2>1, WholeRegions
    <2> HIDE DEF R
    <2> QED BY <1>0, <2>4, <2>6, <2>7 DEF Regions!Resize
  <1>4. ASSUME NEW b \in DOMAIN regions, NEW size \in Requests, KreallocMoves(b, size)
        PROVE  Served
    <2>1. size # 0 /\ allocate(units(size), b)
      BY <1>4 DEF KreallocMoves
    <2>2. units(size) \in Nat \ {0}
      BY <2>1, UnitsPositive
    <2> QED BY <2>1, <2>2, AllocateServes
  <1>5. CASE ExpandPage \/ ExpandFails \/ UNCHANGED vars
    BY <1>5 DEF ExpandPage, ExpandFails, vars
  <1>6. CASE ExpandDone
    <2>1. PICK h : /\ Sound(h, heap_end + growing.bytes) /\ Backed(h, regions)
                   /\ finish(h, growing.units, growing.old)
      BY <1>6, ExpandStep
    <2>2. /\ growing.units \in Nat \ {0} /\ growing.old \in {NULL} \cup DOMAIN regions
          /\ heap_end + growing.bytes <= HeapMax
      BY <1>6, ExpandStep DEF Waiting
    <2> QED BY <2>1, <2>2, FinishServes
  <1> QED BY <1>1, <1>2, <1>3, <1>4, <1>5, <1>6 DEF Next

(* Every region stays where kmalloc or krealloc put it until kfree or      *)
(* krealloc gives it up, and no two overlap, headers included: heap.c      *)
(* implements Allocator.                                                   *)
THEOREM ImplementsAllocator == Spec => ServesRegions
  <1>1. Init => Regions!Init
    BY DEF Init, Regions!Init
  <1>2. HeapInv => DOMAIN regions \subseteq 0 .. HeapMax
    <2> SUFFICES ASSUME HeapInv, NEW b \in DOMAIN regions PROVE b \in 0 .. HeapMax
      OBVIOUS
    <2>1. Good(heap, heap_end) /\ heap_end \in Nat /\ heap_end <= HeapMax
      BY DEF HeapInv, Sound, Good
    <2>2. b \in Blocks(heap)
      BY DEF HeapInv, Backed, Used
    <2>3. b \in Nat /\ heap.blocks[b].size \in Nat /\ b + Overhead + heap.blocks[b].size <= heap_end
      BY <2>1, <2>2, BlockFacts
    <2> QED BY <2>1, <2>3
  <1>3. HeapInv' => (DOMAIN regions \subseteq 0 .. HeapMax)'
    BY <1>2, PTL
  <1>4. HeapInv /\ HeapInv' /\ [Next]_vars
           => [Regions!Next]_([b \in DOMAIN regions |-> Overhead + regions[b]])
    <2> SUFFICES ASSUME HeapInv, HeapInv', [Next]_vars
                 PROVE  [Regions!Next]_([b \in DOMAIN regions |-> Overhead + regions[b]])
      OBVIOUS
    <2>1. Regions!Addressed
      BY <1>3 DEF Regions!Addressed
    <2>2. CASE UNCHANGED regions
      BY <2>2
    <2>3. CASE Regions!Alloc \/ Regions!Release \/ Regions!Resize \/ Regions!Move
      BY <2>1, <2>3 DEF Regions!Next
    <2> QED BY <2>2, <2>3, ServesStep
  <1> QED BY <1>1, <1>4, HeapInvariance, PTL DEF Spec, ServesRegions, Regions!Spec

-----------------------------------------------------------------------------
(* Frames.                                                                 *)

(* Of three tables that may be missing, a shortage makes the lowest ones.  *)
Lowest(S, m) == {x \in S : Cardinality({y \in S : y < x}) < m}

LEMMA Counts ==
    ASSUME NEW a \in Int, NEW b \in Int, NEW c \in Int, a < b, b < c
    PROVE  /\ IsFiniteSet({}) /\ Cardinality({}) = 0
           /\ IsFiniteSet({a}) /\ Cardinality({a}) = 1
           /\ IsFiniteSet({a, b}) /\ Cardinality({a, b}) = 2
           /\ IsFiniteSet({a, b, c}) /\ Cardinality({a, b, c}) = 3
  <1> DEFINE one == {a}
             two == {a, b}
             three == {a, b, c}
  <1>1. /\ IsFiniteSet({}) /\ Cardinality({}) = 0
        /\ IsFiniteSet(one) /\ Cardinality(one) = 1
    BY FS_EmptySet, FS_Singleton, Zenon
  <1>2. b \notin one /\ c \notin two /\ two = one \cup {b} /\ three = two \cup {c}
    OBVIOUS
  <1> HIDE DEF one, two, three
  <1>3. IsFiniteSet(two) /\ Cardinality(two) = 2
    BY <1>1, <1>2, FS_AddElement
  <1>4. IsFiniteSet(three) /\ Cardinality(three) = 3
    BY <1>2, <1>3, FS_AddElement
  <1> QED BY <1>1, <1>3, <1>4, Zenon DEF one, two, three

LEMMA LowestOfOne ==
    ASSUME NEW a \in Int, NEW m \in Int, m < 1
    PROVE  Lowest({a}, m) = {}
  <1>1. {y \in {a} : y < a} = {}
    OBVIOUS
  <1>2. \A x \in {a} : Cardinality({y \in {a} : y < x}) = 0
    BY <1>1, FS_EmptySet
  <1> QED BY <1>2 DEF Lowest

LEMMA LowestOfTwo ==
    ASSUME NEW a \in Int, NEW b \in Int, a < b, NEW m \in Int, m < 2
    PROVE  Lowest({a, b}, m) = IF m < 1 THEN {} ELSE {a}
  <1>1. {y \in {a, b} : y < a} = {} /\ {y \in {a, b} : y < b} = {a}
    OBVIOUS
  <1>2. Cardinality({y \in {a, b} : y < a}) = 0 /\ Cardinality({y \in {a, b} : y < b}) = 1
    BY <1>1, FS_EmptySet, FS_Singleton
  <1>3. \A x \in {a, b} : Cardinality({y \in {a, b} : y < x}) = IF x = a THEN 0 ELSE 1
    BY <1>2
  <1> QED BY <1>3 DEF Lowest

LEMMA LowestOfThree ==
    ASSUME NEW a \in Int, NEW b \in Int, NEW c \in Int, a < b, b < c, NEW m \in Int, m < 3
    PROVE  Lowest({a, b, c}, m) = IF m < 1 THEN {} ELSE IF m < 2 THEN {a} ELSE {a, b}
  <1> DEFINE S == {a, b, c}
  <1>1. {y \in S : y < a} = {} /\ {y \in S : y < b} = {a} /\ {y \in S : y < c} = {a, b}
    OBVIOUS
  <1>2. Cardinality({}) = 0 /\ Cardinality({a}) = 1 /\ Cardinality({a, b}) = 2
    BY Counts, Zenon
  <1>3. \A x \in S : Cardinality({y \in S : y < x}) = IF x = a THEN 0 ELSE IF x = b THEN 1 ELSE 2
    BY <1>1, <1>2
  <1> QED BY <1>3 DEF Lowest

(* With too few frames for a page and its missing tables S, all frames but *)
(* the page's own have become tables.                                      *)
AllButOne(S, f) ==
    /\ IsFiniteSet(S) /\ IsFiniteSet(Lowest(S, f - 1))
    /\ Cardinality(Lowest(S, f - 1)) = IF f = 0 THEN 0 ELSE f - 1

LEMMA NoneMissing ==
    ASSUME NEW f \in Nat, f < 1 + Cardinality({})
    PROVE  AllButOne({}, f)
  <1>1. Lowest({}, f - 1) = {}
    BY DEF Lowest
  <1> QED BY <1>1, FS_EmptySet DEF AllButOne

LEMMA OneMissing ==
    ASSUME NEW a \in Int, NEW f \in Nat, f < 1 + Cardinality({a})
    PROVE  AllButOne({a}, f)
  <1>1. IsFiniteSet({a}) /\ Cardinality({a}) = 1
    BY FS_Singleton, Zenon
  <1>2. f - 1 \in Int /\ f - 1 < 1
    BY <1>1
  <1>3. Lowest({a}, f - 1) = {}
    BY <1>2, LowestOfOne
  <1> QED BY <1>1, <1>2, <1>3, FS_EmptySet DEF AllButOne

LEMMA TwoMissing ==
    ASSUME NEW a \in Int, NEW b \in Int, a < b, NEW f \in Nat, f < 1 + Cardinality({a, b})
    PROVE  AllButOne({a, b}, f)
  <1>1. b < b + 1 /\ b + 1 \in Int
    OBVIOUS
  <1>2. /\ IsFiniteSet({a, b}) /\ Cardinality({a, b}) = 2 /\ IsFiniteSet({})
        /\ Cardinality({}) = 0 /\ IsFiniteSet({a}) /\ Cardinality({a}) = 1
    BY <1>1, Counts, Zenon
  <1>3. f - 1 \in Int /\ f - 1 < 2
    BY <1>2
  <1>4. Lowest({a, b}, f - 1) = IF f - 1 < 1 THEN {} ELSE {a}
    BY <1>3, LowestOfTwo, Zenon
  <1> QED BY <1>2, <1>3, <1>4 DEF AllButOne

LEMMA ThreeMissing ==
    ASSUME NEW a \in Int, NEW b \in Int, NEW c \in Int, a < b, b < c, NEW f \in Nat,
           f < 1 + Cardinality({a, b, c})
    PROVE  AllButOne({a, b, c}, f)
  <1>1. /\ IsFiniteSet({a, b, c}) /\ Cardinality({a, b, c}) = 3
        /\ IsFiniteSet({}) /\ Cardinality({}) = 0
        /\ IsFiniteSet({a}) /\ Cardinality({a}) = 1
        /\ IsFiniteSet({a, b}) /\ Cardinality({a, b}) = 2
    BY Counts, Zenon
  <1>2. f - 1 \in Int /\ f - 1 < 3
    BY <1>1
  <1>3. Lowest({a, b, c}, f - 1) = IF f - 1 < 1 THEN {} ELSE IF f - 1 < 2 THEN {a} ELSE {a, b}
    BY <1>2, LowestOfThree, Zenon
  <1> QED BY <1>1, <1>2, <1>3 DEF AllButOne

LEMMA TablesMade ==
    ASSUME NEW q \in Nat, NEW T, NEW f \in Nat, NEW S, S = {-2, -1, q} \ T,
           f < 1 + Cardinality(S)
    PROVE  AllButOne(S, f)
  <1>1. \/ S = {} \/ S = {-2} \/ S = {-1} \/ S = {q} \/ S = {-2, -1} \/ S = {-2, q}
        \/ S = {-1, q} \/ S = {-2, -1, q}
    <2>1. S = {x \in {-2, -1, q} : x \notin T}
      OBVIOUS
    <2>2. CASE -2 \in T
      BY <2>1, <2>2
    <2>3. CASE -2 \notin T
      BY <2>1, <2>3
    <2> QED BY <2>2, <2>3
  <1>2. -2 \in Int /\ -1 \in Int /\ q \in Int /\ -2 < -1 /\ -1 < q /\ -2 < q
    OBVIOUS
  <1>3. CASE S = {}
    BY <1>3, NoneMissing
  <1>4. ASSUME NEW a \in Int, S = {a}
        PROVE  AllButOne(S, f)
    BY <1>4, OneMissing
  <1>5. ASSUME NEW a \in Int, NEW b \in Int, a < b, S = {a, b}
        PROVE  AllButOne(S, f)
    BY <1>5, TwoMissing
  <1>6. ASSUME NEW a \in Int, NEW b \in Int, NEW c \in Int, a < b, b < c, S = {a, b, c}
        PROVE  AllButOne(S, f)
    BY <1>6, ThreeMissing
  <1> QED BY <1>1, <1>2, <1>3, <1>4, <1>5, <1>6

(* The heap ends at a page boundary, and an expansion maps no more pages   *)
(* than it asked for.                                                      *)
FrameInv ==
    /\ \E k \in Nat : heap_end = k * PageUnits
    /\ growing.done \in Nat /\ growing.done * PageUnits <= growing.bytes
    /\ frames \in Nat /\ total_pages \in Nat /\ IsFiniteSet(tables)
    /\ FramesConserved

(* k is the number of pages up to heap_end.                                *)
AtPage(k) ==
    /\ k \in Nat /\ heap_end = k * PageUnits /\ heap_end \div PageUnits = k
    /\ next_page = k + growing.done

LEMMA PageOfEnd == FrameInv => \E k : AtPage(k)
  <1> SUFFICES ASSUME FrameInv PROVE \E k : AtPage(k)
    OBVIOUS
  <1>1. PICK k \in Nat : heap_end = k * PageUnits
    BY DEF FrameInv
  <1>2. (k * PageUnits) \div PageUnits = k
    BY MulDiv
  <1> QED BY <1>1, <1>2 DEF AtPage, next_page

LEMMA UpTo ==
    ASSUME NEW n \in Nat
    PROVE  /\ IsFiniteSet(0 .. n - 1) /\ Cardinality(0 .. n - 1) = n
           /\ (0 .. n - 1) \cup {n} = 0 .. (n + 1) - 1
  <1>1. 0 \in Int /\ n - 1 \in Int
    OBVIOUS
  <1>2. /\ IsFiniteSet(0 .. n - 1)
        /\ Cardinality(0 .. n - 1) = IF 0 > n - 1 THEN 0 ELSE n - 1 - 0 + 1
    BY <1>1, FS_Interval
  <1> QED BY <1>2

(* Nothing is mapped, and the next page stays the next page.               *)
LEMMA NoPage ==
    ASSUME FrameInv, UNCHANGED <<total_pages, heap_end, frames, mapped, tables>>,
           growing'.done = growing.done,
           growing'.done * PageUnits <= growing'.bytes
    PROVE  FrameInv'
  <1>1. next_page' = next_page
    BY DEF next_page
  <1> QED BY <1>1 DEF FrameInv, FramesConserved

LEMMA AllocateFrames ==
    ASSUME HeapInv, FrameInv, growing = Idle, NEW n \in Nat \ {0}, NEW old, allocate(n, old)
    PROVE  FrameInv'
  <1>1. UNCHANGED <<total_pages, heap_end, frames, mapped, tables>>
    BY DEF allocate, vars
  <1>2. \/ growing' = growing
        \/ growing' = [units |-> n, old |-> old, bytes |-> expand_bytes(n), done |-> 0]
    BY DEF allocate, vars
  <1>3. expand_bytes(n) \in Nat
    BY ExpandBytes
  <1>4. growing'.done = 0 /\ growing.done = 0 /\ growing'.bytes \in Nat
    BY <1>2, <1>3 DEF Idle
  <1>5. growing'.done * PageUnits <= growing'.bytes
    BY <1>4
  <1> QED BY <1>1, <1>4, <1>5, NoPage

LEMMA PageFrames ==
    ASSUME HeapInv, FrameInv, ExpandPage
    PROVE  FrameInv'
  <1> DEFINE missing == missing_tables(next_page)
  <1>1. PICK k : AtPage(k)
    BY PageOfEnd
  <1>2. /\ k \in Nat /\ heap_end \div PageUnits = k /\ next_page = k + growing.done
        /\ growing.done \in Nat /\ next_page \in Nat
    BY <1>1 DEF AtPage, FrameInv
  <1>3. /\ growing.done * PageUnits < growing.bytes
        /\ frames >= 1 + Cardinality(missing)
        /\ frames' = frames - 1 - Cardinality(missing)
        /\ tables' = tables \cup missing
        /\ mapped' = mapped \cup {next_page}
        /\ growing' = [growing EXCEPT !.done = @ + 1]
        /\ total_pages' = total_pages /\ heap_end' = heap_end
    BY DEF ExpandPage
  <1>4. Waiting
    BY <1>3 DEF HeapInv, Idle
  <1>5. growing'.done = growing.done + 1 /\ growing'.bytes = growing.bytes
    BY <1>3, <1>4 DEF Waiting
  <1>6. next_page' = next_page + 1
    BY <1>2, <1>3, <1>5 DEF next_page
  <1>7. growing'.done * PageUnits <= growing'.bytes
    <2>1. growing.units \in Nat \ {0} /\ growing.bytes = expand_bytes(growing.units)
      BY <1>4 DEF Waiting
    <2>2. PICK j \in Nat : growing.bytes = j * PageUnits
      BY <2>1, ExpandBytes
    <2>3. growing.done < j
      BY <1>2, <1>3, <2>2, Cancel
    <2>4. growing.done + 1 \in Nat /\ growing.done + 1 <= j
      BY <1>2, <2>3
    <2>5. (growing.done + 1) * PageUnits <= j * PageUnits
      BY <2>4, Cancel
    <2> QED BY <1>5, <2>2, <2>5
  <1>8. IsFiniteSet(missing) /\ missing \cap tables = {}
    <2>1. IsFiniteSet({-2, -1, next_page \div PtSpan})
      <3>1. -2 \in Int /\ -1 \in Int /\ next_page \div PtSpan \in Nat
        BY <1>2, DivBounds
      <3>2. -2 < -1 /\ -1 < next_page \div PtSpan /\ next_page \div PtSpan \in Int
        BY <3>1
      <3> QED BY <3>1, <3>2, Counts
    <2>2. IsFiniteSet({-2, -1, next_page \div PtSpan} \ tables)
      BY <2>1, FS_Difference
    <2> QED BY <2>2 DEF missing_tables
  <1>9. Cardinality(missing) \in Nat /\ Cardinality(tables) \in Nat /\ IsFiniteSet(tables)
    BY <1>8, FS_CardinalityType DEF FrameInv
  <1> HIDE DEF missing
  <1>10. IsFiniteSet(tables') /\ Cardinality(tables') = Cardinality(tables) + Cardinality(missing)
    <2>1. /\ IsFiniteSet(tables \cup missing)
          /\ Cardinality(tables \cup missing)
               = Cardinality(tables) + Cardinality(missing) - Cardinality(tables \cap missing)
      BY <1>8, <1>9, FS_Union
    <2>2. tables \cap missing = {} /\ Cardinality({}) = 0
      BY <1>8, FS_EmptySet
    <2>3. Cardinality(tables \cap missing) = 0
      BY <2>2
    <2> QED BY <1>3, <1>9, <2>1, <2>3
  <1>11. /\ mapped = 0 .. next_page - 1 /\ frames \in Nat /\ total_pages \in Nat
         /\ frames + Cardinality(mapped) + Cardinality(tables) = total_pages
    BY DEF FrameInv, FramesConserved
  <1>12. Cardinality(mapped) = next_page
    BY <1>2, <1>11, UpTo
  <1>13. mapped' = 0 .. (next_page + 1) - 1
    BY <1>2, <1>3, <1>11, UpTo
  <1>14. Cardinality(mapped') = next_page + 1
    BY <1>2, <1>13, UpTo
  <1>15. frames' \in Nat /\ frames' + Cardinality(mapped') + Cardinality(tables') = total_pages'
    <2> DEFINE c == Cardinality(missing)
               n == Cardinality(tables)
    <2>1. frames' = frames - 1 - c /\ frames >= 1 + c /\ total_pages' = total_pages
      BY <1>3
    <2>2. frames + next_page + n = total_pages /\ Cardinality(tables') = n + c
      BY <1>10, <1>11, <1>12
    <2>3. c \in Nat /\ n \in Nat /\ frames \in Nat /\ next_page \in Nat
      BY <1>2, <1>9, <1>11
    <2> HIDE DEF c, n
    <2> QED BY <1>14, <2>1, <2>2, <2>3
  <1>16. FramesConserved'
    BY <1>6, <1>13, <1>15 DEF FramesConserved
  <1>17. growing'.done \in Nat /\ \E j \in Nat : heap_end' = j * PageUnits
    BY <1>2, <1>3, <1>5 DEF FrameInv
  <1> QED BY <1>3, <1>7, <1>10, <1>11, <1>15, <1>16, <1>17 DEF FrameInv

LEMMA RollbackFrames ==
    ASSUME HeapInv, FrameInv, ExpandFails
    PROVE  FrameInv'
  <1> DEFINE missing == missing_tables(next_page)
             made == Lowest(missing, frames - 1)
  <1>1. PICK k : AtPage(k)
    BY PageOfEnd
  <1>2. /\ k \in Nat /\ heap_end \div PageUnits = k /\ next_page = k + growing.done
        /\ growing.done \in Nat /\ next_page \in Nat
    BY <1>1 DEF AtPage, FrameInv
  <1>3. /\ frames < 1 + Cardinality(missing)
        /\ tables' = tables \cup made
        /\ frames' = given_back
        /\ mapped' = {p \in mapped : p < k}
        /\ growing' = Idle
        /\ total_pages' = total_pages /\ heap_end' = heap_end
    BY <1>2 DEF ExpandFails, Lowest, rollback_heap_mapping
  <1>4. /\ mapped = 0 .. next_page - 1 /\ frames \in Nat /\ total_pages \in Nat
        /\ frames + Cardinality(mapped) + Cardinality(tables) = total_pages
        /\ IsFiniteSet(tables)
    BY DEF FrameInv, FramesConserved
  <1>5. next_page \div PtSpan \in Nat /\ missing = {-2, -1, next_page \div PtSpan} \ tables
    BY <1>2, DivBounds DEF missing_tables
  <1>6. AllButOne(missing, frames)
    <2> HIDE DEF missing
    <2> QED BY <1>3, <1>4, <1>5, TablesMade
  <1>7. made \cap tables = {}
    BY <1>5 DEF Lowest
  <1>8. IsFiniteSet(made) /\ Cardinality(made) = IF frames = 0 THEN 0 ELSE frames - 1
    BY <1>6 DEF AllButOne
  <1> HIDE DEF made, missing
  <1>9. IsFiniteSet(tables') /\ Cardinality(tables') = Cardinality(tables) + Cardinality(made)
    <2>1. /\ IsFiniteSet(tables \cup made)
          /\ Cardinality(tables \cup made)
               = Cardinality(tables) + Cardinality(made) - Cardinality(tables \cap made)
      BY <1>4, <1>8, FS_Union
    <2>2. tables \cap made = {} /\ Cardinality({}) = 0
      BY <1>7, FS_EmptySet
    <2>3. Cardinality(tables \cap made) = 0
      BY <2>2
    <2>4. Cardinality(tables) \in Nat /\ Cardinality(made) \in Nat
      BY <1>4, <1>8, FS_CardinalityType
    <2> QED BY <1>3, <2>1, <2>3, <2>4
  <1>10. Cardinality(tables) \in Nat
    BY <1>4, FS_CardinalityType
  <1>11. Cardinality(mapped) = k + growing.done
    BY <1>2, <1>4, UpTo
  <1>12. mapped' = 0 .. k - 1
    BY <1>2, <1>3, <1>4
  <1>13. Cardinality(mapped') = k
    BY <1>2, <1>12, UpTo
  <1>14. frames' \in Nat /\ frames' = growing.done + (IF frames = 0 THEN 0 ELSE 1)
    BY <1>2, <1>3 DEF given_back
  <1>15. frames' + Cardinality(mapped') + Cardinality(tables') = total_pages'
    <2> DEFINE n == Cardinality(tables)
               m == Cardinality(made)
    <2>1. /\ frames + (k + growing.done) + n = total_pages /\ total_pages' = total_pages
          /\ Cardinality(tables') = n + m /\ m = (IF frames = 0 THEN 0 ELSE frames - 1)
          /\ Cardinality(mapped') = k
          /\ frames' = growing.done + (IF frames = 0 THEN 0 ELSE 1)
      BY <1>3, <1>4, <1>8, <1>9, <1>11, <1>13, <1>14
    <2>2. k \in Nat /\ growing.done \in Nat /\ n \in Nat /\ frames \in Nat
      BY <1>2, <1>4, <1>10
    <2> HIDE DEF n, m
    <2> QED BY <2>1, <2>2
  <1>16. growing'.done = 0 /\ growing'.bytes = 0
    BY <1>3 DEF Idle
  <1>17. next_page' = k
    BY <1>2, <1>3, <1>16 DEF next_page
  <1>18. FramesConserved'
    BY <1>12, <1>15, <1>17 DEF FramesConserved
  <1>19. \E j \in Nat : heap_end' = j * PageUnits
    BY <1>3 DEF FrameInv
  <1>20. growing'.done \in Nat /\ growing'.done * PageUnits <= growing'.bytes
    BY <1>16
  <1>21. total_pages' \in Nat
    BY <1>3, <1>4
  <1>22. IsFiniteSet(tables') /\ frames' \in Nat
    BY <1>9, <1>14
  <1> QED BY <1>18, <1>19, <1>20, <1>21, <1>22, Zenon DEF FrameInv

LEMMA DoneFrames ==
    ASSUME HeapInv, FrameInv, ExpandDone
    PROVE  FrameInv'
  <1>1. PICK k : AtPage(k)
    BY PageOfEnd
  <1>2. /\ k \in Nat /\ heap_end = k * PageUnits /\ next_page = k + growing.done
        /\ growing.done \in Nat
    BY <1>1 DEF AtPage, FrameInv
  <1>3. /\ growing.done * PageUnits >= growing.bytes /\ heap_end' = heap_end + growing.bytes
        /\ growing' = Idle /\ UNCHANGED <<total_pages, frames, mapped, tables>>
    BY DEF ExpandDone
  <1>4. Waiting
    BY ExpandStep
  <1>5. growing.bytes \in Nat /\ growing.done * PageUnits \in Nat
    BY <1>2, <1>4, ExpandBytes, Times DEF Waiting
  <1>6. growing.bytes = growing.done * PageUnits
    BY <1>3, <1>5 DEF FrameInv
  <1> DEFINE j == k + growing.done
  <1>7. j \in Nat /\ heap_end' = j * PageUnits
    BY <1>2, <1>3, <1>6, Times
  <1>8. heap_end' \div PageUnits = j
    <2> HIDE DEF j
    <2> QED BY <1>7, MulDiv
  <1>9. growing'.done = 0 /\ growing'.bytes = 0
    BY <1>3 DEF Idle
  <1>10. next_page' = next_page
    BY <1>2, <1>7, <1>8, <1>9 DEF next_page
  <1>11. FramesConserved'
    BY <1>3, <1>10 DEF FrameInv, FramesConserved
  <1> QED BY <1>3, <1>7, <1>9, <1>11 DEF FrameInv

(* No frame is lost or invented by an expansion of the heap, the failed    *)
(* ones included: rollback_heap_mapping gives back all but the page        *)
(* tables, and leaves mapped exactly the pages below heap_end.             *)
THEOREM NoFrameLost == Spec => []FramesConserved
  <1>1. Init => FrameInv
    <2> SUFFICES ASSUME Init PROVE FrameInv
      OBVIOUS
    <2>1. /\ heap_end = 0 /\ growing.done = 0 /\ growing.bytes = 0 /\ frames = total_pages
          /\ total_pages \in Nat /\ mapped = {} /\ tables = {}
      BY DEF Init, Idle
    <2>2. heap_end = 0 * PageUnits /\ next_page = 0
      <3>1. 0 * PageUnits = 0 /\ 0 \div PageUnits = 0
        BY MulDiv
      <3> QED BY <2>1, <3>1 DEF next_page
    <2>3. mapped = 0 .. next_page - 1
      BY <2>1, <2>2
    <2>4. IsFiniteSet({}) /\ Cardinality({}) = 0
      BY FS_EmptySet
    <2>5. FramesConserved
      BY <2>1, <2>3, <2>4 DEF FramesConserved
    <2> QED BY <2>1, <2>2, <2>4, <2>5 DEF FrameInv
  <1>2. HeapInv /\ FrameInv /\ [Next]_vars => FrameInv'
    <2> SUFFICES ASSUME HeapInv, FrameInv, [Next]_vars PROVE FrameInv'
      OBVIOUS
    <2>1. ASSUME NEW size \in Requests, Kmalloc(size)
          PROVE  FrameInv'
      <3>1. CASE size = 0
        <4>1. UNCHANGED vars
          BY <2>1, <3>1 DEF Kmalloc
        <4> QED BY <4>1, NoPage DEF vars, FrameInv
      <3>2. CASE size # 0
        <4>1. growing = Idle /\ allocate(units(size), NULL)
          BY <2>1, <3>2 DEF Kmalloc
        <4>2. units(size) \in Nat \ {0}
          BY <3>2, UnitsPositive
        <4> QED BY <4>1, <4>2, AllocateFrames
      <3> QED BY <3>1, <3>2
    <2>2. ASSUME NEW b \in DOMAIN regions, NEW size \in Requests, KreallocMoves(b, size)
          PROVE  FrameInv'
      <3>1. growing = Idle /\ size # 0 /\ allocate(units(size), b)
        BY <2>2 DEF KreallocMoves
      <3>2. units(size) \in Nat \ {0}
        BY <3>1, UnitsPositive
      <3> QED BY <3>1, <3>2, AllocateFrames
    <2>3. ASSUME UNCHANGED <<total_pages, heap_end, frames, mapped, tables, growing>>
          PROVE  FrameInv'
      BY <2>3, NoPage DEF FrameInv
    <2>4. CASE \E b \in DOMAIN regions : Kfree(b)
      BY <2>3, <2>4 DEF Kfree
    <2>5. CASE \E b \in DOMAIN regions, size \in Requests : KreallocInPlace(b, size)
      BY <2>3, <2>5 DEF KreallocInPlace
    <2>6. CASE UNCHANGED vars
      BY <2>3, <2>6 DEF vars
    <2> QED BY <2>1, <2>2, <2>4, <2>5, <2>6, PageFrames, RollbackFrames, DoneFrames DEF Next
  <1>3. FrameInv => FramesConserved
    BY DEF FrameInv
  <1> QED BY <1>1, <1>2, <1>3, HeapInvariance, PTL DEF Spec

-----------------------------------------------------------------------------
(* What allocated counts: the sizes of the blocks in use.                  *)

IsList(h) == h = [blocks |-> h.blocks, first |-> h.first, last |-> h.last,
                  allocated |-> h.allocated]

(* g is a list with the count of h.                                        *)
SameCount(h, g) == IsList(g) /\ g.allocated = h.allocated

LEMMA RelinkCount ==
    ASSUME NEW h, IsList(h), NEW bs, NEW last, NEW g,
           g = [h EXCEPT !.blocks = bs, !.last = last]
    PROVE  SameCount(h, g)
  BY DEF IsList, SameCount

LEMMA SplitCount ==
    ASSUME NEW h, IsList(h), NEW b, NEW n
    PROVE  SameCount(h, split_block(h, b, n))
  <1> DEFINE g == split_block(h, b, n)
  <1>1. g = h \/ \E bs, last : g = [h EXCEPT !.blocks = bs, !.last = last]
    BY Zenon DEF split_block
  <1> HIDE DEF g
  <1>2. SameCount(h, g)
    <2>1. CASE g = h
      BY <2>1 DEF SameCount
    <2>2. ASSUME NEW bs, NEW last, g = [h EXCEPT !.blocks = bs, !.last = last]
          PROVE  SameCount(h, g)
      BY <2>2, RelinkCount
    <2> QED BY <1>1, <2>1, <2>2
  <1> QED BY <1>2 DEF g

LEMMA NextCount ==
    ASSUME NEW h, IsList(h), NEW b
    PROVE  SameCount(h, coalesce_with_next(h, b))
  <1> DEFINE g == coalesce_with_next(h, b)
  <1>1. g = h \/ \E bs, last : g = [h EXCEPT !.blocks = bs, !.last = last]
    BY Zenon DEF coalesce_with_next
  <1> HIDE DEF g
  <1>2. SameCount(h, g)
    <2>1. CASE g = h
      BY <2>1 DEF SameCount
    <2>2. ASSUME NEW bs, NEW last, g = [h EXCEPT !.blocks = bs, !.last = last]
          PROVE  SameCount(h, g)
      BY <2>2, RelinkCount
    <2> QED BY <1>1, <2>1, <2>2
  <1> QED BY <1>2 DEF g

LEMMA PrevCount ==
    ASSUME NEW h, IsList(h), NEW b
    PROVE  SameCount(h, coalesce_with_prev(h, b))
  <1>1. \/ coalesce_with_prev(h, b) = h
        \/ coalesce_with_prev(h, b) = coalesce_with_next(h, h.blocks[b].prev)
    BY Zenon DEF coalesce_with_prev
  <1> QED BY <1>1, NextCount DEF SameCount

LEMMA AppendCount ==
    ASSUME NEW h, IsList(h), NEW b, NEW size
    PROVE  SameCount(h, append_block(h, b, size))
  <1>1. \E bs, first : append_block(h, b, size) = [h EXCEPT !.blocks = bs, !.first = first, !.last = b]
    BY Zenon DEF append_block
  <1> QED BY <1>1 DEF SameCount, IsList

LEMMA TakenCount ==
    ASSUME NEW h, IsList(h), NEW b, NEW n, NEW t, t = taken(h, b, n),
           split_block(h, b, n).blocks[b].size = t.blocks[b].size
    PROVE  IsList(t) /\ t.allocated = h.allocated + t.blocks[b].size
  <1> DEFINE s == split_block(h, b, n)
  <1>1. SameCount(h, s)
    BY SplitCount
  <1>2. t = [s EXCEPT !.blocks = [s.blocks EXCEPT ![b].use = "used"],
                      !.allocated = s.allocated + s.blocks[b].size]
    BY DEF taken
  <1>3. s.blocks[b].size = t.blocks[b].size
    OBVIOUS
  <1> HIDE DEF s
  <1> DEFINE bs == [s.blocks EXCEPT ![b].use = "used"]
  <1>4. t = [s EXCEPT !.blocks = bs, !.allocated = s.allocated + s.blocks[b].size]
    BY <1>2
  <1> HIDE DEF bs
  <1> QED BY <1>1, <1>3, <1>4 DEF SameCount, IsList

LEMMA ReleasedCount ==
    ASSUME NEW h, IsList(h), NEW b, NEW r, r = released(h, b)
    PROVE  IsList(r) /\ r.allocated = h.allocated - h.blocks[b].size
  <1> DEFINE bs == [h.blocks EXCEPT ![b].use = "free"]
             f == [h EXCEPT !.blocks = bs, !.allocated = h.allocated - h.blocks[b].size]
             g == coalesce_with_next(f, b)
  <1>1. r = coalesce_with_prev(g, b)
    BY DEF released
  <1> HIDE DEF bs
  <1>2. f = [h EXCEPT !.blocks = bs, !.allocated = h.allocated - h.blocks[b].size]
    OBVIOUS
  <1> HIDE DEF f
  <1>3. IsList(f) /\ f.allocated = h.allocated - h.blocks[b].size
    BY <1>2 DEF IsList
  <1>4. SameCount(f, g)
    BY <1>3, NextCount
  <1> HIDE DEF g
  <1>5. SameCount(g, r)
    BY <1>1, <1>4, PrevCount DEF SameCount
  <1> QED BY <1>3, <1>4, <1>5 DEF SameCount

LEMMA ShrunkCount ==
    ASSUME NEW h, IsList(h), NEW b, NEW n, NEW r, r = shrunk(h, b, n)
    PROVE  IsList(r) /\ r.allocated = h.allocated - (h.blocks[b].size - r.blocks[b].size)
  <1> DEFINE s == split_block(h, b, n)
             next == s.blocks[b].next
             c == IF next = NULL THEN s
                  ELSE IF s.blocks[next].use = "used" THEN s
                  ELSE coalesce_with_next(s, next)
  <1>1. SameCount(h, s)
    BY SplitCount
  <1>2. r = [c EXCEPT !.allocated = c.allocated - (h.blocks[b].size - c.blocks[b].size)]
    BY DEF shrunk
  <1> HIDE DEF s
  <1>3. c = s \/ c = coalesce_with_next(s, next)
    OBVIOUS
  <1> HIDE DEF c, next
  <1>4. SameCount(s, c)
    BY <1>1, <1>3, NextCount DEF SameCount
  <1> QED BY <1>1, <1>2, <1>4 DEF SameCount, IsList

-----------------------------------------------------------------------------
(* Sums of sizes.                                                          *)

Sizes(h) == [b \in Used(h) |-> h.blocks[b].size]
Total(h) == SumOver(Sizes(h), Used(h))

LEMMA SizesAreNumbers ==
    ASSUME NEW h, NEW end, Good(h, end)
    PROVE  /\ IsFiniteSet(Used(h)) /\ Total(h) \in Int
           /\ \A b \in Used(h) : Sizes(h)[b] = h.blocks[b].size /\ Sizes(h)[b] \in Int
  <1>1. \A b \in Used(h) : Sizes(h)[b] = h.blocks[b].size /\ Sizes(h)[b] \in Int
    BY BlockFacts DEF Used, Sizes
  <1>2. Used(h) \in SUBSET Nat /\ end \in Nat
    BY DEF Used, Good, IsHeap
  <1>3. \A b \in Used(h) : b <= end
    <2> SUFFICES ASSUME NEW b \in Used(h) PROVE b <= end
      OBVIOUS
    <2>1. /\ BlockEnd(h.blocks, b) <= end /\ b \in Nat /\ h.blocks[b].size \in Nat
          /\ BlockEnd(h.blocks, b) = b + Overhead + h.blocks[b].size
      BY BlockFacts DEF Used
    <2> QED BY <1>2, <2>1
  <1>4. IsFiniteSet(Used(h))
    BY <1>2, <1>3, FS_BoundedSetOfNaturals
  <1>5. Total(h) \in Int
    BY <1>1, <1>4, SumType DEF Total
  <1> QED BY <1>1, <1>4, <1>5

(* Blocks S are in use in both lists, with the same sizes.                 *)
Common(h, q, S) ==
    \A c \in S : c \in Used(h) /\ c \in Used(q) /\ q.blocks[c].size = h.blocks[c].size

LEMMA CommonSum ==
    ASSUME NEW h, NEW q, NEW end, Good(h, end), NEW S, Common(h, q, S)
    PROVE  SumOver(Sizes(h), S) = SumOver(Sizes(q), S)
  <1>1. S \in SUBSET Used(h)
    BY DEF Common
  <1>2. IsFiniteSet(S)
    BY <1>1, SizesAreNumbers, FS_Subset
  <1>3. \A c \in S : Sizes(h)[c] = Sizes(q)[c]
    BY DEF Common, Sizes
  <1> QED BY <1>2, <1>3, SumSame

(* A list's total, with the summand of one block apart.                    *)
LEMMA TotalTake ==
    ASSUME NEW h, NEW end, Good(h, end), NEW b \in Used(h)
    PROVE  Total(h) = h.blocks[b].size + SumOver(Sizes(h), Used(h) \ {b})
  <1>1. /\ IsFiniteSet(Used(h)) /\ \A c \in Used(h) : Sizes(h)[c] \in Int
        /\ Sizes(h)[b] = h.blocks[b].size
    BY SizesAreNumbers
  <1>2. SumOver(Sizes(h), Used(h)) = Sizes(h)[b] + SumOver(Sizes(h), Used(h) \ {b})
    BY <1>1, SumTake
  <1> QED BY <1>1, <1>2 DEF Total

Counted(h) == IsList(h) /\ h.allocated = Total(h)

LEMMA SameCounted ==
    ASSUME NEW h, NEW q, NEW end, Good(h, end), Counted(h), SameCount(h, q),
           Used(q) = Used(h), SameUsed(h, q, {})
    PROVE  Counted(q)
  <1>1. Common(h, q, Used(h))
    BY DEF Common, SameUsed
  <1>2. SumOver(Sizes(h), Used(h)) = SumOver(Sizes(q), Used(h))
    BY <1>1, CommonSum
  <1> QED BY <1>2 DEF Counted, SameCount, Total

LEMMA TakenCounted ==
    ASSUME NEW h, NEW end, Sound(h, end), NEW b \in Blocks(h), NEW n \in Nat \ {0},
           fits(h, b, n), Counted(h), NEW t, t = taken(h, b, n)
    PROVE  Counted(t)
  <1>1. /\ Sound(t, end) /\ Used(t) = Used(h) \cup {b} /\ b \notin Used(h)
        /\ SameUsed(h, t, {}) /\ Good(t, end) /\ Good(h, end)
    BY TakenSound DEF Sound
  <1>2. IsList(t) /\ t.allocated = h.allocated + t.blocks[b].size
    <2> DEFINE s == split_block(h, b, n)
    <2>1. IsList(h)
      BY DEF Counted
    <2>2. t = with_use(s, b, "used", s.allocated + s.blocks[b].size)
      BY DEF taken, with_use
    <2>3. IsHeap(s) /\ b \in Blocks(s)
      <3>1. CASE h.blocks[b].size < n + Overhead + 1
        <4>1. s = h
          BY <3>1 DEF split_block
        <4> QED BY <1>1, <4>1 DEF Good
      <3>2. CASE h.blocks[b].size >= n + Overhead + 1
        <4>1. Split(h, s, b, n)
          BY <1>1, <3>2, SplitEffect
        <4> QED BY <4>1 DEF Split
      <3> QED BY <1>1, <3>1, <3>2, BlockFacts
    <2> HIDE DEF s
    <2>4. t.blocks[b].size = s.blocks[b].size
      BY <2>2, <2>3, MarkEffect DEF SameShape
    <2> QED BY <2>1, <2>4, TakenCount DEF s
  <1>3. Total(t) = t.blocks[b].size + SumOver(Sizes(t), Used(t) \ {b})
    BY <1>1, TotalTake
  <1>4. Used(t) \ {b} = Used(h) /\ Common(h, t, Used(h))
    BY <1>1 DEF Common, SameUsed
  <1>5. SumOver(Sizes(h), Used(h)) = SumOver(Sizes(t), Used(h))
    BY <1>1, <1>4, CommonSum
  <1>6. Total(t) = t.blocks[b].size + Total(h)
    BY <1>3, <1>4, <1>5 DEF Total
  <1>7. t.blocks[b].size \in Int /\ Total(h) \in Int
    <2>1. b \in Blocks(t)
      BY <1>1 DEF Used
    <2> QED BY <1>1, <2>1, BlockFacts, SizesAreNumbers
  <1> QED BY <1>2, <1>6, <1>7 DEF Counted

LEMMA ReleasedCounted ==
    ASSUME NEW h, NEW end, Sound(h, end), NEW b \in Used(h), Counted(h),
           NEW r, r = released(h, b)
    PROVE  Counted(r)
  <1>1. /\ Good(r, end) /\ Used(r) = Used(h) \ {b} /\ SameUsed(h, r, {b}) /\ Good(h, end)
    BY ReleasedSound DEF Sound
  <1>2. IsList(r) /\ r.allocated = h.allocated - h.blocks[b].size
    BY ReleasedCount DEF Counted
  <1>3. Total(h) = h.blocks[b].size + SumOver(Sizes(h), Used(h) \ {b})
    BY <1>1, TotalTake
  <1>4. Common(h, r, Used(h) \ {b})
    BY <1>1 DEF Common, SameUsed
  <1>5. SumOver(Sizes(h), Used(h) \ {b}) = SumOver(Sizes(r), Used(h) \ {b})
    BY <1>1, <1>4, CommonSum
  <1>6. Total(h) = h.blocks[b].size + Total(r)
    BY <1>1, <1>3, <1>5 DEF Total
  <1>7. h.blocks[b].size \in Int /\ Total(r) \in Int
    <2>1. b \in Blocks(h)
      BY DEF Used
    <2> QED BY <1>1, <2>1, BlockFacts, SizesAreNumbers
  <1> QED BY <1>2, <1>6, <1>7 DEF Counted

LEMMA ShrunkCounted ==
    ASSUME NEW h, NEW end, Sound(h, end), NEW b \in Used(h), NEW n \in Nat \ {0},
           h.blocks[b].size >= n, Counted(h), NEW r, r = shrunk(h, b, n)
    PROVE  Counted(r)
  <1> DEFINE rest == Used(h) \ {b}
  <1>1. /\ Good(r, end) /\ Used(r) = Used(h) /\ SameUsed(h, r, {b}) /\ Good(h, end)
    BY ShrunkSound DEF Sound
  <1>2. IsList(r) /\ r.allocated = h.allocated - (h.blocks[b].size - r.blocks[b].size)
    BY ShrunkCount DEF Counted
  <1>3. Common(h, r, rest)
    BY <1>1 DEF Common, SameUsed
  <1>4. /\ Total(h) = h.blocks[b].size + SumOver(Sizes(h), rest)
        /\ Total(r) = r.blocks[b].size + SumOver(Sizes(r), rest)
    BY <1>1, TotalTake
  <1> HIDE DEF rest
  <1>5. SumOver(Sizes(h), rest) = SumOver(Sizes(r), rest)
    BY <1>1, <1>3, CommonSum
  <1>6. SumOver(Sizes(h), rest) \in Int
    <2>1. /\ IsFiniteSet(Used(h)) /\ \A c \in Used(h) : Sizes(h)[c] \in Int
      BY <1>1, SizesAreNumbers
    <2>2. rest \in SUBSET Used(h)
      BY DEF rest
    <2>3. IsFiniteSet(rest) /\ \A c \in rest : Sizes(h)[c] \in Int
      BY <2>1, <2>2, FS_Subset
    <2> QED BY <2>3, SumType
  <1>7. h.blocks[b].size \in Int /\ r.blocks[b].size \in Int
    BY <1>1, BlockFacts DEF Used
  <1> QED BY <1>2, <1>4, <1>5, <1>6, <1>7 DEF Counted

LEMMA FinishCounted ==
    ASSUME NEW h, NEW end, Sound(h, end), Backed(h, regions), NEW n \in Nat \ {0},
           NEW old \in {NULL} \cup DOMAIN regions, finish(h, n, old), Counted(h)
    PROVE  Counted(heap')
  <1>1. PICK b \in Blocks(h) :
           /\ fits(h, b, n)
           /\ heap' = IF old = NULL THEN taken(h, b, n)
                      ELSE released(taken(h, b, n), old)
    BY DEF finish, find_free_block, Blocks
  <1> DEFINE t == taken(h, b, n)
  <1>2. Sound(t, end) /\ Used(t) = Used(h) \cup {b} /\ Counted(t)
    BY <1>1, TakenSound, TakenCounted
  <1> HIDE DEF t
  <1>3. CASE old = NULL
    BY <1>1, <1>2, <1>3 DEF t
  <1>4. CASE old # NULL
    <2>1. old \in Used(t) /\ heap' = released(t, old)
      BY <1>1, <1>2, <1>4 DEF Backed, t
    <2> QED BY <1>2, <2>1, ReleasedCounted
  <1> QED BY <1>3, <1>4

LEMMA AllocateCounted ==
    ASSUME HeapInv, Counted(heap), NEW n \in Nat \ {0},
           NEW old \in {NULL} \cup DOMAIN regions, allocate(n, old)
    PROVE  Counted(heap')
  <1>1. finish(heap, n, old) \/ heap' = heap
    BY DEF allocate, vars
  <1>2. Sound(heap, heap_end) /\ Backed(heap, regions)
    BY DEF HeapInv
  <1>3. CASE finish(heap, n, old)
    BY <1>2, <1>3, FinishCounted
  <1> QED BY <1>1, <1>3

LEMMA DoneCounted ==
    ASSUME HeapInv, Counted(heap), ExpandDone
    PROVE  Counted(heap')
  <1> DEFINE size == growing.bytes - Overhead
             a == append_block(heap, heap_end, size)
             h == coalesce_with_prev(a, heap_end)
  <1>1. finish(h, growing.units, growing.old)
    BY DEF ExpandDone
  <1>2. Waiting /\ Sound(heap, heap_end) /\ Good(heap, heap_end) /\ IsList(heap)
    BY ExpandStep DEF HeapInv, Sound, Counted
  <1>3. growing.units \in Nat \ {0} /\ growing.old \in {NULL} \cup DOMAIN regions
    BY <1>2 DEF Waiting
  <1>4. growing.bytes \in Nat /\ growing.bytes >= growing.units + Overhead
    BY <1>2, <1>3, ExpandBytes DEF Waiting
  <1>5. size \in Nat \ {0}
    BY <1>3, <1>4
  <1> HIDE DEF size
  <1>6. SameCount(heap, h)
    <2>1. SameCount(heap, a)
      BY <1>2, AppendCount
    <2> HIDE DEF a
    <2>2. SameCount(a, h)
      BY <2>1, PrevCount DEF SameCount
    <2> QED BY <2>1, <2>2 DEF SameCount
  <1>7. /\ Sound(h, heap_end + Overhead + size) /\ Used(h) = Used(heap)
        /\ SameUsed(heap, h, {})
    BY <1>2, <1>5, ExpandedSound
  <1> HIDE DEF h
  <1>8. Counted(h)
    BY <1>2, <1>6, <1>7, SameCounted
  <1>9. Backed(h, regions)
    BY <1>7, StillBacked DEF HeapInv
  <1> QED BY <1>1, <1>3, <1>7, <1>8, <1>9, FinishCounted

(* The sum of the property is the total of the proofs.                     *)
LEMMA SumOfSizes ==
    ASSUME NEW bs, NEW S
    PROVE  MapThenSumSet(LAMBDA b : bs[b].size, S) = SumOver([b \in S |-> bs[b].size], S)
  <1> DEFINE f == [b \in S |-> bs[b].size]
             F(h) == [s \in SUBSET S |->
                        IF s = {} THEN 0 ELSE bs[pick(s)].size + h[s \ {pick(s)}]]
  <1>1. ASSUME NEW h PROVE F(h) = SumStep(f, S, h)
    <2>1. ASSUME NEW s \in SUBSET S, s # {}
          PROVE  f[pick(s)] = bs[pick(s)].size
      <3>1. pick(s) \in S
        BY <2>1 DEF pick
      <3> QED BY <3>1
    <2> HIDE DEF f
    <2> QED BY <2>1 DEF SumStep
  <1>2. MapThenSumSet(LAMBDA b : bs[b].size, S) = (CHOOSE h : h = F(h))[S]
    BY Zenon DEF MapThenSumSet, MapThenFoldSet, pick
  <1>3. SumOver(f, S) = Iter(f, S)[S]
    BY SumIsIter
  <1> HIDE DEF F, f
  <1>4. (CHOOSE h : h = F(h)) = (CHOOSE h : h = SumStep(f, S, h))
    BY <1>1
  <1> QED BY <1>2, <1>3, <1>4 DEF f, Iter

(* What SYSCALL_KERNEL_HEAP_STATUS reports as allocated is the sum of the  *)
(* blocks in use, through every split, shrinking krealloc, move and        *)
(* expansion: kmalloc, kfree and krealloc add and subtract the same sizes. *)
THEOREM CountOfBytesIsExact == Spec => []AllocatedIsSum
  <1> DEFINE Inv == Counted(heap)
  <1>1. Init => Inv
    <2> SUFFICES ASSUME Init PROVE Counted(heap)
      OBVIOUS
    <2>1. heap = EmptyHeap
      BY DEF Init
    <2>2. Used(heap) = {} /\ heap.allocated = 0 /\ IsList(heap)
      BY <2>1 DEF Used, Blocks, EmptyHeap, IsList
    <2>3. IsFiniteSet({})
      BY FS_EmptySet
    <2>4. Total(heap) = 0
      BY <2>2, <2>3, SumFirst DEF Total
    <2> QED BY <2>2, <2>4 DEF Counted
  <1>2. HeapInv /\ Inv /\ [Next]_vars => Inv'
    <2> SUFFICES ASSUME HeapInv, Counted(heap), [Next]_vars PROVE Counted(heap')
      OBVIOUS
    <2>0. Sound(heap, heap_end) /\ Backed(heap, regions) /\ DOMAIN regions = Used(heap)
      BY DEF HeapInv, Backed
    <2>1. ASSUME NEW size \in Requests, Kmalloc(size)
          PROVE  Counted(heap')
      <3>1. CASE size = 0
        BY <2>1, <3>1 DEF Kmalloc, vars
      <3>2. CASE size # 0
        <4>1. allocate(units(size), NULL)
          BY <2>1, <3>2 DEF Kmalloc
        <4>2. units(size) \in Nat \ {0}
          BY <3>2, UnitsPositive
        <4> QED BY <4>1, <4>2, AllocateCounted
      <3> QED BY <3>1, <3>2
    <2>2. ASSUME NEW b \in DOMAIN regions, Kfree(b)
          PROVE  Counted(heap')
      BY <2>0, <2>2, ReleasedCounted DEF Kfree
    <2>3. ASSUME NEW b \in DOMAIN regions, NEW size \in Requests, KreallocInPlace(b, size)
          PROVE  Counted(heap')
      <3>1. /\ size # 0 /\ heap.blocks[b].size >= units(size)
            /\ heap' = shrunk(heap, b, units(size))
        BY <2>3 DEF KreallocInPlace
      <3>2. units(size) \in Nat \ {0}
        BY <3>1, UnitsPositive
      <3> QED BY <2>0, <3>1, <3>2, ShrunkCounted
    <2>4. ASSUME NEW b \in DOMAIN regions, NEW size \in Requests, KreallocMoves(b, size)
          PROVE  Counted(heap')
      <3>1. size # 0 /\ allocate(units(size), b)
        BY <2>4 DEF KreallocMoves
      <3>2. units(size) \in Nat \ {0}
        BY <3>1, UnitsPositive
      <3> QED BY <3>1, <3>2, AllocateCounted
    <2>5. CASE ExpandPage
      BY <2>5 DEF ExpandPage
    <2>6. CASE ExpandFails
      BY <2>6 DEF ExpandFails
    <2>7. CASE ExpandDone
      BY <2>7, DoneCounted
    <2>8. CASE UNCHANGED vars
      BY <2>8 DEF vars
    <2> QED BY <2>1, <2>2, <2>3, <2>4, <2>5, <2>6, <2>7, <2>8 DEF Next
  <1>3. Inv => AllocatedIsSum
    <2>1. Total(heap) = MapThenSumSet(LAMBDA b : heap.blocks[b].size, Used(heap))
      BY SumOfSizes DEF Total, Sizes
    <2> QED BY <2>1, Zenon DEF Counted, AllocatedIsSum, Used
  <1> QED BY <1>1, <1>2, <1>3, HeapInvariance, PTL DEF Spec

=============================================================================
