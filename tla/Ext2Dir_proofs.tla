---------------------------- MODULE Ext2Dir_proofs ----------------------------
(***************************************************************************)
(* Proofs about Ext2Dir, for every block length and set of names.          *)
(*                                                                         *)
(* The walk over a block is a recursive function.  That it has the value   *)
(* its definition says, and what it visits in a block whose records lie    *)
(* end to end, is shown by the least counterexample (Least of IndexLemmas) *)
(* among the distances from the end of the block.                          *)
(***************************************************************************)
EXTENDS Ext2Dir, SequenceTheorems, IndexLemmas, TLAPS

LEMMA BlockLength == BlockLen \in Nat /\ BlockLen > 6
  BY DirAssumption

USE BlockLength

AllNames == Names \cup {Dot, DotDot}
Record == [used : BOOLEAN, rec_len : Nat, name : AllNames]
Block == [0 .. BlockLen - 1 -> Record]

LEMMA MinLen ==
    ASSUME NEW name \in AllNames
    PROVE  /\ dir_entry_min_len(name) \in Nat /\ dir_entry_min_len(name) >= 3
           /\ dir_entry_min_len(name) <= BlockLen
           /\ name \in {Dot, DotDot} => dir_entry_min_len(name) = 3
  <1>1. CASE name \in {Dot, DotDot}
    BY <1>1 DEF dir_entry_min_len
  <1>2. CASE name \notin {Dot, DotDot}
    <2>1. name \in Names /\ NameUnits[name] \in Nat \ {0} /\ 2 + NameUnits[name] <= BlockLen
      BY <1>2, DirAssumption DEF AllNames
    <2>2. dir_entry_min_len(name) = 2 + NameUnits[name]
      BY <1>2 DEF dir_entry_min_len
    <2> QED BY <1>2, <2>1, <2>2
  <1> QED BY <1>1, <1>2

-----------------------------------------------------------------------------
(* The walk.                                                               *)

(* One round of the walk at pos, if f is what the rounds after it visit.   *)
Round(block, f, pos) ==
    IF pos + 2 > BlockLen THEN {}
    ELSE IF ~valid(block, pos) THEN {}
    ELSE {pos} \cup f[pos + block[pos].rec_len]

LEMMA RoundAhead ==
    ASSUME NEW block \in Block, NEW pos \in 0 .. BlockLen, NEW f, NEW g,
           \A q \in pos + 1 .. BlockLen : f[q] = g[q]
    PROVE  Round(block, f, pos) = Round(block, g, pos)
  <1>1. CASE pos + 2 > BlockLen
    BY <1>1 DEF Round
  <1>2. CASE ~(pos + 2 > BlockLen) /\ valid(block, pos)
    <2>1. block[pos].rec_len \in Nat
      BY <1>2 DEF Block, Record
    <2>2. pos + block[pos].rec_len \in pos + 1 .. BlockLen
      BY <1>2, <2>1 DEF valid
    <2>3. f[pos + block[pos].rec_len] = g[pos + block[pos].rec_len]
      BY <2>2
    <2> QED BY <2>3 DEF Round
  <1>3. CASE ~(pos + 2 > BlockLen) /\ ~valid(block, pos)
    BY <1>3 DEF Round
  <1> QED BY <1>1, <1>2, <1>3

(* The walk from n on has a value.                                         *)
HasWalk(block, n) == \E f : f = [pos \in n .. BlockLen |-> Round(block, f, pos)]

LEMMA WalkAtEnd ==
    ASSUME NEW block \in Block
    PROVE  HasWalk(block, BlockLen)
  <1> DEFINE f == [pos \in BlockLen .. BlockLen |-> {}]
  <1>1. \A pos \in BlockLen .. BlockLen : Round(block, f, pos) = {}
    BY DEF Round
  <1>2. f = [pos \in BlockLen .. BlockLen |-> Round(block, f, pos)]
    BY <1>1
  <1> QED BY <1>2 DEF HasWalk

LEMMA WalkBefore ==
    ASSUME NEW block \in Block, NEW n \in 0 .. BlockLen - 1, HasWalk(block, n + 1)
    PROVE  HasWalk(block, n)
  <1>1. PICK f : f = [pos \in n + 1 .. BlockLen |-> Round(block, f, pos)]
    BY DEF HasWalk
  <1> DEFINE g == [pos \in n .. BlockLen |-> IF pos = n THEN Round(block, f, n) ELSE f[pos]]
  <1>2. \A q \in n + 1 .. BlockLen : g[q] = f[q]
    OBVIOUS
  <1>3. \A pos \in n .. BlockLen : g[pos] = Round(block, g, pos)
    <2> TAKE pos \in n .. BlockLen
    <2>1. \A q \in pos + 1 .. BlockLen : g[q] = f[q]
      BY <1>2
    <2>2. pos \in 0 .. BlockLen
      OBVIOUS
    <2> HIDE DEF g
    <2>3. Round(block, g, pos) = Round(block, f, pos)
      BY <2>1, <2>2, RoundAhead
    <2>4. CASE pos = n
      BY <2>3, <2>4 DEF g
    <2>5. CASE pos # n
      <3>1. pos \in n + 1 .. BlockLen
        BY <2>5
      <3>2. f[pos] = Round(block, f, pos)
        BY <1>1, <3>1
      <3> QED BY <1>2, <2>3, <3>1, <3>2
    <2> QED BY <2>4, <2>5
  <1>4. g = [pos \in n .. BlockLen |-> g[pos]]
    OBVIOUS
  <1> HIDE DEF g
  <1>5. g = [pos \in n .. BlockLen |-> Round(block, g, pos)]
    BY <1>3, <1>4
  <1> QED BY <1>5 DEF HasWalk

(* So the recursive function in visited is the one its equation says.      *)
LEMMA VisitedIs ==
    ASSUME NEW block \in Block
    PROVE  \E f : /\ visited(block) = f[0]
                  /\ \A pos \in 0 .. BlockLen : f[pos] = Round(block, f, pos)
  <1> DEFINE Bad == {k \in 0 .. BlockLen : ~HasWalk(block, BlockLen - k)}
  <1>1. Bad = {}
    <2>1. SUFFICES ASSUME Bad # {} PROVE FALSE
      OBVIOUS
    <2>2. Bad \in SUBSET Nat
      OBVIOUS
    <2>3. PICK k \in Bad : \A j \in Bad : k <= j
      <3> HIDE DEF Bad
      <3> QED BY <2>1, <2>2, Least
    <2>4. k # 0
      <3>1. SUFFICES ASSUME k = 0 PROVE FALSE
        OBVIOUS
      <3>2. BlockLen - k = BlockLen
        BY <3>1
      <3> QED BY <2>3, <3>2, WalkAtEnd
    <2>5. k - 1 \in 0 .. BlockLen /\ k - 1 \notin Bad
      BY <2>3, <2>4
    <2>6. HasWalk(block, BlockLen - (k - 1))
      BY <2>5
    <2>7. BlockLen - (k - 1) = (BlockLen - k) + 1 /\ BlockLen - k \in 0 .. BlockLen - 1
      BY <2>3, <2>4
    <2>8. HasWalk(block, BlockLen - k)
      BY <2>6, <2>7, WalkBefore
    <2> QED BY <2>3, <2>8
  <1>2. HasWalk(block, 0)
    <2>1. BlockLen \in 0 .. BlockLen /\ BlockLen - BlockLen = 0
      OBVIOUS
    <2>2. HasWalk(block, BlockLen - BlockLen)
      BY <1>1, <2>1
    <2> QED BY <2>1, <2>2
  <1> DEFINE f == CHOOSE g : g = [pos \in 0 .. BlockLen |-> Round(block, g, pos)]
  <1>3. f = [pos \in 0 .. BlockLen |-> Round(block, f, pos)]
    BY <1>2 DEF HasWalk
  <1>4. visited(block) = f[0]
    BY Zenon DEF visited, Round
  <1> HIDE DEF f
  <1>5. \A pos \in 0 .. BlockLen : f[pos] = Round(block, f, pos)
    BY <1>3
  <1> QED BY <1>4, <1>5

-----------------------------------------------------------------------------
(* Blocks whose records lie end to end.                                    *)

After(block, p) == p + block[p].rec_len

(* The record at p is one of W, and another one of W or the end follows.   *)
FitsIn(block, W, p) ==
    /\ block[p].rec_len >= 2 /\ After(block, p) <= BlockLen
    /\ After(block, p) = BlockLen \/ After(block, p) \in W
    /\ block[p].used => block[p].rec_len >= dir_entry_min_len(block[p].name)
    /\ \A q \in W : p < q => After(block, p) <= q

Tiles(block, W) ==
    /\ block \in Block /\ W \subseteq 0 .. BlockLen - 2 /\ 0 \in W
    /\ \A p \in W : FitsIn(block, W, p)

LEMMA TileFacts ==
    ASSUME NEW block, NEW W, Tiles(block, W), NEW p \in W
    PROVE  /\ p \in Nat /\ p + 2 <= BlockLen /\ p \in 0 .. BlockLen - 1
           /\ block[p] \in Record /\ block[p].rec_len \in Nat /\ block[p].rec_len >= 2
           /\ block[p].name \in AllNames /\ block[p].used \in BOOLEAN
           /\ After(block, p) = p + block[p].rec_len /\ After(block, p) \in Nat
           /\ After(block, p) <= BlockLen /\ valid(block, p)
           /\ After(block, p) = BlockLen \/ After(block, p) \in W
           /\ block[p].used => block[p].rec_len >= dir_entry_min_len(block[p].name)
           /\ \A q \in W : p < q => After(block, p) <= q
  <1>1. p \in Nat /\ p + 2 <= BlockLen /\ p \in 0 .. BlockLen - 1
    BY DEF Tiles
  <1>2. /\ block[p] \in Record /\ block[p].rec_len \in Nat
        /\ block[p].name \in AllNames /\ block[p].used \in BOOLEAN
    BY <1>1 DEF Tiles, Block, Record
  <1>3. FitsIn(block, W, p)
    BY DEF Tiles
  <1> QED BY <1>1, <1>2, <1>3 DEF FitsIn, After, valid

(* The part of W from p on.                                                *)
Onwards(W, p) == {q \in W : q >= p}

LEMMA OnwardsFacts ==
    ASSUME NEW W \in SUBSET Nat, NEW p \in W, NEW next \in Nat, p < next,
           \A q \in W : p < q => next <= q
    PROVE  /\ Onwards(W, p) = {p} \cup Onwards(W, next)
           /\ (\A q \in W : q < next) => Onwards(W, p) = {p}
  <1>1. \A q \in W : q >= p <=> q = p \/ q >= next
    OBVIOUS
  <1>2. p >= p
    OBVIOUS
  <1>3. (\A q \in W : q < next) => \A q \in W : ~(q >= next)
    OBVIOUS
  <1> QED BY <1>1, <1>2, <1>3 DEF Onwards

LEMMA OnwardsAll ==
    ASSUME NEW W \in SUBSET Nat
    PROVE  Onwards(W, 0) = W
  <1>1. \A q \in W : q >= 0
    OBVIOUS
  <1> QED BY <1>1, Zenon DEF Onwards

(* The walk visits them all and nothing else.                              *)
LEMMA TilesVisited ==
    ASSUME NEW block, NEW W, Tiles(block, W)
    PROVE  visited(block) = W
  <1>1. block \in Block
    BY DEF Tiles
  <1>2. PICK f : /\ visited(block) = f[0]
                 /\ \A pos \in 0 .. BlockLen : f[pos] = Round(block, f, pos)
    BY <1>1, VisitedIs
  <1> DEFINE Wrong(p) == f[p] # Onwards(W, p)
             Bad == {k \in 0 .. BlockLen : \E p \in W : k = BlockLen - p /\ Wrong(p)}
  <1> HIDE DEF Wrong
  <1>3. Bad = {}
    <2>1. SUFFICES ASSUME Bad # {} PROVE FALSE
      OBVIOUS
    <2>2. Bad \in SUBSET Nat
      OBVIOUS
    <2>3. PICK k \in Bad : \A j \in Bad : k <= j
      <3> HIDE DEF Bad
      <3> QED BY <2>1, <2>2, Least
    <2>4. PICK p \in W : k = BlockLen - p /\ Wrong(p)
      OBVIOUS
    <2> DEFINE next == After(block, p)
    <2>5. /\ p \in Nat /\ p + 2 <= BlockLen /\ block[p].rec_len \in Nat /\ block[p].rec_len >= 2
          /\ next = p + block[p].rec_len /\ valid(block, p)
          /\ next \in Nat /\ next <= BlockLen /\ (next = BlockLen \/ next \in W)
          /\ \A q \in W : p < q => next <= q
      BY TileFacts
    <2> HIDE DEF next
    <2>6. f[p] = {p} \cup f[next]
      <3>1. f[p] = Round(block, f, p)
        BY <1>2, <2>5
      <3> QED BY <2>5, <3>1 DEF Round
    <2>7. W \subseteq 0 .. BlockLen - 2
      BY DEF Tiles
    <2>8. CASE next = BlockLen
      <3>1. f[BlockLen] = {}
        <4>1. f[BlockLen] = Round(block, f, BlockLen)
          BY <1>2
        <4> QED BY <4>1 DEF Round
      <3>2. \A q \in W : q < next
        BY <2>7, <2>8
      <3>3. Onwards(W, p) = {p}
        <4>1. W \in SUBSET Nat /\ p < next
          BY <2>5, <2>7
        <4> QED BY <2>5, <3>2, <4>1, OnwardsFacts
      <3> QED BY <2>4, <2>6, <2>8, <3>1, <3>3 DEF Wrong
    <2>9. CASE next \in W
      <3>1. BlockLen - next \in 0 .. BlockLen /\ BlockLen - next < k
        BY <2>4, <2>5
      <3>2. BlockLen - next \notin Bad
        <4> HIDE DEF Bad
        <4>1. BlockLen - next \in Bad => k <= BlockLen - next
          BY <2>3
        <4> QED BY <2>4, <2>5, <3>1, <4>1
      <3>3. ~Wrong(next)
        BY <2>9, <3>1, <3>2
      <3>4. Onwards(W, p) = {p} \cup Onwards(W, next)
        <4>1. W \in SUBSET Nat /\ p < next
          BY <2>5, <2>7
        <4> QED BY <2>5, <4>1, OnwardsFacts
      <3> QED BY <2>4, <2>6, <3>3, <3>4 DEF Wrong
    <2> QED BY <2>5, <2>8, <2>9
  <1>4. 0 \in W /\ W \in SUBSET Nat
    BY DEF Tiles
  <1>5. ~Wrong(0)
    <2>1. BlockLen \in 0 .. BlockLen /\ BlockLen = BlockLen - 0
      OBVIOUS
    <2> QED BY <1>3, <1>4, <2>1
  <1>6. Onwards(W, 0) = W
    BY <1>4, OnwardsAll
  <1> QED BY <1>2, <1>5, <1>6 DEF Wrong

(* And it gets to the end of the block.                                    *)
LEMMA TilesWalks ==
    ASSUME NEW block, NEW W, Tiles(block, W)
    PROVE  walks(block)
  <1>1. W \in SUBSET Nat /\ W # {} /\ \A q \in W : q <= BlockLen
    BY DEF Tiles
  <1>2. Max(W) \in W /\ \A q \in W : Max(W) >= q
    BY <1>1, MaxIsGreatest
  <1> DEFINE p == Max(W)
  <1>3. /\ p \in Nat /\ block[p].rec_len \in Nat /\ block[p].rec_len >= 2
        /\ After(block, p) = p + block[p].rec_len
        /\ (After(block, p) = BlockLen \/ After(block, p) \in W)
    BY <1>2, TileFacts
  <1> HIDE DEF p
  <1>4. After(block, p) \notin W
    BY <1>2, <1>3 DEF p
  <1>5. p + block[p].rec_len + 2 > BlockLen
    BY <1>3, <1>4
  <1>6. p \in visited(block)
    BY <1>2, TilesVisited DEF p
  <1> QED BY <1>5, <1>6 DEF walks

Sound(block) == Tiles(block, visited(block))

LEMMA SoundIf ==
    ASSUME NEW block, NEW W, Tiles(block, W)
    PROVE  Sound(block) /\ visited(block) = W
  BY TilesVisited DEF Sound

-----------------------------------------------------------------------------
(* Writing records.                                                        *)

LEMMA WrittenFacts ==
    ASSUME NEW block \in Block, NEW pos \in 0 .. BlockLen - 1, NEW entry \in Record,
           NEW r, r = written(block, pos, entry)
    PROVE  /\ r \in Block /\ r[pos] = entry
           /\ \A p \in 0 .. BlockLen - 1 :
                 p < pos \/ p >= pos + dir_entry_min_len(entry.name) => r[p] = block[p]
  <1>1. Bytes \in Record
    BY DEF Bytes, Record, AllNames
  <1>2. dir_entry_min_len(entry.name) \in Nat
    BY MinLen DEF Record
  <1>3. /\ r = [p \in 0 .. BlockLen - 1 |-> r[p]] /\ r[pos] = entry
        /\ \A p \in 0 .. BlockLen - 1 : r[p] \in {entry, Bytes, block[p]}
    BY DEF written
  <1>4. \A p \in 0 .. BlockLen - 1 : r[p] \in Record
    BY <1>1, <1>3 DEF Block
  <1>5. r \in Block
    BY <1>3, <1>4 DEF Block
  <1>6. \A p \in 0 .. BlockLen - 1 :
           p < pos \/ p >= pos + dir_entry_min_len(entry.name) => r[p] = block[p]
    <2> DEFINE m == dir_entry_min_len(entry.name)
    <2> SUFFICES ASSUME NEW p \in 0 .. BlockLen - 1, p < pos \/ p >= pos + m
                 PROVE  r[p] = block[p]
      OBVIOUS
    <2>1. r[p] = IF p = pos THEN entry ELSE IF p \in pos + 1 .. pos + m - 1 THEN Bytes
                 ELSE block[p]
      BY DEF written
    <2>2. m \in Nat /\ m >= 3
      BY MinLen DEF Record
    <2> HIDE DEF m
    <2>3. p # pos /\ p \notin pos + 1 .. pos + m - 1
      BY <2>2
    <2> QED BY <2>1, <2>3
  <1> QED BY <1>3, <1>5, <1>6

Wrote(block, pos, entry, r) ==
    /\ r \in Block /\ r[pos] = entry
    /\ \A p \in 0 .. BlockLen - 1 :
          p < pos \/ p >= pos + dir_entry_min_len(entry.name) => r[p] = block[p]

LEMMA WrittenAs ==
    ASSUME NEW block \in Block, NEW pos \in 0 .. BlockLen - 1, NEW entry \in Record
    PROVE  Wrote(block, pos, entry, written(block, pos, entry))
  <1> DEFINE r == written(block, pos, entry)
  <1>1. r = written(block, pos, entry)
    OBVIOUS
  <1> HIDE DEF r
  <1>2. Wrote(block, pos, entry, r)
    BY <1>1, WrittenFacts DEF Wrote
  <1> QED BY <1>2 DEF r

(* A record that takes all of a block.                                     *)
LEMMA AloneTiles ==
    ASSUME NEW r \in Block, r[0].rec_len = BlockLen, r[0].used,
           dir_entry_min_len(r[0].name) <= BlockLen
    PROVE  Sound(r) /\ in_use(r) = {0}
  <1> DEFINE W == {0}
  <1>1. W \subseteq 0 .. BlockLen - 2 /\ 0 \in W /\ \A q \in W : q = 0
    OBVIOUS
  <1>2. After(r, 0) = BlockLen
    BY DEF After
  <1> HIDE DEF W
  <1>3. FitsIn(r, W, 0)
    <2>1. \A q \in W : 0 < q => After(r, 0) <= q
      BY <1>1
    <2> QED BY <1>2, <2>1 DEF FitsIn
  <1>4. Tiles(r, W)
    BY <1>1, <1>3 DEF Tiles
  <1>5. Sound(r) /\ visited(r) = W
    BY <1>4, SoundIf
  <1>6. in_use(r) = W
    BY <1>1, <1>5 DEF in_use
  <1> QED BY <1>5, <1>6 DEF W

(* Two records that take all of it, the first of them three units.         *)
LEMMA PairTiles ==
    ASSUME NEW r \in Block, r[0].rec_len = 3, r[0].used, r[3].rec_len = BlockLen - 3, r[3].used,
           dir_entry_min_len(r[0].name) = 3, dir_entry_min_len(r[3].name) = 3
    PROVE  Sound(r) /\ in_use(r) = {0, 3}
  <1> DEFINE W == {0, 3}
  <1>1. W \subseteq 0 .. BlockLen - 2 /\ 0 \in W /\ 3 \in W /\ \A q \in W : q = 0 \/ q = 3
    OBVIOUS
  <1>2. After(r, 0) = 3 /\ After(r, 3) = BlockLen
    BY DEF After
  <1> HIDE DEF W
  <1>3. FitsIn(r, W, 0)
    <2>1. \A q \in W : 0 < q => After(r, 0) <= q
      BY <1>1, <1>2
    <2> QED BY <1>1, <1>2, <2>1 DEF FitsIn
  <1>4. FitsIn(r, W, 3)
    <2>1. \A q \in W : 3 < q => After(r, 3) <= q
      BY <1>1
    <2> QED BY <1>2, <2>1 DEF FitsIn
  <1>5. Tiles(r, W)
    <2>1. \A p \in W : FitsIn(r, W, p)
      BY <1>1, <1>3, <1>4
    <2> QED BY <1>1, <2>1 DEF Tiles
  <1>6. Sound(r) /\ visited(r) = W
    BY <1>5, SoundIf
  <1>7. in_use(r) = W
    <2>1. \A p \in W : r[p].used
      BY <1>1
    <2> QED BY <1>6, <2>1 DEF in_use
  <1> QED BY <1>6, <1>7 DEF W

LEMMA BlankBlock == blank \in Block /\ Dot \in AllNames /\ DotDot \in AllNames
  BY DEF blank, Bytes, Block, Record, AllNames

(* The new block of a directory that has no room.                          *)
LEMMA AloneInBlock ==
    ASSUME NEW name \in Names, NEW e \in Record,
           e.used, e.rec_len = BlockLen, e.name = name,
           NEW r, r = written(blank, 0, e)
    PROVE  Sound(r) /\ in_use(r) = {0} /\ r[0].name = name
  <1>1. name \in AllNames /\ 0 \in 0 .. BlockLen - 1
    BY DEF AllNames
  <1>3. r \in Block /\ r[0] = e
    BY <1>1, BlankBlock, WrittenFacts
  <1>4. dir_entry_min_len(name) <= BlockLen
    BY <1>1, MinLen
  <1>5. Sound(r) /\ in_use(r) = {0}
    <2>1. r[0].rec_len = BlockLen /\ r[0].used /\ dir_entry_min_len(r[0].name) <= BlockLen
      BY <1>3, <1>4, Zenon
    <2> QED BY <1>3, <2>1, AloneTiles, Zenon
  <1> QED BY <1>3, <1>5, Zenon

(* The first block of a directory, with the record for ".." written last.  *)
LEMMA DotsInBlock ==
    ASSUME NEW s \in Block, s[0].used, s[0].rec_len = 3, s[0].name = Dot,
           NEW g \in Record, g.used, g.rec_len = BlockLen - 3, g.name = DotDot,
           NEW r, r = written(s, 3, g)
    PROVE  Sound(r) /\ in_use(r) = {0, 3} /\ r[0].name = Dot /\ r[3].name = DotDot
  <1>1. dir_entry_min_len(Dot) = 3 /\ dir_entry_min_len(DotDot) = 3
    BY BlankBlock, MinLen
  <1>2. 0 \in 0 .. BlockLen - 1 /\ 3 \in 0 .. BlockLen - 1 /\ 0 < 3
    OBVIOUS
  <1>3. /\ r \in Block /\ r[3] = g
        /\ \A p \in 0 .. BlockLen - 1 :
              p < 3 \/ p >= 3 + dir_entry_min_len(g.name) => r[p] = s[p]
    BY <1>2, WrittenFacts
  <1>4. r[0] = s[0]
    BY <1>2, <1>3, Zenon
  <1>5. /\ r[0].rec_len = 3 /\ r[0].name = Dot /\ r[0].used
        /\ r[3].rec_len = BlockLen - 3 /\ r[3].name = DotDot /\ r[3].used
        /\ dir_entry_min_len(r[0].name) = 3 /\ dir_entry_min_len(r[3].name) = 3
    BY <1>1, <1>3, <1>4, Zenon
  <1>6. Sound(r) /\ in_use(r) = {0, 3}
    BY <1>3, <1>5, PairTiles, Zenon
  <1> QED BY <1>5, <1>6

-----------------------------------------------------------------------------
(* Adding a record.                                                        *)

(* r has the records in use of block, and name at new.                     *)
Holds(block, r, new, name) ==
    /\ new \notin in_use(block) /\ in_use(r) = in_use(block) \cup {new}
    /\ r[new].name = name
    /\ \A p \in in_use(block) : r[p].name = block[p].name

(* In the place of one that was deleted.                                   *)
LEMMA InsertedInPlace ==
    ASSUME NEW block, Sound(block), NEW pos \in visited(block), NEW name \in Names,
           roomy(block, pos, name), ~block[pos].used, NEW r, r = insert(block, pos, name)
    PROVE  Sound(r) /\ Holds(block, r, pos, name)
  <1> DEFINE W == visited(block)
             e == Entry(TRUE, block[pos].rec_len, name)
  <1>0. Tiles(block, W) /\ name \in AllNames /\ block \in Block
    BY DEF Sound, Tiles, AllNames
  <1>1. r = written(block, pos, e)
    BY DEF insert
  <1>2. /\ pos \in 0 .. BlockLen - 1 /\ block[pos].rec_len \in Nat
        /\ After(block, pos) = pos + block[pos].rec_len /\ block[pos].rec_len >= 2
        /\ After(block, pos) <= BlockLen
        /\ (After(block, pos) = BlockLen \/ After(block, pos) \in W)
        /\ \A q \in W : pos < q => After(block, pos) <= q
    BY <1>0, TileFacts
  <1>3. dir_entry_min_len(name) \in Nat /\ block[pos].rec_len >= 2 + dir_entry_min_len(name)
    BY <1>0, MinLen DEF roomy, actual
  <1> HIDE DEF e, W
  <1>4. e \in Record /\ e.used /\ e.rec_len = block[pos].rec_len /\ e.name = name
    BY <1>0, <1>2 DEF e, Entry, Record
  <1>5. /\ r \in Block /\ r[pos] = e
        /\ \A p \in 0 .. BlockLen - 1 :
              p < pos \/ p >= pos + dir_entry_min_len(name) => r[p] = block[p]
    <2>1. /\ r \in Block /\ r[pos] = e
          /\ \A p \in 0 .. BlockLen - 1 :
                p < pos \/ p >= pos + dir_entry_min_len(e.name) => r[p] = block[p]
      <3>1. Wrote(block, pos, e, written(block, pos, e))
        BY <1>0, <1>2, <1>4, WrittenAs, Zenon
      <3> QED BY <1>1, <3>1, Zenon DEF Wrote
    <2> QED BY <1>4, <2>1, Zenon
  <1>6. \A p \in W \ {pos} : r[p] = block[p]
    <2> TAKE p \in W \ {pos}
    <2>1. p \in Nat /\ p \in 0 .. BlockLen - 1 /\ (pos < p => After(block, pos) <= p)
      BY <1>0, <1>2, TileFacts
    <2>2. p < pos \/ p >= pos + dir_entry_min_len(name)
      BY <1>2, <1>3, <2>1
    <2> QED BY <1>5, <2>1, <2>2
  <1>7. \A p \in W : FitsIn(r, W, p)
    <2> TAKE p \in W
    <2>1. CASE p = pos
      <3>1. After(r, pos) = After(block, pos)
        BY <1>2, <1>4, <1>5 DEF After
      <3>2. r[pos].rec_len >= dir_entry_min_len(r[pos].name)
        BY <1>2, <1>3, <1>4, <1>5
      <3>3. r[pos].rec_len >= 2
        BY <1>2, <1>4, <1>5
      <3> QED BY <1>2, <2>1, <3>1, <3>2, <3>3 DEF FitsIn
    <2>2. CASE p # pos
      <3>1. r[p] = block[p] /\ After(r, p) = After(block, p) /\ FitsIn(block, W, p)
        BY <1>0, <1>6, <2>2 DEF Tiles, After
      <3> QED BY <3>1 DEF FitsIn
    <2> QED BY <2>1, <2>2
  <1>8. Tiles(r, W)
    BY <1>0, <1>5, <1>7 DEF Tiles
  <1>9. Sound(r) /\ visited(r) = W
    BY <1>8, SoundIf
  <1>10. in_use(block) = {p \in W : block[p].used} /\ in_use(r) = {p \in W : r[p].used}
    BY <1>9 DEF in_use, W
  <1>11. pos \in W
    BY DEF W
  <1>12. Holds(block, r, pos, name)
    BY <1>4, <1>5, <1>6, <1>10, <1>11 DEF Holds
  <1> QED BY <1>9, <1>12

(* A record cut in two: the first part is a units long.                    *)
LEMMA SplitTiles ==
    ASSUME NEW block, NEW W, Tiles(block, W), NEW pos \in W,
           NEW a \in Nat, a >= 2, a + 2 <= block[pos].rec_len,
           NEW new, new = pos + a, NEW r \in Block,
           r[pos].rec_len = a, r[new].rec_len = block[pos].rec_len - a,
           r[pos].used => a >= dir_entry_min_len(r[pos].name),
           r[new].used => block[pos].rec_len - a >= dir_entry_min_len(r[new].name),
           \A p \in W \ {pos} : r[p] = block[p]
    PROVE  Tiles(r, W \cup {new}) /\ new \notin W
  <1> DEFINE V == W \cup {new}
             len == block[pos].rec_len
             next == After(block, pos)
  <1>1. /\ pos \in Nat /\ len \in Nat /\ next = pos + len /\ next <= BlockLen
        /\ (next = BlockLen \/ next \in W) /\ \A q \in W : pos < q => next <= q
    BY TileFacts
  <1>2. W \subseteq 0 .. BlockLen - 2 /\ 0 \in W
    BY DEF Tiles
  <1>3. a + 2 <= len /\ r[new].rec_len = len - a
    OBVIOUS
  <1> HIDE DEF len, next
  <1>4. new \in 0 .. BlockLen - 2 /\ new \in Nat /\ pos < new /\ new + 2 <= next
    BY <1>1, <1>3
  <1>5. new \notin W
    BY <1>1, <1>4
  <1>6. /\ V \subseteq 0 .. BlockLen - 2 /\ 0 \in V /\ new \in V /\ W \subseteq V
        /\ \A q \in V : q = new \/ q \in W
    BY <1>2, <1>4
  <1> HIDE DEF V
  <1>7. FitsIn(r, V, pos)
    <2>1. After(r, pos) = new
      BY DEF After
    <2>2. \A q \in V : pos < q => new <= q
      <3> TAKE q \in V
      <3>1. CASE q = new
        BY <1>4, <3>1
      <3>2. CASE q \in W
        BY <1>1, <1>2, <1>4, <3>2
      <3> QED BY <1>6, <3>1, <3>2
    <2>3. new <= BlockLen
      BY <1>1, <1>4
    <2> QED BY <1>6, <2>1, <2>2, <2>3 DEF FitsIn
  <1>8. FitsIn(r, V, new)
    <2>1. After(r, new) = next
      BY <1>1, <1>3, <1>4 DEF After
    <2>2. \A q \in V : new < q => next <= q
      <3> TAKE q \in V
      <3>1. CASE q = new
        BY <1>4, <3>1
      <3>2. CASE q \in W
        BY <1>1, <1>2, <1>4, <3>2
      <3> QED BY <1>6, <3>1, <3>2
    <2>3. r[new].rec_len >= 2
      BY <1>1, <1>3
    <2>4. next = BlockLen \/ next \in V
      BY <1>1, <1>6
    <2>5. r[new].used => r[new].rec_len >= dir_entry_min_len(r[new].name)
      BY <1>3
    <2> QED BY <1>1, <2>1, <2>2, <2>3, <2>4, <2>5 DEF FitsIn
  <1>9. \A p \in W \ {pos} : FitsIn(r, V, p)
    <2> TAKE p \in W \ {pos}
    <2>1. r[p] = block[p]
      OBVIOUS
    <2> DEFINE then == After(block, p)
    <2>2. /\ p \in Nat /\ block[p].rec_len >= 2 /\ then <= BlockLen /\ then \in Nat
          /\ (then = BlockLen \/ then \in W)
          /\ (block[p].used => block[p].rec_len >= dir_entry_min_len(block[p].name))
          /\ \A q \in W : p < q => then <= q
      BY TileFacts
    <2>3. After(r, p) = then
      BY <2>1 DEF After
    <2> HIDE DEF then
    <2>4. \A q \in V : p < q => then <= q
      <3> TAKE q \in V
      <3>1. CASE q = new
        <4>1. pos < p => next <= p
          BY <1>1
        <4>2. p < pos => then <= pos
          BY <2>2
        <4> QED BY <1>1, <1>4, <2>2, <3>1, <4>1, <4>2
      <3>2. CASE q \in W
        BY <2>2, <3>2
      <3> QED BY <1>6, <3>1, <3>2
    <2>5. then = BlockLen \/ then \in V
      BY <1>6, <2>2
    <2> QED BY <2>1, <2>2, <2>3, <2>4, <2>5 DEF FitsIn
  <1>10. \A p \in V : FitsIn(r, V, p)
    BY <1>6, <1>7, <1>8, <1>9
  <1>11. Tiles(r, V)
    BY <1>6, <1>10 DEF Tiles
  <1> QED BY <1>5, <1>11 DEF V

(* Behind one in use.                                                      *)
LEMMA InsertedBehind ==
    ASSUME NEW block, Sound(block), NEW pos \in visited(block), NEW name \in Names,
           roomy(block, pos, name), block[pos].used, NEW r, r = insert(block, pos, name)
    PROVE  Sound(r) /\ \E new : Holds(block, r, new, name)
  <1> DEFINE W == visited(block)
             old == block[pos]
             a == dir_entry_min_len(old.name)
             m == dir_entry_min_len(name)
             e == Entry(TRUE, old.rec_len - a, name)
             cut == [block EXCEPT ![pos].rec_len = a]
             new == pos + a
  <1>0. Tiles(block, W) /\ name \in AllNames /\ block \in Block
    BY DEF Sound, Tiles, AllNames
  <1>1. /\ pos \in 0 .. BlockLen - 1 /\ old \in Record /\ old.rec_len \in Nat /\ old.used
        /\ old.name \in AllNames /\ After(block, pos) = pos + old.rec_len
        /\ After(block, pos) <= BlockLen /\ pos \in Nat
        /\ \A q \in W : pos < q => After(block, pos) <= q
    BY <1>0, TileFacts
  <1>2. r = written(cut, new, e)
    BY DEF insert, actual
  <1>3. old.rec_len >= a + m
    BY DEF roomy, actual
  <1> HIDE DEF W
  <1>4. a \in Nat /\ a >= 3 /\ m \in Nat /\ m >= 3
    BY <1>0, <1>1, MinLen
  <1>5. /\ cut \in Block /\ cut[pos].rec_len = a /\ cut[pos].name = old.name /\ cut[pos].used
        /\ \A p \in 0 .. BlockLen - 1 : p # pos => cut[p] = block[p]
    <2>1. [old EXCEPT !.rec_len = a] \in Record
      BY <1>1, <1>4 DEF Record
    <2>2. cut = [block EXCEPT ![pos] = [old EXCEPT !.rec_len = a]]
      OBVIOUS
    <2> HIDE DEF cut
    <2>3. /\ cut \in Block /\ cut[pos] = [old EXCEPT !.rec_len = a]
          /\ \A p \in 0 .. BlockLen - 1 : p # pos => cut[p] = block[p]
      BY <1>0, <1>1, <2>1, <2>2 DEF Block
    <2> QED BY <1>1, <2>3 DEF Record
  <1> HIDE DEF cut, old, a, m
  <1>6. /\ old.rec_len - a \in Nat /\ new \in 0 .. BlockLen - 1 /\ new \in Nat /\ pos < new
        /\ new + m <= After(block, pos)
    BY <1>1, <1>3, <1>4
  <1>7. e \in Record /\ e.used /\ e.rec_len = old.rec_len - a /\ e.name = name
    BY <1>0, <1>6 DEF Entry, Record
  <1> HIDE DEF e, new
  <1>8. /\ r \in Block /\ r[new] = e
        /\ \A p \in 0 .. BlockLen - 1 :
              p < new \/ p >= new + dir_entry_min_len(e.name) => r[p] = cut[p]
    BY <1>2, <1>5, <1>6, <1>7, WrittenFacts
  <1>9. r[pos] = cut[pos]
    BY <1>1, <1>6, <1>8
  <1>10. \A p \in W \ {pos} : r[p] = block[p]
    <2> TAKE p \in W \ {pos}
    <2>1. p \in Nat /\ p \in 0 .. BlockLen - 1 /\ (pos < p => After(block, pos) <= p)
      BY <1>0, <1>1, TileFacts
    <2>2. p < new \/ p >= new + m
      BY <1>1, <1>6, <1>4, <2>1
    <2>3. dir_entry_min_len(e.name) = m
      BY <1>7 DEF m
    <2> QED BY <1>5, <1>8, <2>1, <2>2, <2>3
  <1>11. pos \in W
    BY DEF W
  <1>12. Tiles(r, W \cup {new}) /\ new \notin W
    <2>1. a >= 2 /\ a + 2 <= old.rec_len /\ new = pos + a
      BY <1>1, <1>3, <1>4 DEF new
    <2>2. r[pos].rec_len = a /\ r[new].rec_len = old.rec_len - a
      BY <1>5, <1>7, <1>8, <1>9
    <2>3. a >= dir_entry_min_len(r[pos].name)
      BY <1>4, <1>5, <1>9 DEF a
    <2>4. old.rec_len - a >= dir_entry_min_len(r[new].name)
      <3>1. dir_entry_min_len(r[new].name) = m
        BY <1>7, <1>8 DEF m
      <3> QED BY <1>1, <1>3, <1>4, <3>1
    <2>5. old.rec_len = block[pos].rec_len
      BY DEF old
    <2> QED BY <1>0, <1>4, <1>8, <1>10, <1>11, <2>1, <2>2, <2>3, <2>4, <2>5, SplitTiles
  <1>13. Sound(r) /\ visited(r) = W \cup {new}
    BY <1>12, SoundIf
  <1>14. in_use(block) = {p \in W : block[p].used}
    BY DEF in_use, W
  <1>15. in_use(r) = {p \in W \cup {new} : r[p].used}
    BY <1>13 DEF in_use
  <1>16. \A p \in W : r[p].used = block[p].used /\ r[p].name = block[p].name
    <2> TAKE p \in W
    <2>1. CASE p = pos
      BY <1>1, <1>5, <1>9, <2>1 DEF old
    <2>2. CASE p # pos
      BY <1>10, <2>2
    <2> QED BY <2>1, <2>2
  <1>17. r[new].used /\ r[new].name = name
    BY <1>7, <1>8
  <1>18. Holds(block, r, new, name)
    BY <1>12, <1>14, <1>15, <1>16, <1>17 DEF Holds
  <1> QED BY <1>13, <1>18

-----------------------------------------------------------------------------
(* Removing a record.                                                      *)

(* r has the records in use of block but for the one at pos.               *)
Lacks(block, r, pos) ==
    /\ in_use(r) = in_use(block) \ {pos}
    /\ \A p \in in_use(r) : r[p].name = block[p].name

(* The first one of a block is marked.                                     *)
LEMMA RemovedFirst ==
    ASSUME NEW block, Sound(block), NEW pos \in in_use(block), NEW r,
           r = [block EXCEPT ![pos].used = FALSE]
    PROVE  Sound(r) /\ Lacks(block, r, pos)
  <1> DEFINE W == visited(block)
             e == [block[pos] EXCEPT !.used = FALSE]
  <1>1. Tiles(block, W) /\ block \in Block /\ pos \in W
    BY DEF Sound, Tiles, in_use
  <1> HIDE DEF W
  <1>2. pos \in 0 .. BlockLen - 1 /\ block[pos] \in Record
    BY <1>1, TileFacts
  <1>3. e \in Record /\ ~e.used /\ e.rec_len = block[pos].rec_len
    BY <1>2 DEF Record
  <1>4. r = [block EXCEPT ![pos] = e]
    OBVIOUS
  <1> HIDE DEF e
  <1>5. r \in Block /\ r[pos] = e /\ \A p \in 0 .. BlockLen - 1 : p # pos => r[p] = block[p]
    BY <1>1, <1>2, <1>3, <1>4 DEF Block
  <1>6. \A p \in W : /\ r[p].rec_len = block[p].rec_len
                     /\ p = pos => ~r[p].used
                     /\ p # pos => r[p] = block[p]
    <2>1. W \subseteq 0 .. BlockLen - 1
      BY <1>1 DEF Tiles
    <2> QED BY <1>3, <1>5, <2>1
  <1>7. \A p \in W : FitsIn(r, W, p)
    <2> TAKE p \in W
    <2>1. FitsIn(block, W, p)
      BY <1>1 DEF Tiles
    <2>2. After(r, p) = After(block, p)
      BY <1>6 DEF After
    <2>3. r[p].used => r[p].rec_len >= dir_entry_min_len(r[p].name)
      BY <1>6, <2>1 DEF FitsIn
    <2> QED BY <1>6, <2>1, <2>2, <2>3 DEF FitsIn
  <1>8. Tiles(r, W)
    BY <1>1, <1>5, <1>7 DEF Tiles
  <1>9. Sound(r) /\ visited(r) = W
    BY <1>8, SoundIf
  <1>10. in_use(block) = {p \in W : block[p].used} /\ in_use(r) = {p \in W : r[p].used}
    BY <1>9 DEF in_use, W
  <1>11. Lacks(block, r, pos)
    BY <1>6, <1>10 DEF Lacks
  <1> QED BY <1>9, <1>11

(* Of two neighbours in block the first has taken the second in r.         *)
Takes(block, W, prev, pos, r) ==
    /\ Tiles(block, W) /\ prev \in W /\ pos \in W /\ After(block, prev) = pos
    /\ r \in Block /\ r[prev].rec_len = block[prev].rec_len + block[pos].rec_len
    /\ block[prev].used /\ r[prev].name = block[prev].name
    /\ \A p \in W \ {prev} : r[p] = block[p]

LEMMA JoinTiles ==
    ASSUME NEW block, NEW W, NEW prev, NEW pos, NEW r, Takes(block, W, prev, pos, r)
    PROVE  Tiles(r, W \ {pos})
  <1>0. /\ Tiles(block, W) /\ prev \in W /\ pos \in W /\ After(block, prev) = pos
        /\ r \in Block /\ r[prev].rec_len = block[prev].rec_len + block[pos].rec_len
        /\ block[prev].used /\ r[prev].name = block[prev].name
        /\ \A p \in W \ {prev} : r[p] = block[p]
    BY DEF Takes
  <1> DEFINE V == W \ {pos}
             next == After(block, pos)
             one == block[prev].rec_len
             two == block[pos].rec_len
  <1>1. /\ pos \in Nat /\ two \in Nat /\ two >= 2 /\ next = pos + two /\ next <= BlockLen
        /\ (next = BlockLen \/ next \in W) /\ \A q \in W : pos < q => next <= q
    BY <1>0, TileFacts
  <1>2. /\ prev \in Nat /\ one \in Nat /\ one >= 2 /\ pos = prev + one
        /\ \A q \in W : prev < q => pos <= q
        /\ block[prev].used => one >= dir_entry_min_len(block[prev].name)
        /\ block[prev].name \in AllNames
    BY <1>0, TileFacts
  <1>3. r[prev].rec_len = one + two
    BY <1>0
  <1>4. W \subseteq 0 .. BlockLen - 2 /\ 0 \in W
    BY <1>0 DEF Tiles
  <1> HIDE DEF next, one, two
  <1>5. prev # pos /\ 0 # pos /\ prev < pos
    BY <1>1, <1>2
  <1>6. V \subseteq 0 .. BlockLen - 2 /\ 0 \in V /\ prev \in V
    BY <1>0, <1>4, <1>5
  <1>7. \A q \in V : q \in W /\ q # pos
    OBVIOUS
  <1>8. \A q \in W : q # pos => q \in V
    OBVIOUS
  <1> HIDE DEF V
  <1>9. FitsIn(r, V, prev)
    <2>1. After(r, prev) = next
      BY <1>1, <1>2, <1>3 DEF After
    <2>2. \A q \in V : prev < q => next <= q
      <3> SUFFICES ASSUME NEW q \in V, prev < q PROVE next <= q
        OBVIOUS
      <3>0. q \in W /\ q # pos
        BY <1>7, Zenon
      <3>1. q \in W /\ q # pos /\ q \in Nat
        BY <1>4, <3>0
      <3>2. pos < q
        BY <1>1, <1>2, <3>1
      <3> QED BY <1>1, <3>1, <3>2
    <2>3. next = BlockLen \/ next \in V
      BY <1>1, <1>8
    <2>4. r[prev].used => r[prev].rec_len >= dir_entry_min_len(r[prev].name)
      <3>1. dir_entry_min_len(block[prev].name) \in Nat
        BY <1>2, MinLen
      <3> QED BY <1>0, <1>1, <1>2, <1>3, <3>1 DEF one
    <2>5. r[prev].rec_len >= 2
      BY <1>1, <1>2, <1>3
    <2> QED BY <1>1, <2>1, <2>2, <2>3, <2>4, <2>5 DEF FitsIn
  <1>10. \A p \in V \ {prev} : FitsIn(r, V, p)
    <2> TAKE p \in V \ {prev}
    <2>1. r[p] = block[p] /\ p \in W /\ p # pos /\ p # prev
      BY <1>0, <1>7
    <2> DEFINE then == After(block, p)
    <2>2. /\ p \in Nat /\ block[p].rec_len >= 2 /\ then <= BlockLen /\ then \in Nat
          /\ block[p].rec_len \in Nat /\ then = p + block[p].rec_len
          /\ (then = BlockLen \/ then \in W)
          /\ (block[p].used => block[p].rec_len >= dir_entry_min_len(block[p].name))
          /\ \A q \in W : p < q => then <= q
      BY <1>0, <2>1, TileFacts
    <2>3. After(r, p) = then
      BY <2>1 DEF After
    <2>4. then # pos
      <3>1. p < prev => then <= prev
        BY <1>0, <2>2
      <3>2. prev < p => pos <= p
        BY <1>2, <2>1
      <3> HIDE DEF then
      <3> QED BY <1>1, <1>2, <1>5, <2>1, <2>2, <3>1, <3>2
    <2> HIDE DEF then
    <2>5. then = BlockLen \/ then \in V
      BY <1>8, <2>2, <2>4
    <2>6. \A q \in V : p < q => then <= q
      BY <1>7, <2>2
    <2> QED BY <2>1, <2>2, <2>3, <2>5, <2>6 DEF FitsIn
  <1>11. \A p \in V : FitsIn(r, V, p)
    BY <1>9, <1>10
  <1>12. Tiles(r, V)
    BY <1>0, <1>6, <1>11 DEF Tiles
  <1> QED BY <1>12 DEF V

(* Any other is joined to the record before it, if that is in use.         *)
LEMMA RemovedNext ==
    ASSUME NEW block, Sound(block), NEW pos \in in_use(block), NEW prev \in in_use(block),
           prev < pos, \A p \in visited(block) : ~(prev < p /\ p < pos), NEW r,
           r = [block EXCEPT ![prev].rec_len = joined(block[prev], block[pos])]
    PROVE  Sound(r) /\ Lacks(block, r, pos)
  <1> DEFINE W == visited(block)
             len == joined(block[prev], block[pos])
             e == [block[prev] EXCEPT !.rec_len = len]
  <1>1. Tiles(block, W) /\ block \in Block /\ pos \in W /\ prev \in W /\ block[prev].used
    BY DEF Sound, Tiles, in_use
  <1>2. \A p \in W : ~(prev < p /\ p < pos)
    OBVIOUS
  <1> HIDE DEF W
  <1>3. /\ prev \in 0 .. BlockLen - 1 /\ block[prev] \in Record /\ block[prev].rec_len \in Nat
        /\ block[prev].rec_len >= 2 /\ After(block, prev) = prev + block[prev].rec_len
        /\ (After(block, prev) = BlockLen \/ After(block, prev) \in W)
        /\ After(block, prev) <= pos
    BY <1>1, TileFacts
  <1>4. pos \in Nat /\ pos + 2 <= BlockLen /\ block[pos].rec_len \in Nat
    BY <1>1, TileFacts
  <1>5. After(block, prev) = pos
    BY <1>2, <1>3, <1>4
  <1>6. len = block[prev].rec_len + block[pos].rec_len /\ len \in Nat
    BY <1>3, <1>4 DEF joined
  <1> HIDE DEF len
  <1>7. /\ e \in Record /\ e.rec_len = len /\ e.used = block[prev].used
        /\ e.name = block[prev].name
    BY <1>3, <1>6 DEF Record
  <1>8. r = [block EXCEPT ![prev] = e]
    BY DEF len
  <1> HIDE DEF e
  <1>9. r \in Block /\ r[prev] = e /\ \A p \in 0 .. BlockLen - 1 : p # prev => r[p] = block[p]
    BY <1>1, <1>3, <1>7, <1>8 DEF Block
  <1>10. \A p \in W \ {prev} : r[p] = block[p]
    <2>1. W \subseteq 0 .. BlockLen - 1
      BY <1>1 DEF Tiles
    <2> QED BY <1>9, <2>1
  <1>11. /\ r[prev].rec_len = block[prev].rec_len + block[pos].rec_len
         /\ r[prev].used = block[prev].used /\ r[prev].name = block[prev].name
    BY <1>6, <1>7, <1>9
  <1>12. Tiles(r, W \ {pos})
    <2>1. Takes(block, W, prev, pos, r)
      BY <1>1, <1>5, <1>9, <1>10, <1>11, Zenon DEF Takes
    <2> QED BY <2>1, JoinTiles, Zenon
  <1>13. Sound(r) /\ visited(r) = W \ {pos}
    BY <1>12, SoundIf
  <1>14. in_use(block) = {p \in W : block[p].used}
    BY DEF in_use, W
  <1>15. in_use(r) = {p \in W \ {pos} : r[p].used}
    BY <1>13 DEF in_use
  <1>16. \A p \in W : r[p].used = block[p].used /\ r[p].name = block[p].name
    BY <1>10, <1>11
  <1>17. Lacks(block, r, pos)
    BY <1>14, <1>15, <1>16 DEF Lacks
  <1> QED BY <1>13, <1>17

LEMMA RemovedSound ==
    ASSUME NEW block, Sound(block), NEW pos \in in_use(block), ~skips(block, pos),
           NEW r, r = removed(block, pos)
    PROVE  Sound(r) /\ Lacks(block, r, pos)
  <1> DEFINE U == used_before(block, pos)
             prev == Max(U)
  <1>1. CASE U = {}
    <2>1. r = [block EXCEPT ![pos].used = FALSE]
      BY <1>1 DEF removed
    <2> QED BY <2>1, RemovedFirst
  <1>2. CASE U # {}
    <2>1. r = [block EXCEPT ![prev].rec_len = joined(block[prev], block[pos])]
      BY <1>2 DEF removed
    <2>2. \A p \in visited(block) : ~(prev < p /\ p < pos)
      BY <1>2 DEF skips
    <2>3. visited(block) \subseteq 0 .. BlockLen - 2
      BY DEF Sound, Tiles
    <2>4. U \in SUBSET Nat /\ \A p \in U : p <= BlockLen
      BY <2>3 DEF used_before, in_use
    <2>5. \A p \in U : p \in in_use(block) /\ p < pos
      BY DEF used_before
    <2> HIDE DEF U
    <2>6. prev \in U
      BY <1>2, <2>4, MaxIsGreatest
    <2> HIDE DEF prev
    <2> QED BY <2>1, <2>2, <2>5, <2>6, RemovedNext
  <1> QED BY <1>1, <1>2

-----------------------------------------------------------------------------
(* The directory.                                                          *)

(* The record at p of the i-th block is in use and has the name n.         *)
Spelled(d, i, p, n) == i \in DOMAIN d /\ p \in in_use(d[i]) /\ d[i][p].name = n

AllSound(d) == d \in Seq(Block) /\ \A i \in DOMAIN d : Sound(d[i])

Unique(d) == \A i, j, p, q, n : Spelled(d, i, p, n) /\ Spelled(d, j, q, n) => i = j /\ p = q

Names_are(d, a) ==
    \A n : n \in a <=> n \notin {Dot, DotDot} /\ \E i, p : Spelled(d, i, p, n)

(* The inductive invariant, as a fact about the blocks d and the names a.  *)
Consistent(d, a) == AllSound(d) /\ Unique(d) /\ Names_are(d, a)

DirInv == skipped \in BOOLEAN /\ (~skipped => Consistent(dir, added))

Absent(d, name) == \A j, p : ~Spelled(d, j, p, name)

(* e says what d says, and name at p of the i-th block.                    *)
Gains(d, e, i, new, name) ==
    \A j, p, n : Spelled(e, j, p, n) <=>
                   Spelled(d, j, p, n) \/ (j = i /\ p = new /\ n = name)

(* e says what d says but for the record at pos of the i-th block.         *)
Loses(d, e, i, pos) ==
    \A j, p, n : Spelled(e, j, p, n) <=> Spelled(d, j, p, n) /\ ~(j = i /\ p = pos)

LEMMA OneMore ==
    ASSUME NEW d, NEW a, Consistent(d, a), NEW e, AllSound(e),
           NEW name \in Names, NEW i, NEW new, Absent(d, name), Gains(d, e, i, new, name)
    PROVE  Consistent(e, a \cup {name})
  <1>1. Unique(e)
    <2>1. ASSUME NEW j, NEW k, NEW p, NEW q, NEW n, Spelled(e, j, p, n), Spelled(e, k, q, n)
          PROVE  j = k /\ p = q
      <3>1. /\ Spelled(d, j, p, n) \/ (j = i /\ p = new /\ n = name)
            /\ Spelled(d, k, q, n) \/ (k = i /\ q = new /\ n = name)
        BY <2>1, Zenon DEF Gains
      <3>2. CASE n = name
        BY <3>1, <3>2, Zenon DEF Absent
      <3>3. CASE n # name
        <4>1. Spelled(d, j, p, n) /\ Spelled(d, k, q, n)
          BY <3>1, <3>3, Zenon
        <4> QED BY <4>1, Zenon DEF Consistent, Unique
      <3> QED BY <3>2, <3>3
    <2> QED BY <2>1, Zenon DEF Unique
  <1>2. name \notin {Dot, DotDot}
    BY DirAssumption
  <1>3. Names_are(e, a \cup {name})
    <2>1. ASSUME NEW n
          PROVE  n \in a \cup {name} <=> n \notin {Dot, DotDot} /\ \E j, p : Spelled(e, j, p, n)
      <3>1. n \in a <=> n \notin {Dot, DotDot} /\ \E j, p : Spelled(d, j, p, n)
        BY Zenon DEF Consistent, Names_are
      <3>2. CASE n = name
        <4>1. Spelled(e, i, new, name)
          BY Zenon DEF Gains
        <4> QED BY <1>2, <3>2, <4>1, Zenon
      <3>3. CASE n # name
        <4>1. ASSUME NEW j, NEW p PROVE Spelled(e, j, p, n) <=> Spelled(d, j, p, n)
          <5>1. Spelled(e, j, p, n) <=> Spelled(d, j, p, n) \/ (j = i /\ p = new /\ n = name)
            BY Zenon DEF Gains
          <5> QED BY <3>3, <5>1, Zenon
        <4> QED BY <3>1, <3>3, <4>1, Zenon
      <3> QED BY <3>2, <3>3
    <2> QED BY <2>1, Zenon DEF Names_are
  <1> QED BY <1>1, <1>3 DEF Consistent

LEMMA OneLess ==
    ASSUME NEW d, NEW a, Consistent(d, a), NEW e, AllSound(e),
           NEW name, NEW i, NEW pos, Spelled(d, i, pos, name), Loses(d, e, i, pos)
    PROVE  Consistent(e, a \ {name})
  <1>1. Unique(e)
    <2>1. ASSUME NEW j, NEW k, NEW p, NEW q, NEW n, Spelled(e, j, p, n), Spelled(e, k, q, n)
          PROVE  j = k /\ p = q
      <3>1. Spelled(d, j, p, n) /\ Spelled(d, k, q, n)
        BY <2>1, Zenon DEF Loses
      <3> QED BY <3>1, Zenon DEF Consistent, Unique
    <2> QED BY <2>1, Zenon DEF Unique
  <1>2. \A j, p : Spelled(d, j, p, name) => j = i /\ p = pos
    BY Zenon DEF Consistent, Unique
  <1>3. \A n : Spelled(d, i, pos, n) => n = name
    BY Zenon DEF Spelled
  <1>4. Names_are(e, a \ {name})
    <2>1. ASSUME NEW n
          PROVE  n \in a \ {name} <=> n \notin {Dot, DotDot} /\ \E j, p : Spelled(e, j, p, n)
      <3>1. n \in a <=> n \notin {Dot, DotDot} /\ \E j, p : Spelled(d, j, p, n)
        BY Zenon DEF Consistent, Names_are
      <3>2. CASE n = name
        <4>1. \A j, p : ~Spelled(e, j, p, n)
          BY <1>2, <3>2, Zenon DEF Loses
        <4> QED BY <3>2, <4>1, Zenon
      <3>3. CASE n # name
        <4>1. \A j, p : Spelled(e, j, p, n) <=> Spelled(d, j, p, n)
          BY <1>3, <3>3, Zenon DEF Loses
        <4> QED BY <3>1, <3>3, <4>1, Zenon
      <3> QED BY <3>2, <3>3
    <2> QED BY <2>1, Zenon DEF Names_are
  <1> QED BY <1>1, <1>4 DEF Consistent

(* A block of the directory replaced.                                      *)
LEMMA Replaced ==
    ASSUME NEW d, AllSound(d), NEW i \in DOMAIN d, NEW r, Sound(r), NEW e,
           e = [d EXCEPT ![i] = r]
    PROVE  /\ AllSound(e) /\ DOMAIN e = DOMAIN d /\ e[i] = r
           /\ \A j \in DOMAIN d : j # i => e[j] = d[j]
  <1>1. d \in Seq(Block) /\ r \in Block
    BY DEF AllSound, Sound, Tiles
  <1>2. e \in Seq(Block) /\ DOMAIN e = DOMAIN d
    BY <1>1
  <1>3. e[i] = r /\ \A j \in DOMAIN d : j # i => e[j] = d[j]
    BY <1>1
  <1> QED BY <1>2, <1>3 DEF AllSound

LEMMA AddedIn ==
    ASSUME NEW d, NEW a, Consistent(d, a), NEW i \in DOMAIN d, NEW name \in Names,
           Absent(d, name), NEW r, Sound(r), NEW new,
           Holds(d[i], r, new, name), NEW e, e = [d EXCEPT ![i] = r]
    PROVE  Consistent(e, a \cup {name})
  <1>1. /\ AllSound(e) /\ DOMAIN e = DOMAIN d /\ e[i] = r
        /\ \A j \in DOMAIN d : j # i => e[j] = d[j]
    BY Replaced DEF Consistent
  <1>2. /\ new \notin in_use(d[i]) /\ in_use(r) = in_use(d[i]) \cup {new} /\ r[new].name = name
        /\ \A p \in in_use(d[i]) : r[p].name = d[i][p].name
    BY DEF Holds
  <1>3. ASSUME NEW j, NEW p, NEW n
        PROVE  Spelled(e, j, p, n) <=> Spelled(d, j, p, n) \/ (j = i /\ p = new /\ n = name)
    <2>1. CASE j # i
      BY <1>1, <2>1, Zenon DEF Spelled
    <2>2. CASE j = i
      <3>1. Spelled(e, j, p, n) <=> p \in in_use(r) /\ r[p].name = n
        BY <1>1, <2>2, Zenon DEF Spelled
      <3>2. Spelled(d, j, p, n) <=> p \in in_use(d[i]) /\ d[i][p].name = n
        BY <2>2, Zenon DEF Spelled
      <3>3. CASE p = new
        BY <1>2, <2>2, <3>1, <3>2, <3>3, Zenon
      <3>4. CASE p # new
        <4>1. p \in in_use(r) <=> p \in in_use(d[i])
          BY <1>2, <3>4, Zenon
        <4> QED BY <1>2, <3>1, <3>2, <3>4, <4>1, Zenon
      <3> QED BY <3>3, <3>4
    <2> QED BY <2>1, <2>2
  <1>4. Gains(d, e, i, new, name)
    BY <1>3, Zenon DEF Gains
  <1> QED BY <1>1, <1>4, OneMore, Zenon

LEMMA AddedBlock ==
    ASSUME NEW d, NEW a, Consistent(d, a), NEW name \in Names,
           Absent(d, name), NEW r, Sound(r),
           in_use(r) = {0}, r[0].name = name, NEW e, e = Append(d, r)
    PROVE  Consistent(e, a \cup {name})
  <1>1. d \in Seq(Block) /\ r \in Block /\ \A i \in DOMAIN d : Sound(d[i])
    BY DEF Consistent, AllSound, Sound, Tiles
  <1> DEFINE i == Len(d) + 1
  <1>2. /\ e \in Seq(Block) /\ i \notin DOMAIN d /\ DOMAIN e = DOMAIN d \cup {i} /\ e[i] = r
        /\ \A j \in DOMAIN d : e[j] = d[j]
    BY <1>1
  <1> HIDE DEF i
  <1>3. AllSound(e)
    BY <1>1, <1>2 DEF AllSound
  <1>4. Gains(d, e, i, 0, name)
    BY <1>2, Zenon DEF Spelled, Gains
  <1> QED BY <1>3, <1>4, OneMore, Zenon

LEMMA RemovedFrom ==
    ASSUME NEW d, NEW a, Consistent(d, a), NEW i \in DOMAIN d, NEW name, NEW pos,
           Spelled(d, i, pos, name), NEW r, Sound(r), Lacks(d[i], r, pos),
           NEW e, e = [d EXCEPT ![i] = r]
    PROVE  Consistent(e, a \ {name})
  <1>1. /\ AllSound(e) /\ DOMAIN e = DOMAIN d /\ e[i] = r
        /\ \A j \in DOMAIN d : j # i => e[j] = d[j]
    BY Replaced DEF Consistent
  <1>2. in_use(r) = in_use(d[i]) \ {pos} /\ \A p \in in_use(r) : r[p].name = d[i][p].name
    BY DEF Lacks
  <1>3. ASSUME NEW j, NEW p, NEW n
        PROVE  Spelled(e, j, p, n) <=> Spelled(d, j, p, n) /\ ~(j = i /\ p = pos)
    <2>1. CASE j # i
      BY <1>1, <2>1, Zenon DEF Spelled
    <2>2. CASE j = i
      <3>1. Spelled(e, j, p, n) <=> p \in in_use(r) /\ r[p].name = n
        BY <1>1, <2>2, Zenon DEF Spelled
      <3>2. Spelled(d, j, p, n) <=> p \in in_use(d[i]) /\ d[i][p].name = n
        BY <2>2, Zenon DEF Spelled
      <3>3. CASE p = pos
        BY <1>2, <2>2, <3>1, <3>3, Zenon
      <3>4. CASE p # pos
        <4>1. p \in in_use(r) <=> p \in in_use(d[i])
          BY <1>2, <3>4, Zenon
        <4> QED BY <1>2, <3>1, <3>2, <3>4, <4>1, Zenon
      <3> QED BY <3>3, <3>4
    <2> QED BY <2>1, <2>2
  <1>4. Loses(d, e, i, pos)
    BY <1>3, Zenon DEF Loses
  <1> QED BY <1>1, <1>4, OneLess, Zenon

-----------------------------------------------------------------------------
(* The steps.                                                              *)

(* Where every block is sound a walk that does not find the name has gone  *)
(* through all of them.                                                    *)
LEMMA NotFound ==
    ASSUME NEW d, AllSound(d), NEW name, ~find_in_dir(d, name)
    PROVE  Absent(d, name)
  <1> SUFFICES ASSUME NEW i, NEW p, Spelled(d, i, p, name) PROVE FALSE
    BY Zenon DEF Absent
  <1>1. i \in DOMAIN d /\ p \in holders(d[i], name)
    BY Zenon DEF Spelled, holders
  <1>2. d \in Seq(Block) /\ DOMAIN d = 1 .. Len(d) /\ Len(d) \in Nat
    BY DEF AllSound
  <1>3. \A j \in 1 .. i - 1 : j \in DOMAIN d
    BY <1>1, <1>2
  <1>4. \A j \in DOMAIN d : walks(d[j])
    BY TilesWalks, Zenon DEF AllSound, Sound
  <1> QED BY <1>1, <1>3, <1>4, Zenon DEF find_in_dir

LEMMA Inserted ==
    ASSUME NEW block, Sound(block), NEW name \in Names, has_room(block, name),
           NEW r, r = insert(block, first_room(block, name), name)
    PROVE  Sound(r) /\ \E new : Holds(block, r, new, name)
  <1> DEFINE S == {pos \in visited(block) : roomy(block, pos, name)}
             pos == first_room(block, name)
  <1>1. visited(block) \subseteq 0 .. BlockLen - 2
    BY DEF Sound, Tiles
  <1>2. S \in SUBSET Nat /\ S # {}
    BY <1>1 DEF has_room
  <1>3. pos = Min(S)
    BY Zenon DEF first_room
  <1>4. pos \in S
    <2> HIDE DEF S, pos
    <2> QED BY <1>2, <1>3, MinIsLeast
  <1>5. pos \in visited(block) /\ roomy(block, pos, name) /\ r = insert(block, pos, name)
    BY <1>4
  <1> HIDE DEF pos
  <1>6. CASE block[pos].used
    BY <1>5, <1>6, InsertedBehind, Zenon
  <1>7. CASE ~block[pos].used
    BY <1>5, <1>7, InsertedInPlace, Zenon
  <1> QED BY <1>6, <1>7

LEMMA CreateKeeps ==
    ASSUME NEW name \in Names, DirInv, Create(name)
    PROVE  DirInv'
  <1>1. skipped' = skipped /\ added' = added \cup {name} /\ ~find_in_dir(dir, name)
    BY DEF Create, add_dir_entry
  <1>2. SUFFICES ASSUME ~skipped PROVE Consistent(dir', added')
    BY <1>1 DEF DirInv
  <1>3. Consistent(dir, added) /\ AllSound(dir)
    BY <1>2 DEF DirInv, Consistent
  <1>4. Absent(dir, name)
    BY <1>1, <1>3, NotFound
  <1>5. CASE \E i \in DOMAIN dir :
                /\ has_room(dir[i], name)
                /\ dir' = [dir EXCEPT ![i] = insert(@, first_room(@, name), name)]
    <2>1. PICK i \in DOMAIN dir :
                /\ has_room(dir[i], name)
                /\ dir' = [dir EXCEPT ![i] = insert(@, first_room(@, name), name)]
      BY <1>5
    <2> DEFINE r == insert(dir[i], first_room(dir[i], name), name)
    <2>2. Sound(dir[i])
      BY <1>3 DEF AllSound
    <2>3. dir' = [dir EXCEPT ![i] = r]
      BY <2>1
    <2>4. r = insert(dir[i], first_room(dir[i], name), name)
      OBVIOUS
    <2> HIDE DEF r
    <2>5. Sound(r) /\ \E new : Holds(dir[i], r, new, name)
      BY <2>1, <2>2, <2>4, Inserted, Zenon
    <2>6. PICK new : Holds(dir[i], r, new, name)
      BY <2>5, Zenon
    <2>7. Consistent(dir', added \cup {name})
      BY <1>3, <1>4, <2>3, <2>5, <2>6, AddedIn, Zenon
    <2> QED BY <1>1, <2>7, Zenon
  <1>6. CASE dir' = Append(dir, written(blank, 0, Entry(TRUE, BlockLen, name)))
    <2> DEFINE e == Entry(TRUE, BlockLen, name)
               r == written(blank, 0, e)
    <2>1. name \in AllNames
      BY DEF AllNames
    <2>2. e \in Record /\ e.used /\ e.rec_len = BlockLen /\ e.name = name
      BY <2>1 DEF Entry, Record
    <2>3. dir' = Append(dir, r)
      BY <1>6, Zenon
    <2> HIDE DEF e
    <2>4. r = written(blank, 0, e)
      OBVIOUS
    <2> HIDE DEF r
    <2>5. Sound(r) /\ in_use(r) = {0} /\ r[0].name = name
      BY <2>2, <2>4, AloneInBlock, Zenon
    <2>6. Consistent(dir', added \cup {name})
      BY <1>3, <1>4, <2>3, <2>5, AddedBlock, Zenon
    <2> QED BY <1>1, <2>6, Zenon
  <1> QED BY <1>5, <1>6, Zenon DEF Create, add_dir_entry

LEMMA DeleteKeeps ==
    ASSUME NEW name \in Names, DirInv, Delete(name)
    PROVE  DirInv'
  <1>1. PICK i \in DOMAIN dir :
          /\ holders(dir[i], name) # {}
          /\ dir' = [dir EXCEPT ![i] = removed(@, Min(holders(@, name)))]
          /\ skipped' = (skipped \/ skips(dir[i], Min(holders(dir[i], name))))
    BY Zenon DEF Delete, remove_dir_entry
  <1>2. added' = added \ {name}
    BY Zenon DEF Delete, remove_dir_entry
  <1> DEFINE S == holders(dir[i], name)
             pos == Min(S)
             r == removed(dir[i], pos)
  <1>3. skipped' \in BOOLEAN /\ (~skipped' => ~skipped /\ ~skips(dir[i], pos))
    BY <1>1, Zenon
  <1>4. dir' = [dir EXCEPT ![i] = r]
    BY <1>1
  <1>5. SUFFICES ASSUME ~skipped' PROVE Consistent(dir', added')
    BY <1>3, Zenon DEF DirInv
  <1>6. Consistent(dir, added) /\ Sound(dir[i]) /\ ~skips(dir[i], pos)
    BY <1>3, <1>5, Zenon DEF DirInv, Consistent, AllSound
  <1>7. \A p \in S : p \in in_use(dir[i]) /\ dir[i][p].name = name
    BY Zenon DEF holders
  <1>8. S \in SUBSET Nat
    <2>1. visited(dir[i]) \subseteq 0 .. BlockLen - 2
      BY <1>6 DEF Sound, Tiles
    <2> QED BY <2>1 DEF holders, in_use
  <1>9. S # {}
    BY <1>1
  <1> HIDE DEF S
  <1>10. pos \in S
    BY <1>8, <1>9, MinIsLeast
  <1>11. r = removed(dir[i], pos)
    OBVIOUS
  <1> HIDE DEF pos, r
  <1>12. pos \in in_use(dir[i]) /\ Spelled(dir, i, pos, name)
    BY <1>7, <1>10, Zenon DEF Spelled
  <1>13. Sound(r) /\ Lacks(dir[i], r, pos)
    BY <1>6, <1>11, <1>12, RemovedSound, Zenon
  <1>14. Consistent(dir', added \ {name})
    BY <1>4, <1>6, <1>12, <1>13, RemovedFrom, Zenon
  <1> QED BY <1>2, <1>14, Zenon

LEMMA InitConsistent == Init => DirInv
  <1> SUFFICES ASSUME Init PROVE DirInv
    OBVIOUS
  <1> DEFINE m == dir_entry_min_len(Dot)
             e == Entry(TRUE, m, Dot)
             s == written(blank, 0, e)
             g == Entry(TRUE, BlockLen - m, DotDot)
             r == written(s, m, g)
  <1>1. dir = <<r>> /\ added = {} /\ skipped = FALSE
    BY DEF Init
  <1>2. m = 3
    BY BlankBlock, MinLen
  <1> HIDE DEF m
  <1>3. e \in Record /\ e.used /\ e.rec_len = 3 /\ e.name = Dot
    BY <1>2, BlankBlock DEF Entry, Record
  <1>4. g \in Record /\ g.used /\ g.rec_len = BlockLen - 3 /\ g.name = DotDot
    BY <1>2, BlankBlock DEF Entry, Record
  <1> HIDE DEF e, g
  <1>5. r = written(s, 3, g)
    BY <1>2, Zenon
  <1>5s. s = written(blank, 0, e)
    OBVIOUS
  <1> HIDE DEF s, r
  <1>6. s \in Block /\ s[0] = e
    <2>1. 0 \in 0 .. BlockLen - 1
      OBVIOUS
    <2> QED BY <1>5s, <1>3, <2>1, BlankBlock, WrittenFacts
  <1>7. Sound(r) /\ in_use(r) = {0, 3} /\ r[0].name = Dot /\ r[3].name = DotDot
    <2>1. s[0].used /\ s[0].rec_len = 3 /\ s[0].name = Dot
      BY <1>3, <1>6, Zenon
    <2> QED BY <1>4, <1>5, <1>6, <2>1, DotsInBlock, Zenon
  <1>8. dir \in Seq(Block) /\ DOMAIN dir = {1} /\ dir[1] = r
    <2>1. r \in Block
      BY <1>7 DEF Sound, Tiles
    <2> QED BY <1>1, <2>1
  <1>9. AllSound(dir)
    BY <1>7, <1>8, Zenon DEF AllSound
  <1>10. \A i, p, n : Spelled(dir, i, p, n) <=> i = 1 /\ p \in {0, 3} /\ r[p].name = n
    BY <1>7, <1>8, Zenon DEF Spelled
  <1>11. \A p \in {0, 3} : (r[p].name = Dot <=> p = 0) /\ (r[p].name = DotDot <=> p = 3)
                            /\ r[p].name \in {Dot, DotDot}
    <2>1. Dot # DotDot
      BY DEF Dot, DotDot
    <2> QED BY <1>7, <2>1
  <1>12. Unique(dir)
    <2> SUFFICES ASSUME NEW i, NEW j, NEW p, NEW q, NEW n,
                        Spelled(dir, i, p, n), Spelled(dir, j, q, n)
                 PROVE  i = j /\ p = q
      BY Zenon DEF Unique
    <2>1. i = 1 /\ j = 1 /\ p \in {0, 3} /\ q \in {0, 3} /\ r[p].name = n /\ r[q].name = n
      BY <1>10, Zenon
    <2> QED BY <1>11, <2>1
  <1>13. Names_are(dir, added)
    <2> SUFFICES ASSUME NEW n
                 PROVE  n \in added <=> n \notin {Dot, DotDot} /\ \E i, p : Spelled(dir, i, p, n)
      BY Zenon DEF Names_are
    <2>1. ASSUME NEW i, NEW p, Spelled(dir, i, p, n) PROVE n \in {Dot, DotDot}
      <3>1. p \in {0, 3} /\ r[p].name = n
        BY <1>10, <2>1, Zenon
      <3> HIDE DEF Dot, DotDot
      <3> QED BY <1>11, <3>1
    <2> QED BY <1>1, <2>1, Zenon
  <1> QED BY <1>1, <1>9, <1>12, <1>13 DEF DirInv, Consistent

LEMMA Inductive == Spec => []DirInv
  <1>1. DirInv /\ [Next]_vars => DirInv'
    <2> SUFFICES ASSUME DirInv, [Next]_vars PROVE DirInv'
      OBVIOUS
    <2>1. ASSUME NEW name \in Names, Create(name) PROVE DirInv'
      BY <2>1, CreateKeeps
    <2>2. ASSUME NEW name \in Names, Delete(name) PROVE DirInv'
      BY <2>2, DeleteKeeps
    <2>3. CASE UNCHANGED vars
      BY <2>3 DEF vars, DirInv, Consistent, AllSound, Unique, Names_are, Spelled
    <2> QED BY <2>1, <2>2, <2>3, Zenon DEF Next
  <1> QED BY <1>1, InitConsistent, PTL DEF Spec

(* add_dir_entry and remove_dir_entry (ext2.c) leave every block of the    *)
(* directory a chain of records from its start to its end, each with room  *)
(* for its name, whatever is created and deleted, as long as no removal    *)
(* joins two records across a deleted one.                                 *)
THEOREM ChainsStayWhole == Spec => []WellFormed
  <1>1. DirInv => WellFormed
    <2> SUFFICES ASSUME DirInv, ~skipped, NEW i \in DOMAIN dir
                 PROVE  /\ walks(dir[i])
                        /\ \A pos \in in_use(dir[i]) :
                              dir[i][pos].rec_len >= dir_entry_min_len(dir[i][pos].name)
      BY DEF WellFormed
    <2>1. Tiles(dir[i], visited(dir[i]))
      BY Zenon DEF DirInv, Consistent, AllSound, Sound
    <2>2. walks(dir[i])
      BY <2>1, TilesWalks, Zenon
    <2>3. ASSUME NEW pos \in in_use(dir[i])
          PROVE  dir[i][pos].rec_len >= dir_entry_min_len(dir[i][pos].name)
      <3>1. pos \in visited(dir[i]) /\ dir[i][pos].used
        BY Zenon DEF in_use
      <3> QED BY <2>1, <3>1, TileFacts
    <2> QED BY <2>2, <2>3
  <1> QED BY <1>1, Inductive, PTL

(* ls shows the names that ext2_create_file and ext2_mkdir added and that  *)
(* ext2_unlink and ext2_rmdir have not removed since, each of them once,   *)
(* as long as no removal joins two records across a deleted one.           *)
THEOREM ListingIsExact == Spec => []ListsWhatIsThere
  <1>1. DirInv => ListsWhatIsThere
    <2> SUFFICES ASSUME DirInv, ~skipped
                 PROVE  /\ Listed \ {Dot, DotDot} = added
                        /\ \A i, j \in DOMAIN dir : \A p \in in_use(dir[i]), q \in in_use(dir[j]) :
                              dir[i][p].name = dir[j][q].name => i = j /\ p = q
      BY Zenon DEF ListsWhatIsThere
    <2>1. Unique(dir) /\ Names_are(dir, added)
      BY Zenon DEF DirInv, Consistent
    <2>2. ASSUME NEW n PROVE n \in Listed <=> \E i, p : Spelled(dir, i, p, n)
      BY DEF Listed, Spelled
    <2>3. Listed \ {Dot, DotDot} = added
      <3>1. ASSUME NEW n PROVE n \in Listed \ {Dot, DotDot} <=> n \in added
        BY <2>1, <2>2, Zenon DEF Names_are
      <3> QED BY <3>1, Zenon
    <2>4. ASSUME NEW i \in DOMAIN dir, NEW j \in DOMAIN dir,
                 NEW p \in in_use(dir[i]), NEW q \in in_use(dir[j]),
                 dir[i][p].name = dir[j][q].name
          PROVE  i = j /\ p = q
      <3> DEFINE n == dir[j][q].name
      <3>1. Spelled(dir, i, p, n) /\ Spelled(dir, j, q, n)
        BY <2>4, Zenon DEF Spelled
      <3> HIDE DEF n
      <3> QED BY <2>1, <3>1, Zenon DEF Unique
    <2> QED BY <2>3, <2>4, Zenon
  <1> QED BY <1>1, Inductive, PTL

=============================================================================
